------------------------------ MODULE MCApiLog -------------------------------
(***************************************************************************)
(* A small instance of ApiLog.                                             *)
(***************************************************************************)
EXTENDS ApiLog

MCLines == {1, 2}
=============================================================================
