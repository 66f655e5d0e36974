----------------------------- MODULE MCCompanion -----------------------------
(***************************************************************************)
(* A small instance of Companion: liveness is checked with safety, so the  *)
(* requests, though interchangeable, are not declared symmetric.           *)
(***************************************************************************)
EXTENDS Companion
=============================================================================
