---------------------------- MODULE MCAtomicFile -----------------------------
(***************************************************************************)
(* A small instance of AtomicFile: a writer of three files, and another    *)
(* that writes two of them in the other order.                             *)
(***************************************************************************)
EXTENDS AtomicFile, TLC

CONSTANTS w1, w2, f1, f2, f3, a, b

MCPlan ==
  w1 :> << [file |-> f1, new |-> a], [file |-> f2, new |-> a],
           [file |-> f3, new |-> a] >>
  @@
  w2 :> << [file |-> f2, new |-> b], [file |-> f1, new |-> b] >>
=============================================================================
