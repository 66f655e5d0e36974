--------------------------- MODULE MCSettingsStore ---------------------------
(***************************************************************************)
(* Small instances of SettingsStore.                                       *)
(***************************************************************************)
EXTENDS SettingsStore, TLC

\* Operations are interchangeable, and so are gateways and keys.
Symmetry == Permutations(Ops) \cup Permutations(Gateways) \cup Permutations(Keys)
=============================================================================
