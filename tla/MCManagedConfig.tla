--------------------------- MODULE MCManagedConfig ---------------------------
(***************************************************************************)
(* Small instances of ManagedConfig.                                       *)
(***************************************************************************)
EXTENDS ManagedConfig

CONSTANTS Url, AutoMode, Server, OldServer, u1, u2

MCKeys == {Url, AutoMode}

\* Nothing; an env of the user with one of the managed variables; one that is not
\* an object.  SetOther adds the other variable.
MCCodeFiles ==
  {[auto |-> None,   env |-> Absent],
   [auto |-> "user", env |-> [v \in EnvVars |-> IF v = Url THEN "user" ELSE None]],
   [auto |-> None,   env |-> Broken]}

\* The user has a third-party mode, and a server of the same name, in the mirror.
MCDeskFiles ==
  {[mode |-> "3p", servers |-> [n \in Names |-> IF n = Server THEN "mirror" ELSE None]]}

MCOfficials == {Absent, [mode |-> "1p", servers |-> [n \in Names |-> "official"]]}

\* What is applied is not the first entry.
MCLibraries == {[entries |-> <<u1, u2>>, applied |-> u2]}
=============================================================================
