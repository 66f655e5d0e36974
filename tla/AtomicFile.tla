----------------------------- MODULE AtomicFile ------------------------------
(***************************************************************************)
(* write_transaction of core/src/platform/atomic_file.rs: every file is    *)
(* staged in a temporary file beside it, then the temporary files are      *)
(* renamed over their targets one by one; when a rename fails the files    *)
(* already replaced are restored from what was read while staging.         *)
(*                                                                         *)
(* Several writers may be at it at once, in one process or in several:     *)
(* there is no lock.  A process may die between any two system calls.      *)
(***************************************************************************)
EXTENDS Naturals, Sequences, FiniteSets

CONSTANTS
  Writers,   \* the calls of write_transaction
  Files,     \* the paths
  Contents,  \* what a file may hold
  Missing,   \* no file at the path
  Plan       \* the list of writes of each call: [file, new]

ASSUME MissingAssumption == Missing \notin Contents
ASSUME PlanAssumption ==
  /\ Plan \in [Writers -> Seq([file : Files, new : Contents])]
  /\ \A w \in Writers : \A i, j \in DOMAIN Plan[w] :
       Plan[w][i].file = Plan[w][j].file => i = j

VARIABLES
  disk,    \* what is at each path
  temps,   \* temporary files on the disk: <<writer, index, "new" | "old">>
  pc,      \* where each call is
  at,      \* how many of its writes are staged, or replaced
  old,     \* the originals it read, by index
  failed,  \* some restore of the rollback failed
  before,  \* history: the disk when the call began
  touched  \* history: another writer changed one of its files since

vars == <<disk, temps, pc, at, old, failed, before, touched>>

Content == Contents \cup {Missing}
Pc      == {"idle", "staging", "committing", "discarding", "restoring",
            "ok", "err", "torn", "dead"}
Ended(w) == pc[w] \in {"ok", "err", "torn", "dead"}

Size(w)    == Len(Plan[w])
FilesOf(w) == {Plan[w][i].file : i \in DOMAIN Plan[w]}

Init ==
  /\ disk \in [Files -> Content]
  /\ temps = {}
  /\ pc = [w \in Writers |-> "idle"]
  /\ at = [w \in Writers |-> 0]
  /\ old = [w \in Writers |-> <<>>]
  /\ failed = [w \in Writers |-> FALSE]
  /\ before = [w \in Writers |-> disk]
  /\ touched = [w \in Writers |-> FALSE]

\* What the path holds from now on; every call under way or over takes note.
Put(w, f, c) ==
  /\ disk' = [disk EXCEPT ![f] = c]
  /\ touched' = [v \in Writers |->
       touched[v] \/ (v # w /\ pc[v] # "idle" /\ f \in FilesOf(v))]

-----------------------------------------------------------------------------
(* Staging                                                                 *)

Begin(w) ==
  /\ pc[w] = "idle"
  /\ pc' = [pc EXCEPT ![w] = "staging"]
  /\ before' = [before EXCEPT ![w] = disk]
  /\ UNCHANGED <<disk, temps, at, old, failed, touched>>

\* StagedWrite::create, for the next write of the list: nobody else sees the
\* temporary file, so reading the original and staging are one step.
Stage(w) ==
  /\ pc[w] = "staging"
  /\ at[w] < Size(w)
  /\ LET i == at[w] + 1 IN
       /\ old' = [old EXCEPT ![w] = Append(old[w], disk[Plan[w][i].file])]
       /\ temps' = temps \cup {<<w, i, "new">>}
       /\ at' = [at EXCEPT ![w] = i]
  /\ UNCHANGED <<disk, pc, failed, before, touched>>

\* The read, the write or the sync fails; stage_temp removes what it made.
StageFails(w) ==
  /\ pc[w] = "staging"
  /\ at[w] < Size(w)
  /\ pc' = [pc EXCEPT ![w] = "discarding"]
  /\ at' = [at EXCEPT ![w] = 0]
  /\ UNCHANGED <<disk, temps, old, failed, before, touched>>

Staged(w) ==
  /\ pc[w] = "staging"
  /\ at[w] = Size(w)
  /\ pc' = [pc EXCEPT ![w] = "committing"]
  /\ at' = [at EXCEPT ![w] = 0]
  /\ UNCHANGED <<disk, temps, old, failed, before, touched>>

-----------------------------------------------------------------------------
(* commit_staged                                                           *)

\* rename, which puts the new content in place all at once.
Replace(w) ==
  /\ pc[w] = "committing"
  /\ at[w] < Size(w)
  /\ LET i == at[w] + 1 IN
       /\ Put(w, Plan[w][i].file, Plan[w][i].new)
       /\ temps' = temps \ {<<w, i, "new">>}
       /\ at' = [at EXCEPT ![w] = i]
  /\ UNCHANGED <<pc, old, failed, before>>

\* Mutant: the failing rename ends the call without a rollback.
ReplaceFails_NoRollback(w) ==
  /\ pc[w] = "committing"
  /\ at[w] < Size(w)
  /\ pc' = [pc EXCEPT ![w] = "discarding"]
  /\ at' = [at EXCEPT ![w] = 0]
  /\ UNCHANGED <<disk, temps, old, failed, before, touched>>

\* The failing write and the remaining ones are discarded next; at keeps the
\* number of files to restore.
ReplaceFails(w) ==
  /\ pc[w] = "committing"
  /\ at[w] < Size(w)
  /\ pc' = [pc EXCEPT ![w] = "discarding"]
  /\ UNCHANGED <<disk, temps, at, old, failed, before, touched>>

Committed(w) ==
  /\ pc[w] = "committing"
  /\ at[w] = Size(w)
  /\ pc' = [pc EXCEPT ![w] = "ok"]
  /\ UNCHANGED <<disk, temps, at, old, failed, before, touched>>

StagedTemps(w) == {t \in temps : t[1] = w /\ t[3] = "new"}

\* discard, for every staged write not replaced: the outcome of remove_file is
\* ignored, so any of the temporary files may stay behind.
Discard(w) ==
  /\ pc[w] = "discarding"
  /\ \E kept \in SUBSET StagedTemps(w) : temps' = (temps \ StagedTemps(w)) \cup kept
  /\ pc' = [pc EXCEPT ![w] = IF at[w] = 0 THEN "err" ELSE "restoring"]
  /\ UNCHANGED <<disk, at, old, failed, before, touched>>

OldTemp(w) == <<w, at[w], "old">>
Restoring(w) == pc[w] = "restoring" /\ at[w] > 0

\* restore, of an original there was: staged like a new content ...
StageOriginal(w) ==
  /\ Restoring(w)
  /\ old[w][at[w]] # Missing
  /\ OldTemp(w) \notin temps
  /\ temps' = temps \cup {OldTemp(w)}
  /\ UNCHANGED <<disk, pc, at, old, failed, before, touched>>

\* Mutant: the original of the first write is put back everywhere.
Original_First(w) == old[w][1]

Original(w) == old[w][at[w]]

\* ... and renamed; of a file there was none of: removed.
Restore(w) ==
  /\ Restoring(w)
  /\ Original(w) = Missing \/ OldTemp(w) \in temps
  /\ Put(w, Plan[w][at[w]].file, Original(w))
  /\ temps' = temps \ {OldTemp(w)}
  /\ at' = [at EXCEPT ![w] = @ - 1]
  /\ UNCHANGED <<pc, old, failed, before>>

\* The rollback goes on with the other files and reports the failure.
RestoreFails(w) ==
  /\ Restoring(w)
  /\ \E kept \in SUBSET {OldTemp(w)} : temps' = temps \ ({OldTemp(w)} \ kept)
  /\ failed' = [failed EXCEPT ![w] = TRUE]
  /\ at' = [at EXCEPT ![w] = @ - 1]
  /\ UNCHANGED <<disk, pc, old, before, touched>>

RolledBack(w) ==
  /\ pc[w] = "restoring"
  /\ at[w] = 0
  /\ pc' = [pc EXCEPT ![w] = IF failed[w] THEN "torn" ELSE "err"]
  /\ UNCHANGED <<disk, temps, at, old, failed, before, touched>>

\* The process dies; nothing cleans up after it.
Crash(w) ==
  /\ pc[w] # "idle" /\ ~Ended(w)
  /\ pc' = [pc EXCEPT ![w] = "dead"]
  /\ UNCHANGED <<disk, temps, at, old, failed, before, touched>>

Terminated == (\A w \in Writers : Ended(w)) /\ UNCHANGED vars

-----------------------------------------------------------------------------

Step(w) ==
  \/ Begin(w) \/ Stage(w) \/ StageFails(w) \/ Staged(w)
  \/ Replace(w) \/ ReplaceFails(w) \/ Committed(w)
  \/ Discard(w) \/ StageOriginal(w) \/ Restore(w) \/ RestoreFails(w)
  \/ RolledBack(w) \/ Crash(w)

Next == (\E w \in Writers : Step(w)) \/ Terminated

Spec == Init /\ [][Next]_vars
-----------------------------------------------------------------------------
(* Properties                                                              *)

\* Every variable keeps its type, and never more originals than writes.
TypeOK ==
  /\ disk \in [Files -> Content]
  /\ temps \subseteq Writers \X Nat \X {"new", "old"}
  /\ pc \in [Writers -> Pc]
  /\ at \in [Writers -> Nat] /\ \A w \in Writers : at[w] =< Size(w)
  /\ old \in [Writers -> Seq(Content)]
  /\ \A w \in Writers : Len(old[w]) =< Size(w)
  /\ failed \in [Writers -> BOOLEAN]
  /\ before \in [Writers -> [Files -> Content]]
  /\ touched \in [Writers -> BOOLEAN]

New(w, i) == disk[Plan[w][i].file] = Plan[w][i].new
Same(w, i) == disk[Plan[w][i].file] = before[w][Plan[w][i].file]

\* A transaction nobody interfered with is all or nothing: Ok means every file
\* is new, a plain Err means every file is as it was, and only an Err that
\* says "rollback failed" may leave some of both.
AllOrNothing ==
  \A w \in Writers : ~touched[w] =>
    /\ pc[w] = "ok" => \A i \in DOMAIN Plan[w] : New(w, i)
    /\ pc[w] = "err" => \A i \in DOMAIN Plan[w] : Same(w, i)

\* Wherever such a transaction is, or died, every file of it is whole: as it
\* was, or as planned; and while it commits the new ones are exactly those
\* before the point it has reached.
WholeFiles ==
  \A w \in Writers : ~touched[w] /\ pc[w] # "idle" =>
    /\ \A i \in DOMAIN Plan[w] : New(w, i) \/ Same(w, i)
    /\ pc[w] = "committing" =>
         \A i \in DOMAIN Plan[w] : IF i =< at[w] THEN New(w, i) ELSE Same(w, i)

-----------------------------------------------------------------------------
(* The inductive invariant                                                 *)

\* The originals read so far are those of the beginning.
Remembered(w) ==
  \A i \in DOMAIN old[w] : old[w][i] = before[w][Plan[w][i].file]

\* Up to its place the call has replaced its files, past it there is what was.
SplitAt(w) == \A i \in DOMAIN Plan[w] : IF i =< at[w] THEN New(w, i) ELSE Same(w, i)

\* A rollback goes downwards and leaves new what it failed to restore.
PartlyBack(w) ==
  \A i \in DOMAIN Plan[w] :
    IF i =< at[w] THEN New(w, i) ELSE Same(w, i) \/ (failed[w] /\ New(w, i))

\* How far a call has come, by where it is: how many originals it holds, ...
Originals(w) ==
  /\ pc[w] = "staging"    => Len(old[w]) = at[w]
  /\ pc[w] = "committing" => Len(old[w]) = Size(w)
  /\ pc[w] \in {"discarding", "restoring"} => at[w] =< Len(old[w])
  /\ pc[w] \in {"idle", "staging", "committing", "discarding"} => ~failed[w]
  /\ pc[w] = "idle" => at[w] = 0 /\ old[w] = <<>> /\ ~touched[w]

\* ... and what there is in its files if nobody interferes.
FilesSoFar(w) ==
  /\ pc[w] = "staging" => \A i \in DOMAIN Plan[w] : Same(w, i)
  /\ pc[w] \in {"committing", "discarding"} => SplitAt(w)
  /\ pc[w] = "restoring" => PartlyBack(w)
  /\ pc[w] = "ok" => \A i \in DOMAIN Plan[w] : New(w, i)
  /\ pc[w] = "err" => \A i \in DOMAIN Plan[w] : Same(w, i)
  /\ pc[w] \in {"torn", "dead"} => \A i \in DOMAIN Plan[w] : New(w, i) \/ Same(w, i)

IInv ==
  /\ TypeOK
  /\ \A w \in Writers : Originals(w) /\ (~touched[w] => Remembered(w) /\ FilesSoFar(w))

=============================================================================
