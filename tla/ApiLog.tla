------------------------------- MODULE ApiLog --------------------------------
(***************************************************************************)
(* The API call log (proxy/src/server/api_log.rs): records are appended to *)
(* an active file, which is renamed to the first archive before it would   *)
(* grow too large, after every archive has moved up by one and the oldest  *)
(* was removed.  A mutex keeps two records apart; any file operation may   *)
(* fail, or the process end, and leave the rotation half done.  A record   *)
(* is its number, a file the set of the records that can be read from it.  *)
(* What every module has (Init, Next, ...) carries a prefix here, so that  *)
(* FilesProofs can extend this module and AtomicFile.                      *)
(***************************************************************************)
EXTENDS Naturals, FiniteSets

CONSTANTS
  MaxFiles,  \* archives; the code's 4
  MaxBytes,  \* the size of a file; the code's 10 MiB
  Lines,     \* how long a line may be: it holds no body
  MaxRecords \* bound: how many records there are

ASSUME FilesAssumption == MaxFiles \in Nat \ {0}
ASSUME LinesAssumption == MaxBytes \in Nat /\ Lines \subseteq 1 .. MaxBytes
ASSUME RecordsAssumption == MaxRecords \in Nat

VARIABLES
  there, \* the files there are: 0 is the active one, 1 the youngest archive
  recs,  \* the records in each
  size,
  torn,  \* the active file ends within a line
  phase, line, index, \* where append_record is, and with which line
  next,  \* the number of the next record
  written \* history: the records that were reported as written, except those
          \* that were appended to a torn line

logVars == <<there, recs, size, torn, phase, line, index, next, written>>

Slot == 0 .. MaxFiles

LogInit ==
  /\ there = {} /\ recs = [i \in Slot |-> {}] /\ size = [i \in Slot |-> 0]
  /\ torn = FALSE
  /\ phase = "idle" /\ line = 0 /\ index = 0
  /\ next = 1 /\ written = {}

LogFiles == <<there, recs, size, torn>>

\* Mutant: the line itself is not counted.
BeginRecord_SizeOnly ==
  /\ phase = "idle" /\ next =< MaxRecords
  /\ line' \in Lines
  /\ phase' = IF size[0] > MaxBytes THEN "remove" ELSE "append"
  /\ UNCHANGED <<LogFiles, index, next, written>>

\* record_api_call takes the lock; a line that does not fit asks for a rotation.
BeginRecord ==
  /\ phase = "idle" /\ next =< MaxRecords
  /\ line' \in Lines
  /\ phase' = IF size[0] + line' > MaxBytes THEN "remove" ELSE "append"
  /\ UNCHANGED <<LogFiles, index, next, written>>

Delete(i) ==
  /\ there' = there \ {i}
  /\ recs' = [recs EXCEPT ![i] = {}]
  /\ size' = [size EXCEPT ![i] = 0]

\* Mutant: the file is copied.
Rename_Copy(i, j) ==
  /\ there' = there \cup {j}
  /\ recs' = [recs EXCEPT ![j] = recs[i]]
  /\ size' = [size EXCEPT ![j] = size[i]]

\* A file that is there already is replaced.
Rename(i, j) ==
  /\ there' = (there \ {i}) \cup {j}
  /\ recs' = [recs EXCEPT ![i] = {}, ![j] = recs[i]]
  /\ size' = [size EXCEPT ![i] = 0, ![j] = size[i]]

Keep == UNCHANGED <<there, recs, size>>

RemoveOldest ==
  /\ phase = "remove"
  /\ IF MaxFiles \in there THEN Delete(MaxFiles) ELSE Keep
  /\ index' = MaxFiles - 1
  /\ phase' = IF MaxFiles > 1 THEN "shift" ELSE "rotate"
  /\ UNCHANGED <<torn, line, next, written>>

\* The archives, from the oldest to the youngest.
Shift ==
  /\ phase = "shift"
  /\ IF index \in there THEN Rename(index, index + 1) ELSE Keep
  /\ index' = index - 1
  /\ phase' = IF index > 1 THEN "shift" ELSE "rotate"
  /\ UNCHANGED <<torn, line, next, written>>

RotateActive ==
  /\ phase = "rotate"
  /\ IF 0 \in there THEN Rename(0, 1) /\ torn' = FALSE ELSE Keep /\ UNCHANGED torn
  /\ phase' = "append"
  /\ UNCHANGED <<line, index, next, written>>

\* Mutant: the file is opened to be written anew.
AppendLine_Truncating ==
  /\ phase = "append"
  /\ there' = there \cup {0}
  /\ size' = [size EXCEPT ![0] = line]
  /\ recs' = [recs EXCEPT ![0] = {next}]
  /\ written' = written \cup {next}
  /\ torn' = FALSE
  /\ phase' = "idle" /\ next' = next + 1
  /\ UNCHANGED <<line, index>>

\* Whatever follows a torn line is part of it.
AppendLine ==
  /\ phase = "append"
  /\ there' = there \cup {0}
  /\ size' = [size EXCEPT ![0] = @ + line]
  /\ recs' = IF torn THEN recs ELSE [recs EXCEPT ![0] = @ \cup {next}]
  /\ written' = IF torn THEN written ELSE written \cup {next}
  /\ torn' = FALSE
  /\ phase' = "idle" /\ next' = next + 1
  /\ UNCHANGED <<line, index>>

\* write_all fails, or the process ends, when a part of the line is written.
TearLine ==
  /\ phase = "append"
  /\ \E part \in 0 .. line - 1 :
       /\ there' = there \cup {0}
       /\ size' = [size EXCEPT ![0] = @ + part]
       /\ torn' = (torn \/ part > 0)
  /\ phase' = "idle" /\ next' = next + 1
  /\ UNCHANGED <<recs, line, index, written>>

\* Any other operation fails, or the process ends before it: the record is lost.
GiveUp ==
  /\ phase # "idle"
  /\ phase' = "idle" /\ next' = next + 1
  /\ UNCHANGED <<LogFiles, line, index, written>>

Finished == phase = "idle" /\ next > MaxRecords /\ UNCHANGED logVars

LogNext ==
  \/ BeginRecord \/ RemoveOldest \/ Shift \/ RotateActive \/ AppendLine \/ TearLine
  \/ GiveUp \/ Finished

LogSpec == LogInit /\ [][LogNext]_logVars
-----------------------------------------------------------------------------
(* Properties                                                              *)

\* Every variable keeps its type.
LogTypeOK ==
  /\ there \in SUBSET Slot
  /\ recs \in [Slot -> SUBSET Nat] /\ size \in [Slot -> Nat]
  /\ torn \in BOOLEAN
  /\ phase \in {"idle", "remove", "shift", "rotate", "append"}
  /\ line \in Lines \cup {0} /\ index \in 0 .. MaxFiles - 1
  /\ next \in Nat \ {0} /\ written \in SUBSET Nat

\* A reader who goes from the oldest archive to the active file reads the
\* records in the order in which they were written, however many rotations
\* were left half done.
InOrder == \A i, j \in Slot : i < j => \A x \in recs[i], y \in recs[j] : y < x

\* What the log has lost is older than all it still has: no failure in the
\* middle of a rotation costs a younger record than those that are kept.
OldestLost ==
  \A lost \in written : (\A i \in Slot : lost \notin recs[i]) =>
    \A i \in Slot : \A kept \in recs[i] : lost < kept

\* api_log.rs:10, five files of 10 MiB: no file outgrows its bound.
SizeBounded == \A i \in Slot : size[i] =< MaxBytes

-----------------------------------------------------------------------------
(* The inductive invariant                                                 *)

\* Nothing is recorded that was not written, nor in a file that is not there,
\* and numbers only grow.
Recorded ==
  /\ \A x \in written : x < next
  /\ \A i \in Slot : recs[i] \subseteq written
  /\ \A i \in Slot \ there : recs[i] = {} /\ size[i] = 0

\* The place that the next rename fills is free.
GapAhead ==
  /\ phase = "shift" => index >= 1 /\ index + 1 \notin there
  /\ phase = "rotate" => 1 \notin there

\* A line is appended only where it fits.
Fits == phase = "append" => size[0] + line =< MaxBytes

LogIInv == LogTypeOK /\ Recorded /\ GapAhead /\ Fits /\ InOrder /\ OldestLost /\ SizeBounded
=============================================================================
