-------------------------- MODULE RuntimeLifecycle ---------------------------
(***************************************************************************)
(* The commands that start and stop the resident process (cli/src/main.rs  *)
(* and cli/src/runtime/native.rs): they know it by the pid in proxy.pid    *)
(* and by what answers GET /healthz, and nothing keeps two of them apart.  *)
(* The daemon binds the port or dies; it has no handler for SIGTERM.  This *)
(* is the Unix build: a dead child of a running command is a zombie, which *)
(* kill still finds.                                                       *)
(*                                                                         *)
(* A daemon can be lost to the commands: proxy.pid will not name it again, *)
(* although it runs.  The variable lost says which are, and is set by the  *)
(* four events that do it: a health check that gets no answer while it     *)
(* runs, a pid that is not written, a start that is killed before it       *)
(* writes it, and a removal that takes a missing kill program for a        *)
(* missing pid file.                                                       *)
(***************************************************************************)
EXTENDS Naturals

CONSTANTS
  Commands,  \* runs of the command line
  Kinds,     \* what they may be, a subset of Kind
  Pids,      \* process ids
  Ports,     \* what FREECLAUDE_PROXY_PORT may say
  MaxPolls,  \* how often start asks /healthz; the code's 20
  Faults,    \* what may go wrong, a subset of Fault
  Absent, Empty  \* no file; a file with nothing in it

Kind  == {"start", "stop", "uninstall", "purge"}
Fault == {"overlap",   \* two commands at once
          "interrupt", \* a command is killed
          "io",        \* reading, writing or removing a file fails
          "miss",      \* a daemon that is up does not answer in 500 ms
          "nokill",    \* the program kill cannot be run
          "crash",     \* the daemon dies
          "reboot"}    \* every process ends

ASSUME KindsAssumption == Kinds \subseteq Kind /\ Faults \subseteq Fault
ASSUME PollsAssumption == MaxPolls \in Nat \ {0}
ASSUME FilesAssumption ==
  {Absent, Empty} \cap Pids = {} /\ Absent # Empty /\ Absent \notin Commands \cup Ports

VARIABLES
  proc,      \* what runs under each pid
  at,        \* the port it was spawned for
  parent,    \* the command that spawned it, if that still runs
  pidfile,   \* proxy.pid
  companion, \* companion.pid, of a release that had a process for it
  managed,   \* Claude Desktop is configured for the proxy
  kind, pc,  \* what each command is, and where
  port,      \* the port of a start: each command reads its own environment
  child,     \* the process start spawned
  target,    \* the pid stop_proxy read
  polls,     \* how often start has asked
  alone,     \* history: no other command, crash or reboot while this one ran
  calm,      \* history: never two commands at once
  lost       \* history: the daemons that proxy.pid does not name, or soon will not

files == <<pidfile, companion, managed>>
local == <<child, target, polls>>
vars  == <<proc, at, parent, pidfile, companion, managed, kind, pc, port, child,
           target, polls, alone, calm, lost>>

\* "boot": spawned, not yet listening; "up": listening; "old": the companion of
\* an older release.
Proc   == {"none", "boot", "up", "zombie", "old"}
File   == Pids \cup {Absent, Empty}
Label  == {"idle", "detect", "ask", "spawn", "truncate", "write", "poll", "companion",
           "read", "kill", "remove", "restore", "purge", "ok", "err", "cut"}
Runtime(p) == proc[p] \in {"boot", "up"}
Up(q)      == \E p \in Pids : proc[p] = "up" /\ at[p] = q
Ended(c)   == pc[c] \in {"ok", "err", "cut"}
Active(c)  == pc[c] # "idle" /\ ~Ended(c)

Init ==
  /\ companion \in Pids \cup {Absent}
  /\ proc \in {[p \in Pids |-> IF p = companion THEN s ELSE "none"] :
                 s \in {"none", "old"}}
  /\ at = [p \in Pids |-> Absent]
  /\ parent = [p \in Pids |-> Absent]
  /\ pidfile = Absent
  /\ managed = TRUE
  /\ kind = [c \in Commands |-> "none"]
  /\ pc = [c \in Commands |-> "idle"]
  /\ port = [c \in Commands |-> Absent]
  /\ child = [c \in Commands |-> Absent]
  /\ target = [c \in Commands |-> Absent]
  /\ polls = [c \in Commands |-> 0]
  /\ alone = [c \in Commands |-> TRUE]
  /\ calm = TRUE /\ lost = {}

\* What becomes of a process that ends, and of the children of a command that
\* does: init reaps them.
Dead(p) == IF parent[p] = Absent THEN "none" ELSE "zombie"

Reap(c) ==
  /\ proc' = [p \in Pids |->
       IF parent[p] = c /\ proc[p] = "zombie" THEN "none" ELSE proc[p]]
  /\ parent' = [p \in Pids |-> IF parent[p] = c THEN Absent ELSE parent[p]]

Go(c, label) == pc' = [pc EXCEPT ![c] = label]
End(c, how)  == Go(c, how) /\ Reap(c)
Held         == UNCHANGED <<at, kind, port, alone, calm>>
Running      == UNCHANGED <<proc, parent>>
Disturb      == alone' = [c \in Commands |-> alone[c] /\ ~Active(c)]

Begin(c) ==
  /\ pc[c] = "idle"
  /\ "overlap" \in Faults \/ \A d \in Commands : ~Active(d)
  /\ \E k \in Kinds : kind' = [kind EXCEPT ![c] = k]
  /\ IF kind'[c] = "start"
     THEN Go(c, "detect") /\ \E q \in Ports : port' = [port EXCEPT ![c] = q]
     ELSE Go(c, "companion") /\ UNCHANGED port
  /\ alone' = [d \in Commands |->
       alone[d] /\ IF d = c THEN \A e \in Commands : ~Active(e) ELSE ~Active(d)]
  /\ calm' = (calm /\ \A d \in Commands : ~Active(d))
  /\ UNCHANGED <<at, files, local, lost>> /\ Running

-----------------------------------------------------------------------------
(* start_proxy                                                             *)

\* The settings are saved first, and may not be.
Detect(c) ==
  /\ pc[c] = "detect"
  /\ \/ companion = Absent /\ Go(c, "ask") /\ Running
     \/ (companion # Absent \/ "io" \in Faults) /\ End(c, "err")
  /\ UNCHANGED <<files, local, lost>> /\ Held

\* proxy_is_healthy: any failure of the request counts as no.
Answered(c) == Up(port[c])
NoAnswer(c) == ~Up(port[c]) \/ "miss" \in Faults

\* Mutant: start does not ask whether a proxy answers already.
Ask_Never(c) ==
  /\ pc[c] = "ask"
  /\ Go(c, "spawn") /\ Running
  /\ UNCHANGED <<files, local, lost>> /\ Held

\* Without an answer start goes on to overwrite proxy.pid, whatever daemon runs:
\* one that was too slow, one on another port, one that is still booting.
Ask(c) ==
  /\ pc[c] = "ask"
  /\ \/ Answered(c) /\ End(c, "ok") /\ UNCHANGED lost
     \/ /\ NoAnswer(c) /\ Go(c, "spawn") /\ Running
        /\ lost' = lost \cup {p \in Pids : Runtime(p)}
  /\ UNCHANGED <<files, local>> /\ Held

Spawn(c) ==
  /\ pc[c] = "spawn"
  /\ \/ \E p \in Pids :
          /\ proc[p] = "none"
          /\ proc' = [proc EXCEPT ![p] = "boot"]
          /\ at' = [at EXCEPT ![p] = port[c]]
          /\ parent' = [parent EXCEPT ![p] = c]
          /\ child' = [child EXCEPT ![c] = p]
          /\ lost' = lost \ {p}
          /\ Go(c, "truncate")
     \/ /\ "io" \in Faults \/ \A p \in Pids : proc[p] # "none"
        /\ End(c, "err")
        /\ UNCHANGED <<at, child, lost>>
  /\ UNCHANGED <<files, target, polls, kind, port, alone, calm>>

\* fs::write: the file is emptied, then written.  If it fails the command ends,
\* and its daemon stays.
NotWritten(c) ==
  "io" \in Faults /\ UNCHANGED pidfile /\ End(c, "err") /\ lost' = lost \cup {child[c]}

Truncate(c) ==
  /\ pc[c] = "truncate"
  /\ \/ pidfile' = Empty /\ Go(c, "write") /\ Running /\ UNCHANGED lost
     \/ NotWritten(c)
  /\ UNCHANGED <<companion, managed, local>> /\ Held

WritePid(c) ==
  /\ pc[c] = "write"
  /\ \/ pidfile' = child[c] /\ Go(c, "poll") /\ Running /\ UNCHANGED lost
     \/ NotWritten(c)
  /\ UNCHANGED <<companion, managed, local>> /\ Held

\* Whoever listens on the port may answer.
Poll(c) ==
  /\ pc[c] = "poll" /\ polls[c] < MaxPolls
  /\ polls' = [polls EXCEPT ![c] = @ + 1]
  /\ \/ Answered(c) /\ End(c, "ok")
     \/ NoAnswer(c) /\ Running /\ UNCHANGED pc
  /\ UNCHANGED <<files, child, target, lost>> /\ Held

\* Mutant: the daemon that did not answer in time is left alone.
GiveUp_Leaving(c) ==
  /\ pc[c] = "poll" /\ polls[c] = MaxPolls
  /\ End(c, "err")
  /\ UNCHANGED <<files, local, lost>> /\ Held

\* Nobody has answered: the daemon is stopped, whatever comes of that.
GiveUp(c) ==
  /\ pc[c] = "poll" /\ polls[c] = MaxPolls
  /\ Go(c, "read") /\ Running
  /\ UNCHANGED <<files, local, lost>> /\ Held

-----------------------------------------------------------------------------
(* stop, uninstall and purge                                               *)

Killable(p) == p # Absent /\ proc[p] # "none"

\* stop_companion, whose errors are ignored: the file goes only if there was a
\* process to kill.  No program writes this file any more, so it is one step.
StopCompanion(c) ==
  /\ pc[c] = "companion"
  /\ \/ /\ Killable(companion)
        /\ proc' = [proc EXCEPT ![companion] = Dead(companion)]
        /\ companion' \in {Absent} \cup (IF "io" \in Faults THEN {companion} ELSE {})
     \/ /\ Killable(companion) => {"io", "nokill"} \cap Faults # {}
        /\ UNCHANGED <<proc, companion>>
  /\ Go(c, "read")
  /\ UNCHANGED <<parent, pidfile, managed, local, lost>> /\ Held

\* What follows stop_proxy: uninstall and purge take "not found" for a process
\* that does not run, and give up on any other error.
Stopped(c, result) ==
  CASE kind[c] = "start" -> "err"
    [] kind[c] = "stop" -> IF result = "ok" THEN "ok" ELSE "err"
    [] kind[c] = "uninstall" -> IF result = "err" THEN "err" ELSE "restore"
    [] kind[c] = "purge" -> IF result = "err" THEN "err" ELSE "purge"

Follow(c, result) ==
  LET label == Stopped(c, result) IN
    IF label \in {"ok", "err"} THEN End(c, label) ELSE Go(c, label) /\ Running

ReadPid(c) ==
  /\ pc[c] = "read"
  /\ \/ /\ pidfile \in Pids
        /\ target' = [target EXCEPT ![c] = pidfile]
        /\ Go(c, "kill") /\ Running
     \/ /\ pidfile = Absent /\ Follow(c, "notfound")
        /\ UNCHANGED target
     \/ /\ pidfile = Empty \/ "io" \in Faults
        /\ Follow(c, "err")
        /\ UNCHANGED target
  /\ UNCHANGED <<files, child, polls, lost>> /\ Held

\* kill -TERM, for which the error of a program that is not there is "not found"
\* as well: uninstall and purge go on, and the daemon with them.
CannotKill(c) ==
  /\ "nokill" \in Faults
  /\ \/ Follow(c, "err") /\ UNCHANGED lost
     \/ /\ Follow(c, "notfound")
        /\ lost' = IF Stopped(c, "notfound") = "err" THEN lost ELSE lost \cup {target[c]}

\* It fails if there is no such process, and then the file stays.
KillIt(c) ==
  /\ pc[c] = "kill"
  /\ \/ CannotKill(c)
     \/ /\ proc[target[c]] = "none"
        /\ Follow(c, "err")
        /\ UNCHANGED lost
     \/ /\ proc[target[c]] # "none"
        /\ proc' = [proc EXCEPT ![target[c]] = Dead(target[c])]
        /\ Go(c, "remove")
        /\ UNCHANGED <<parent, lost>>
  /\ UNCHANGED <<files, local>> /\ Held

\* Mutant: the file is not removed.
RemovePid_Forgotten(c) ==
  /\ pc[c] = "remove"
  /\ Follow(c, "ok")
  /\ UNCHANGED <<files, local, lost>> /\ Held

RemovePid(c) ==
  /\ pc[c] = "remove"
  /\ \/ /\ pidfile' = Absent
        /\ Follow(c, IF pidfile = Absent THEN "notfound" ELSE "ok")
     \/ "io" \in Faults /\ UNCHANGED pidfile /\ Follow(c, "err")
  /\ UNCHANGED <<companion, managed, local, lost>> /\ Held

\* restore_official_config; the autostart was disabled before it.
Restore(c) ==
  /\ pc[c] = "restore"
  /\ \/ managed' = FALSE /\ Go(c, "purge") /\ Running
     \/ "io" \in Faults /\ managed' \in {managed, FALSE} /\ End(c, "err")
  /\ UNCHANGED <<pidfile, companion, local, lost>> /\ Held

\* purge_application_data restores (again) and removes the directory with both
\* pid files, or part of it.
Purge(c) ==
  /\ pc[c] = "purge"
  /\ \/ managed' = FALSE /\ pidfile' = Absent /\ companion' = Absent /\ End(c, "ok")
     \/ /\ "io" \in Faults
        /\ managed' \in {managed, FALSE}
        /\ pidfile' \in {pidfile, Absent} /\ companion' \in {companion, Absent}
        /\ End(c, "err")
  /\ UNCHANGED <<local, lost>> /\ Held

-----------------------------------------------------------------------------
(* Processes                                                               *)

\* start_server_background: the port is bound, unless another daemon has it.
Boot(p) ==
  /\ proc[p] = "boot"
  /\ proc' = [proc EXCEPT ![p] = IF Up(at[p]) THEN Dead(p) ELSE "up"]
  /\ UNCHANGED <<at, parent, files, kind, pc, port, local, alone, calm, lost>>

Crash(p) ==
  /\ "crash" \in Faults
  /\ proc[p] \in {"boot", "up", "old"}
  /\ proc' = [proc EXCEPT ![p] = Dead(p)]
  /\ Disturb
  /\ UNCHANGED <<at, parent, files, kind, pc, port, local, calm, lost>>

\* What the command spawned goes on.
Interrupt(c) ==
  /\ "interrupt" \in Faults
  /\ Active(c)
  /\ End(c, "cut")
  /\ lost' = IF pc[c] \in {"truncate", "write"} THEN lost \cup {child[c]} ELSE lost
  /\ UNCHANGED <<files, local>> /\ Held

Reboot ==
  /\ "reboot" \in Faults
  /\ proc' = [p \in Pids |-> "none"]
  /\ parent' = [p \in Pids |-> Absent]
  /\ pc' = [c \in Commands |-> IF Active(c) THEN "cut" ELSE pc[c]]
  /\ lost' = {}
  /\ Disturb
  /\ UNCHANGED <<at, files, kind, port, local, calm>>

\* The dashboard of a running proxy saves the settings.
Configure ==
  /\ ~managed /\ \E p \in Pids : proc[p] = "up"
  /\ managed' = TRUE
  /\ UNCHANGED <<proc, at, parent, pidfile, companion, kind, pc, port, local, alone,
                 calm, lost>>

Finished == (\A c \in Commands : Ended(c)) /\ UNCHANGED vars

-----------------------------------------------------------------------------

Step(c) ==
  \/ Begin(c) \/ Interrupt(c)
  \/ Detect(c) \/ Ask(c) \/ Spawn(c) \/ Truncate(c) \/ WritePid(c) \/ Poll(c)
  \/ GiveUp(c)
  \/ StopCompanion(c) \/ ReadPid(c) \/ KillIt(c) \/ RemovePid(c)
  \/ Restore(c) \/ Purge(c)

Next ==
  \/ \E c \in Commands : Step(c)
  \/ \E p \in Pids : Boot(p) \/ Crash(p)
  \/ Reboot \/ Configure \/ Finished

Spec == Init /\ [][Next]_vars
-----------------------------------------------------------------------------
(* Properties                                                              *)

\* Every variable keeps its type.
TypeOK ==
  /\ proc \in [Pids -> Proc]
  /\ at \in [Pids -> Ports \cup {Absent}]
  /\ parent \in [Pids -> Commands \cup {Absent}]
  /\ pidfile \in File /\ companion \in Pids \cup {Absent}
  /\ managed \in BOOLEAN
  /\ child \in [Commands -> Pids \cup {Absent}]
  /\ target \in [Commands -> Pids \cup {Absent}]
  /\ polls \in [Commands -> 0 .. MaxPolls]
  /\ kind \in [Commands -> Kind \cup {"none"}]
  /\ pc \in [Commands -> Label]
  /\ port \in [Commands -> Ports \cup {Absent}]
  /\ alone \in [Commands -> BOOLEAN] /\ calm \in BOOLEAN /\ lost \subseteq Pids

Quiet == \A c \in Commands : ~Active(c)

\* Between commands the pid file names every daemon there is, so that stop,
\* uninstall and purge can find it, but those that one of the four events has
\* lost: across failed starts, crashes, reboots, failed removals and commands
\* that were killed, as long as they follow each other.
Stoppable == calm /\ Quiet => \A p \in Pids : Runtime(p) => pidfile = p \/ p \in lost

StartedBy(c) ==
  \E p \in Pids :
    /\ proc'[p] = "up" /\ at[p] = port[c]
    /\ p \in lost \/ (pidfile' = p /\ child[c] \in {p, Absent})

StoppedBy(c) ==
  /\ \A p \in Pids : proc'[p] \in {"boot", "up"} => p \in lost
  /\ pidfile' = Absent
  /\ kind[c] # "stop" => ~managed'

\* A command that nothing disturbed and that reports success has done what it
\* is for: after a start a proxy answers on its port, and it is the one on
\* record and, if the command spawned one, its own, or a lost one; after a
\* stop, an uninstall or a purge there is no daemon but lost ones, no pid file
\* and, except for stop, no managed configuration.
SuccessIsTrue ==
  [][\A c \in Commands : pc[c] # "ok" /\ pc'[c] = "ok" /\ alone[c] /\ calm =>
       IF kind[c] = "start" THEN StartedBy(c) ELSE StoppedBy(c)]_vars

\* A start that reports a failure has left no daemon of its own behind, unless
\* its pid could not be written; or else the stop at its end could not read the
\* pid file or run kill, and the file names the daemon.
FailedBy(c) ==
  \/ proc'[child[c]] = "none"
  \/ child[c] \in lost'
  \/ pc[c] \in {"read", "kill"} /\ pidfile' = child[c]

FailedStartLeavesNothing ==
  [][\A c \in Commands :
       /\ calm /\ kind[c] = "start" /\ child[c] # Absent
       /\ pc[c] # "err" /\ pc'[c] = "err"
       => FailedBy(c)]_vars

-----------------------------------------------------------------------------
(* The inductive invariant: where a command is says which daemons there    *)
(* are, as long as commands have followed each other                       *)

Starting == {"detect", "ask", "spawn", "truncate", "write", "poll"}
Stopping == {"read", "kill", "remove"}

\* Which labels a command of a kind can be at, and what it holds there.
Placed(c) ==
  /\ pc[c] = "idle" \/ kind[c] \in Kind
  /\ pc[c] \in Starting => kind[c] = "start"
  /\ pc[c] \in {"companion", "restore", "purge"} => kind[c] # "start"
  /\ pc[c] \in {"restore", "purge"} => kind[c] # "stop"
  /\ pc[c] \in {"idle", "detect", "ask", "spawn"} => child[c] = Absent
  /\ pc[c] \in {"truncate", "write", "poll"} => child[c] \in Pids
  /\ pc[c] \in {"kill", "remove"} => target[c] \in Pids

Control == \A c \in Commands : Placed(c)

\* Lost daemons apart: there is at most that one, there is none, the one there is
\* is on record.
OnlyDaemon(q) == \A p \in Pids : Runtime(p) => p = q \/ p \in lost
NoDaemon      == \A p \in Pids : Runtime(p) => p \in lost
Recorded      == \A p \in Pids : Runtime(p) => pidfile = p \/ p \in lost

Serial == \A c, d \in Commands : Active(c) /\ Active(d) => c = d

\* The daemons there are, by where the one command is.
Whereabouts(c) ==
  /\ pc[c] \in {"detect", "ask", "companion"} => Recorded
  /\ pc[c] = "read" /\ kind[c] # "start" => Recorded
  /\ pc[c] \in {"spawn", "remove", "restore", "purge"} => NoDaemon
  /\ pc[c] \in {"truncate", "write"} => OnlyDaemon(child[c])
  /\ pc[c] \in {"poll", "read"} /\ kind[c] = "start" =>
       OnlyDaemon(child[c]) /\ pidfile = child[c]
  /\ pc[c] = "kill" =>
       OnlyDaemon(target[c]) /\ pidfile = target[c] /\ (kind[c] = "start" => target[c] = child[c])

\* A process that a running start has spawned cannot vanish: who kills it leaves
\* a zombie until the command ends.
Mine(c) ==
  pc[c] \in {"truncate", "write", "poll"} \cup Stopping /\ kind[c] = "start" =>
    /\ child[c] \in Pids /\ parent[child[c]] = c
    /\ proc[child[c]] \in IF pc[c] = "remove" THEN {"zombie"} ELSE {"boot", "up", "zombie"}

Known ==
  Serial /\ (Quiet => Recorded) /\ \A c \in Commands : Whereabouts(c) /\ Mine(c)

IInv == TypeOK /\ Control /\ (calm => Known)
=============================================================================
