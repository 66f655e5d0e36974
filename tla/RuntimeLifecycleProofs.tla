----------------------- MODULE RuntimeLifecycleProofs ------------------------
(***************************************************************************)
(* What starting and stopping the resident process guarantees for every    *)
(* number of commands and of process ids, and every patience of start.     *)
(***************************************************************************)
EXTENDS RuntimeLifecycle, TLAPS

\* A command that ends leaves its running children alone, and reaps the dead.
LEMMA ReapFacts ==
  ASSUME TypeOK, NEW c \in Commands, Reap(c)
  PROVE  /\ proc' \in [Pids -> Proc] /\ parent' \in [Pids -> Commands \cup {Absent}]
         /\ \A p \in Pids : proc'[p] = IF parent[p] = c /\ proc[p] = "zombie" THEN "none" ELSE proc[p]
BY DEF TypeOK, Reap, Proc

\* What follows stop_proxy: the command ends, or goes on to restore or purge.
LEMMA FollowFacts ==
  ASSUME TypeOK, Control, NEW c \in Commands, pc[c] \in Stopping, NEW res \in {"ok", "err", "notfound"},
         Follow(c, res)
  PROVE  \E l \in {"ok", "err", "restore", "purge"} :
           /\ pc' = [pc EXCEPT ![c] = l]
           /\ IF l \in {"ok", "err"} THEN Reap(c) ELSE Running
           /\ l \in {"restore", "purge"} => kind[c] \in {"uninstall", "purge"} /\ res # "err"
           /\ l = "ok" => kind[c] = "stop" /\ res = "ok"
<1>1. kind[c] \in Kind
  BY DEF Control, Placed, Stopping
<1>2. PICK l : l = Stopped(c, res)
  OBVIOUS
<1>3. /\ l \in {"ok", "err", "restore", "purge"}
      /\ l \in {"restore", "purge"} => kind[c] \in {"uninstall", "purge"} /\ res # "err"
      /\ l = "ok" => kind[c] = "stop" /\ res = "ok"
  BY <1>1, <1>2 DEF Stopped, Kind
<1>4. IF l \in {"ok", "err"} THEN End(c, l) ELSE Go(c, l) /\ Running
  BY <1>2 DEF Follow
<1> QED
  BY <1>3, <1>4 DEF End, Go

-----------------------------------------------------------------------------
(* Types and control                                                       *)

LEMMA TypeStep ==
  ASSUME TypeOK, Control, Next
  PROVE  TypeOK'
<1>0. /\ proc \in [Pids -> Proc] /\ parent \in [Pids -> Commands \cup {Absent}]
      /\ at \in [Pids -> Ports \cup {Absent}] /\ port \in [Commands -> Ports \cup {Absent}]
      /\ pidfile \in File /\ companion \in Pids \cup {Absent} /\ managed \in BOOLEAN
      /\ child \in [Commands -> Pids \cup {Absent}] /\ target \in [Commands -> Pids \cup {Absent}]
      /\ polls \in [Commands -> 0 .. MaxPolls]
      /\ kind \in [Commands -> Kind \cup {"none"}] /\ pc \in [Commands -> Label]
      /\ alone \in [Commands -> BOOLEAN] /\ calm \in BOOLEAN /\ lost \subseteq Pids
  BY DEF TypeOK
<1> USE PollsAssumption DEF Label, Go, End, Held, Running, files, local, Disturb
<1>1. ASSUME NEW c \in Commands, Begin(c)
      PROVE  TypeOK'
  <2>1. PICK k \in Kinds : kind' = [kind EXCEPT ![c] = k]
    BY <1>1 DEF Begin
  <2>2. k \in Kind /\ kind'[c] = k
    BY <1>0, <2>1, KindsAssumption
  <2>3. \E l \in {"detect", "companion"} : pc' = [pc EXCEPT ![c] = l]
    BY <1>1, <2>2 DEF Begin
  <2>4. kind' \in [Commands -> Kind \cup {"none"}] /\ pc' \in [Commands -> Label]
    BY <1>0, <2>1, <2>2, <2>3
  <2>5. alone' \in [Commands -> BOOLEAN] /\ calm' \in BOOLEAN
    BY <1>0, <1>1 DEF Begin
  <2>6. UNCHANGED <<at, files, local, proc, parent, lost>>
    BY <1>1 DEF Begin
  <2>7. port' \in [Commands -> Ports \cup {Absent}]
    <3>1. UNCHANGED port \/ \E q \in Ports : port' = [port EXCEPT ![c] = q]
      BY <1>1 DEF Begin
    <3> QED
      BY <1>0, <3>1
  <2> QED
    BY <1>0, <2>4, <2>5, <2>6, <2>7 DEF TypeOK
<1>2. ASSUME NEW c \in Commands, Interrupt(c)
      PROVE  TypeOK'
  <2>1. lost' \subseteq Pids
    <3>1. Placed(c) /\ child[c] \in Pids \cup {Absent}
      BY <1>0 DEF Control
    <3>2. pc[c] \in {"truncate", "write"} => child[c] \in Pids
      BY <3>1 DEF Placed
    <3> QED
      BY <1>0, <1>2, <3>2 DEF Interrupt
  <2>2. pc' = [pc EXCEPT ![c] = "cut"] /\ Reap(c)
    BY <1>2 DEF Interrupt
  <2>3. pc' \in [Commands -> Label]
    BY <1>0, <2>2
  <2>4. UNCHANGED <<at, kind, port, alone, calm, pidfile, companion, managed, child, target, polls>>
    BY <1>2 DEF Interrupt
  <2> QED
    BY <1>0, <2>1, <2>2, <2>3, <2>4, ReapFacts DEF TypeOK
<1>3. ASSUME NEW c \in Commands, Detect(c) \/ Ask(c) \/ GiveUp(c)
      PROVE  TypeOK'
  <2>1. \E l \in {"ask", "err", "ok", "spawn", "read"} : pc' = [pc EXCEPT ![c] = l]
    BY <1>3 DEF Detect, Ask, GiveUp
  <2>2. pc' \in [Commands -> Label]
    BY <1>0, <2>1
  <2>3. Reap(c) \/ UNCHANGED <<proc, parent>>
    BY <1>3 DEF Detect, Ask, GiveUp
  <2>4. lost' \subseteq Pids
    BY <1>0, <1>3 DEF Detect, Ask, GiveUp
  <2>5. UNCHANGED <<at, kind, port, alone, calm, pidfile, companion, managed, child, target, polls>>
    BY <1>3 DEF Detect, Ask, GiveUp
  <2> QED
    BY <1>0, <2>2, <2>3, <2>4, <2>5, ReapFacts DEF TypeOK
<1>4. ASSUME NEW c \in Commands, Spawn(c)
      PROVE  TypeOK'
  <2>0. UNCHANGED <<files, target, polls, kind, port, alone, calm>>
    BY <1>4 DEF Spawn
  <2>1. CASE End(c, "err") /\ UNCHANGED <<at, child, lost>>
    <3>1. pc' \in [Commands -> Label] /\ Reap(c)
      BY <1>0, <2>1
    <3> QED
      BY <1>0, <2>0, <2>1, <3>1, ReapFacts DEF TypeOK
  <2>2. ASSUME NEW p \in Pids, proc' = [proc EXCEPT ![p] = "boot"], at' = [at EXCEPT ![p] = port[c]],
               parent' = [parent EXCEPT ![p] = c], lost' = lost \ {p},
               child' = [child EXCEPT ![c] = p], Go(c, "truncate")
        PROVE  TypeOK'
    <3>1. proc' \in [Pids -> Proc] /\ at' \in [Pids -> Ports \cup {Absent}]
      BY <1>0, <2>2 DEF Proc
    <3>2. parent' \in [Pids -> Commands \cup {Absent}] /\ child' \in [Commands -> Pids \cup {Absent}]
      BY <1>0, <2>2
    <3>3. pc' \in [Commands -> Label] /\ lost' \subseteq Pids
      BY <1>0, <2>2
    <3> QED
      BY <1>0, <2>0, <3>1, <3>2, <3>3 DEF TypeOK
  <2> QED
    BY <1>4, <2>1, <2>2 DEF Spawn
<1>5. ASSUME NEW c \in Commands, Truncate(c) \/ WritePid(c)
      PROVE  TypeOK'
  <2>1. child[c] \in Pids
    <3>1. Placed(c) /\ child[c] \in Pids \cup {Absent}
      BY <1>0 DEF Control
    <3> QED
      BY <1>5, <3>1 DEF Truncate, WritePid, Placed
  <2>2. pidfile' \in File /\ pc' \in [Commands -> Label] /\ lost' \subseteq Pids
    BY <1>0, <1>5, <2>1 DEF Truncate, WritePid, NotWritten, File
  <2>3. Reap(c) \/ UNCHANGED <<proc, parent>>
    BY <1>5 DEF Truncate, WritePid, NotWritten
  <2>4. UNCHANGED <<at, port, companion, managed, child, target, polls, kind, alone, calm>>
    BY <1>5 DEF Truncate, WritePid
  <2> QED
    BY <1>0, <2>2, <2>3, <2>4, ReapFacts DEF TypeOK
<1>6. ASSUME NEW c \in Commands, Poll(c)
      PROVE  TypeOK'
  <2>1. polls' \in [Commands -> 0 .. MaxPolls]
    BY <1>0, <1>6 DEF Poll
  <2>2. pc' \in [Commands -> Label] /\ (Reap(c) \/ UNCHANGED <<proc, parent>>)
    BY <1>0, <1>6 DEF Poll
  <2>3. UNCHANGED <<at, port, pidfile, companion, managed, child, target, kind, alone, calm, lost>>
    BY <1>6 DEF Poll
  <2> QED
    BY <1>0, <2>1, <2>2, <2>3, ReapFacts DEF TypeOK
<1>7. ASSUME NEW c \in Commands, StopCompanion(c)
      PROVE  TypeOK'
  <2>1. proc' \in [Pids -> Proc] /\ companion' \in Pids \cup {Absent} /\ pc' \in [Commands -> Label]
    BY <1>0, <1>7 DEF StopCompanion, Dead, Proc
  <2>2. UNCHANGED <<at, port, parent, pidfile, managed, child, target, polls, kind, alone, calm, lost>>
    BY <1>7 DEF StopCompanion
  <2> QED
    BY <1>0, <2>1, <2>2 DEF TypeOK
<1>8. ASSUME NEW c \in Commands, ReadPid(c) \/ KillIt(c) \/ RemovePid(c)
      PROVE  TypeOK'
  <2>1. /\ target' \in [Commands -> Pids \cup {Absent}] /\ pidfile' \in File
        /\ UNCHANGED <<at, port, companion, managed, child, polls, kind, alone, calm>>
    BY <1>0, <1>8 DEF ReadPid, KillIt, RemovePid, File
  <2>2. lost' \subseteq Pids
    <3>1. pc[c] = "kill" => target[c] \in Pids
      BY DEF Control, Placed
    <3> QED
      BY <1>0, <1>8, <3>1 DEF ReadPid, KillIt, CannotKill, RemovePid
  <2>3. CASE \E res \in {"ok", "err", "notfound"} : Follow(c, res)
    <3>1. \E l \in {"ok", "err", "restore", "purge"} :
            pc' = [pc EXCEPT ![c] = l] /\ (Reap(c) \/ UNCHANGED <<proc, parent>>)
      BY <1>8, <2>3, FollowFacts DEF ReadPid, KillIt, RemovePid, Stopping
    <3>2. pc' \in [Commands -> Label]
      BY <1>0, <3>1
    <3> QED
      BY <1>0, <2>1, <2>2, <3>1, <3>2, ReapFacts DEF TypeOK
  <2>4. CASE Go(c, "kill") /\ Running
    <3>1. pc' \in [Commands -> Label]
      BY <1>0, <2>4
    <3> QED
      BY <1>0, <2>1, <2>2, <2>4, <3>1 DEF TypeOK
  <2>5. CASE proc' = [proc EXCEPT ![target[c]] = Dead(target[c])] /\ Go(c, "remove") /\ UNCHANGED parent
    <3>1. pc' \in [Commands -> Label] /\ proc' \in [Pids -> Proc]
      BY <1>0, <2>5 DEF Dead, Proc
    <3> QED
      BY <1>0, <2>1, <2>2, <2>5, <3>1 DEF TypeOK
  <2> QED
    BY <1>8, <2>3, <2>4, <2>5 DEF ReadPid, KillIt, CannotKill, RemovePid
<1>9. ASSUME NEW c \in Commands, Restore(c) \/ Purge(c)
      PROVE  TypeOK'
  <2>1. /\ pidfile' \in File /\ companion' \in Pids \cup {Absent} /\ managed' \in BOOLEAN
        /\ pc' \in [Commands -> Label] /\ (Reap(c) \/ UNCHANGED <<proc, parent>>)
    BY <1>0, <1>9 DEF Restore, Purge, File
  <2>2. UNCHANGED <<at, port, child, target, polls, kind, alone, calm, lost>>
    BY <1>9 DEF Restore, Purge
  <2> QED
    BY <1>0, <2>1, <2>2, ReapFacts DEF TypeOK
<1>10. ASSUME NEW p \in Pids, Boot(p) \/ Crash(p)
       PROVE  TypeOK'
  <2>1. \E x \in Proc : proc' = [proc EXCEPT ![p] = x]
    BY <1>10 DEF Boot, Crash, Dead, Proc
  <2>2. /\ alone' \in [Commands -> BOOLEAN]
        /\ UNCHANGED <<at, port, parent, files, kind, pc, local, calm, lost>>
    BY <1>0, <1>10 DEF Boot, Crash
  <2> QED
    BY <1>0, <2>1, <2>2 DEF TypeOK
<1>11. CASE Reboot
  <2>1. proc' \in [Pids -> Proc] /\ parent' \in [Pids -> Commands \cup {Absent}]
    BY <1>11 DEF Reboot, Proc
  <2>2. pc' \in [Commands -> Label] /\ alone' \in [Commands -> BOOLEAN] /\ lost' \subseteq Pids
    BY <1>0, <1>11 DEF Reboot
  <2> QED
    BY <1>0, <1>11, <2>1, <2>2 DEF Reboot, TypeOK
<1>12. CASE Configure \/ Finished
  BY <1>0, <1>12 DEF Configure, Finished, vars, TypeOK
<1> QED
  BY <1>1, <1>2, <1>3, <1>4, <1>5, <1>6, <1>7, <1>8, <1>9, <1>10, <1>11, <1>12 DEF Next, Step

\* A step of one command leaves the others where they are.
LEMMA OnePlaced ==
  ASSUME TypeOK, Control, NEW c \in Commands, NEW l \in Label \ {"idle"},
         pc' = [pc EXCEPT ![c] = l], UNCHANGED kind,
         \E x : child' = [child EXCEPT ![c] = x], \E x : target' = [target EXCEPT ![c] = x],
         Placed(c)'
  PROVE  Control'
<1>1. ASSUME NEW d \in Commands, d # c
      PROVE  Placed(d)'
  <2>1. /\ pc'[d] = pc[d] /\ kind'[d] = kind[d] /\ child'[d] = child[d] /\ target'[d] = target[d]
    BY <1>1 DEF TypeOK
  <2> QED
    BY <2>1 DEF Control, Placed
<1> QED
  BY <1>1 DEF Control

\* A step of a command is at its own label only, and never back to the start.
LEMMA OneLabel ==
  ASSUME TypeOK, Control, NEW d \in Commands, Step(d)
  PROVE  \E l \in Label \ {"idle"} : pc' = [pc EXCEPT ![d] = l]
<1>0. pc \in [Commands -> Label]
  BY DEF TypeOK
<1> USE DEF Go, End, Held, Running, files, local
<1>1. CASE \E res \in {"ok", "err", "notfound"} : pc[d] \in Stopping /\ Follow(d, res)
  BY <1>0, <1>1, FollowFacts DEF Label
<1>2. CASE UNCHANGED pc /\ pc[d] = "poll"
  <2>1. pc' = [pc EXCEPT ![d] = "poll"]
    BY <1>0, <1>2
  <2> QED
    BY <2>1 DEF Label
<1>3. CASE \E l \in Label \ {"idle"} : Go(d, l)
  BY <1>3
<1>4. \/ \E res \in {"ok", "err", "notfound"} : pc[d] \in Stopping /\ Follow(d, res)
      \/ UNCHANGED pc /\ pc[d] = "poll"
      \/ \E l \in Label \ {"idle"} : Go(d, l)
  <2>1. CASE Begin(d) \/ Interrupt(d) \/ Detect(d) \/ Ask(d) \/ Spawn(d) \/ Truncate(d) \/ WritePid(d)
    BY <2>1 DEF Begin, Interrupt, Detect, Ask, Spawn, Truncate, WritePid, NotWritten, Label
  <2>2. CASE Poll(d) \/ GiveUp(d) \/ StopCompanion(d) \/ Restore(d) \/ Purge(d)
    BY <2>2 DEF Poll, GiveUp, StopCompanion, Restore, Purge, Label
  <2>3. CASE ReadPid(d) \/ KillIt(d) \/ RemovePid(d)
    BY <2>3 DEF ReadPid, KillIt, CannotKill, RemovePid, Stopping, Label
  <2> QED
    BY <2>1, <2>2, <2>3 DEF Step
<1> QED
  BY <1>1, <1>2, <1>3, <1>4

LEMMA ControlStep ==
  ASSUME TypeOK, Control, Next
  PROVE  Control'
<1>0. /\ kind \in [Commands -> Kind \cup {"none"}] /\ pc \in [Commands -> Label]
      /\ child \in [Commands -> Pids \cup {Absent}] /\ target \in [Commands -> Pids \cup {Absent}]
  BY DEF TypeOK
<1> USE DEF Go, End, Held, files, local
<1>1. ASSUME NEW c \in Commands, Begin(c)
      PROVE  Control'
  <2>1. PICK k \in Kinds : kind' = [kind EXCEPT ![c] = k]
    BY <1>1 DEF Begin
  <2>2. k \in Kind /\ kind'[c] = k
    BY <1>0, <2>1, KindsAssumption
  <2>3. /\ pc[c] = "idle" /\ pc' = [pc EXCEPT ![c] = IF k = "start" THEN "detect" ELSE "companion"]
        /\ UNCHANGED <<child, target>>
    BY <1>1, <2>2 DEF Begin
  <2>4. Placed(c)'
    BY <1>0, <2>2, <2>3 DEF Control, Placed, Starting
  <2>5. ASSUME NEW d \in Commands, d # c
        PROVE  Placed(d)'
    <3>1. pc'[d] = pc[d] /\ kind'[d] = kind[d] /\ child'[d] = child[d] /\ target'[d] = target[d]
      BY <1>0, <2>1, <2>3, <2>5
    <3> QED
      BY <3>1 DEF Control, Placed
  <2> QED
    BY <2>4, <2>5 DEF Control
\* Where each action leads, and what its command holds there.
<1>2. ASSUME NEW c \in Commands,
             \/ Interrupt(c) \/ Detect(c) \/ Ask(c) \/ Spawn(c) \/ Truncate(c) \/ WritePid(c) \/ Poll(c)
             \/ GiveUp(c) \/ StopCompanion(c) \/ ReadPid(c) \/ KillIt(c) \/ RemovePid(c)
             \/ Restore(c) \/ Purge(c)
      PROVE  Control'
  <2>1. /\ UNCHANGED kind /\ pc[c] # "idle" /\ Placed(c)
        /\ UNCHANGED child \/ (\E x : child' = [child EXCEPT ![c] = x])
        /\ UNCHANGED target \/ (\E x : target' = [target EXCEPT ![c] = x])
    BY <1>2 DEF Interrupt, Detect, Ask, Spawn, Truncate, WritePid, NotWritten, Poll, GiveUp,
                StopCompanion, ReadPid, KillIt, CannotKill, RemovePid, Restore, Purge, Control, Active
  <2>2. /\ \E x : child' = [child EXCEPT ![c] = x]
        /\ \E x : target' = [target EXCEPT ![c] = x]
    <3>1. child = [child EXCEPT ![c] = child[c]] /\ target = [target EXCEPT ![c] = target[c]]
      BY <1>0
    <3> QED
      BY <2>1, <3>1
  <2>3. \E l \in Label \ {"idle"} : pc' = [pc EXCEPT ![c] = l] /\ Placed(c)'
    <3> USE DEF Placed, Starting, Label
    <3>1. CASE Interrupt(c) \/ Detect(c) \/ Ask(c)
      <4>1. CASE Interrupt(c)
        BY <1>0, <2>1, <4>1 DEF Interrupt
      <4>2. CASE Detect(c)
        <5>1. \E l \in {"err", "ask"} : pc' = [pc EXCEPT ![c] = l]
          BY <4>2 DEF Detect
        <5> QED
          BY <1>0, <2>1, <4>2, <5>1 DEF Detect
      <4>3. CASE Ask(c)
        <5>1. \E l \in {"ok", "spawn"} : pc' = [pc EXCEPT ![c] = l]
          BY <4>3 DEF Ask
        <5> QED
          BY <1>0, <2>1, <4>3, <5>1 DEF Ask
      <4> QED
        BY <3>1, <4>1, <4>2, <4>3
    <3>2. CASE Spawn(c)
      <4>1. CASE \E p \in Pids : child' = [child EXCEPT ![c] = p] /\ Go(c, "truncate")
        <5>1. pc[c] = "spawn" /\ UNCHANGED target
          BY <3>2 DEF Spawn
        <5> QED
          BY <1>0, <2>1, <4>1, <5>1, ZenonT(40)
      <4>2. CASE End(c, "err") /\ UNCHANGED child
        <5>1. pc[c] = "spawn" /\ UNCHANGED target
          BY <3>2 DEF Spawn
        <5> QED
          BY <1>0, <2>1, <4>2, <5>1
      <4> QED
        BY <3>2, <4>1, <4>2 DEF Spawn
    <3>3. CASE Truncate(c) \/ WritePid(c)
      <4>1. \E l \in {"write", "poll", "err"} : pc' = [pc EXCEPT ![c] = l]
        BY <3>3 DEF Truncate, WritePid, NotWritten
      <4>2. pc[c] \in {"truncate", "write"} /\ UNCHANGED <<child, target>>
        BY <3>3 DEF Truncate, WritePid
      <4> QED
        BY <1>0, <2>1, <4>1, <4>2
    <3>4. CASE Poll(c)
      <4>1. pc' = [pc EXCEPT ![c] = "ok"] \/ pc' = [pc EXCEPT ![c] = "poll"]
        BY <1>0, <3>4 DEF Poll
      <4> QED
        BY <1>0, <2>1, <3>4, <4>1 DEF Poll
    <3>5. CASE GiveUp(c) \/ StopCompanion(c)
      BY <1>0, <2>1, <3>5 DEF GiveUp, StopCompanion
    <3>6. CASE ReadPid(c) \/ KillIt(c) \/ RemovePid(c)
      <4>1. CASE \E res \in {"ok", "err", "notfound"} : Follow(c, res)
        <5>1. \E l \in {"ok", "err", "restore", "purge"} :
                /\ pc' = [pc EXCEPT ![c] = l]
                /\ l \in {"restore", "purge"} => kind[c] \in {"uninstall", "purge"}
          BY <3>6, <4>1, FollowFacts DEF ReadPid, KillIt, RemovePid, Stopping
        <5>2. UNCHANGED child
          BY <3>6 DEF ReadPid, KillIt, RemovePid
        <5> QED
          BY <1>0, <2>1, <5>1, <5>2
      <4>2. CASE ReadPid(c) /\ pidfile \in Pids /\ target' = [target EXCEPT ![c] = pidfile] /\ Go(c, "kill")
        <5>1. UNCHANGED child /\ pc'[c] = "kill" /\ target'[c] \in Pids
          BY <1>0, <4>2 DEF ReadPid
        <5> QED
          BY <2>1, <4>2, <5>1
      <4>3. CASE KillIt(c) /\ Go(c, "remove")
        <5>1. UNCHANGED <<child, target>> /\ pc'[c] = "remove" /\ pc[c] = "kill"
          BY <1>0, <4>3 DEF KillIt
        <5> QED
          BY <2>1, <4>3, <5>1
      <4> QED
        BY <3>6, <4>1, <4>2, <4>3 DEF ReadPid, KillIt, CannotKill, RemovePid
    <3>7. CASE Restore(c) \/ Purge(c)
      <4>1. \E l \in {"purge", "err", "ok"} : pc' = [pc EXCEPT ![c] = l]
        BY <3>7 DEF Restore, Purge
      <4>2. pc[c] \in {"restore", "purge"} /\ UNCHANGED <<child, target>>
        BY <3>7 DEF Restore, Purge
      <4> QED
        BY <1>0, <2>1, <4>1, <4>2
    <3> QED
      BY <1>2, <3>1, <3>2, <3>3, <3>4, <3>5, <3>6, <3>7
  <2> QED
    BY <2>1, <2>2, <2>3, OnePlaced
<1>3. CASE Reboot
  <2>1. ASSUME NEW c \in Commands
        PROVE  Placed(c)'
    <3>1. /\ pc'[c] = IF Active(c) THEN "cut" ELSE pc[c]
          /\ UNCHANGED <<kind, child, target>>
      BY <1>3 DEF Reboot
    <3> QED
      BY <3>1 DEF Control, Placed, Active, Starting
  <2> QED
    BY <2>1 DEF Control
<1>4. CASE (\E p \in Pids : Boot(p) \/ Crash(p)) \/ Configure \/ Finished
  <2>1. UNCHANGED <<pc, kind, child, target>>
    BY <1>4 DEF Boot, Crash, Configure, Finished, vars
  <2> QED
    BY <2>1 DEF Control, Placed
<1> QED
  BY <1>1, <1>2, <1>3, <1>4 DEF Next, Step

-----------------------------------------------------------------------------
(* The daemons there are                                                   *)

\* No daemon is new, and none that was lost is found.
Shrinks == lost \subseteq lost' /\ \A p \in Pids : Runtime(p)' => Runtime(p)

LEMMA ShrinksKeeps ==
  ASSUME Shrinks
  PROVE  /\ NoDaemon => NoDaemon'
         /\ Recorded /\ UNCHANGED pidfile => Recorded'
         /\ \A q : OnlyDaemon(q) =>
              \A p \in Pids : Runtime(p)' => p = q \/ p \in lost'
BY DEF Shrinks, NoDaemon, Recorded, OnlyDaemon

LEMMA ReapShrinks ==
  ASSUME TypeOK, NEW c \in Commands, Reap(c) \/ UNCHANGED <<proc, parent>>, lost \subseteq lost'
  PROVE  Shrinks
BY ReapFacts DEF Shrinks, Runtime

\* Nobody left, nobody to record; nor if the only one there may be is on record
\* or lost.
LEMMA NoneRecorded ==
  /\ NoDaemon => Recorded
  /\ NoDaemon' => Recorded'
BY DEF NoDaemon, Recorded

LEMMA OneRecorded ==
  ASSUME NEW q, OnlyDaemon(q), Shrinks, q \in lost' \/ pidfile' = q
  PROVE  Recorded'
BY DEF OnlyDaemon, Shrinks, Recorded

\* A step of the one command at work: what it has to establish is about itself.
LEMMA OneMoves ==
  ASSUME TypeOK, NEW c \in Commands, \A d \in Commands : d # c => ~Active(d), NEW l \in Label \ {"idle"},
         pc' = [pc EXCEPT ![c] = l], Whereabouts(c)', Mine(c)',
         l \in {"ok", "err", "cut"} => Recorded'
  PROVE  Known'
<1>1. \A d \in Commands : d # c => ~Active(d) /\ pc'[d] = pc[d]
  BY DEF TypeOK
<1>2. pc'[c] = l
  BY DEF TypeOK
<1>3. \A d \in Commands : d # c => pc'[d] \in {"idle", "ok", "err", "cut"}
  BY <1>1 DEF Active, Ended
<1>4. \A d \in Commands : d # c => Whereabouts(d)' /\ Mine(d)'
  BY <1>3 DEF Whereabouts, Mine, Stopping
<1>5. Serial'
  BY <1>3 DEF Serial, Active, Ended
<1>6. Quiet' => Recorded'
  BY <1>2 DEF Quiet, Active, Ended
<1> QED
  BY <1>4, <1>5, <1>6 DEF Known

\* A command that ends: what it leaves is on record.
LEMMA OneEnds ==
  ASSUME TypeOK, NEW c \in Commands, \A d \in Commands : d # c => ~Active(d), NEW l \in {"ok", "err", "cut"},
         pc' = [pc EXCEPT ![c] = l], Recorded'
  PROVE  Known'
<1>1. pc'[c] = l
  BY DEF TypeOK
<1>2. Whereabouts(c)' /\ Mine(c)'
  BY <1>1 DEF Whereabouts, Mine, Stopping
<1> QED
  BY <1>2, OneMoves DEF Label

\* What the steps of a process and of the machine do not disturb.
LEMMA ProcessStep ==
  ASSUME IInv, calm, NEW p \in Pids, Boot(p) \/ Crash(p)
  PROVE  Known'
<1>0. /\ proc \in [Pids -> Proc] /\ Known /\ TypeOK
      /\ UNCHANGED <<parent, pidfile, kind, pc, child, target, lost>>
  BY DEF IInv, TypeOK, Boot, Crash, files, local
<1>1. PICK x \in {"up", "none", "zombie"} :
        /\ proc' = [proc EXCEPT ![p] = x] /\ proc[p] \in {"boot", "up", "old"}
        /\ x = "up" => proc[p] = "boot"
        /\ x = "none" => parent[p] = Absent
  BY DEF Boot, Crash, Dead
<1>2. Shrinks
  BY <1>0, <1>1 DEF Shrinks, Runtime
<1>3. \A c \in Commands : Whereabouts(c)'
  <2>1. \A c \in Commands : /\ OnlyDaemon(child[c]) => OnlyDaemon(child[c])'
                            /\ OnlyDaemon(target[c]) => OnlyDaemon(target[c])'
    BY <1>0, <1>2, ShrinksKeeps DEF OnlyDaemon, Runtime
  <2> QED
    BY <1>0, <1>2, <2>1, ShrinksKeeps DEF Known, Whereabouts
<1>4. \A c \in Commands : Mine(c)'
  <2>1. ASSUME NEW c \in Commands, Mine(c)
        PROVE  Mine(c)'
    <3>1. SUFFICES ASSUME pc[c] \in {"truncate", "write", "poll"} \cup Stopping, kind[c] = "start"
                   PROVE  /\ child[c] \in Pids /\ parent[child[c]] = c
                          /\ proc'[child[c]] \in IF pc[c] = "remove" THEN {"zombie"} ELSE {"boot", "up", "zombie"}
      BY <1>0 DEF Mine, Stopping
    <3>2. /\ child[c] \in Pids /\ parent[child[c]] = c
          /\ proc[child[c]] \in IF pc[c] = "remove" THEN {"zombie"} ELSE {"boot", "up", "zombie"}
      BY <2>1, <3>1 DEF Mine
    <3>3. x = "none" => p # child[c]
      BY <1>1, <3>2, FilesAssumption
    <3> QED
      BY <1>0, <1>1, <3>2, <3>3
  <2> QED
    BY <1>0, <2>1 DEF Known
<1>5. Quiet' => Recorded'
  BY <1>0, <1>2, ShrinksKeeps DEF Known, Quiet, Active, Ended
<1> QED
  BY <1>0, <1>3, <1>4, <1>5 DEF Known, Serial, Active, Ended

LEMMA RebootStep ==
  ASSUME IInv, Reboot
  PROVE  Known'
<1>1. \A c \in Commands : pc'[c] \in {"idle", "ok", "err", "cut"}
  BY DEF IInv, TypeOK, Reboot, Active, Ended
<1>2. NoDaemon'
  BY DEF Reboot, NoDaemon, Runtime
<1>3. Serial'
  BY <1>1 DEF Serial, Active, Ended
<1>4. \A c \in Commands : Whereabouts(c)' /\ Mine(c)'
  BY <1>1 DEF Whereabouts, Mine, Stopping
<1> QED
  BY <1>2, <1>3, <1>4, NoneRecorded DEF Known

LEMMA BeginStep ==
  ASSUME IInv, NEW c \in Commands, Begin(c), calm'
  PROVE  Known'
<1>1. TypeOK /\ \A d \in Commands : ~Active(d)
  BY DEF IInv, Begin, TypeOK
<1>2. Recorded
  BY <1>1 DEF IInv, Known, Quiet, Begin, TypeOK
<1>3. Recorded'
  BY <1>2 DEF Begin, files, Running, Recorded, Runtime
<1>4. PICK l \in {"detect", "companion"} : pc' = [pc EXCEPT ![c] = l]
  BY DEF Begin, Go
<1>5. pc'[c] = l
  BY <1>1, <1>4 DEF TypeOK
<1>6. Whereabouts(c)' /\ Mine(c)'
  BY <1>3, <1>5 DEF Whereabouts, Mine, Stopping
<1> QED
  BY <1>1, <1>3, <1>4, <1>6, OneMoves DEF Label

\* What a command at work may count on: nobody else is at work.
LEMMA AtWork ==
  ASSUME IInv, calm, NEW c \in Commands, Active(c)
  PROVE  /\ \A d \in Commands : d # c => ~Active(d)
         /\ TypeOK /\ Control /\ Placed(c) /\ Whereabouts(c) /\ Mine(c)
BY DEF IInv, Known, Serial, Control

\* A command that is killed: what it has spawned is lost, or on record.
LEMMA InterruptStep ==
  ASSUME IInv, calm', NEW c \in Commands, Interrupt(c)
  PROVE  Known'
<1>0. /\ calm /\ TypeOK /\ \A d \in Commands : d # c => ~Active(d)
      /\ Placed(c) /\ Whereabouts(c) /\ Mine(c) /\ Active(c)
  <2>1. calm /\ Active(c)
    BY DEF Interrupt, Held
  <2> QED
    BY <2>1, AtWork
<1>1. /\ pc' = [pc EXCEPT ![c] = "cut"] /\ Reap(c) /\ UNCHANGED pidfile
      /\ lost' = IF pc[c] \in {"truncate", "write"} THEN lost \cup {child[c]} ELSE lost
  BY DEF Interrupt, End, Go, files
<1>2. Shrinks
  BY <1>0, <1>1, ReapShrinks
<1>3. pc[c] \in Label \ {"idle", "ok", "err", "cut"}
  BY <1>0 DEF TypeOK, Active, Ended
<1>4. Recorded'
  <2>1. CASE pc[c] \in {"detect", "ask", "companion"} \/ (pc[c] = "read" /\ kind[c] # "start")
    BY <1>0, <1>1, <1>2, <2>1, ShrinksKeeps DEF Whereabouts
  <2>2. CASE pc[c] \in {"spawn", "remove", "restore", "purge"}
    BY <1>0, <1>2, <2>2, ShrinksKeeps, NoneRecorded DEF Whereabouts
  <2>3. CASE pc[c] \in {"truncate", "write"}
    BY <1>0, <1>1, <1>2, <2>3, OneRecorded DEF Whereabouts
  <2>4. CASE pc[c] = "poll" \/ (pc[c] = "read" /\ kind[c] = "start")
    <3>1. kind[c] = "start"
      BY <1>0, <2>4 DEF Placed, Starting
    <3> QED
      BY <1>0, <1>1, <1>2, <2>4, <3>1, OneRecorded DEF Whereabouts
  <2>5. CASE pc[c] = "kill"
    BY <1>0, <1>1, <1>2, <2>5, OneRecorded DEF Whereabouts
  <2> QED
    BY <1>3, <2>1, <2>2, <2>3, <2>4, <2>5 DEF Label
<1> QED
  BY <1>0, <1>1, <1>4, OneEnds

\* The steps of a start, up to the daemon that answers or does not.
LEMMA StartStep ==
  ASSUME IInv, calm', NEW c \in Commands,
         \/ Detect(c) \/ Ask(c) \/ Spawn(c) \/ Truncate(c) \/ WritePid(c) \/ Poll(c) \/ GiveUp(c)
  PROVE  Known'
<1>0. /\ calm /\ TypeOK /\ \A d \in Commands : d # c => ~Active(d)
      /\ Placed(c) /\ Whereabouts(c) /\ Mine(c)
  <2>1. calm /\ Active(c)
    BY DEF Detect, Ask, Spawn, Truncate, WritePid, Poll, GiveUp, Held, Active, Ended, IInv, TypeOK
  <2> QED
    BY <2>1, AtWork
<1>a. /\ proc \in [Pids -> Proc] /\ parent \in [Pids -> Commands \cup {Absent}]
      /\ pc \in [Commands -> Label] /\ child \in [Commands -> Pids \cup {Absent}]
  BY <1>0 DEF TypeOK
<1> USE DEF Go, End, Held, Running, files, local
<1>1. CASE Detect(c)
  <2>1. Recorded /\ UNCHANGED <<pidfile, lost>>
    BY <1>0, <1>1 DEF Detect, Whereabouts
  <2>2. Reap(c) \/ UNCHANGED <<proc, parent>>
    BY <1>1 DEF Detect
  <2>3. Recorded'
    BY <1>0, <2>1, <2>2, ReapShrinks, ShrinksKeeps
  <2>4. CASE pc' = [pc EXCEPT ![c] = "err"]
    BY <1>0, <2>3, <2>4, OneEnds
  <2>5. CASE pc' = [pc EXCEPT ![c] = "ask"]
    <3>1. Whereabouts(c)' /\ Mine(c)'
      BY <1>a, <2>3, <2>5 DEF Whereabouts, Mine, Stopping
    <3> QED
      BY <1>0, <2>3, <2>5, <3>1, OneMoves DEF Label
  <2> QED
    BY <1>1, <2>4, <2>5 DEF Detect
<1>2. CASE Ask(c)
  <2>1. Recorded /\ UNCHANGED pidfile
    BY <1>0, <1>2 DEF Ask, Whereabouts
  <2>2. CASE pc' = [pc EXCEPT ![c] = "ok"] /\ Reap(c) /\ UNCHANGED lost
    <3>1. Recorded'
      BY <1>0, <2>1, <2>2, ReapShrinks, ShrinksKeeps
    <3> QED
      BY <1>0, <2>2, <3>1, OneEnds
  <2>3. CASE pc' = [pc EXCEPT ![c] = "spawn"] /\ UNCHANGED <<proc, parent>>
             /\ lost' = lost \cup {p \in Pids : Runtime(p)}
    <3>1. NoDaemon'
      BY <2>3 DEF NoDaemon, Runtime
    <3>2. Whereabouts(c)' /\ Mine(c)'
      BY <1>a, <2>3, <3>1 DEF Whereabouts, Mine, Stopping
    <3> QED
      BY <1>0, <2>3, <3>2, OneMoves DEF Label
  <2> QED
    BY <1>2, <2>2, <2>3 DEF Ask
<1>3. CASE Spawn(c)
  <2>1. NoDaemon
    BY <1>0, <1>3 DEF Spawn, Whereabouts
  <2>2. CASE End(c, "err") /\ UNCHANGED lost
    <3>1. Recorded'
      BY <1>0, <2>1, <2>2, ReapShrinks, ShrinksKeeps, NoneRecorded
    <3> QED
      BY <1>0, <2>2, <3>1, OneEnds
  <2>3. ASSUME NEW p \in Pids, proc' = [proc EXCEPT ![p] = "boot"], parent' = [parent EXCEPT ![p] = c],
               child' = [child EXCEPT ![c] = p], pc' = [pc EXCEPT ![c] = "truncate"], lost' = lost \ {p}
        PROVE  Known'
    <3>1. pc'[c] = "truncate" /\ child'[c] = p /\ proc'[p] = "boot" /\ parent'[p] = c
      BY <1>a, <2>3
    <3>2. \A q \in Pids : Runtime(q)' => q = p \/ q \in lost'
      BY <1>a, <2>1, <2>3 DEF NoDaemon, Runtime
    <3>3. OnlyDaemon(child[c])'
      BY <3>1, <3>2 DEF OnlyDaemon
    <3>4. Whereabouts(c)' /\ Mine(c)'
      BY <3>1, <3>3 DEF Whereabouts, Mine
    <3> QED
      BY <1>0, <2>3, <3>4, OneMoves DEF Label
  <2> QED
    BY <1>3, <2>2, <2>3 DEF Spawn
<1>4. CASE Truncate(c) \/ WritePid(c)
  <2>0. /\ UNCHANGED <<child, kind>> /\ pc[c] \in {"truncate", "write"} /\ kind[c] = "start"
        /\ OnlyDaemon(child[c])
    BY <1>0, <1>4 DEF Truncate, WritePid, Placed, Starting, Whereabouts
  <2>1. CASE NotWritten(c)
    <3>1. /\ pc' = [pc EXCEPT ![c] = "err"] /\ Reap(c) /\ lost' = lost \cup {child[c]}
      BY <2>1 DEF NotWritten
    <3>2. Recorded'
      BY <1>0, <2>0, <3>1, ReapShrinks, OneRecorded
    <3> QED
      BY <1>0, <3>1, <3>2, OneEnds
  <2>2. ASSUME NEW l \in {"write", "poll"}, pc' = [pc EXCEPT ![c] = l],
               UNCHANGED <<proc, parent, lost>>, l = "poll" => pidfile' = child[c]
        PROVE  Known'
    <3>1. pc'[c] = l
      BY <1>a, <2>2
    <3>2. OnlyDaemon(child[c])'
      BY <2>0, <2>2 DEF OnlyDaemon, Runtime
    <3>3. Whereabouts(c)' /\ Mine(c)'
      BY <1>0, <2>0, <2>2, <3>1, <3>2 DEF Whereabouts, Mine
    <3> QED
      BY <1>0, <2>2, <3>3, OneMoves DEF Label
  <2> QED
    BY <1>4, <2>1, <2>2 DEF Truncate, WritePid
<1>5. CASE Poll(c)
  <2>1. /\ OnlyDaemon(child[c]) /\ pidfile = child[c] /\ UNCHANGED <<pidfile, child, kind, lost>>
        /\ kind[c] = "start" /\ pc[c] = "poll"
    BY <1>0, <1>5 DEF Poll, Whereabouts, Placed, Starting
  <2>2. CASE pc' = [pc EXCEPT ![c] = "ok"] /\ Reap(c)
    <3>1. Recorded'
      BY <1>0, <2>1, <2>2, ReapShrinks, OneRecorded
    <3> QED
      BY <1>0, <2>2, <3>1, OneEnds
  <2>3. CASE UNCHANGED <<pc, proc, parent>>
    <3>1. pc' = [pc EXCEPT ![c] = "poll"]
      BY <1>a, <2>1, <2>3
    <3>2. OnlyDaemon(child[c])'
      BY <2>1, <2>3 DEF OnlyDaemon, Runtime
    <3>3. Whereabouts(c)' /\ Mine(c)'
      BY <1>0, <2>1, <2>3, <3>2 DEF Whereabouts, Mine
    <3> QED
      BY <1>0, <3>1, <3>3, OneMoves DEF Label
  <2> QED
    BY <1>5, <2>2, <2>3 DEF Poll
<1>6. CASE GiveUp(c)
  <2>1. /\ pc' = [pc EXCEPT ![c] = "read"] /\ UNCHANGED <<proc, parent, pidfile, child, kind, lost>>
        /\ kind[c] = "start" /\ pc[c] = "poll"
    BY <1>0, <1>6 DEF GiveUp, Placed, Starting
  <2>2. pc'[c] = "read"
    BY <1>a, <2>1
  <2>3. OnlyDaemon(child[c])'
    BY <1>0, <2>1 DEF Whereabouts, OnlyDaemon, Runtime
  <2>4. Whereabouts(c)' /\ Mine(c)'
    BY <1>0, <2>1, <2>2, <2>3 DEF Whereabouts, Mine, Stopping
  <2> QED
    BY <1>0, <2>1, <2>4, OneMoves DEF Label
<1> QED
  BY <1>1, <1>2, <1>3, <1>4, <1>5, <1>6

\* What comes after stop_proxy: whoever is left is on record if it failed, and
\* lost if it did not.
LEMMA FollowStep ==
  ASSUME TypeOK, Control, NEW c \in Commands, \A d \in Commands : d # c => ~Active(d),
         pc[c] \in Stopping, NEW res \in {"ok", "err", "notfound"}, Follow(c, res), Shrinks, Recorded',
         res = "err" \/ NoDaemon' \/ Stopped(c, res) = "err"
  PROVE  Known'
<1>1. PICK l \in {"ok", "err", "restore", "purge"} :
        /\ pc' = [pc EXCEPT ![c] = l]
        /\ l \in {"restore", "purge"} => res # "err" /\ l = Stopped(c, res)
  <2>1. kind[c] \in Kind
    BY DEF Control, Placed, Stopping
  <2>2. /\ Stopped(c, res) \in {"ok", "err", "restore", "purge"}
        /\ Stopped(c, res) \in {"restore", "purge"} => res # "err"
    BY <2>1 DEF Stopped, Kind
  <2>3. pc' = [pc EXCEPT ![c] = Stopped(c, res)]
    BY <2>2 DEF Follow, End, Go
  <2> QED
    BY <2>2, <2>3
<1>4. CASE l \in {"ok", "err"}
  BY <1>1, <1>4, OneEnds
<1>5. CASE l \in {"restore", "purge"}
  <2>1. NoDaemon'
    BY <1>1, <1>5
  <2>2. pc'[c] = l
    BY <1>1 DEF TypeOK
  <2>3. Whereabouts(c)' /\ Mine(c)'
    BY <1>5, <2>1, <2>2 DEF Whereabouts, Mine, Stopping
  <2> QED
    BY <1>1, <1>5, <2>3, OneMoves DEF Label
<1> QED
  BY <1>4, <1>5

\* A command that follows does nothing else to the processes.
LEMMA FollowShrinks ==
  ASSUME TypeOK, Control, NEW c \in Commands, pc[c] \in Stopping, NEW res \in {"ok", "err", "notfound"},
         Follow(c, res), lost \subseteq lost'
  PROVE  Shrinks
<1>1. Reap(c) \/ UNCHANGED <<proc, parent>>
  BY FollowFacts DEF Running
<1> QED
  BY <1>1, ReapShrinks

\* The steps that stop the daemon, and what uninstall and purge do after it.
LEMMA StopStep ==
  ASSUME IInv, calm', NEW c \in Commands,
         \/ StopCompanion(c) \/ ReadPid(c) \/ KillIt(c) \/ RemovePid(c) \/ Restore(c) \/ Purge(c)
  PROVE  Known'
<1>0. /\ calm /\ TypeOK /\ Control /\ \A d \in Commands : d # c => ~Active(d)
      /\ Placed(c) /\ Whereabouts(c) /\ Mine(c)
  <2>1. calm /\ Active(c)
    BY DEF StopCompanion, ReadPid, KillIt, RemovePid, Restore, Purge, Held, Active, Ended
  <2> QED
    BY <2>1, AtWork
<1>a. /\ proc \in [Pids -> Proc] /\ parent \in [Pids -> Commands \cup {Absent}]
      /\ pc \in [Commands -> Label] /\ child \in [Commands -> Pids \cup {Absent}]
      /\ target \in [Commands -> Pids \cup {Absent}] /\ pidfile \in File
  BY <1>0 DEF TypeOK
<1> USE DEF Go, End, Held, Running, files, local
<1>1. CASE StopCompanion(c)
  <2>1. /\ pc' = [pc EXCEPT ![c] = "read"] /\ UNCHANGED <<pidfile, kind, lost>> /\ pc[c] = "companion"
        /\ UNCHANGED proc \/ proc' = [proc EXCEPT ![companion] = Dead(companion)]
    BY <1>1 DEF StopCompanion
  <2>2. Shrinks
    BY <1>a, <2>1 DEF Shrinks, Runtime, Dead
  <2>3. Recorded' /\ kind'[c] # "start" /\ pc'[c] = "read"
    BY <1>0, <1>a, <2>1, <2>2, ShrinksKeeps DEF Whereabouts, Placed
  <2>4. Whereabouts(c)' /\ Mine(c)'
    BY <2>3 DEF Whereabouts, Mine
  <2> QED
    BY <1>0, <2>1, <2>4, OneMoves DEF Label
<1>2. CASE ReadPid(c)
  <2>0. pc[c] = "read" /\ UNCHANGED <<pidfile, child, kind, lost>>
    BY <1>2 DEF ReadPid
  <2>a. Recorded
    <3>1. CASE kind[c] = "start"
      BY <1>0, <2>0, <3>1 DEF Whereabouts, Recorded, OnlyDaemon
    <3>2. CASE kind[c] # "start"
      BY <1>0, <2>0, <3>2 DEF Whereabouts
    <3> QED
      BY <3>1, <3>2
  <2>1. CASE pidfile \in Pids /\ target' = [target EXCEPT ![c] = pidfile] /\ Go(c, "kill") /\ Running
    <3>2. pc'[c] = "kill" /\ target'[c] = pidfile
      BY <1>a, <2>1
    <3>3. OnlyDaemon(target[c])'
      BY <2>0, <2>1, <2>a, <3>2 DEF OnlyDaemon, Recorded, Runtime
    <3>4. kind[c] = "start" => pidfile = child[c]
      BY <1>0, <2>0 DEF Whereabouts
    <3>5. Whereabouts(c)'
      BY <2>0, <3>2, <3>3, <3>4 DEF Whereabouts
    <3>6. Mine(c)'
      BY <1>0, <2>0, <2>1, <3>2 DEF Mine, Stopping
    <3> QED
      BY <1>0, <2>1, <3>5, <3>6, OneMoves DEF Label
  <2>2. CASE \E res \in {"err", "notfound"} : Follow(c, res) /\ (res = "notfound" => pidfile = Absent)
    <3>1. PICK res \in {"err", "notfound"} : Follow(c, res) /\ (res = "notfound" => pidfile = Absent)
      BY <2>2
    <3>2. Shrinks
      BY <1>0, <2>0, <3>1, FollowShrinks DEF Stopping
    <3>3. Recorded'
      BY <2>0, <2>a, <3>2, ShrinksKeeps
    <3>4. res = "notfound" => NoDaemon
      BY <2>a, <3>1, FilesAssumption DEF Recorded, NoDaemon
    <3>5. res = "err" \/ NoDaemon'
      BY <3>1, <3>2, <3>4, ShrinksKeeps
    <3> QED
      BY <1>0, <2>0, <3>1, <3>2, <3>3, <3>5, FollowStep DEF Stopping
  <2> QED
    BY <1>2, <2>1, <2>2 DEF ReadPid
<1>3. CASE KillIt(c)
  <2>1. /\ pc[c] = "kill" /\ UNCHANGED <<pidfile, child, target, kind>> /\ target[c] \in Pids
        /\ OnlyDaemon(target[c]) /\ pidfile = target[c]
    BY <1>0, <1>3 DEF KillIt, Placed, Whereabouts
  <2>2. ASSUME NEW res \in {"err", "notfound"}, Follow(c, res), lost \subseteq lost',
               res = "err" \/ Stopped(c, res) = "err" \/ target[c] \in lost'
        PROVE  Known'
    <3>1. Shrinks
      BY <1>0, <2>1, <2>2, FollowShrinks DEF Stopping
    <3>2. Recorded'
      BY <2>1, <3>1, OneRecorded
    <3>3. target[c] \in lost' => NoDaemon'
      BY <2>1, <3>1, ShrinksKeeps DEF NoDaemon
    <3> QED
      BY <1>0, <2>1, <2>2, <3>1, <3>2, <3>3, FollowStep DEF Stopping
  <2>3. CASE CannotKill(c)
    <3>1. CASE Follow(c, "err") /\ UNCHANGED lost
      BY <2>2, <3>1
    <3>2. CASE Follow(c, "notfound") /\ lost' = IF Stopped(c, "notfound") = "err" THEN lost ELSE lost \cup {target[c]}
      BY <2>2, <3>2
    <3> QED
      BY <2>3, <3>1, <3>2 DEF CannotKill
  <2>4. CASE Follow(c, "err") /\ UNCHANGED lost
    BY <2>2, <2>4
  <2>5. CASE /\ proc' = [proc EXCEPT ![target[c]] = Dead(target[c])] /\ UNCHANGED <<parent, lost>>
             /\ pc' = [pc EXCEPT ![c] = "remove"]
    <3>2. NoDaemon'
      BY <1>a, <2>1, <2>5 DEF OnlyDaemon, NoDaemon, Runtime, Dead
    <3>3. pc'[c] = "remove"
      BY <1>a, <2>5
    <3>4. Whereabouts(c)'
      BY <3>2, <3>3 DEF Whereabouts
    <3>5. Mine(c)'
      <4>1. ASSUME kind[c] = "start"
            PROVE  child[c] \in Pids /\ parent[child[c]] = c /\ target[c] = child[c]
        BY <1>0, <2>1, <4>1 DEF Mine, Whereabouts, Stopping
      <4>2. ASSUME kind[c] = "start"
            PROVE  proc'[child[c]] = "zombie"
        BY <1>a, <2>1, <2>5, <4>1, <4>2, FilesAssumption DEF Dead
      <4> QED
        BY <2>1, <2>5, <3>3, <4>1, <4>2 DEF Mine
    <3> QED
      BY <1>0, <2>5, <3>4, <3>5, OneMoves DEF Label
  <2> QED
    BY <1>3, <2>3, <2>4, <2>5 DEF KillIt
<1>4. CASE RemovePid(c)
  <2>1. PICK res \in {"ok", "err", "notfound"} : pc[c] = "remove" /\ Follow(c, res) /\ UNCHANGED lost
    BY <1>4 DEF RemovePid
  <2>2. Shrinks
    BY <1>0, <2>1, FollowShrinks DEF Stopping
  <2>3. NoDaemon' /\ Recorded'
    BY <1>0, <2>1, <2>2, ShrinksKeeps, NoneRecorded DEF Whereabouts
  <2> QED
    BY <1>0, <2>1, <2>2, <2>3, FollowStep DEF Stopping
<1>5. CASE Restore(c) \/ Purge(c)
  <2>1. NoDaemon
    BY <1>0, <1>5 DEF Restore, Purge, Whereabouts
  <2>2. (Reap(c) \/ UNCHANGED <<proc, parent>>) /\ UNCHANGED lost
    BY <1>5 DEF Restore, Purge
  <2>3. NoDaemon' /\ Recorded'
    BY <1>0, <2>1, <2>2, ReapShrinks, ShrinksKeeps, NoneRecorded
  <2>4. CASE pc' = [pc EXCEPT ![c] = "purge"]
    <3>1. pc'[c] = "purge"
      BY <1>a, <2>4
    <3>2. Whereabouts(c)' /\ Mine(c)'
      BY <2>3, <3>1 DEF Whereabouts, Mine, Stopping
    <3> QED
      BY <1>0, <2>4, <3>2, OneMoves DEF Label
  <2>5. CASE \E l \in {"ok", "err"} : pc' = [pc EXCEPT ![c] = l]
    BY <1>0, <2>3, <2>5, OneEnds
  <2> QED
    BY <1>5, <2>4, <2>5 DEF Restore, Purge
<1> QED
  BY <1>1, <1>2, <1>3, <1>4, <1>5

LEMMA KnownStep ==
  ASSUME IInv, Next, calm'
  PROVE  Known'
<1>1. CASE \E p \in Pids : Boot(p) \/ Crash(p)
  <2>1. calm
    BY <1>1 DEF Boot, Crash
  <2> QED
    BY <1>1, <2>1, ProcessStep
<1>2. CASE Configure \/ Finished
  <2>1. UNCHANGED <<proc, parent, pidfile, kind, pc, child, target, calm, lost>>
    BY <1>2 DEF Configure, Finished, vars, local
  <2> QED
    BY <2>1 DEF IInv, Known, Serial, Active, Ended, Quiet, Recorded, Runtime, Whereabouts, NoDaemon,
                OnlyDaemon, Mine
<1> QED
  BY <1>1, <1>2, BeginStep, InterruptStep, StartStep, StopStep, RebootStep DEF Next, Step

-----------------------------------------------------------------------------
(* The theorems                                                            *)

LEMMA InitIInv == Init => IInv
<1> SUFFICES ASSUME Init
             PROVE  IInv
  OBVIOUS
<1>1. TypeOK
  BY PollsAssumption DEF Init, TypeOK, Proc, File, Label
<1>2. NoDaemon
  BY DEF Init, NoDaemon, Runtime
<1>3. \A c \in Commands : Placed(c) /\ Whereabouts(c) /\ Mine(c) /\ ~Active(c)
  <2>1. pc = [c \in Commands |-> "idle"] /\ child = [c \in Commands |-> Absent]
    BY DEF Init
  <2>2. \A c \in Commands : pc[c] = "idle" /\ child[c] = Absent
    BY ONLY <2>1
  <2> QED
    BY ONLY <2>2 DEF Placed, Whereabouts, Mine, Starting, Stopping, Active
<1>4. Known
  BY <1>2, <1>3, NoneRecorded DEF Known, Serial
<1> QED
  BY <1>1, <1>3, <1>4 DEF IInv, Control

LEMMA NextIInv == IInv /\ [Next]_vars => IInv'
<1> SUFFICES ASSUME IInv, [Next]_vars
             PROVE  IInv'
  OBVIOUS
<1>1. CASE Next
  <2>1. TypeOK' /\ Control'
    BY <1>1, TypeStep, ControlStep DEF IInv
  <2>2. calm' => Known'
    BY <1>1, KnownStep
  <2> QED
    BY <2>1, <2>2 DEF IInv
<1>2. CASE UNCHANGED vars
  <2>1. UNCHANGED <<proc, at, parent, pidfile, companion, managed, kind, pc, port, child, target, polls,
                    alone, calm, lost>>
    BY <1>2 DEF vars
  <2>2. TypeOK' /\ Control'
    BY <2>1 DEF IInv, TypeOK, Control, Placed
  <2>3. calm' => Known'
    BY <2>1 DEF IInv, Known, Serial, Active, Ended, Quiet, Recorded, Runtime, Whereabouts, NoDaemon,
                OnlyDaemon, Mine
  <2> QED
    BY <2>2, <2>3 DEF IInv
<1> QED
  BY <1>1, <1>2

\* The inductive invariant: while commands follow each other, where the one at
\* work is says which daemons there are, lost ones apart, and whether proxy.pid
\* names them.
THEOREM InvCorrect == Spec => []IInv
BY InitIInv, NextIInv, PTL DEF Spec

\* Every variable keeps its type.
THEOREM TypeCorrect == Spec => []TypeOK
BY InvCorrect, PTL DEF IInv

\* Between commands proxy.pid names every daemon there is, so that stop,
\* uninstall and purge find it, but those one of the four events has lost.
THEOREM StoppableSafe == Spec => []Stoppable
<1>1. IInv => Stoppable
  BY DEF IInv, Known, Recorded, Stoppable
<1> QED
  BY <1>1, InvCorrect, PTL

\* The step that ends a command is its own.
LEMMA OwnStep ==
  ASSUME IInv, Next, NEW c \in Commands, pc'[c] # pc[c], pc'[c] \in {"ok", "err"}
  PROVE  Step(c)
<1>0. TypeOK /\ Control /\ pc \in [Commands -> Label]
  BY DEF IInv, TypeOK
<1>1. ~(\E p \in Pids : Boot(p) \/ Crash(p)) /\ ~Reboot /\ ~Configure /\ ~Finished
  BY <1>0 DEF Boot, Crash, Reboot, Configure, Finished, vars, Active, Ended
<1>2. PICK d \in Commands : Step(d)
  BY <1>1 DEF Next
<1>3. d = c
  BY <1>0, <1>2, OneLabel
<1> QED
  BY <1>2, <1>3

\* What a start leaves when it fails.
LEMMA FailedStep ==
  ASSUME IInv, Next, NEW c \in Commands, calm, kind[c] = "start", child[c] # Absent,
         pc[c] # "err", pc'[c] = "err"
  PROVE  FailedBy(c)
<1>0. /\ TypeOK /\ Control /\ proc \in [Pids -> Proc] /\ child \in [Commands -> Pids \cup {Absent}]
      /\ pc \in [Commands -> Label]
  BY DEF IInv, TypeOK
<1>1. Step(c)
  BY OwnStep
<1> USE DEF Go, End, Held, Running, files, local
<1>2. CASE Begin(c) \/ Interrupt(c) \/ Detect(c) \/ Ask(c) \/ Spawn(c)
  <2>1. CASE Begin(c) \/ Interrupt(c)
    BY <1>0, <2>1 DEF Begin, Interrupt
  <2>2. CASE Detect(c) \/ Ask(c) \/ Spawn(c)
    BY <1>0, <2>2 DEF Detect, Ask, Spawn, Control, Placed
  <2> QED
    BY <1>2, <2>1, <2>2
<1>3. CASE Truncate(c) \/ WritePid(c)
  BY <1>0, <1>3 DEF Truncate, WritePid, NotWritten, FailedBy
<1>4. CASE Poll(c) \/ GiveUp(c) \/ StopCompanion(c)
  BY <1>0, <1>4 DEF Poll, GiveUp, StopCompanion
<1>5. CASE ReadPid(c) \/ KillIt(c) \/ RemovePid(c)
  <2>1. /\ Active(c) /\ pc[c] \in Stopping
    BY <1>5 DEF ReadPid, KillIt, RemovePid, Stopping, Active, Ended
  <2>2. Mine(c) /\ Whereabouts(c)
    BY <2>1, AtWork
  <2>3. CASE ReadPid(c)
    <3>1. pidfile' = child[c] /\ pc[c] = "read"
      BY <2>2, <2>3 DEF ReadPid, Whereabouts
    <3> QED
      BY <3>1 DEF FailedBy
  <2>4. CASE KillIt(c)
    <3>1. pidfile' = child[c] /\ pc[c] = "kill"
      BY <2>2, <2>4 DEF KillIt, Whereabouts
    <3> QED
      BY <3>1 DEF FailedBy
  <2>5. CASE RemovePid(c)
    <3>1. child[c] \in Pids /\ parent[child[c]] = c /\ proc[child[c]] = "zombie"
      BY <2>1, <2>2, <2>5 DEF RemovePid, Mine
    <3>2. \E res \in {"ok", "err", "notfound"} : Follow(c, res)
      BY <2>5 DEF RemovePid
    <3>3. Reap(c)
      BY <1>0, <2>1, <3>2, FollowFacts
    <3>4. proc'[child[c]] = "none"
      BY <1>0, <3>1, <3>3, ReapFacts
    <3> QED
      BY <3>4 DEF FailedBy
  <2> QED
    BY <1>5, <2>3, <2>4, <2>5
<1>6. CASE Restore(c) \/ Purge(c)
  BY <1>0, <1>6 DEF Restore, Purge, Control, Placed
<1> QED
  BY <1>1, <1>2, <1>3, <1>4, <1>5, <1>6 DEF Step

\* A start that reports a failure has left no daemon of its own behind whose pid
\* was written, or the file still names it, for it could not be stopped.
THEOREM FailedStartSafe == Spec => FailedStartLeavesNothing
<1>1. IInv /\ [Next]_vars =>
        [\A c \in Commands :
           /\ calm /\ kind[c] = "start" /\ child[c] # Absent
           /\ pc[c] # "err" /\ pc'[c] = "err"
           => FailedBy(c)]_vars
  BY FailedStep
<1> QED
  BY <1>1, InvCorrect, PTL DEF Spec, FailedStartLeavesNothing

\* What a command has done when it says so.
LEMMA SuccessStep ==
  ASSUME IInv, Next, NEW c \in Commands, pc[c] # "ok", pc'[c] = "ok", calm
  PROVE  IF kind[c] = "start" THEN StartedBy(c) ELSE StoppedBy(c)
<1>0. /\ TypeOK /\ Control /\ pc \in [Commands -> Label] /\ child \in [Commands -> Pids \cup {Absent}]
      /\ proc \in [Pids -> Proc]
  BY DEF IInv, TypeOK
<1>1. Step(c)
  BY OwnStep
<1> USE DEF Go, End, Held, Running, files, local
<1>2. CASE Begin(c) \/ Interrupt(c) \/ Detect(c) \/ Spawn(c) \/ Truncate(c) \/ WritePid(c)
  BY <1>0, <1>2 DEF Begin, Interrupt, Detect, Spawn, Truncate, WritePid, NotWritten
<1>3. CASE GiveUp(c) \/ StopCompanion(c) \/ KillIt(c) \/ ReadPid(c) \/ Restore(c)
  <2>1. CASE GiveUp(c) \/ StopCompanion(c) \/ Restore(c)
    BY <1>0, <2>1 DEF GiveUp, StopCompanion, Restore
  <2>2. CASE KillIt(c) \/ ReadPid(c)
    <3>1. \/ \E l \in {"kill", "remove"} : pc' = [pc EXCEPT ![c] = l]
          \/ pc[c] \in Stopping /\ \E res \in {"err", "notfound"} : Follow(c, res)
      BY <2>2 DEF KillIt, CannotKill, ReadPid, Stopping
    <3> QED
      BY <1>0, <3>1, FollowFacts
  <2> QED
    BY <1>3, <2>1, <2>2
<1>4. CASE Ask(c) \/ Poll(c)
  <2>1. kind[c] = "start" /\ Answered(c) /\ Reap(c) /\ UNCHANGED <<pidfile, child>> /\ Active(c)
    BY <1>0, <1>4 DEF Ask, Poll, Control, Placed, Starting, Active, Ended
  <2>2. PICK p \in Pids : proc[p] = "up" /\ at[p] = port[c]
    BY <2>1 DEF Answered, Up
  <2>3. proc'[p] = "up"
    BY <1>0, <2>1, <2>2, ReapFacts
  <2>4. p \in lost \/ (pidfile = p /\ child[c] \in {p, Absent})
    <3>1. CASE Ask(c)
      <4>1. child[c] = Absent /\ Recorded
        BY <1>0, <2>1, <3>1, AtWork DEF Ask, Control, Placed, Whereabouts
      <4> QED
        BY <2>2, <4>1 DEF Recorded, Runtime
    <3>2. CASE Poll(c)
      <4>1. OnlyDaemon(child[c]) /\ pidfile = child[c]
        BY <2>1, <3>2, AtWork DEF Poll, Whereabouts
      <4> QED
        BY <2>2, <4>1 DEF OnlyDaemon, Runtime
    <3> QED
      BY <1>4, <3>1, <3>2
  <2> QED
    BY <2>1, <2>2, <2>3, <2>4 DEF StartedBy
<1>5. CASE RemovePid(c)
  <2>1. PICK res \in {"ok", "err", "notfound"} :
          Follow(c, res) /\ pc[c] = "remove" /\ (res = "ok" => pidfile' = Absent) /\ UNCHANGED lost
    BY <1>5 DEF RemovePid
  <2>2. kind[c] = "stop" /\ res = "ok" /\ Reap(c)
    BY <1>0, <2>1, FollowFacts DEF Stopping
  <2>3. NoDaemon
    BY <1>5, AtWork DEF RemovePid, Whereabouts, Active, Ended
  <2>4. NoDaemon'
    BY <1>0, <2>1, <2>2, <2>3, ReapShrinks, ShrinksKeeps
  <2> QED
    BY <2>1, <2>2, <2>4 DEF StoppedBy, NoDaemon, Runtime
<1>6. CASE Purge(c)
  <2>1. pidfile' = Absent /\ managed' = FALSE /\ Reap(c) /\ kind[c] # "start" /\ UNCHANGED lost
    BY <1>0, <1>6 DEF Purge, Control, Placed
  <2>2. NoDaemon
    BY <1>6, AtWork DEF Purge, Whereabouts, Active, Ended
  <2>3. NoDaemon'
    BY <1>0, <2>1, <2>2, ReapShrinks, ShrinksKeeps
  <2> QED
    BY <2>1, <2>3 DEF StoppedBy, NoDaemon, Runtime
<1> QED
  BY <1>1, <1>2, <1>3, <1>4, <1>5, <1>6 DEF Step

\* A command that nothing disturbed and that reports success has done what it is
\* for: the proxy answers and is on record, or there is no daemon and no file,
\* but for lost daemons.
THEOREM SuccessIsTrueSafe == Spec => SuccessIsTrue
<1>1. IInv /\ [Next]_vars =>
        [\A c \in Commands : pc[c] # "ok" /\ pc'[c] = "ok" /\ alone[c] /\ calm =>
           IF kind[c] = "start" THEN StartedBy(c) ELSE StoppedBy(c)]_vars
  BY SuccessStep
<1> QED
  BY <1>1, InvCorrect, PTL DEF Spec, SuccessIsTrue
=============================================================================
