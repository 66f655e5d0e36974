---------------------------- MODULE FilesProofs -----------------------------
(***************************************************************************)
(* What the two parts that change files in several steps guarantee when a  *)
(* step fails or the process ends between two of them: write_transaction,  *)
(* for every number of calls and every list of writes, of any length and   *)
(* over any files (AtomicFile); and the rotation of the API log, for every *)
(* number of archives, every bound on a file and every set of line lengths *)
(* (ApiLog, as the instance Log).                                          *)
(***************************************************************************)
EXTENDS AtomicFile, ApiLog, SequenceTheorems, TLAPS

\* What PlanAssumption says of one call.
LEMMA PlanFacts ==
  ASSUME NEW w \in Writers
  PROVE  /\ Size(w) \in Nat /\ DOMAIN Plan[w] = 1 .. Size(w)
         /\ \A i \in DOMAIN Plan[w] : Plan[w][i].file \in Files /\ Plan[w][i].new \in Content
         /\ \A i, j \in DOMAIN Plan[w] : Plan[w][i].file = Plan[w][j].file => i = j
<1>1. Plan[w] \in Seq([file : Files, new : Contents])
  BY PlanAssumption
<1>2. \A i, j \in DOMAIN Plan[w] : Plan[w][i].file = Plan[w][j].file => i = j
  BY PlanAssumption
<1>3. DOMAIN Plan[w] = 1 .. Len(Plan[w]) /\ Len(Plan[w]) \in Nat
  BY <1>1, LenProperties
<1>4. \A i \in DOMAIN Plan[w] : Plan[w][i] \in [file : Files, new : Contents]
  BY <1>1, <1>3, ElementOfSeq
<1> QED
  BY <1>2, <1>3, <1>4 DEF Size, Content

\* The original that comes next has been read, and is a content.
LEMMA OriginalType ==
  ASSUME TypeOK, NEW w \in Writers, Originals(w), Restoring(w)
  PROVE  /\ at[w] \in DOMAIN Plan[w] /\ at[w] \in DOMAIN old[w]
         /\ Original(w) \in Content
<1>1. at[w] \in Nat /\ at[w] =< Size(w) /\ old[w] \in Seq(Content) /\ at[w] > 0
  BY DEF TypeOK, Restoring
<1>2. at[w] =< Len(old[w])
  BY DEF Originals, Restoring
<1> QED
  BY <1>1, <1>2, PlanFacts DEF Original

LEMMA TypeStep ==
  ASSUME IInv, NEW w \in Writers, Step(w)
  PROVE  TypeOK'
<1> USE DEF TypeOK
<1>0. TypeOK /\ Originals(w)
  BY DEF IInv
<1>1. CASE Begin(w)
  BY ONLY <1>0, <1>1 DEF Begin, Pc, TypeOK
<1>2. CASE Stage(w)
  <2> DEFINE i == at[w] + 1
  <2>1. i \in DOMAIN Plan[w] /\ disk[Plan[w][i].file] \in Content /\ i =< Size(w)
    BY <1>0, <1>2, PlanFacts DEF Stage
  <2>2. Len(old[w]) = at[w] /\ old[w] \in Seq(Content)
    BY <1>0, <1>2 DEF Originals, Stage
  <2>3. Append(old[w], disk[Plan[w][i].file]) \in Seq(Content)
    BY <2>1, <2>2
  <2>4. Len(Append(old[w], disk[Plan[w][i].file])) = i
    BY <2>1, <2>2
  <2>5. old' = [old EXCEPT ![w] = Append(old[w], disk[Plan[w][i].file])] /\ at' = [at EXCEPT ![w] = i]
    BY <1>2 DEF Stage
  <2>6. temps' = temps \cup {<<w, i, "new">>}
    BY <1>2 DEF Stage
  <2>7. i \in Nat
    BY <1>0
  <2> HIDE DEF i
  <2>8. old' \in [Writers -> Seq(Content)] /\ \A v \in Writers : Len(old'[v]) =< Size(v)
    BY <1>0, <2>1, <2>3, <2>4, <2>5
  <2>9. at' \in [Writers -> Nat] /\ \A v \in Writers : at'[v] =< Size(v)
    BY <1>0, <2>1, <2>5, <2>7
  <2>10. temps' \subseteq Writers \X Nat \X {"new", "old"}
    BY <1>0, <2>6, <2>7
  <2> QED
    BY <1>0, <1>2, <2>8, <2>9, <2>10 DEF Stage
<1>3. CASE StageFails(w) \/ Staged(w) \/ ReplaceFails(w) \/ Committed(w) \/ RolledBack(w) \/ Crash(w)
  <2>1. /\ pc' \in [Writers -> Pc]
        /\ UNCHANGED <<disk, temps, old, failed, before, touched>>
        /\ at' = at \/ at' = [at EXCEPT ![w] = 0]
    BY <1>0, <1>3 DEF StageFails, Staged, ReplaceFails, Committed, RolledBack, Crash, Pc
  <2>2. \A v \in Writers : at'[v] = at[v] \/ at'[v] = 0
    BY <1>0, <2>1
  <2>3. at' \in [Writers -> Nat] /\ \A v \in Writers : at'[v] =< Size(v)
    <3>0. at \in [Writers -> Nat] /\ \A v \in Writers : at[v] =< Size(v)
      BY <1>0
    <3>1. at' \in [Writers -> Nat]
      BY ONLY <3>0, <2>1
    <3>2. \A v \in Writers : Size(v) \in Nat
      BY PlanFacts
    <3>3. \A v \in Writers : at'[v] =< Size(v)
      BY ONLY <3>0, <2>2, <3>2
    <3> QED
      BY <3>1, <3>3
  <2> QED
    BY <1>0, <2>1, <2>3
<1>4. CASE Replace(w)
  <2> DEFINE i == at[w] + 1
  <2>1. i \in DOMAIN Plan[w] /\ Plan[w][i].new \in Content /\ i =< Size(w)
    BY <1>0, <1>4, PlanFacts DEF Replace
  <2>2. at' = [at EXCEPT ![w] = i] /\ temps' \subseteq temps /\ UNCHANGED <<pc, old, failed, before>>
    BY <1>4 DEF Replace
  <2>3. Put(w, Plan[w][i].file, Plan[w][i].new)
    BY <1>4 DEF Replace
  <2>4. disk' \in [Files -> Content] /\ touched' \in [Writers -> BOOLEAN]
    BY <1>0, <2>1, <2>3 DEF Put
  <2>5. i \in Nat
    BY <1>0
  <2> HIDE DEF i
  <2>6. at' \in [Writers -> Nat] /\ \A v \in Writers : at'[v] =< Size(v)
    BY <1>0, <2>1, <2>2, <2>5
  <2> QED
    BY <1>0, <2>2, <2>4, <2>6
<1>5. CASE Discard(w)
  <2>1. temps' \subseteq temps
    BY <1>5 DEF Discard, StagedTemps
  <2>2. pc' \in [Writers -> Pc]
    BY <1>0, <1>5 DEF Discard, Pc
  <2> QED
    BY <1>0, <1>5, <2>1, <2>2 DEF Discard
<1>6. CASE StageOriginal(w)
  <2>1. temps' \subseteq Writers \X Nat \X {"new", "old"}
    BY <1>0, <1>6 DEF StageOriginal, OldTemp
  <2> QED
    BY <1>0, <1>6, <2>1 DEF StageOriginal
<1>7. CASE Restore(w)
  <2>1. Original(w) \in Content /\ at[w] \in Nat \ {0}
    BY <1>0, <1>7, OriginalType DEF Restore, Restoring
  <2>2. disk' \in [Files -> Content] /\ touched' \in [Writers -> BOOLEAN]
    BY <1>0, <1>7, <2>1 DEF Restore, Put
  <2>3. at' \in [Writers -> Nat] /\ \A v \in Writers : at'[v] =< Size(v)
    BY <1>0, <1>7, <2>1, PlanFacts DEF Restore
  <2> QED
    BY <1>0, <1>7, <2>2, <2>3 DEF Restore
<1>8. CASE RestoreFails(w)
  <2>1. at[w] \in Nat \ {0}
    BY <1>0, <1>8 DEF RestoreFails, Restoring
  <2>2. at' \in [Writers -> Nat] /\ \A v \in Writers : at'[v] =< Size(v)
    BY <1>0, <1>8, <2>1, PlanFacts DEF RestoreFails
  <2>3. temps' \subseteq temps /\ failed' \in [Writers -> BOOLEAN]
    BY <1>0, <1>8 DEF RestoreFails
  <2> QED
    BY <1>0, <1>8, <2>2, <2>3 DEF RestoreFails
<1> QED
  BY <1>1, <1>2, <1>3, <1>4, <1>5, <1>6, <1>7, <1>8 DEF Step

-----------------------------------------------------------------------------
(* A call's own steps                                                      *)

\* Everything but the files depends on where the call is.
LEMMA OriginalsStep ==
  ASSUME IInv, NEW w \in Writers, Step(w)
  PROVE  Originals(w)'
<1>0. TypeOK /\ Originals(w)
  BY DEF IInv
<1>1. /\ at[w] \in Nat /\ at[w] =< Size(w) /\ Len(old[w]) =< Size(w) /\ Len(old[w]) \in Nat
      /\ pc \in [Writers -> Pc] /\ at \in [Writers -> Nat] /\ old[w] \in Seq(Content)
      /\ failed \in [Writers -> BOOLEAN] /\ old \in [Writers -> Seq(Content)] /\ Size(w) \in Nat
  BY <1>0, LenProperties, PlanFacts DEF TypeOK
<1> USE DEF Originals
<1>2. CASE Stage(w)
  <2> DEFINE c == disk[Plan[w][at[w] + 1].file]
  <2>1. c \in Content
    BY <1>0, <1>1, <1>2, PlanFacts DEF Stage, TypeOK
  <2>2. old'[w] = Append(old[w], c) /\ at'[w] = at[w] + 1
    BY <1>1, <1>2 DEF Stage
  <2> HIDE DEF c
  <2>3. Len(old'[w]) = Len(old[w]) + 1
    BY <1>1, <2>1, <2>2
  <2> QED
    BY <1>0, <1>1, <1>2, <2>2, <2>3 DEF Stage
<1>3. CASE Begin(w) \/ StageFails(w) \/ Staged(w) \/ ReplaceFails(w) \/ Committed(w) \/ RolledBack(w) \/ Crash(w)
  BY <1>0, <1>1, <1>3 DEF Begin, StageFails, Staged, ReplaceFails, Committed, RolledBack, Crash, Ended
<1>4. CASE Replace(w) \/ Discard(w) \/ StageOriginal(w) \/ Restore(w) \/ RestoreFails(w)
  BY <1>0, <1>1, <1>4 DEF Replace, Discard, StageOriginal, Restore, RestoreFails, Restoring
<1> QED
  BY <1>2, <1>3, <1>4 DEF Step

\* A call writes to one of its files, and to no other of them.
LEMMA PutOwn ==
  ASSUME TypeOK, NEW w \in Writers, NEW k \in DOMAIN Plan[w], NEW c, Put(w, Plan[w][k].file, c)
  PROVE  /\ disk'[Plan[w][k].file] = c /\ touched'[w] = touched[w]
         /\ \A i \in DOMAIN Plan[w] : i # k => disk'[Plan[w][i].file] = disk[Plan[w][i].file]
<1>1. disk \in [Files -> Content] /\ touched \in [Writers -> BOOLEAN]
  BY DEF TypeOK
<1>2. /\ disk' = [disk EXCEPT ![Plan[w][k].file] = c]
      /\ touched'[w] = touched[w]
  BY <1>1 DEF Put
<1> QED
  BY <1>1, <1>2, PlanFacts

LEMMA OwnStep ==
  ASSUME IInv, NEW w \in Writers, Step(w), ~touched'[w]
  PROVE  Remembered(w)' /\ FilesSoFar(w)'
<1>0. TypeOK /\ Originals(w) /\ (~touched[w] => Remembered(w) /\ FilesSoFar(w))
  BY DEF IInv
<1>1. /\ at[w] \in Nat /\ at[w] =< Size(w) /\ Len(old[w]) =< Size(w) /\ Len(old[w]) \in Nat
      /\ pc \in [Writers -> Pc] /\ at \in [Writers -> Nat] /\ old[w] \in Seq(Content)
      /\ failed \in [Writers -> BOOLEAN] /\ old \in [Writers -> Seq(Content)]
      /\ before \in [Writers -> [Files -> Content]] /\ Size(w) \in Nat
      /\ DOMAIN Plan[w] = 1 .. Size(w) /\ DOMAIN old[w] = 1 .. Len(old[w])
  BY <1>0, LenProperties, PlanFacts DEF TypeOK
<1>2. CASE Begin(w)
  <2>1. before'[w] = disk /\ disk' = disk /\ old' = old /\ old[w] = <<>> /\ pc'[w] = "staging"
    BY <1>0, <1>1, <1>2 DEF Begin, Originals
  <2> QED
    BY <2>1 DEF Remembered, FilesSoFar, Same
<1>3. CASE Stage(w)
  <2> DEFINE k == at[w] + 1
             c == disk[Plan[w][k].file]
  <2>1. /\ pc[w] = "staging" /\ pc'[w] = "staging" /\ UNCHANGED <<disk, before, touched>>
        /\ old'[w] = Append(old[w], c) /\ k \in DOMAIN Plan[w] /\ Len(old[w]) = at[w]
    BY <1>0, <1>1, <1>3 DEF Stage, Originals
  <2>2. Remembered(w) /\ FilesSoFar(w)
    BY <1>0, <2>1
  <2>3. Same(w, k)
    BY <2>1, <2>2 DEF FilesSoFar
  <2>4. c \in Content
    BY <1>0, <1>1, <2>1, PlanFacts DEF TypeOK
  <2> HIDE DEF c
  <2>5. /\ DOMAIN old'[w] = 1 .. k /\ old'[w][k] = c
        /\ \A i \in DOMAIN old[w] : old'[w][i] = old[w][i]
    BY <1>1, <2>1, <2>4, AppendProperties, SMTT(30)
  <2>6. Remembered(w)'
    BY <1>1, <2>1, <2>2, <2>3, <2>5 DEF Remembered, Same, c
  <2> QED
    BY <2>1, <2>2, <2>6 DEF FilesSoFar, Same
<1>4. CASE StageFails(w) \/ Staged(w) \/ ReplaceFails(w) \/ Committed(w) \/ Discard(w) \/ RolledBack(w)
           \/ Crash(w) \/ StageOriginal(w)
  <2>1. UNCHANGED <<disk, before, touched, old>> /\ failed' = failed
    BY <1>4 DEF StageFails, Staged, ReplaceFails, Committed, Discard, RolledBack, Crash, StageOriginal
  <2>2. Remembered(w) /\ FilesSoFar(w)
    BY <1>0, <2>1
  <2>3. Remembered(w)'
    BY <2>1, <2>2 DEF Remembered
  <2>4. \A i : New(w, i)' = New(w, i) /\ Same(w, i)' = Same(w, i)
    BY <2>1 DEF New, Same
  <2>5. CASE StageFails(w) \/ Staged(w)
    <3>1. pc[w] = "staging" /\ pc'[w] \in {"discarding", "committing"} /\ at'[w] = 0
      BY <1>1, <2>5 DEF StageFails, Staged
    <3> QED
      BY <1>1, <2>2, <2>3, <2>4, <3>1 DEF FilesSoFar, SplitAt
  <2>6. CASE ReplaceFails(w) \/ Committed(w)
    <3>1. /\ pc[w] = "committing" /\ at' = at
          /\ pc'[w] = "discarding" \/ (pc'[w] = "ok" /\ at[w] = Size(w))
      BY <1>1, <2>6 DEF ReplaceFails, Committed
    <3> QED
      BY <1>1, <2>2, <2>3, <2>4, <3>1 DEF FilesSoFar, SplitAt
  <2>7. CASE Discard(w)
    <3>1. /\ pc[w] = "discarding" /\ at' = at
          /\ pc'[w] = IF at[w] = 0 THEN "err" ELSE "restoring"
      BY <1>1, <2>7 DEF Discard
    <3> QED
      BY <1>1, <2>2, <2>3, <2>4, <3>1 DEF FilesSoFar, SplitAt, PartlyBack
  <2>8. CASE RolledBack(w)
    <3>1. /\ pc[w] = "restoring" /\ at' = at /\ at[w] = 0
          /\ pc'[w] = IF failed[w] THEN "torn" ELSE "err"
      BY <1>1, <2>8 DEF RolledBack
    <3> QED
      BY <1>1, <2>2, <2>3, <2>4, <3>1 DEF FilesSoFar, PartlyBack
  <2>9. CASE Crash(w)
    <3>1. /\ pc[w] \in {"staging", "committing", "discarding", "restoring"} /\ pc'[w] = "dead"
      BY <1>1, <2>9 DEF Crash, Ended, Pc
    <3>2. \A i \in DOMAIN Plan[w] : New(w, i) \/ Same(w, i)
      BY <2>2, <3>1 DEF FilesSoFar, SplitAt, PartlyBack
    <3> QED
      BY <2>3, <2>4, <3>1, <3>2 DEF FilesSoFar
  <2>10. CASE StageOriginal(w)
    <3>1. pc' = pc /\ at' = at
      BY <2>10 DEF StageOriginal
    <3> QED
      BY <2>1, <2>2, <2>3, <2>4, <3>1 DEF FilesSoFar, SplitAt, PartlyBack
  <2> QED
    BY <1>4, <2>5, <2>6, <2>7, <2>8, <2>9, <2>10
<1>5. CASE Replace(w)
  <2> DEFINE k == at[w] + 1
  <2>1. /\ k \in DOMAIN Plan[w] /\ Put(w, Plan[w][k].file, Plan[w][k].new)
        /\ pc[w] = "committing" /\ UNCHANGED <<pc, old, before>> /\ at'[w] = k
    BY <1>1, <1>5 DEF Replace
  <2> HIDE DEF k
  <2>2. /\ disk'[Plan[w][k].file] = Plan[w][k].new /\ touched'[w] = touched[w]
        /\ \A i \in DOMAIN Plan[w] : i # k => disk'[Plan[w][i].file] = disk[Plan[w][i].file]
    BY ONLY <1>0, <2>1, PutOwn, Zenon
  <2>3. Remembered(w) /\ SplitAt(w)
    BY <1>0, <2>1, <2>2 DEF FilesSoFar
  <2>4. SplitAt(w)'
    BY <1>1, <2>1, <2>2, <2>3 DEF SplitAt, New, Same, k
  <2> QED
    BY <2>1, <2>3, <2>4 DEF Remembered, FilesSoFar
<1>6. CASE Restore(w)
  <2> DEFINE k == at[w]
  <2>1. /\ k \in DOMAIN Plan[w] /\ k \in DOMAIN old[w] /\ k # 0 /\ at'[w] = k - 1
        /\ pc[w] = "restoring" /\ UNCHANGED <<pc, old, before, failed>>
    BY <1>0, <1>1, <1>6, OriginalType DEF Restore, Restoring
  <2>2. /\ disk'[Plan[w][k].file] = old[w][k] /\ touched'[w] = touched[w]
        /\ \A i \in DOMAIN Plan[w] : i # k => disk'[Plan[w][i].file] = disk[Plan[w][i].file]
    BY <1>0, <1>6, <2>1, PutOwn, ZenonT(40) DEF Restore, Original
  <2>3. Remembered(w) /\ PartlyBack(w)
    BY <1>0, <2>1, <2>2 DEF FilesSoFar
  <2>4. old[w][k] = before[w][Plan[w][k].file]
    BY <2>1, <2>3 DEF Remembered
  <2>5. PartlyBack(w)'
    BY <1>1, <2>1, <2>2, <2>3, <2>4 DEF PartlyBack, New, Same
  <2> QED
    BY <2>1, <2>3, <2>5 DEF Remembered, FilesSoFar
<1>7. CASE RestoreFails(w)
  <2>1. /\ pc[w] = "restoring" /\ UNCHANGED <<disk, pc, old, before, touched>>
        /\ failed'[w] /\ at'[w] = at[w] - 1 /\ at[w] > 0
    BY <1>1, <1>7 DEF RestoreFails, Restoring
  <2>2. Remembered(w) /\ PartlyBack(w)
    BY <1>0, <2>1 DEF FilesSoFar
  <2>3. PartlyBack(w)'
    BY <1>1, <2>1, <2>2 DEF PartlyBack, New, Same
  <2> QED
    BY <2>1, <2>2, <2>3 DEF Remembered, FilesSoFar
<1> QED
  BY <1>2, <1>3, <1>4, <1>5, <1>6, <1>7 DEF Step

-----------------------------------------------------------------------------
(* The steps of the others                                                 *)

\* A call that nobody has touched after a step of another one finds its files
\* and its own state as before it.
LEMMA OtherStep ==
  ASSUME IInv, NEW w \in Writers, NEW v \in Writers, v # w, Step(w)
  PROVE  /\ pc'[v] = pc[v] /\ at'[v] = at[v] /\ old'[v] = old[v]
         /\ failed'[v] = failed[v] /\ before'[v] = before[v]
         /\ pc[v] = "idle" => touched'[v] = touched[v]
         /\ ~touched'[v] =>
              ~touched[v] /\ (pc[v] # "idle" =>
                 \A i \in DOMAIN Plan[v] : disk'[Plan[v][i].file] = disk[Plan[v][i].file])
<1>0. TypeOK /\ Originals(w)
  BY DEF IInv
<1>1. /\ pc \in [Writers -> Pc] /\ at \in [Writers -> Nat] /\ old \in [Writers -> Seq(Content)]
      /\ failed \in [Writers -> BOOLEAN] /\ before \in [Writers -> [Files -> Content]]
      /\ touched \in [Writers -> BOOLEAN] /\ disk \in [Files -> Content]
  BY <1>0 DEF TypeOK
<1>2. /\ pc'[v] = pc[v] /\ at'[v] = at[v] /\ old'[v] = old[v]
      /\ failed'[v] = failed[v] /\ before'[v] = before[v]
  BY <1>1 DEF Step, Begin, Stage, StageFails, Staged, Replace, ReplaceFails, Committed, Discard,
              StageOriginal, Restore, RestoreFails, RolledBack, Crash
<1>3. ASSUME NEW f \in Files, NEW c, Put(w, f, c)
      PROVE  /\ pc[v] = "idle" => touched'[v] = touched[v]
             /\ ~touched'[v] =>
                  ~touched[v] /\ (pc[v] # "idle" =>
                     \A i \in DOMAIN Plan[v] : disk'[Plan[v][i].file] = disk[Plan[v][i].file])
  <2>1. /\ touched'[v] = (touched[v] \/ (pc[v] # "idle" /\ f \in FilesOf(v)))
        /\ \A g \in Files : g # f => disk'[g] = disk[g]
    BY <1>1, <1>3 DEF Put
  <2>2. ASSUME pc[v] # "idle", ~touched'[v], NEW i \in DOMAIN Plan[v]
        PROVE  disk'[Plan[v][i].file] = disk[Plan[v][i].file]
    <3>1. Plan[v][i].file \in Files /\ Plan[v][i].file \in FilesOf(v)
      BY PlanFacts DEF FilesOf
    <3> QED
      BY <2>1, <2>2, <3>1
  <2>3. pc[v] = "idle" => touched'[v] = touched[v]
    BY <1>1, <1>3 DEF Put
  <2>4. ~touched'[v] => ~touched[v]
    BY <1>1, <1>3 DEF Put
  <2> QED
    BY <2>2, <2>3, <2>4
<1>4. CASE Replace(w)
  <2>1. at[w] + 1 \in DOMAIN Plan[w]
    BY <1>0, <1>4, PlanFacts DEF TypeOK, Replace
  <2>2. Put(w, Plan[w][at[w] + 1].file, Plan[w][at[w] + 1].new)
    BY <1>4 DEF Replace
  <2> QED
    BY <1>2, <1>3, <2>1, <2>2, PlanFacts
<1>5. CASE Restore(w)
  <2>1. at[w] \in DOMAIN Plan[w] /\ Put(w, Plan[w][at[w]].file, Original(w))
    BY <1>0, <1>5, OriginalType DEF Restore
  <2> QED
    BY <1>2, <1>3, <2>1, PlanFacts
<1>6. CASE ~Replace(w) /\ ~Restore(w)
  <2>1. UNCHANGED <<disk, touched>>
    BY <1>6 DEF Step, Begin, Stage, StageFails, Staged, ReplaceFails, Committed, Discard,
                StageOriginal, RestoreFails, RolledBack, Crash
  <2> QED
    BY <1>2, <2>1
<1> QED
  BY <1>4, <1>5, <1>6

LEMMA OtherKept ==
  ASSUME IInv, NEW w \in Writers, NEW v \in Writers, v # w, Step(w)
  PROVE  /\ Originals(v)'
         /\ ~touched'[v] => Remembered(v)' /\ FilesSoFar(v)'
<1>0. Originals(v) /\ (~touched[v] => Remembered(v) /\ FilesSoFar(v))
  BY DEF IInv
<1>1. /\ pc'[v] = pc[v] /\ at'[v] = at[v] /\ old'[v] = old[v]
      /\ failed'[v] = failed[v] /\ before'[v] = before[v]
      /\ pc[v] = "idle" => touched'[v] = touched[v]
  BY OtherStep
<1>2. Originals(v)'
  BY <1>0, <1>1 DEF Originals
<1>3. ASSUME ~touched'[v]
      PROVE  Remembered(v)' /\ FilesSoFar(v)'
  <2>1. Remembered(v) /\ FilesSoFar(v)
    BY <1>0, <1>3, OtherStep
  <2>2. Remembered(v)'
    BY <1>1, <2>1 DEF Remembered
  <2>3. CASE pc[v] = "idle"
    BY <1>1, <2>2, <2>3 DEF FilesSoFar
  <2>4. CASE pc[v] # "idle"
    <3>1. \A i \in DOMAIN Plan[v] : New(v, i)' = New(v, i) /\ Same(v, i)' = Same(v, i)
      BY <1>1, <1>3, <2>4, OtherStep DEF New, Same
    <3> QED
      BY <1>1, <2>1, <2>2, <3>1 DEF FilesSoFar, SplitAt, PartlyBack
  <2> QED
    BY <2>3, <2>4
<1> QED
  BY <1>2, <1>3

-----------------------------------------------------------------------------
(* The theorems                                                            *)

\* The inductive invariant: where nobody interferes, what is in a call's files
\* is determined by where the call is.
THEOREM InvCorrect == Spec => []IInv
<1>1. Init => IInv
  <2> SUFFICES ASSUME Init PROVE IInv
    OBVIOUS
  <2>1. TypeOK
    <3>1. \A w \in Writers : Size(w) \in Nat
      BY PlanFacts
    <3>2. <<>> \in Seq(Content) /\ Len(<<>>) = 0
      OBVIOUS
    <3> QED
      BY <3>1, <3>2 DEF Init, TypeOK, Pc, Content
  <2>2. ASSUME NEW w \in Writers
        PROVE  Originals(w) /\ Remembered(w) /\ FilesSoFar(w)
    BY DEF Init, Originals, Remembered, FilesSoFar
  <2> QED
    BY <2>1, <2>2 DEF IInv
<1>2. IInv /\ [Next]_vars => IInv'
  <2> SUFFICES ASSUME IInv, [Next]_vars PROVE IInv'
    OBVIOUS
  <2>1. ASSUME NEW w \in Writers, Step(w)
        PROVE  IInv'
    <3>1. TypeOK'
      BY <2>1, TypeStep
    <3>2. Originals(w)' /\ (~touched'[w] => Remembered(w)' /\ FilesSoFar(w)')
      BY <2>1, OriginalsStep, OwnStep
    <3>3. \A v \in Writers \ {w} : Originals(v)' /\ (~touched'[v] => Remembered(v)' /\ FilesSoFar(v)')
      BY <2>1, OtherKept
    <3> QED
      BY <3>1, <3>2, <3>3 DEF IInv
  <2>2. CASE UNCHANGED vars
    BY <2>2 DEF vars, IInv, TypeOK, Originals, Remembered, FilesSoFar, SplitAt, PartlyBack, New, Same
  <2> QED
    BY <2>1, <2>2 DEF Next, Terminated
<1> QED
  BY <1>1, <1>2, PTL DEF Spec

\* The type invariant of every number of calls.
THEOREM TypeCorrect == Spec => []TypeOK
<1>1. IInv => TypeOK
  BY DEF IInv
<1> QED
  BY <1>1, InvCorrect, PTL

\* write_transaction is all or nothing unless it says that a rollback failed.
THEOREM AllOrNothingSafe == Spec => []AllOrNothing
<1>1. IInv => AllOrNothing
  BY DEF IInv, FilesSoFar, AllOrNothing
<1> QED
  BY <1>1, InvCorrect, PTL

\* At no time, and after no crash, is a file anything but old or new.
THEOREM WholeFilesSafe == Spec => []WholeFiles
<1>1. IInv => WholeFiles
  <2> SUFFICES ASSUME IInv, NEW w \in Writers, ~touched[w], pc[w] # "idle"
               PROVE  /\ \A i \in DOMAIN Plan[w] : New(w, i) \/ Same(w, i)
                      /\ pc[w] = "committing" => SplitAt(w)
    BY DEF WholeFiles, SplitAt
  <2>1. FilesSoFar(w) /\ pc[w] \in Pc
    BY DEF IInv, TypeOK
  <2> QED
    BY <2>1 DEF FilesSoFar, SplitAt, PartlyBack, Pc
<1> QED
  BY <1>1, InvCorrect, PTL
-----------------------------------------------------------------------------
(* The API log                                                             *)

\* The lines of which a record is made fit in a file.
LEMMA LogLineFits ==
  ASSUME LogTypeOK
  PROVE  line \in Nat /\ line =< MaxBytes /\ \A l \in Lines : l \in Nat /\ l =< MaxBytes
BY LinesAssumption DEF LogTypeOK

\* Removing the oldest archive, the log being in order, loses the oldest
\* records and nothing else.
LEMMA LogDeleteOldest ==
  ASSUME LogIInv, Delete(MaxFiles)
  PROVE  InOrder' /\ (written' = written => OldestLost')
<1> USE FilesAssumption DEF Slot
<1>1. /\ recs \in [Slot -> SUBSET Nat] /\ written \subseteq Nat
      /\ recs' = [recs EXCEPT ![MaxFiles] = {}]
  BY DEF LogIInv, LogTypeOK, Delete
<1>2. \A i \in Slot : recs'[i] \subseteq recs[i] /\ (i # MaxFiles => recs'[i] = recs[i])
  BY <1>1
<1>3. InOrder'
  BY <1>1, <1>2 DEF InOrder, LogIInv
<1>4. ASSUME written' = written,
             NEW lost \in written, \A i \in Slot : lost \notin recs'[i],
             NEW i \in Slot, NEW kept \in recs'[i]
      PROVE  lost < kept
  <2>1. i # MaxFiles /\ kept \in recs[i] /\ i < MaxFiles
    BY <1>1, <1>2, <1>4
  <2>2. CASE lost \in recs[MaxFiles]
    BY <1>1, <2>1, <2>2 DEF LogIInv, InOrder
  <2>3. CASE lost \notin recs[MaxFiles]
    <3>1. \A j \in Slot : lost \notin recs[j]
      BY <1>2, <1>4, <2>3
    <3> QED
      BY <2>1, <3>1 DEF LogIInv, OldestLost
  <2> QED
    BY <2>2, <2>3
<1> QED
  BY <1>3, <1>4 DEF OldestLost

\* Moving a file into the free place next to it keeps the order of the
\* records, and all of them.
LEMMA LogRenameKeeps ==
  ASSUME LogIInv, NEW k \in Slot, k + 1 \in Slot,
         k + 1 \notin there, Rename(k, k + 1)
  PROVE  /\ InOrder' /\ (written' = written => OldestLost')
         /\ written' = written => \A i \in Slot : recs'[i] \subseteq written'
<1> USE FilesAssumption DEF Slot
<1>1. /\ recs \in [Slot -> SUBSET Nat] /\ recs[k + 1] = {}
      /\ recs' = [recs EXCEPT ![k] = {}, ![k + 1] = recs[k]]
  BY DEF LogIInv, LogTypeOK, Recorded, Rename
<1>2. /\ recs'[k] = {} /\ recs'[k + 1] = recs[k]
      /\ \A i \in Slot \ {k, k + 1} : recs'[i] = recs[i]
  BY <1>1
<1>3. InOrder'
  <2> SUFFICES ASSUME NEW i \in Slot, NEW j \in Slot, i < j,
                      NEW x \in recs'[i], NEW y \in recs'[j]
               PROVE  y < x
    BY DEF InOrder
  <2>1. i # k /\ j # k
    BY <1>2
  <2>2. CASE i = k + 1
    BY <1>2, <2>1, <2>2 DEF LogIInv, InOrder
  <2>3. CASE j = k + 1
    <3>1. i < k /\ x \in recs[i] /\ y \in recs[k]
      BY <1>2, <2>1, <2>3
    <3> QED
      BY <3>1 DEF LogIInv, InOrder
  <2>4. CASE i # k + 1 /\ j # k + 1
    BY <1>2, <2>1, <2>4 DEF LogIInv, InOrder
  <2> QED
    BY <2>2, <2>3, <2>4
<1>4. \A x : (\E i \in Slot : x \in recs'[i]) <=> (\E i \in Slot : x \in recs[i])
  <2> TAKE x
  <2>1. ASSUME NEW i \in Slot, x \in recs'[i] PROVE \E j \in Slot : x \in recs[j]
    BY <1>1, <1>2, <2>1
  <2>2. ASSUME NEW i \in Slot, x \in recs[i] PROVE \E j \in Slot : x \in recs'[j]
    BY <1>1, <1>2, <2>2
  <2> QED
    BY <2>1, <2>2
<1>5. written' = written => OldestLost'
  <2> SUFFICES ASSUME written' = written,
                      NEW lost \in written, \A i \in Slot : lost \notin recs'[i],
                      NEW i \in Slot, NEW kept \in recs'[i]
               PROVE  lost < kept
    BY DEF OldestLost
  <2>1. \A j \in Slot : lost \notin recs[j]
    BY <1>4
  <2>2. PICK j \in Slot : kept \in recs[j]
    BY <1>4
  <2> QED
    BY <2>1, <2>2 DEF LogIInv, OldestLost
<1>6. \A i \in Slot : recs'[i] \subseteq written
  BY <1>1, <1>2 DEF LogIInv, Recorded
<1> QED
  BY <1>3, <1>5, <1>6

\* LogIInv is inductive.
LEMMA LogInvInit ==
  ASSUME LogInit
  PROVE  LogIInv
<1> USE FilesAssumption, LinesAssumption DEF LogInit, Slot
<1>1. LogTypeOK
  <2>1. recs \in [Slot -> SUBSET Nat] /\ size \in [Slot -> Nat]
    OBVIOUS
  <2>2. there \in SUBSET Slot /\ written \in SUBSET Nat /\ torn \in BOOLEAN
    OBVIOUS
  <2>3. line \in Lines \cup {0} /\ index \in 0 .. MaxFiles - 1 /\ next \in Nat \ {0}
    OBVIOUS
  <2>4. phase \in {"idle", "remove", "shift", "rotate", "append"}
    OBVIOUS
  <2> QED
    BY ONLY <2>1, <2>2, <2>3, <2>4 DEF LogTypeOK
<1>2. Recorded /\ GapAhead /\ Fits
  BY DEF Recorded, GapAhead, Fits
<1>3. InOrder /\ OldestLost /\ SizeBounded
  BY DEF InOrder, OldestLost, SizeBounded
<1> QED
  BY <1>1, <1>2, <1>3 DEF LogIInv

LEMMA LogInvStep ==
  ASSUME LogIInv, [LogNext]_logVars
  PROVE  LogIInv'
<1> USE FilesAssumption, LinesAssumption
<1>i. LogTypeOK /\ Recorded /\ GapAhead /\ Fits /\ SizeBounded
  BY DEF LogIInv
<1> USE <1>i
<1>l. line \in Nat /\ line =< MaxBytes /\ \A l \in Lines : l \in Nat /\ l =< MaxBytes
  BY LogLineFits
<1>s. 0 \in Slot /\ MaxFiles \in Slot
  BY DEF Slot
<1>1. CASE BeginRecord
  <2>1. LogTypeOK' /\ Recorded' /\ SizeBounded' /\ GapAhead'
    BY <1>1 DEF BeginRecord, LogFiles, LogTypeOK, Recorded, SizeBounded, GapAhead
  <2>2. Fits'
    BY <1>1, <1>l, <1>s DEF BeginRecord, LogFiles, LogTypeOK, Fits
  <2>3. InOrder' /\ OldestLost'
    BY <1>1 DEF BeginRecord, LogFiles, LogIInv, InOrder, OldestLost
  <2> QED
    BY <2>1, <2>2, <2>3 DEF LogIInv
<1>2. CASE RemoveOldest
  <2>1. LogTypeOK'
    <3>1. recs' \in [Slot -> SUBSET Nat] /\ size' \in [Slot -> Nat]
      BY <1>2, <1>s DEF RemoveOldest, Delete, Keep, LogTypeOK
    <3>2. there' \in SUBSET Slot
      BY <1>2 DEF RemoveOldest, Delete, Keep, LogTypeOK
    <3> QED
      BY <1>2, <3>1, <3>2 DEF RemoveOldest, LogTypeOK
  <2>2. Recorded' /\ SizeBounded'
    BY <1>2, <1>s DEF RemoveOldest, Delete, Keep, LogTypeOK, Recorded, SizeBounded
  <2>3. GapAhead' /\ Fits'
    BY <1>2, <1>s DEF RemoveOldest, Delete, Keep, LogTypeOK, GapAhead, Fits
  <2>4. InOrder' /\ OldestLost'
    <3>1. CASE MaxFiles \in there
      BY <1>2, <3>1, LogDeleteOldest DEF RemoveOldest
    <3>2. CASE MaxFiles \notin there
      BY <1>2, <3>2 DEF RemoveOldest, Keep, LogIInv, InOrder, OldestLost
    <3> QED
      BY <3>1, <3>2
  <2> QED
    BY <2>1, <2>2, <2>3, <2>4 DEF LogIInv
<1>3. CASE Shift
  <2>1. index \in Slot /\ index + 1 \in Slot /\ index >= 1 /\ index + 1 \notin there
    BY <1>3 DEF Shift, LogTypeOK, GapAhead, Slot
  <2>2. LogTypeOK'
    <3>1. recs' \in [Slot -> SUBSET Nat] /\ size' \in [Slot -> Nat]
      BY <1>3, <2>1 DEF Shift, Rename, Keep, LogTypeOK
    <3>2. there' \in SUBSET Slot
      BY <1>3, <2>1 DEF Shift, Rename, Keep, LogTypeOK
    <3> QED
      BY <1>3, <2>1, <3>1, <3>2 DEF Shift, LogTypeOK
  <2>3. GapAhead' /\ Fits'
    BY <1>3, <2>1 DEF Shift, Rename, Keep, LogTypeOK, GapAhead, Fits, Slot
  <2>4. SizeBounded'
    BY <1>3, <2>1 DEF Shift, Rename, Keep, LogTypeOK, SizeBounded
  <2>5. Recorded' /\ InOrder' /\ OldestLost'
    <3>1. CASE index \in there
      <4>1. Rename(index, index + 1) /\ written' = written /\ next' = next
        BY <1>3, <3>1 DEF Shift
      <4>2. InOrder' /\ OldestLost' /\ \A i \in Slot : recs'[i] \subseteq written'
        BY <2>1, <4>1, LogRenameKeeps
      <4>3. \A i \in Slot \ there' : recs'[i] = {} /\ size'[i] = 0
        BY <2>1, <4>1 DEF Rename, LogTypeOK, Recorded
      <4> QED
        BY <4>1, <4>2, <4>3 DEF Recorded
    <3>2. CASE index \notin there
      BY <1>3, <3>2 DEF Shift, Keep, LogIInv, Recorded, InOrder, OldestLost
    <3> QED
      BY <3>1, <3>2
  <2> QED
    BY <2>2, <2>3, <2>4, <2>5 DEF LogIInv
<1>4. CASE RotateActive
  <2>1. 1 \in Slot /\ 1 \notin there
    BY <1>4 DEF RotateActive, GapAhead, Slot
  <2>2. LogTypeOK'
    <3>1. recs' \in [Slot -> SUBSET Nat] /\ size' \in [Slot -> Nat]
      BY <1>4, <1>s, <2>1 DEF RotateActive, Rename, Keep, LogTypeOK
    <3>2. there' \in SUBSET Slot /\ torn' \in BOOLEAN
      BY <1>4, <2>1 DEF RotateActive, Rename, Keep, LogTypeOK
    <3> QED
      BY <1>4, <3>1, <3>2 DEF RotateActive, LogTypeOK
  <2>3. GapAhead' /\ Fits'
    BY <1>4, <1>s, <1>l, <2>1 DEF RotateActive, Rename, Keep, LogTypeOK, GapAhead, Fits,
         Recorded
  <2>4. SizeBounded'
    BY <1>4, <1>s, <2>1 DEF RotateActive, Rename, Keep, LogTypeOK, SizeBounded
  <2>5. Recorded' /\ InOrder' /\ OldestLost'
    <3>1. CASE 0 \in there
      <4>1. Rename(0, 0 + 1) /\ written' = written /\ next' = next
        BY <1>4, <3>1 DEF RotateActive
      <4>2. InOrder' /\ OldestLost' /\ \A i \in Slot : recs'[i] \subseteq written'
        <5>1. 0 + 1 \in Slot /\ 0 + 1 \notin there
          BY <2>1
        <5> QED
          BY <1>s, <4>1, <5>1, LogRenameKeeps
      <4>3. \A i \in Slot \ there' : recs'[i] = {} /\ size'[i] = 0
        BY <1>s, <2>1, <4>1 DEF Rename, LogTypeOK, Recorded
      <4> QED
        BY <4>1, <4>2, <4>3 DEF Recorded
    <3>2. CASE 0 \notin there
      BY <1>4, <3>2 DEF RotateActive, Keep, LogIInv, Recorded, InOrder, OldestLost
    <3> QED
      BY <3>1, <3>2
  <2> QED
    BY <2>2, <2>3, <2>4, <2>5 DEF LogIInv
<1>5. CASE AppendLine
  <2>1. LogTypeOK'
    <3>1. recs' \in [Slot -> SUBSET Nat] /\ size' \in [Slot -> Nat]
      BY <1>5, <1>s, <1>l DEF AppendLine, LogTypeOK
    <3>2. there' \in SUBSET Slot /\ written' \in SUBSET Nat
      BY <1>5, <1>s DEF AppendLine, LogTypeOK
    <3>3. next \in Nat \ {0} /\ next' = next + 1
      BY <1>5 DEF AppendLine, LogTypeOK
    <3>4. next' \in Nat \ {0}
      BY ONLY <3>3
    <3>5. torn' \in BOOLEAN /\ phase' \in {"idle", "remove", "shift", "rotate", "append"}
      BY <1>5 DEF AppendLine
    <3>6. line' \in Lines \cup {0} /\ index' \in 0 .. MaxFiles - 1
      BY <1>5 DEF AppendLine, LogTypeOK
    <3> QED
      BY ONLY <3>1, <3>2, <3>4, <3>5, <3>6 DEF LogTypeOK
  <2>2. Recorded'
    BY <1>5, <1>s DEF AppendLine, LogTypeOK, Recorded
  <2>3. GapAhead' /\ Fits'
    BY <1>5 DEF AppendLine, GapAhead, Fits
  <2>4. SizeBounded'
    BY <1>5, <1>s, <1>l DEF AppendLine, LogTypeOK, SizeBounded, Fits
  <2>5. \A i \in Slot : \A x \in recs[i] : x \in Nat /\ x < next
    BY DEF LogTypeOK, Recorded
  <2>6. \A i \in Slot : recs'[i] \subseteq recs[i] \cup {next} /\ (i # 0 => recs'[i] = recs[i])
    BY <1>5, <1>s DEF AppendLine, LogTypeOK
  <2>7. InOrder'
    BY <2>5, <2>6 DEF LogIInv, InOrder, Slot, LogTypeOK
  <2>8. OldestLost'
    <3> SUFFICES ASSUME NEW lost \in written', \A i \in Slot : lost \notin recs'[i],
                        NEW i \in Slot, NEW kept \in recs'[i]
                 PROVE  lost < kept
      BY DEF OldestLost
    <3>1. lost \in written /\ lost < next
      BY <1>5, <1>s DEF AppendLine, LogTypeOK, Recorded
    <3>2. \A j \in Slot : lost \notin recs[j]
      BY <1>5, <1>s DEF AppendLine, LogTypeOK
    <3> QED
      BY <2>6, <3>1, <3>2 DEF LogIInv, OldestLost
  <2> QED
    BY <2>1, <2>2, <2>3, <2>4, <2>7, <2>8 DEF LogIInv
<1>6. CASE TearLine
  <2>1. PICK part \in 0 .. line - 1 : /\ there' = there \cup {0}
                                     /\ size' = [size EXCEPT ![0] = @ + part]
                                     /\ torn' = (torn \/ part > 0)
    BY <1>6 DEF TearLine
  <2>2. LogTypeOK'
    BY <1>6, <1>s, <1>l, <2>1 DEF TearLine, LogTypeOK
  <2>3. Recorded'
    BY <1>6, <1>s, <2>1 DEF TearLine, LogTypeOK, Recorded
  <2>4. GapAhead' /\ Fits'
    BY <1>6 DEF TearLine, GapAhead, Fits
  <2>5. SizeBounded'
    BY <1>6, <1>s, <1>l, <2>1 DEF TearLine, LogTypeOK, SizeBounded, Fits
  <2>6. InOrder' /\ OldestLost'
    BY <1>6 DEF TearLine, LogIInv, InOrder, OldestLost
  <2> QED
    BY <2>2, <2>3, <2>4, <2>5, <2>6 DEF LogIInv
<1>7. CASE GiveUp
  <2>1. LogTypeOK' /\ Recorded' /\ SizeBounded'
    BY <1>7 DEF GiveUp, LogFiles, LogTypeOK, Recorded, SizeBounded
  <2>2. GapAhead' /\ Fits'
    BY <1>7 DEF GiveUp, GapAhead, Fits
  <2>3. InOrder' /\ OldestLost'
    BY <1>7 DEF GiveUp, LogFiles, LogIInv, InOrder, OldestLost
  <2> QED
    BY <2>1, <2>2, <2>3 DEF LogIInv
<1>8. CASE UNCHANGED logVars
  BY <1>8 DEF logVars, LogIInv, LogTypeOK, Recorded, GapAhead, Fits,
     InOrder, OldestLost, SizeBounded
<1> QED
  BY <1>1, <1>2, <1>3, <1>4, <1>5, <1>6, <1>7, <1>8 DEF LogNext, Finished

\* The inductive invariant: what is recorded was written before, the place the
\* next rename of rotate_logs fills is free, and a line is appended only where
\* it fits.
THEOREM LogInvCorrect == LogSpec => []LogIInv
<1>1. LogInit => LogIInv
  BY LogInvInit
<1>2. LogIInv /\ [LogNext]_logVars => LogIInv'
  BY LogInvStep
<1> QED
  BY <1>1, <1>2, PTL DEF LogSpec

\* The variables of append_record and rotate_logs keep their types.
THEOREM LogTypeCorrect == LogSpec => []LogTypeOK
<1>1. LogIInv => LogTypeOK
  BY DEF LogIInv
<1> QED
  BY <1>1, LogInvCorrect, PTL

\* From the oldest archive to the active file the records are in order, after
\* any number of rotations that failed half-way.
THEOREM LogInOrderSafe == LogSpec => []InOrder
<1>1. LogIInv => InOrder
  BY DEF LogIInv
<1> QED
  BY <1>1, LogInvCorrect, PTL

\* No failure of rotate_logs costs a record younger than one that is kept.
THEOREM LogOldestLostSafe == LogSpec => []OldestLost
<1>1. LogIInv => OldestLost
  BY DEF LogIInv
<1> QED
  BY <1>1, LogInvCorrect, PTL

\* api_log.rs:10: no file outgrows its bound, torn lines included.
THEOREM LogSizeBoundedSafe == LogSpec => []SizeBounded
<1>1. LogIInv => SizeBounded
  BY DEF LogIInv
<1> QED
  BY <1>1, LogInvCorrect, PTL
=============================================================================
