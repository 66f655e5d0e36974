--------------------------- MODULE CompanionProofs ---------------------------
(***************************************************************************)
(* What the companion channel guarantees for every number of requests, of  *)
(* ids and of connections, whatever the order in which sessions and        *)
(* requests take their steps.                                              *)
(***************************************************************************)
EXTENDS Companion, SequenceTheorems, FiniteSetTheorems, TLAPS

\* The message a session takes is the first of its channel; what it holds then.
LEMMA TakenType ==
  ASSUME TypeOK, NEW s \in Sessions, rx[s] # <<>>
  PROVE  /\ Head(rx[s]) \in Requests /\ Head(rx[s]) = rx[s][1] /\ 1 \in DOMAIN rx[s]
         /\ Tail(rx[s]) \in Seq(Requests)
         /\ \A k \in DOMAIN Tail(rx[s]) : k + 1 \in DOMAIN rx[s] /\ Tail(rx[s])[k] = rx[s][k + 1]
         /\ \A k \in DOMAIN rx[s] : k # 1 => k - 1 \in DOMAIN Tail(rx[s]) /\ Tail(rx[s])[k - 1] = rx[s][k]
<1>1. rx[s] \in Seq(Requests)
  BY DEF TypeOK
<1>2. /\ Head(rx[s]) \in Requests /\ Tail(rx[s]) \in Seq(Requests)
      /\ Len(rx[s]) \in Nat \ {0} /\ Len(Tail(rx[s])) = Len(rx[s]) - 1
      /\ DOMAIN rx[s] = 1 .. Len(rx[s]) /\ DOMAIN Tail(rx[s]) = 1 .. Len(Tail(rx[s]))
  BY <1>1, EmptySeq, LenProperties, HeadTailProperties
<1>3. Head(rx[s]) = rx[s][1] /\ \A k \in 1 .. Len(Tail(rx[s])) : Tail(rx[s])[k] = rx[s][k + 1]
  BY <1>1, <1>2, HeadTailProperties
<1> QED
  BY <1>2, <1>3

LEMMA InsertedType ==
  ASSUME TypeOK, NEW s \in Sessions, NEW r \in Requests
  PROVE  /\ Inserted(s, r) \in [Ids -> Requests \cup {NoRequest}]
         /\ \A i \in Ids : Inserted(s, r)[i] = IF i = rid[r] THEN r ELSE pending[s][i]
         /\ rid[r] \in Ids
  BY DEF TypeOK, Inserted

\* Whoever is told, a call only ever becomes "disconnected" if it waits.
LEMMA DisconnectAllType ==
  ASSUME TypeOK, NEW R
  PROVE  /\ DisconnectAll(R) \in [Requests -> Call]
         /\ \A r \in Requests : DisconnectAll(R)[r] =
              IF r \in R /\ call[r] = "waiting" THEN "disconnected" ELSE call[r]
  BY DEF TypeOK, DisconnectAll, Call, Outcome

-----------------------------------------------------------------------------
(* Types                                                                   *)

LEMMA TypeStep ==
  ASSUME TypeOK, Routed, InTurn, Next
  PROVE  TypeOK'
<1>1. /\ active \in Sessions \cup {None} /\ phase \in [Sessions -> Phase]
      /\ rx \in [Sessions -> Seq(Requests)]
      /\ pending \in [Sessions -> [Ids -> Requests \cup {NoRequest}]]
      /\ cut \in [Sessions -> BOOLEAN] /\ breaks \in 0..MaxBreaks /\ opened \in 0..MaxSessions
      /\ daemon \in 0..opened /\ backoff \in MinBackoff..MaxBackoff
      /\ call \in [Requests -> Call] /\ route \in [Requests -> Sessions \cup {None}]
      /\ rid \in [Requests -> Ids] /\ rpc \in [Requests -> Rpc]
      /\ answerer \in [Requests -> Requests \cup {NoRequest}]
  BY DEF TypeOK
<1> USE BoundAssumption DEF Call, Outcome, Phase, Rpc
<1>2. ASSUME NEW r \in Requests, LookUp(r) \/ Abandon(r) \/ SpawnTask(r) \/ SendReply(r)
      PROVE  TypeOK'
  <2>1. /\ call' \in [Requests -> Call] /\ route' \in [Requests -> Sessions \cup {None}]
        /\ rpc' \in [Requests -> Rpc]
    <3>1. CASE LookUp(r)
      BY <1>1, <3>1 DEF LookUp
    <3>4. CASE Abandon(r)
      BY <1>1, <3>4 DEF Abandon
    <3>2. CASE SpawnTask(r)
      BY <1>1, <3>2 DEF SpawnTask, asked
    <3>3. CASE SendReply(r)
      <4>1. \E a \in Rpc : rpc' = [rpc EXCEPT ![r] = a]
        BY <3>3 DEF SendReply
      <4> QED
        BY <1>1, <3>3, <4>1 DEF SendReply, asked
    <3> QED
      BY <1>2, <3>1, <3>2, <3>3, <3>4
  <2>2. UNCHANGED <<proxy, link, rid, answerer>>
    BY <1>2 DEF LookUp, Abandon, SpawnTask, SendReply, asked
  <2> QED
    BY <1>1, <2>1, <2>2 DEF TypeOK, proxy, link
<1>3. ASSUME NEW r \in Requests, Submit(r)
      PROVE  TypeOK'
  <2>1. route[r] \in Sessions
    BY <1>3 DEF Submit, Routed
  <2>2. call' \in [Requests -> Call] /\ rx' \in [Sessions -> Seq(Requests)]
    <3>1. Append(rx[route[r]], r) \in Seq(Requests)
      BY <1>1, <2>1, AppendProperties
    <3> QED
      BY <1>1, <1>3, <2>1, <3>1 DEF Submit
  <2>3. UNCHANGED <<active, phase, pending, link, route, rid, rpc, answerer>>
    BY <1>3 DEF Submit
  <2> QED
    BY <1>1, <2>2, <2>3 DEF TypeOK, link
<1>4. ASSUME NEW r \in Requests, Resolve(r)
      PROVE  TypeOK'
  <2> DEFINE s == route[r]
             q == Addressee(s, r)
  <2>1. s \in Sessions
    BY <1>4 DEF Resolve, Routed
  <2>2. q \in Requests \cup {NoRequest}
    BY <1>1, <2>1 DEF Addressee
  <2>3. pending' = [pending EXCEPT ![s] = [i \in Ids |-> IF pending[s][i] = q THEN NoRequest ELSE pending[s][i]]]
    BY <1>4 DEF Resolve
  <2>4. rpc' = [rpc EXCEPT ![r] = "read"] /\ rpc[r] \in {"result", "error"}
    BY <1>4 DEF Resolve
  <2>5. \/ UNCHANGED <<call, answerer>>
        \/ /\ call' = [call EXCEPT ![q] = rpc[r]] /\ answerer' = [answerer EXCEPT ![q] = r]
    BY <1>4 DEF Resolve
  <2>6. UNCHANGED <<active, phase, rx, link, route, rid>>
    BY <1>4 DEF Resolve
  <2> HIDE DEF s, q
  <2>7. pending' \in [Sessions -> [Ids -> Requests \cup {NoRequest}]]
    BY <1>1, <2>1, <2>3
  <2>8. /\ call' \in [Requests -> Call] /\ answerer' \in [Requests -> Requests \cup {NoRequest}]
        /\ rpc' \in [Requests -> Rpc]
    <3>0. rpc[r] \in Call /\ "read" \in Rpc
      BY ONLY <2>4 DEF Call, Outcome, Rpc
    <3>1. rpc' \in [Requests -> Rpc]
      BY ONLY <1>1, <2>4, <3>0
    <3>2. call' \in [Requests -> Call]
      BY ONLY <1>1, <2>5, <3>0
    <3>3. answerer' \in [Requests -> Requests \cup {NoRequest}]
      BY ONLY <1>1, <1>4, <2>5
    <3> QED
      BY <3>1, <3>2, <3>3
  <2> QED
    BY <1>1, <2>6, <2>7, <2>8 DEF TypeOK, link
<1>5. ASSUME NEW s \in Sessions, TakeMessage(s)
      PROVE  TypeOK'
  <2> DEFINE r == Head(rx[s])
  <2>1. r \in Requests /\ Tail(rx[s]) \in Seq(Requests)
    BY <1>5, TakenType DEF TakeMessage
  <2>2. /\ pending' = [pending EXCEPT ![s] = Inserted(s, r)]
        /\ \E R : call' = DisconnectAll(R)
        /\ rpc' = [rpc EXCEPT ![r] = IF cut[s] THEN "lost" ELSE "wire"]
        /\ rx' = [rx EXCEPT ![s] = Tail(rx[s])]
        /\ phase' = phase \/ phase' = [phase EXCEPT ![s] = "clearing"]
        /\ UNCHANGED <<active, link, route, rid, answerer>>
    BY <1>5 DEF TakeMessage
  <2> HIDE DEF r
  <2>3. /\ pending' \in [Sessions -> [Ids -> Requests \cup {NoRequest}]]
        /\ call' \in [Requests -> Call]
    BY <1>1, <2>1, <2>2, InsertedType, DisconnectAllType
  <2>4. /\ rpc' \in [Requests -> Rpc] /\ phase' \in [Sessions -> Phase]
        /\ rx' \in [Sessions -> Seq(Requests)]
    BY <1>1, <2>1, <2>2
  <2> QED
    BY <1>1, <2>2, <2>3, <2>4 DEF TypeOK, link
<1>6. ASSUME NEW s \in Sessions, Register(s) \/ SendersGone(s) \/ LinkGone(s) \/ Clear(s)
      PROVE  TypeOK'
  <2>1. /\ phase' \in [Sessions -> Phase] /\ active' \in Sessions \cup {None}
        /\ UNCHANGED <<rx, pending, link, asked, rpc>>
    BY <1>1, <1>6 DEF Register, SendersGone, LinkGone, Clear
  <2> QED
    BY <1>1, <2>1 DEF TypeOK, link, asked
<1>7. ASSUME NEW s \in Sessions, Return(s)
      PROVE  TypeOK'
  <2>1. <<>> \in Seq(Requests) /\ NoIds \in [Ids -> Requests \cup {NoRequest}]
    BY DEF NoIds
  <2>2. /\ phase' \in [Sessions -> Phase] /\ cut' \in [Sessions -> BOOLEAN]
        /\ call' \in [Requests -> Call]
        /\ pending' \in [Sessions -> [Ids -> Requests \cup {NoRequest}]]
        /\ rx' \in [Sessions -> Seq(Requests)]
    BY <1>1, <1>7, <2>1, DisconnectAllType DEF Return
  <2> QED
    BY <1>1, <1>7, <2>2 DEF TypeOK, Return
<1>8. CASE Connect \/ ConnectFails \/ Leave \/ \E s \in Sessions : LinkBreaks(s)
  <2>1. /\ UNCHANGED <<active, rx, pending, asked, rpc>>
        /\ phase' \in [Sessions -> Phase] /\ cut' \in [Sessions -> BOOLEAN]
    BY <1>1, <1>8 DEF Connect, ConnectFails, Leave, LinkBreaks, proxy, link, asked, Sessions
  <2>2. /\ breaks' \in 0..MaxBreaks /\ opened' \in 0..MaxSessions /\ daemon' \in 0..opened'
    <3>1. CASE Connect
      BY <1>1, <3>1 DEF Connect
    <3>2. CASE ConnectFails \/ Leave
      BY <1>1, <3>2 DEF ConnectFails, Leave, None
    <3>3. ASSUME NEW s \in Sessions, LinkBreaks(s)
          PROVE  breaks' \in 0..MaxBreaks /\ UNCHANGED <<opened, daemon>>
      BY <1>1, <3>3 DEF LinkBreaks
    <3> QED
      BY <1>1, <1>8, <3>1, <3>2, <3>3
  <2>3. backoff' \in MinBackoff..MaxBackoff
    BY <1>1, <1>8 DEF Connect, ConnectFails, Leave, LinkBreaks, proxy, link, asked, Doubled
  <2> QED
    BY <1>1, <2>1, <2>2, <2>3 DEF TypeOK, asked
<1>9. CASE Quiet
  BY <1>1, <1>9 DEF TypeOK, Quiet, vars
<1> QED
  BY <1>2, <1>3, <1>4, <1>5, <1>6, <1>7, <1>8, <1>9 DEF Next, Session, Request, Message

-----------------------------------------------------------------------------
(* Sessions                                                                *)

LEMMA SessionFacts ==
  ASSUME TypeOK
  PROVE  /\ opened \in Nat /\ breaks \in Nat /\ opened =< MaxSessions /\ daemon \in Nat
         /\ phase \in [Sessions -> Phase] /\ cut \in [Sessions -> BOOLEAN]
         /\ \A s \in Sessions : s \in Nat /\ s > 0
         /\ opened > 0 => opened \in Sessions
         /\ opened < MaxSessions => opened + 1 \in Sessions
BY BoundAssumption DEF TypeOK, Sessions

LEMMA InTurnStep ==
  ASSUME TypeOK, InTurn, Next
  PROVE  InTurn'
<1>0. /\ opened \in Nat /\ breaks \in Nat /\ opened =< MaxSessions
      /\ phase \in [Sessions -> Phase] /\ cut \in [Sessions -> BOOLEAN]
      /\ \A s \in Sessions : s \in Nat /\ s > 0
      /\ opened > 0 => opened \in Sessions
      /\ opened < MaxSessions => opened + 1 \in Sessions
      /\ active \in Sessions \cup {None} /\ daemon \in Nat
  BY SessionFacts DEF TypeOK
<1>1. CASE \E r \in Requests : LookUp(r) \/ Submit(r) \/ Abandon(r) \/ SpawnTask(r) \/ SendReply(r) \/ Resolve(r)
  <2>1. UNCHANGED <<active, phase, link>>
    BY <1>1 DEF LookUp, Submit, Abandon, SpawnTask, SendReply, Resolve, proxy
  <2> QED
    BY <2>1 DEF InTurn, link
<1>2. ASSUME NEW s \in Sessions, Register(s) \/ SendersGone(s) \/ LinkGone(s) \/ Clear(s) \/ TakeMessage(s)
      PROVE  InTurn'
  <2>1. /\ UNCHANGED link /\ phase[s] \notin {"unborn"}
        /\ phase' = phase \/ \E q \in Phase \ {"unborn", "accepted"} : phase' = [phase EXCEPT ![s] = q]
        /\ active' \in {active, None} \/ (active' = s /\ phase' = [phase EXCEPT ![s] = "serving"])
    BY <1>2 DEF Register, SendersGone, LinkGone, Clear, TakeMessage, Phase
  <2>2. \A t \in Sessions : /\ phase'[t] = "unborn" <=> phase[t] = "unborn"
                            /\ phase[t] \notin {"unborn", "accepted"} => phase'[t] \notin {"unborn", "accepted"}
    BY <1>0, <2>1
  <2>3. active' # None => phase'[active'] \notin {"unborn", "accepted"}
    <3>1. CASE active' = s /\ phase' = [phase EXCEPT ![s] = "serving"]
      BY <1>0, <3>1
    <3>2. CASE active' \in {active, None}
      BY <1>0, <2>2, <3>2 DEF InTurn
    <3> QED
      BY <2>1, <3>1, <3>2
  <2> QED
    BY <2>1, <2>2, <2>3 DEF InTurn, link
<1>3. ASSUME NEW s \in Sessions, Return(s)
      PROVE  InTurn'
  <2>1. /\ UNCHANGED <<active, opened, daemon>> /\ phase[s] = "draining"
        /\ phase' = [phase EXCEPT ![s] = "over"] /\ cut' = [cut EXCEPT ![s] = TRUE]
    BY <1>3 DEF Return
  <2> QED
    BY <1>0, <2>1 DEF InTurn
<1>4. CASE Connect
  <2>1. /\ UNCHANGED <<active, cut>> /\ daemon = None /\ opened < MaxSessions
        /\ opened' = opened + 1 /\ daemon' = opened + 1
        /\ phase' = [phase EXCEPT ![opened + 1] = "accepted"]
    BY <1>4 DEF Connect
  <2>2. phase[opened + 1] = "unborn" /\ active # opened + 1
    BY <1>0, <2>1 DEF InTurn, None
  <2>3. \A s \in Sessions : s < opened + 1 => s < opened \/ s = opened
    BY <1>0
  <2>4. active' # None => phase'[active'] \notin {"unborn", "accepted"}
    BY <1>0, <2>1, <2>2 DEF InTurn
  <2>5. \A s \in Sessions :
          /\ phase'[s] = "unborn" <=> s > opened'
          /\ cut'[s] => s =< opened'
          /\ s < opened' => cut'[s]
    BY <1>0, <2>1, <2>2, <2>3 DEF InTurn
  <2> QED
    BY <1>0, <2>1, <2>4, <2>5 DEF InTurn, None
<1>5. CASE ConnectFails
  BY <1>5 DEF ConnectFails, proxy, InTurn
<1>6. CASE Leave
  <2>1. /\ UNCHANGED <<active, phase, cut, opened>> /\ daemon # None /\ cut[daemon] /\ daemon' = None
    BY <1>6 DEF Leave, proxy
  <2> QED
    BY <2>1 DEF InTurn
<1>7. ASSUME NEW s \in Sessions, LinkBreaks(s)
      PROVE  InTurn'
  <2>1. UNCHANGED <<active, phase, opened, daemon>> /\ s =< opened /\ cut' = [cut EXCEPT ![s] = TRUE]
    BY <1>7 DEF LinkBreaks, proxy
  <2> QED
    BY <1>0, <2>1 DEF InTurn
<1>8. CASE Quiet
  BY <1>8 DEF Quiet, vars, InTurn
<1> QED
  BY <1>1, <1>2, <1>3, <1>4, <1>5, <1>6, <1>7, <1>8 DEF Next, Session, Request, Message

-----------------------------------------------------------------------------
(* What a broken link costs                                                *)

LEMMA HarmFinite ==
  ASSUME TypeOK
  PROVE  /\ IsFiniteSet(MayRegister) /\ Cardinality(MayRegister) \in Nat
         /\ IsFiniteSet(MayClear) /\ Cardinality(MayClear) \in Nat
<1>1. IsFiniteSet(Sessions)
  BY BoundAssumption, FS_Interval DEF Sessions
<1>2. IsFiniteSet(MayRegister) /\ IsFiniteSet(MayClear)
  BY <1>1, FS_Subset DEF MayRegister, MayClear
<1> QED
  BY <1>2, FS_CardinalityType

\* The last session and the others: only the last one's link may be whole.
LEMMA WholeIsLast ==
  ASSUME TypeOK, InTurn, NEW s \in Sessions, phase[s] # "unborn", ~cut[s]
  PROVE  s = opened
BY SessionFacts DEF InTurn

\* Whatever leaves the links and sessions alone leaves the budget alone.
LEMMA BudgetKept ==
  ASSUME Budget, UNCHANGED <<opened, breaks>>, MayRegister' = MayRegister, MayClear' = MayClear,
         Doomed' => Doomed, TypeOK
  PROVE  Budget'
BY SessionFacts, HarmFinite DEF Budget

\* A session that does harm to the last one has done it once and for all.
LEMMA BudgetSpent ==
  ASSUME TypeOK, Budget, UNCHANGED <<opened, breaks>>, NEW s,
         \/ s \in MayRegister /\ MayRegister' = MayRegister \ {s} /\ MayClear' = MayClear
         \/ s \in MayClear /\ MayClear' = MayClear \ {s} /\ MayRegister' = MayRegister
  PROVE  Budget'
<1>1. /\ IsFiniteSet(MayRegister) /\ Cardinality(MayRegister) \in Nat
      /\ IsFiniteSet(MayClear) /\ Cardinality(MayClear) \in Nat
      /\ opened \in Nat /\ breaks \in Nat
  BY HarmFinite, SessionFacts
<1>2. CASE s \in MayRegister /\ MayRegister' = MayRegister \ {s} /\ MayClear' = MayClear
  <2>1. Cardinality(MayRegister') = Cardinality(MayRegister) - 1
    BY <1>1, <1>2, FS_RemoveElement
  <2> QED
    BY <1>1, <1>2, <2>1 DEF Budget
<1>3. CASE s \in MayClear /\ MayClear' = MayClear \ {s} /\ MayRegister' = MayRegister
  <2>1. Cardinality(MayClear') = Cardinality(MayClear) - 1
    BY <1>1, <1>3, FS_RemoveElement
  <2> QED
    BY <1>1, <1>3, <2>1 DEF Budget
<1> QED
  BY <1>2, <1>3

\* A set that grows by one element at most is one larger at most.
LEMMA OneMore ==
  ASSUME NEW S, NEW T, NEW s, IsFiniteSet(S), T \subseteq S \cup {s}
  PROVE  Cardinality(T) \in Nat /\ Cardinality(T) =< Cardinality(S) + 1
<1>1. IsFiniteSet(S \cup {s}) /\ Cardinality(S \cup {s}) = IF s \in S THEN Cardinality(S) ELSE Cardinality(S) + 1
  BY FS_AddElement
<1>2. Cardinality(S) \in Nat /\ Cardinality(S \cup {s}) \in Nat
  BY <1>1, FS_CardinalityType
<1>3. Cardinality(S \cup {s}) =< Cardinality(S) + 1
  BY <1>1, <1>2
<1>4. IsFiniteSet(T) /\ Cardinality(T) =< Cardinality(S \cup {s})
  BY <1>1, FS_Subset
<1>5. Cardinality(T) \in Nat
  BY <1>4, FS_CardinalityType
<1> QED
  BY <1>2, <1>3, <1>4, <1>5

LEMMA BudgetStep ==
  ASSUME TypeOK, InTurn, Budget, Next
  PROVE  Budget'
<1>0. /\ opened \in Nat /\ breaks \in Nat /\ opened =< MaxSessions
      /\ phase \in [Sessions -> Phase] /\ cut \in [Sessions -> BOOLEAN]
      /\ \A s \in Sessions : s \in Nat /\ s > 0
      /\ opened > 0 => opened \in Sessions
      /\ opened < MaxSessions => opened + 1 \in Sessions
      /\ active \in Sessions \cup {None} /\ daemon \in Nat
  BY SessionFacts DEF TypeOK
<1>1. CASE \/ \E r \in Requests : LookUp(r) \/ Submit(r) \/ Abandon(r) \/ SpawnTask(r) \/ SendReply(r) \/ Resolve(r)
           \/ ConnectFails \/ Leave \/ Quiet
           \/ \E s \in Sessions : TakeMessage(s) /\ phase' = phase
  <2>1. UNCHANGED <<active, phase, cut, opened, breaks>>
    BY <1>1 DEF LookUp, Submit, Abandon, SpawnTask, SendReply, Resolve, ConnectFails, Leave, Quiet,
                TakeMessage, proxy, link, vars
  <2>2. MayRegister' = MayRegister /\ MayClear' = MayClear /\ Doomed' = Doomed
    BY <2>1 DEF MayRegister, MayClear, Doomed
  <2> QED
    BY <2>1, <2>2, BudgetKept
<1>2. ASSUME NEW s \in Sessions, Register(s)
      PROVE  Budget'
  <2>1. /\ UNCHANGED <<cut, opened, breaks>> /\ phase[s] = "accepted" /\ active' = s
        /\ phase' = [phase EXCEPT ![s] = "serving"]
    BY <1>2 DEF Register, link
  <2>2. MayClear' = MayClear
    BY <1>0, <2>1 DEF MayClear
  <2>3. CASE cut[s]
    <3>1. s \in MayRegister /\ MayRegister' = MayRegister \ {s}
      BY <1>0, <2>1, <2>3 DEF MayRegister
    <3> QED
      BY <2>1, <2>2, <3>1, BudgetSpent
  <2>4. CASE ~cut[s]
    <3>1. MayRegister' = MayRegister
      BY <1>0, <2>1, <2>4 DEF MayRegister
    <3>2. s = opened
      BY <2>1, <2>4, WholeIsLast
    <3>3. ~Doomed'
      BY <1>0, <2>1, <2>4, <3>2 DEF Doomed
    <3> QED
      BY <2>1, <2>2, <3>1, <3>3, BudgetKept
  <2> QED
    BY <2>3, <2>4
<1>3. ASSUME NEW s \in Sessions, SendersGone(s) \/ LinkGone(s) \/ (TakeMessage(s) /\ phase' # phase)
      PROVE  Budget'
  <2>1. /\ UNCHANGED <<active, cut, opened, breaks>> /\ phase[s] = "serving"
        /\ phase' = [phase EXCEPT ![s] = "clearing"]
        /\ cut[s] \/ active # s
    BY <1>3 DEF SendersGone, LinkGone, TakeMessage, link
  <2>2. MayRegister' = MayRegister /\ MayClear' = MayClear
    BY <1>0, <2>1 DEF MayRegister, MayClear
  <2>3. Doomed' => Doomed
    BY <1>0, <2>1 DEF Doomed
  <2> QED
    BY <2>1, <2>2, <2>3, BudgetKept
<1>4. ASSUME NEW s \in Sessions, Clear(s)
      PROVE  Budget'
  <2>1. /\ UNCHANGED <<cut, opened, breaks>> /\ phase[s] = "clearing" /\ active' = None
        /\ phase' = [phase EXCEPT ![s] = "draining"]
    BY <1>4 DEF Clear, link
  <2>2. MayRegister' = MayRegister
    BY <1>0, <2>1 DEF MayRegister
  <2>3. CASE cut[s]
    <3>1. s \in MayClear /\ MayClear' = MayClear \ {s}
      BY <1>0, <2>1, <2>3 DEF MayClear
    <3> QED
      BY <2>1, <2>2, <3>1, BudgetSpent
  <2>4. CASE ~cut[s]
    <3>1. MayClear' = MayClear
      BY <1>0, <2>1, <2>4 DEF MayClear
    <3>2. Doomed
      BY <1>0, <2>1, <2>4, WholeIsLast DEF Doomed
    <3> QED
      BY <2>1, <2>2, <3>1, <3>2, BudgetKept
  <2> QED
    BY <2>3, <2>4
<1>5. ASSUME NEW s \in Sessions, Return(s)
      PROVE  Budget'
  <2>1. /\ UNCHANGED <<active, opened, breaks>> /\ phase[s] = "draining"
        /\ phase' = [phase EXCEPT ![s] = "over"] /\ cut' = [cut EXCEPT ![s] = TRUE]
    BY <1>5 DEF Return
  <2>2. MayRegister' = MayRegister /\ MayClear' = MayClear
    BY <1>0, <2>1 DEF MayRegister, MayClear
  <2>3. Doomed' => Doomed
    BY <1>0, <2>1 DEF Doomed
  <2> QED
    BY <2>1, <2>2, <2>3, BudgetKept
<1>6. CASE Connect
  <2>1. /\ UNCHANGED <<active, cut, breaks>> /\ daemon = None /\ opened < MaxSessions
        /\ opened' = opened + 1 /\ phase' = [phase EXCEPT ![opened + 1] = "accepted"]
    BY <1>6 DEF Connect
  <2>2. opened + 1 \in Sessions /\ ~cut[opened + 1]
    BY <1>0, <2>1 DEF InTurn
  <2>3. MayRegister' = MayRegister /\ MayClear' = MayClear /\ ~Doomed'
    BY <1>0, <2>1, <2>2 DEF MayRegister, MayClear, Doomed
  <2>4. CASE opened > 0
    <3>1. Doomed
      BY <2>1, <2>4 DEF InTurn, Doomed
    <3> QED
      BY <1>0, <2>1, <2>3, <3>1, HarmFinite DEF Budget
  <2>5. CASE opened = 0
    <3>1. MayRegister = {} /\ MayClear = {}
      BY <1>0, <2>5 DEF MayRegister, MayClear, InTurn
    <3> QED
      BY <1>0, <2>1, <2>3, <2>5, <3>1, FS_EmptySet DEF Budget
  <2> QED
    BY <1>0, <2>4, <2>5
<1>7. ASSUME NEW s \in Sessions, LinkBreaks(s)
      PROVE  Budget'
  <2>1. /\ UNCHANGED <<active, phase, opened>> /\ breaks' = breaks + 1
        /\ s =< opened /\ ~cut[s] /\ cut' = [cut EXCEPT ![s] = TRUE]
    BY <1>7 DEF LinkBreaks, proxy
  <2>2. /\ MayRegister' \in SUBSET (MayRegister \cup {s})
        /\ MayClear' \in SUBSET (MayClear \cup {s})
    BY <1>0, <2>1 DEF MayRegister, MayClear
  <2>3. /\ Cardinality(MayRegister') \in Nat /\ Cardinality(MayRegister') =< Cardinality(MayRegister) + 1
        /\ Cardinality(MayClear') \in Nat /\ Cardinality(MayClear') =< Cardinality(MayClear) + 1
    BY <2>2, HarmFinite, OneMore
  <2>4. /\ Cardinality(MayRegister) \in Nat /\ Cardinality(MayClear) \in Nat
        /\ opened' \in Nat
    BY <1>0, <2>1, HarmFinite
  <2> QED
    BY <1>0, <2>1, <2>3, <2>4 DEF Budget
<1> QED
  BY <1>1, <1>2, <1>3, <1>4, <1>5, <1>6, <1>7 DEF Next, Session, Request, Message

-----------------------------------------------------------------------------
(* What a message taken from the channel, and a reply, change              *)

\* A taken message goes on record, and is the only one whose sender may drop
\* another: the one that was on record under the same id.
LEMMA TakeFacts ==
  ASSUME TypeOK, QueuedOnce, OnRecord, NEW s \in Sessions, TakeMessage(s), NEW r, r = Head(rx[s])
  PROVE  /\ r \in Requests /\ route[r] = s /\ rpc[r] = "none" /\ rid[r] \in Ids /\ rpc'[r] # "none"
         /\ call[r] \notin {"idle", "routed", "offline"}
         /\ \A q \in Requests : q # r => rpc'[q] = rpc[q]
         /\ \A t \in Sessions : t # s => pending'[t] = pending[t] /\ rx'[t] = rx[t]
         /\ pending'[s][rid[r]] = r /\ \A i \in Ids : i # rid[r] => pending'[s][i] = pending[s][i]
         /\ \A q \in Requests : call'[q] = IF q = pending[s][rid[r]] /\ call[q] = "waiting"
                                           THEN "disconnected" ELSE call[q]
<1>1. /\ r \in Requests /\ r = rx[s][1] /\ 1 \in DOMAIN rx[s]
  BY TakenType DEF TakeMessage
<1>2. route[r] = s /\ rpc[r] = "none" /\ call[r] \notin {"idle", "routed", "offline"}
  BY <1>1 DEF QueuedOnce
<1>3. /\ Inserted(s, r) \in [Ids -> Requests \cup {NoRequest}] /\ rid[r] \in Ids
      /\ \A i \in Ids : Inserted(s, r)[i] = IF i = rid[r] THEN r ELSE pending[s][i]
  BY <1>1, InsertedType
<1>4. /\ pending' = [pending EXCEPT ![s] = Inserted(s, r)]
      /\ call' = DisconnectAll({pending[s][i] : i \in Ids} \ {Inserted(s, r)[i] : i \in Ids})
      /\ rpc' = [rpc EXCEPT ![r] = IF cut[s] THEN "lost" ELSE "wire"]
      /\ rx' = [rx EXCEPT ![s] = Tail(rx[s])]
  BY DEF TakeMessage
<1>5. /\ pending'[s] = Inserted(s, r) /\ rpc'[r] # "none"
      /\ \A q \in Requests : q # r => rpc'[q] = rpc[q]
      /\ \A t \in Sessions : t # s => pending'[t] = pending[t] /\ rx'[t] = rx[t]
  BY <1>1, <1>4 DEF TypeOK
<1>6. ASSUME NEW q \in Requests
      PROVE  q \in {pending[s][i] : i \in Ids} \ {Inserted(s, r)[i] : i \in Ids} <=> q = pending[s][rid[r]]
  <2>1. \A i \in Ids : pending[s][i] = q => rid[q] = i /\ rpc[q] # "none"
    BY <1>6, RequestAssumption DEF OnRecord
  <2> QED
    BY <1>2, <1>3, <2>1
<1>7. \A q \in Requests : call'[q] = IF q = pending[s][rid[r]] /\ call[q] = "waiting"
                                     THEN "disconnected" ELSE call[q]
  BY <1>4, <1>6, DisconnectAllType
<1> QED
  BY <1>1, <1>2, <1>3, <1>5, <1>7

\* What is left in the channel is what was in it, but for the one taken.
LEMMA QueueAfterTake ==
  ASSUME TypeOK, QueuedOnce, NEW s \in Sessions, TakeMessage(s)
  PROVE  /\ \A k \in DOMAIN rx'[s] : k + 1 \in DOMAIN rx[s] /\ rx'[s][k] = rx[s][k + 1]
         /\ \A q : Queued(q, s)' <=> Queued(q, s) /\ q # Head(rx[s])
<1>1. rx[s] # <<>> /\ rx'[s] = Tail(rx[s])
  BY DEF TakeMessage, TypeOK
<1>2. /\ Head(rx[s]) = rx[s][1] /\ 1 \in DOMAIN rx[s]
      /\ \A k \in DOMAIN rx'[s] : k + 1 \in DOMAIN rx[s] /\ rx'[s][k] = rx[s][k + 1]
      /\ \A k \in DOMAIN rx[s] : k # 1 => k - 1 \in DOMAIN rx'[s] /\ rx'[s][k - 1] = rx[s][k]
  BY <1>1, TakenType
<1>3. DOMAIN rx'[s] \subseteq Nat \ {0} 
  <2>1. rx[s] \in Seq(Requests) /\ Tail(rx[s]) \in Seq(Requests)
    BY <1>1, TakenType DEF TypeOK
  <2> QED
    BY <1>1, <2>1, LenProperties
<1>4. \A k \in DOMAIN rx[s] : rx[s][k] = rx[s][1] => k = 1
  BY <1>2 DEF QueuedOnce
<1>5. ASSUME NEW q
      PROVE  Queued(q, s)' <=> Queued(q, s) /\ q # Head(rx[s])
  <2>1. ASSUME NEW k \in DOMAIN rx'[s], rx'[s][k] = q
        PROVE  Queued(q, s) /\ q # Head(rx[s])
    <3>1. k + 1 \in DOMAIN rx[s] /\ rx[s][k + 1] = q /\ k + 1 # 1
      BY <1>2, <1>3, <2>1
    <3> QED
      BY <1>2, <1>4, <3>1 DEF Queued
  <2>2. ASSUME NEW k \in DOMAIN rx[s], rx[s][k] = q, q # Head(rx[s])
        PROVE  Queued(q, s)'
    <3>1. k - 1 \in DOMAIN rx'[s] /\ rx'[s][k - 1] = q
      BY <1>2, <2>2
    <3> QED
      BY <3>1 DEF Queued
  <2> QED
    BY <2>1, <2>2 DEF Queued
<1> QED
  BY <1>2, <1>5

\* A reply answers the request on record under its id: its own or a tied one.
LEMMA ResolveFacts ==
  ASSUME TypeOK, OnRecord, Routed, NEW r \in Requests, Resolve(r),
         NEW s, s = route[r], NEW q, q = pending[s][rid[r]]
  PROVE  /\ s \in Sessions /\ q \in Requests \cup {NoRequest}
         /\ rpc[r] \in {"result", "error"} /\ rpc'[r] # "none"
         /\ \A p \in Requests : p # r => rpc'[p] = rpc[p]
         /\ q \in Requests => q = r \/ Tie(r, q)
         /\ \A t \in Sessions : t # s => pending'[t] = pending[t]
         /\ \A i \in Ids : pending'[s][i] = IF pending[s][i] = q THEN NoRequest ELSE pending[s][i]
         /\ \A p \in Requests : p # q => call'[p] = call[p] /\ answerer'[p] = answerer[p]
         /\ q \in Requests => IF call[q] = "waiting" THEN call'[q] = rpc[r] /\ answerer'[q] = r
                                                    ELSE call'[q] = call[q] /\ answerer'[q] = answerer[q]
<1>1. /\ rpc[r] \in {"result", "error"} /\ rpc' = [rpc EXCEPT ![r] = "read"]
      /\ pending' = [pending EXCEPT ![s] = [i \in Ids |-> IF pending[s][i] = q THEN NoRequest ELSE pending[s][i]]]
      /\ IF q # NoRequest /\ call[q] = "waiting"
         THEN call' = [call EXCEPT ![q] = rpc[r]] /\ answerer' = [answerer EXCEPT ![q] = r]
         ELSE UNCHANGED <<call, answerer>>
  BY DEF Resolve, Addressee
<1>2. s \in Sessions
  BY <1>1 DEF Routed
<1>3. q \in Requests \cup {NoRequest} /\ rid[r] \in Ids
  BY <1>2 DEF TypeOK
<1>4. q \in Requests => q = r \/ Tie(r, q)
  BY <1>2, <1>3, RequestAssumption DEF OnRecord, Tie
<1>5. /\ rpc'[r] # "none" /\ \A p \in Requests : p # r => rpc'[p] = rpc[p]
      /\ \A t \in Sessions : t # s => pending'[t] = pending[t]
      /\ \A i \in Ids : pending'[s][i] = IF pending[s][i] = q THEN NoRequest ELSE pending[s][i]
  BY <1>1, <1>2 DEF TypeOK
<1>6. /\ \A p \in Requests : p # q => call'[p] = call[p] /\ answerer'[p] = answerer[p]
      /\ q \in Requests => IF call[q] = "waiting" THEN call'[q] = rpc[r] /\ answerer'[q] = r
                                                 ELSE call'[q] = call[q] /\ answerer'[q] = answerer[q]
  <2>1. CASE q # NoRequest /\ call[q] = "waiting"
    BY <1>1, <1>3, <2>1 DEF TypeOK
  <2>2. CASE ~(q # NoRequest /\ call[q] = "waiting")
    BY <1>1, <1>3, <2>2, RequestAssumption DEF TypeOK
  <2> QED
    BY <2>1, <2>2
<1> QED
  BY <1>1, <1>2, <1>3, <1>4, <1>5, <1>6

-----------------------------------------------------------------------------
(* Requests                                                                *)

\* No request and no session goes back: what a request has been given, it
\* keeps, and a session that has returned has returned for good.
Onwards ==
  /\ rid' = rid
  /\ \A r \in Requests :
       /\ call[r] # "idle" => route'[r] = route[r]
       /\ rpc[r] # "none" => rpc'[r] # "none"
       /\ call[r] = "idle" /\ call'[r] \notin {"idle", "offline"} => route'[r] = active /\ active # None
       /\ call[r] = "offline" => call'[r] = "offline"
       /\ call[r] \notin {"idle", "routed", "offline"} => call'[r] \notin {"idle", "routed", "offline"}
       /\ call'[r] = "idle" => call[r] = "idle" /\ route'[r] = route[r]
       /\ call'[r] = "waiting" => call[r] \in {"routed", "waiting"}
  /\ \A s \in Sessions :
       /\ phase[s] \notin {"unborn", "accepted"} => phase'[s] \notin {"unborn", "accepted"}
       /\ phase[s] = "over" => phase'[s] = "over"

LEMMA NextOnwards ==
  ASSUME TypeOK, QueuedOnce, OnRecord, Routed, InTurn, Next
  PROVE  Onwards
<1>0. /\ call \in [Requests -> Call] /\ rpc \in [Requests -> Rpc]
      /\ route \in [Requests -> Sessions \cup {None}] /\ phase \in [Sessions -> Phase]
  BY DEF TypeOK
<1>1. ASSUME NEW r \in Requests, LookUp(r)
      PROVE  Onwards
  BY <1>0, <1>1 DEF LookUp, Onwards, proxy
<1>2. ASSUME NEW r \in Requests, Submit(r)
      PROVE  Onwards
  BY <1>0, <1>2 DEF Submit, Onwards
<1>3. ASSUME NEW r \in Requests, Abandon(r)
      PROVE  Onwards
  BY <1>0, <1>3 DEF Abandon, Onwards, proxy
<1>4. ASSUME NEW r \in Requests, SpawnTask(r)
      PROVE  Onwards
  BY <1>0, <1>4 DEF SpawnTask, Onwards, proxy, asked
<1>5. ASSUME NEW r \in Requests, SendReply(r)
      PROVE  Onwards
  BY <1>0, <1>5 DEF SendReply, Onwards, proxy, asked
<1>6. ASSUME NEW r \in Requests, Resolve(r)
      PROVE  Onwards
  <2> DEFINE s == route[r]
             q == pending[s][rid[r]]
  <2>1. UNCHANGED <<route, rid, phase>>
    BY <1>6 DEF Resolve
  <2>2. /\ s \in Sessions /\ q \in Requests \cup {NoRequest}
        /\ rpc[r] \in {"result", "error"} /\ rpc'[r] # "none"
        /\ \A p \in Requests : p # r => rpc'[p] = rpc[p]
        /\ \A p \in Requests : p # q => call'[p] = call[p]
        /\ q \in Requests => IF call[q] = "waiting" THEN call'[q] = rpc[r] ELSE call'[q] = call[q]
    BY <1>6, ResolveFacts
  <2> HIDE DEF s, q
  <2> QED
    BY <1>0, <2>1, <2>2 DEF Onwards
<1>7. ASSUME NEW s \in Sessions, TakeMessage(s)
      PROVE  Onwards
  <2> DEFINE r == Head(rx[s])
  <2>1. /\ UNCHANGED <<route, rid>>
        /\ phase[s] = "serving" /\ (phase' = phase \/ phase' = [phase EXCEPT ![s] = "clearing"])
    BY <1>7 DEF TakeMessage
  <2>2. /\ rpc[r] = "none" /\ rpc'[r] # "none" /\ \A q \in Requests : q # r => rpc'[q] = rpc[q]
        /\ \A q \in Requests : call'[q] = IF q = pending[s][rid[r]] /\ call[q] = "waiting"
                                          THEN "disconnected" ELSE call[q]
    BY <1>7, TakeFacts
  <2> HIDE DEF r
  <2> QED
    BY <1>0, <2>1, <2>2 DEF Onwards
<1>8. ASSUME NEW s \in Sessions, Register(s) \/ SendersGone(s) \/ LinkGone(s) \/ Clear(s)
      PROVE  Onwards
  <2>1. UNCHANGED <<call, route, rid, rpc>> /\ phase[s] \notin {"unborn", "over"}
        /\ \E p \in {"serving", "clearing", "draining"} : phase' = [phase EXCEPT ![s] = p]
    BY <1>8 DEF Register, SendersGone, LinkGone, Clear, asked
  <2> QED
    BY <1>0, <2>1 DEF Onwards
<1>9. ASSUME NEW s \in Sessions, Return(s)
      PROVE  Onwards
  <2>1. /\ UNCHANGED <<route, rid, rpc>> /\ phase' = [phase EXCEPT ![s] = "over"]
        /\ call' = DisconnectAll(Dropped(s))
    BY <1>9 DEF Return
  <2>2. \A r \in Requests : call'[r] = call[r] \/ (call[r] = "waiting" /\ call'[r] = "disconnected")
    BY <2>1, DisconnectAllType
  <2> QED
    BY <1>0, <2>1, <2>2 DEF Onwards
<1>10. CASE Connect
  <2>1. UNCHANGED <<call, route, rid, rpc>> /\ phase' = [phase EXCEPT ![opened + 1] = "accepted"]
        /\ opened < MaxSessions
    BY <1>10 DEF Connect, asked
  <2>2. opened + 1 \in Sessions /\ opened + 1 > opened
    BY <2>1, SessionFacts
  <2>3. phase[opened + 1] = "unborn"
    BY <2>2 DEF InTurn
  <2> QED
    BY <1>0, <2>1, <2>2, <2>3 DEF Onwards
<1>11. CASE ConnectFails \/ Leave \/ Quiet \/ \E s \in Sessions : LinkBreaks(s)
  <2>1. UNCHANGED <<call, route, rid, rpc, phase>>
    BY <1>11 DEF ConnectFails, Leave, Quiet, LinkBreaks, proxy, asked, vars
  <2> QED
    BY <2>1 DEF Onwards
<1> QED
  BY <1>1, <1>2, <1>3, <1>4, <1>5, <1>6, <1>7, <1>8, <1>9, <1>10, <1>11 DEF Next, Session, Request, Message

\* A message leaves a request only after that has been routed, and a reply is
\* only one to a message that left.
LEMMA RoutedStep ==
  ASSUME TypeOK, QueuedOnce, OnRecord, Routed, InTurn, Next
  PROVE  Routed'
<1>0. Onwards
  BY NextOnwards
<1>1. ASSUME NEW r \in Requests, call'[r] \in {"idle", "routed", "offline"}
      PROVE  rpc'[r] = "none"
  <2>1. call[r] \in {"idle", "routed", "offline"} /\ rpc[r] = "none"
    BY <1>0, <1>1 DEF Onwards, Routed
  <2>2. CASE \E s \in Sessions : TakeMessage(s)
    <3>1. PICK s \in Sessions : TakeMessage(s)
      BY <2>2
    <3>2. /\ call[Head(rx[s])] \notin {"idle", "routed", "offline"}
          /\ \A q \in Requests : q # Head(rx[s]) => rpc'[q] = rpc[q]
      BY <3>1, TakeFacts
    <3> QED
      BY <2>1, <3>2
  <2>3. CASE \E p \in Requests : SpawnTask(p) \/ SendReply(p) \/ Resolve(p)
    <3>1. PICK p \in Requests : SpawnTask(p) \/ SendReply(p) \/ Resolve(p)
      BY <2>3
    <3>2. rpc[p] # "none" /\ \E a : rpc' = [rpc EXCEPT ![p] = a]
      BY <3>1 DEF SpawnTask, SendReply, Resolve
    <3> QED
      BY <2>1, <3>2 DEF TypeOK
  <2>4. CASE UNCHANGED rpc
    BY <2>1, <2>4
  <2>5. \/ \E s \in Sessions : TakeMessage(s)
        \/ \E p \in Requests : SpawnTask(p) \/ SendReply(p) \/ Resolve(p)
        \/ UNCHANGED rpc
    BY DEF Next, Session, Request, Message, LookUp, Submit, Abandon, Register, SendersGone, LinkGone,
           Clear, Return, Connect, ConnectFails, Leave, LinkBreaks, Quiet, vars
  <2> QED
    BY <2>2, <2>3, <2>4, <2>5
<1>2. ASSUME NEW r \in Requests, call'[r] = "idle"
      PROVE  route'[r] = None
  BY <1>0, <1>2 DEF Onwards, Routed
<1>3. ASSUME NEW r \in Requests, call'[r] \notin {"idle", "offline"}
      PROVE  route'[r] \in Sessions /\ phase'[route'[r]] \notin {"unborn", "accepted"}
  <2>1. route'[r] \in Sessions /\ phase[route'[r]] \notin {"unborn", "accepted"}
    BY <1>0, <1>3 DEF Onwards, Routed, InTurn, TypeOK
  <2> QED
    BY <1>0, <2>1 DEF Onwards
<1>4. ASSUME NEW r \in Requests, answerer'[r] # NoRequest
      PROVE  call'[r] \notin {"idle", "routed", "offline"} /\ rpc'[answerer'[r]] # "none"
  <2>1. CASE answerer'[r] = answerer[r]
    BY <1>0, <1>4, <2>1 DEF Onwards, Routed, TypeOK
  <2>2. CASE \E p \in Requests : Resolve(p) /\ answerer'[r] # answerer[r]
    <3>1. PICK p \in Requests : Resolve(p) /\ answerer'[r] # answerer[r]
      BY <2>2
    <3>2. /\ rpc[p] \in {"result", "error"} /\ rpc'[p] # "none"
          /\ call[r] = "waiting" /\ answerer'[r] = p
      BY <3>1, ResolveFacts
    <3> QED
      BY <1>0, <3>2 DEF Onwards
  <2>3. UNCHANGED answerer \/ \E p \in Requests : Resolve(p)
    BY DEF Next, Session, Request, Message, LookUp, Submit, Abandon, Register, SendersGone, LinkGone,
           TakeMessage, SpawnTask, SendReply, Clear, Return, Connect, ConnectFails, Leave, LinkBreaks,
           Quiet, vars, asked
  <2> QED
    BY <2>1, <2>2, <2>3
<1> QED
  BY <1>1, <1>2, <1>3, <1>4 DEF Routed

\* The steps that touch the channels, the records, and what requests are told.
LEMMA WhoMoves ==
  ASSUME Next
  PROVE  /\ \/ UNCHANGED rx \/ \E r \in Requests : Submit(r)
            \/ \E s \in Sessions : TakeMessage(s) \/ Return(s)
         /\ \/ UNCHANGED pending \/ \E r \in Requests : Resolve(r)
            \/ \E s \in Sessions : TakeMessage(s) \/ Return(s)
         /\ \/ UNCHANGED call \/ \E r \in Requests : LookUp(r) \/ Submit(r) \/ Abandon(r) \/ Resolve(r)
            \/ \E s \in Sessions : TakeMessage(s) \/ Return(s)
         /\ UNCHANGED phase \/ Connect \/ \E s \in Sessions : Session(s)
BY DEF Next, Session, Request, Message, LookUp, Abandon, Register, SendersGone, LinkGone, SpawnTask,
       SendReply, Clear, Connect, ConnectFails, Leave, LinkBreaks, Quiet, Submit, Resolve, vars, proxy, asked

\* What Submit appends was in no channel.
LEMMA SubmitFacts ==
  ASSUME TypeOK, QueuedOnce, Routed, NEW r \in Requests, Submit(r), rx' # rx, NEW s, s = route[r]
  PROVE  /\ s \in Sessions /\ ~Queued(r, s) /\ rpc[r] = "none" /\ rpc' = rpc
         /\ phase[s] # "over" /\ call' = [call EXCEPT ![r] = "waiting"]
         /\ \A t \in Sessions : t # s => rx'[t] = rx[t]
         /\ \A k \in DOMAIN rx'[s] : (k \in DOMAIN rx[s] /\ rx'[s][k] = rx[s][k]) \/ (k = Len(rx[s]) + 1 /\ rx'[s][k] = r)
         /\ \A k \in DOMAIN rx[s] : k \in DOMAIN rx'[s] /\ rx'[s][k] = rx[s][k]
         /\ Len(rx[s]) + 1 \in DOMAIN rx'[s] /\ rx'[s][Len(rx[s]) + 1] = r
<1>1. s \in Sessions /\ rpc[r] = "none" /\ call[r] = "routed" /\ rpc' = rpc
  BY DEF Submit, Routed
<1>2. ~Queued(r, s)
  BY <1>1 DEF QueuedOnce, Queued
<1>3. phase[s] # "over" /\ call' = [call EXCEPT ![r] = "waiting"] /\ rx' = [rx EXCEPT ![s] = Append(rx[s], r)]
  BY DEF Submit
<1>4. rx[s] \in Seq(Requests)
  BY <1>1 DEF TypeOK
<1>5. /\ Len(rx[s]) \in Nat /\ DOMAIN rx[s] = 1 .. Len(rx[s])
      /\ DOMAIN Append(rx[s], r) = 1 .. Len(rx[s]) + 1
      /\ Append(rx[s], r)[Len(rx[s]) + 1] = r
      /\ \A k \in 1 .. Len(rx[s]) : Append(rx[s], r)[k] = rx[s][k]
  BY <1>4, AppendProperties, LenProperties
<1>6. rx'[s] = Append(rx[s], r) /\ \A t \in Sessions : t # s => rx'[t] = rx[t]
  BY <1>1, <1>3 DEF TypeOK
<1>7. \A k \in 1 .. Len(rx[s]) + 1 : k = Len(rx[s]) + 1 \/ k \in 1 .. Len(rx[s])
  <2>1. \A n \in Nat : \A k \in 1 .. n + 1 : k = n + 1 \/ k \in 1 .. n
    OBVIOUS
  <2> QED
    BY ONLY <1>5, <2>1
<1>8. \A k \in DOMAIN rx'[s] : (k \in DOMAIN rx[s] /\ rx'[s][k] = rx[s][k]) \/ (k = Len(rx[s]) + 1 /\ rx'[s][k] = r)
  BY ONLY <1>5, <1>6, <1>7, Zenon
<1>9. /\ \A k \in DOMAIN rx[s] : k \in DOMAIN rx'[s] /\ rx'[s][k] = rx[s][k]
      /\ Len(rx[s]) + 1 \in DOMAIN rx'[s] /\ rx'[s][Len(rx[s]) + 1] = r
  <2>1. Len(rx[s]) + 1 \in 1 .. Len(rx[s]) + 1 /\ \A k \in 1 .. Len(rx[s]) : k \in 1 .. Len(rx[s]) + 1
    BY <1>5
  <2> QED
    BY ONLY <2>1, <1>5, <1>6, Zenon
<1> QED
  BY <1>1, <1>2, <1>3, <1>6, <1>8, <1>9

LEMMA QueuedOnceStep ==
  ASSUME TypeOK, QueuedOnce, OnRecord, Routed, InTurn, Next
  PROVE  QueuedOnce'
<1>0. Onwards
  BY NextOnwards
<1>1. ASSUME NEW s \in Sessions, NEW k \in DOMAIN rx[s], rpc'[rx[s][k]] = "none"
      PROVE  /\ route'[rx[s][k]] = s
             /\ call'[rx[s][k]] \notin {"idle", "routed", "offline"}
  <2>1. rx[s][k] \in Requests
    BY <1>1, LenProperties, ElementOfSeq DEF TypeOK
  <2> QED
    BY <1>0, <1>1, <2>1 DEF QueuedOnce, Onwards
\* Nobody else's message leaves with a step that takes none.
<1>2. ASSUME NEW s \in Sessions, NEW k \in DOMAIN rx[s], \A t \in Sessions : ~TakeMessage(t)
      PROVE  rpc'[rx[s][k]] = "none"
  <2>1. rpc[rx[s][k]] = "none"
    BY <1>2 DEF QueuedOnce
  <2>2. CASE \E p \in Requests : SpawnTask(p) \/ SendReply(p) \/ Resolve(p)
    <3>1. PICK p \in Requests : SpawnTask(p) \/ SendReply(p) \/ Resolve(p)
      BY <2>2
    <3>2. rpc[p] # "none" /\ \E a : rpc' = [rpc EXCEPT ![p] = a]
      BY <3>1 DEF SpawnTask, SendReply, Resolve
    <3> QED
      BY <2>1, <3>2 DEF TypeOK
  <2>3. UNCHANGED rpc \/ \E p \in Requests : SpawnTask(p) \/ SendReply(p) \/ Resolve(p)
    BY <1>2 DEF Next, Session, Request, Message, LookUp, Submit, Abandon, Register, SendersGone, LinkGone,
                Clear, Return, Connect, ConnectFails, Leave, LinkBreaks, Quiet, vars
  <2> QED
    BY <2>1, <2>2, <2>3
<1>3. ASSUME NEW s \in Sessions, TakeMessage(s)
      PROVE  QueuedOnce'
  <2> DEFINE h == Head(rx[s])
  <2>1. /\ \A q \in Requests : q # h => rpc'[q] = rpc[q]
        /\ \A t \in Sessions : t # s => rx'[t] = rx[t]
        /\ h \in Requests /\ route[h] = s
    BY <1>3, TakeFacts
  <2>2. \A k \in DOMAIN rx'[s] : k + 1 \in DOMAIN rx[s] /\ rx'[s][k] = rx[s][k + 1]
    BY <1>3, QueueAfterTake
  <2>3. \A k \in DOMAIN rx'[s] : k \in Nat \ {0} /\ rx'[s][k] # h
    <3>1. rx'[s] = Tail(rx[s]) /\ rx[s] # <<>>
      BY <1>3 DEF TakeMessage, TypeOK
    <3>2. rx'[s] \in Seq(Requests) /\ h = rx[s][1] /\ 1 \in DOMAIN rx[s]
      BY <3>1, TakenType
    <3>3. \A k \in DOMAIN rx'[s] : k \in Nat \ {0}
      BY <3>2, LenProperties
    <3>4. \A k \in DOMAIN rx[s] : rx[s][k] = h => k = 1
      BY <3>2 DEF QueuedOnce
    <3>5. \A k \in DOMAIN rx'[s] : k + 1 # 1
      BY <3>3
    <3> QED
      BY <2>2, <3>3, <3>4, <3>5
  <2>4. ASSUME NEW t \in Sessions, NEW k \in DOMAIN rx[t], rx[t][k] # h
        PROVE  rpc'[rx[t][k]] = "none"
    <3>1. rx[t][k] \in Requests
      BY LenProperties, ElementOfSeq DEF TypeOK
    <3> QED
      BY <2>1, <2>4, <3>1 DEF QueuedOnce
  <2>5. ASSUME NEW t \in Sessions, t # s
        PROVE  \A k \in DOMAIN rx[t] : rx[t][k] # h
    BY <2>1, <2>5 DEF QueuedOnce
  <2> HIDE DEF h
  <2>6. ASSUME NEW t \in Sessions, NEW k \in DOMAIN rx'[t]
        PROVE  /\ route'[rx'[t][k]] = t /\ rpc'[rx'[t][k]] = "none"
               /\ call'[rx'[t][k]] \notin {"idle", "routed", "offline"}
    BY <1>1, <2>1, <2>2, <2>3, <2>4, <2>5
  <2>7. ASSUME NEW t \in Sessions, NEW j \in DOMAIN rx'[t], NEW k \in DOMAIN rx'[t], rx'[t][j] = rx'[t][k]
        PROVE  j = k
    <3>1. CASE t = s
      <4>1. j + 1 = k + 1
        BY <2>2, <2>7, <3>1 DEF QueuedOnce
      <4> QED
        BY <2>3, <3>1, <4>1
    <3>2. CASE t # s
      BY <2>1, <2>7, <3>2 DEF QueuedOnce
    <3> QED
      BY <3>1, <3>2
  <2> QED
    BY <2>6, <2>7 DEF QueuedOnce
<1>4. ASSUME NEW r \in Requests, Submit(r), rx' # rx
      PROVE  QueuedOnce'
  <2> DEFINE s == route[r]
             n == Len(rx[s]) + 1
  <2>1. /\ s \in Sessions /\ ~Queued(r, s) /\ rpc'[r] = "none" /\ call' = [call EXCEPT ![r] = "waiting"]
        /\ \A t \in Sessions : t # s => rx'[t] = rx[t]
        /\ \A k \in DOMAIN rx'[s] : (k \in DOMAIN rx[s] /\ rx'[s][k] = rx[s][k]) \/ (k = n /\ rx'[s][k] = r)
    BY <1>4, SubmitFacts
  <2>2. route'[r] = s /\ call'[r] = "waiting"
    BY <1>4, <2>1 DEF Submit, TypeOK
  <2>3. \A t \in Sessions : ~TakeMessage(t)
    BY <1>4, TakeFacts DEF Submit
  <2>4. \A t \in Sessions : \A k \in DOMAIN rx[t] :
          /\ rpc'[rx[t][k]] = "none" /\ route'[rx[t][k]] = t
          /\ call'[rx[t][k]] \notin {"idle", "routed", "offline"}
    BY <1>1, <1>2, <2>3
  <2>5. \A k \in DOMAIN rx[s] : rx[s][k] # r
    BY <2>1 DEF Queued
  <2> HIDE DEF s, n
  <2>6. ASSUME NEW t \in Sessions, NEW k \in DOMAIN rx'[t]
        PROVE  /\ route'[rx'[t][k]] = t /\ rpc'[rx'[t][k]] = "none"
               /\ call'[rx'[t][k]] \notin {"idle", "routed", "offline"}
    BY <2>1, <2>2, <2>4
  <2>7. ASSUME NEW t \in Sessions, NEW j \in DOMAIN rx'[t], NEW k \in DOMAIN rx'[t], rx'[t][j] = rx'[t][k]
        PROVE  j = k
    BY <2>1, <2>5, <2>7 DEF QueuedOnce
  <2> QED
    BY <2>6, <2>7 DEF QueuedOnce
<1>5. ASSUME NEW s \in Sessions, Return(s)
      PROVE  QueuedOnce'
  <2>1. /\ \A t \in Sessions : rx'[t] = IF t = s THEN <<>> ELSE rx[t]
        /\ UNCHANGED rpc
    BY <1>5 DEF Return, TypeOK
  <2>2. DOMAIN <<>> = {}
    OBVIOUS
  <2>3. \A t \in Sessions : \A k \in DOMAIN rx'[t] : k \in DOMAIN rx[t] /\ rx'[t][k] = rx[t][k]
    BY <2>1, <2>2
  <2>4. \A t \in Sessions : \A k \in DOMAIN rx[t] : rpc'[rx[t][k]] = "none"
    BY <2>1 DEF QueuedOnce
  <2> QED
    BY <1>1, <2>3, <2>4 DEF QueuedOnce
<1>6. CASE UNCHANGED rx /\ \A t \in Sessions : ~TakeMessage(t)
  BY <1>1, <1>2, <1>6 DEF QueuedOnce
<1> QED
  BY <1>3, <1>4, <1>5, <1>6, WhoMoves

LEMMA OnRecordStep ==
  ASSUME TypeOK, QueuedOnce, OnRecord, Routed, InTurn, Next
  PROVE  OnRecord'
<1>0. Onwards
  BY NextOnwards
<1>1. ASSUME NEW s \in Sessions, NEW i \in Ids, NEW r, r = pending[s][i], r # NoRequest
      PROVE  rid'[r] = i /\ route'[r] = s /\ rpc'[r] # "none"
  <2>1. r \in Requests /\ rid[r] = i /\ route[r] = s /\ rpc[r] # "none"
    BY <1>1 DEF OnRecord, TypeOK
  <2>2. call[r] # "idle"
    BY <2>1 DEF Routed
  <2> QED
    BY <1>0, <2>1, <2>2 DEF Onwards
<1>2. ASSUME NEW s \in Sessions, TakeMessage(s), NEW t \in Sessions, NEW i \in Ids,
             pending'[t][i] # pending[t][i]
      PROVE  /\ t = s /\ i = rid[Head(rx[s])] /\ pending'[t][i] = Head(rx[s])
             /\ rid'[Head(rx[s])] = i /\ route'[Head(rx[s])] = t /\ rpc'[Head(rx[s])] # "none"
  <2>1. UNCHANGED <<rid, route>>
    BY <1>2 DEF TakeMessage
  <2> QED
    BY <1>2, <2>1, TakeFacts
<1>3. ASSUME NEW s \in Sessions, NEW i \in Ids,
             (\E r \in Requests : Resolve(r)) \/ (\E t \in Sessions : Return(t)),
             pending'[s][i] # pending[s][i]
      PROVE  pending'[s][i] = NoRequest
  <2>1. ASSUME NEW r \in Requests, Resolve(r)
        PROVE  pending'[s][i] = NoRequest
    BY <1>3, <2>1, ResolveFacts
  <2>2. ASSUME NEW t \in Sessions, Return(t)
        PROVE  pending'[s][i] = NoRequest
    BY <1>3, <2>2 DEF Return, TypeOK, NoIds
  <2> QED
    BY <1>3, <2>1, <2>2
<1>4. ASSUME NEW s \in Sessions, NEW i \in Ids, pending'[s][i] # NoRequest
      PROVE  rid'[pending'[s][i]] = i /\ route'[pending'[s][i]] = s /\ rpc'[pending'[s][i]] # "none"
  <2>1. CASE pending'[s][i] = pending[s][i]
    BY <1>1, <1>4, <2>1
  <2>2. CASE pending'[s][i] # pending[s][i]
    <3>1. \E t \in Sessions : TakeMessage(t)
      BY <1>3, <1>4, <2>2, WhoMoves
    <3> QED
      BY <1>2, <2>2, <3>1
  <2> QED
    BY <2>1, <2>2
<1> QED
  BY <1>4 DEF OnRecord

-----------------------------------------------------------------------------
(* The properties of the runs                                              *)

QueuedNext(r, s) == \E k \in DOMAIN rx'[s] : rx'[s][k] = r

\* WaitingIsHeld with its exclusive or spelt out: what the proof works with.
LEMMA HeldMeans ==
  ASSUME WaitingIsHeld, NEW r \in Requests, call[r] = "waiting"
  PROVE  /\ phase[route[r]] \in {"serving", "clearing", "draining"}
         /\ Queued(r, route[r]) => pending[route[r]][rid[r]] # r
         /\ ~Queued(r, route[r]) => pending[route[r]][rid[r]] = r
<1>1. (\E k \in DOMAIN rx[route[r]] : rx[route[r]][k] = r) # (pending[route[r]][rid[r]] = r)
  BY DEF WaitingIsHeld
<1> QED
  BY <1>1 DEF WaitingIsHeld, Queued

LEMMA HeldNext ==
  ASSUME \A r \in Requests : call'[r] = "waiting" =>
           /\ phase'[route'[r]] \in {"serving", "clearing", "draining"}
           /\ QueuedNext(r, route'[r]) => pending'[route'[r]][rid'[r]] # r
           /\ ~QueuedNext(r, route'[r]) => pending'[route'[r]][rid'[r]] = r
  PROVE  WaitingIsHeld'
<1>1. ASSUME NEW r \in Requests, call'[r] = "waiting"
      PROVE  (\E k \in DOMAIN rx'[route'[r]] : rx'[route'[r]][k] = r) # (pending'[route'[r]][rid'[r]] = r)
  <2>1. CASE QueuedNext(r, route'[r])
    BY <1>1, <2>1 DEF QueuedNext
  <2>2. CASE ~QueuedNext(r, route'[r])
    BY <1>1, <2>2 DEF QueuedNext
  <2> QED
    BY <2>1, <2>2
<1> QED
  BY <1>1 DEF WaitingIsHeld

\* A session that has released all it holds is one nobody waits for.
LEMMA ReturnFacts ==
  ASSUME TypeOK, WaitingIsHeld, Routed, NEW s \in Sessions, Return(s)
  PROVE  /\ \A t \in Sessions : t # s => pending'[t] = pending[t] /\ rx'[t] = rx[t]
         /\ \A r \in Requests : call'[r] = "waiting" => call[r] = "waiting" /\ route[r] # s
         /\ \A r \in Requests : call'[r] = call[r]
                 \/ (r \in Dropped(s) /\ call[r] = "waiting" /\ call'[r] = "disconnected")
<1>1. /\ call' = DisconnectAll(Dropped(s))
      /\ pending' = [pending EXCEPT ![s] = NoIds] /\ rx' = [rx EXCEPT ![s] = <<>>]
  BY DEF Return
<1>2. \A r \in Requests : call'[r] = IF r \in Dropped(s) /\ call[r] = "waiting" THEN "disconnected" ELSE call[r]
  BY <1>1, DisconnectAllType
<1>3. ASSUME NEW r \in Requests, call[r] = "waiting", route[r] = s
      PROVE  r \in Dropped(s)
  <2>1. Queued(r, s) \/ pending[s][rid[r]] = r
    BY <1>3 DEF WaitingIsHeld, Queued
  <2>2. rid[r] \in Ids
    BY DEF TypeOK
  <2> QED
    BY <2>1, <2>2 DEF Dropped, Queued
<1>4. \A t \in Sessions : t # s => pending'[t] = pending[t] /\ rx'[t] = rx[t]
  BY <1>1 DEF TypeOK
<1> QED
  BY <1>2, <1>3, <1>4

LEMMA WaitingStep ==
  ASSUME TypeOK, QueuedOnce, OnRecord, Routed, InTurn, WaitingIsHeld, Next
  PROVE  WaitingIsHeld'
<1>0. Onwards
  BY NextOnwards
\* The session of a request that goes on waiting does not return.
<1>1. ASSUME NEW r \in Requests, call'[r] = "waiting"
      PROVE  /\ call[r] \in {"routed", "waiting"} /\ route'[r] = route[r] /\ rid' = rid
             /\ route[r] \in Sessions
             /\ phase'[route[r]] \in {"serving", "clearing", "draining"}
  <2>1. call[r] \in {"routed", "waiting"} /\ route'[r] = route[r] /\ rid' = rid
    BY <1>0, <1>1 DEF Onwards
  <2>2. route[r] \in Sessions /\ phase[route[r]] \notin {"unborn", "accepted"}
    BY <2>1 DEF Routed
  <2>3. phase[route[r]] # "over"
    <3>1. CASE call[r] = "waiting"
      BY <3>1 DEF WaitingIsHeld
    <3>2. CASE call[r] = "routed"
      <4>1. \E q \in Requests : Submit(q)
        <5>1. \A s \in Sessions : TakeMessage(s) \/ Return(s) => call'[r] # "waiting"
          BY <1>1, <3>2, TakeFacts, ReturnFacts
        <5>2. \A q \in Requests : Resolve(q) => call'[r] # "waiting"
          BY <1>1, <3>2, ResolveFacts
        <5>3. \A q \in Requests : LookUp(q) \/ Abandon(q) => call'[r] # "waiting"
          BY <1>1, <3>2 DEF LookUp, Abandon, TypeOK
        <5> QED
          BY <1>1, <3>2, <5>1, <5>2, <5>3, WhoMoves
      <4>2. call \in [Requests -> Call]
        BY DEF TypeOK
      <4> QED
        BY <1>1, <3>2, <4>1, <4>2 DEF Submit
    <3> QED
      BY <2>1, <3>1, <3>2
  <2>4. phase'[route[r]] # "over"
    <3>1. ASSUME NEW s \in Sessions, Return(s)
          PROVE  phase'[route[r]] # "over"
      <4>1. route[r] # s
        BY <1>1, <3>1, ReturnFacts
      <4>2. phase' = [phase EXCEPT ![s] = "over"] /\ phase \in [Sessions -> Phase]
        BY <3>1 DEF Return, TypeOK
      <4> QED
        BY <2>2, <2>3, <4>1, <4>2
    <3>2. ASSUME NEW s \in Sessions, Register(s) \/ TakeMessage(s) \/ SendersGone(s) \/ LinkGone(s) \/ Clear(s)
          PROVE  phase'[route[r]] # "over"
      <4>1. /\ phase' = phase \/ \E p \in {"serving", "clearing", "draining"} : phase' = [phase EXCEPT ![s] = p]
            /\ phase \in [Sessions -> Phase]
        BY <3>2 DEF Register, TakeMessage, SendersGone, LinkGone, Clear, TypeOK
      <4> QED
        BY <2>2, <2>3, <4>1
    <3>3. CASE Connect
      <4>1. phase' = [phase EXCEPT ![opened + 1] = "accepted"] /\ phase \in [Sessions -> Phase]
        BY <3>3 DEF Connect, TypeOK
      <4> QED
        BY <2>2, <2>3, <4>1
    <3>4. CASE UNCHANGED phase
      BY <2>3, <3>4
    <3> QED
      BY <3>1, <3>2, <3>3, <3>4, WhoMoves DEF Session
  <2>5. phase'[route[r]] \notin {"unborn", "accepted"} /\ phase'[route[r]] \in Phase
    BY <1>0, <2>2, TypeStep DEF Onwards, TypeOK
  <2> QED
    BY <2>1, <2>2, <2>4, <2>5 DEF Phase
<1>2. ASSUME NEW r \in Requests, call'[r] = "waiting"
      PROVE  /\ QueuedNext(r, route[r]) => pending'[route[r]][rid[r]] # r
             /\ ~QueuedNext(r, route[r]) => pending'[route[r]][rid[r]] = r
  <2> DEFINE s == route[r]
             i == rid[r]
  <2>0. s \in Sessions /\ i \in Ids /\ r # NoRequest /\ call \in [Requests -> Call]
    BY <1>1, <1>2, RequestAssumption DEF TypeOK
  \* A new one is put in the channel by its own step.
  <2>1. CASE call[r] = "routed"
    <3>1. ~Queued(r, s) /\ pending[s][i] # r
      BY <2>0, <2>1 DEF Queued, QueuedOnce, OnRecord, Routed
    <3>2. \A t \in Sessions : TakeMessage(t) \/ Return(t) => call'[r] # "waiting"
      BY <2>1, TakeFacts, ReturnFacts
    <3>3. \A q \in Requests : Resolve(q) => call'[r] # "waiting"
      BY <2>1, ResolveFacts
    <3>4. \A q \in Requests : LookUp(q) \/ Abandon(q) => call'[r] # "waiting"
      BY <2>0, <2>1 DEF LookUp, Abandon
    <3>5. PICK q \in Requests : Submit(q)
      BY <1>2, <2>1, <3>2, <3>3, <3>4, WhoMoves
    <3>6. q = r /\ UNCHANGED pending /\ rx' # rx
      <4>1. q = r /\ UNCHANGED pending /\ phase[s] # "over"
        BY <1>2, <2>0, <2>1, <3>5 DEF Submit
      <4>2. rx' = [rx EXCEPT ![s] = Append(rx[s], r)] /\ rx[s] \in Seq(Requests) /\ rx \in [Sessions -> Seq(Requests)]
        BY <2>0, <3>5, <4>1 DEF Submit, TypeOK
      <4>3. Append(rx[s], r) # rx[s]
        BY <4>2, AppendProperties, LenProperties
      <4> QED
        BY <2>0, <4>1, <4>2, <4>3
    <3>7. QueuedNext(r, s)
      BY <3>5, <3>6, SubmitFacts DEF QueuedNext
    <3> QED
      BY <3>1, <3>6, <3>7
  <2>2. CASE call[r] = "waiting"
    <3>1. /\ Queued(r, s) => pending[s][i] # r
          /\ ~Queued(r, s) => pending[s][i] = r
      BY <2>2, HeldMeans
    <3>2. ASSUME NEW t \in Sessions, TakeMessage(t)
          PROVE  /\ QueuedNext(r, s) => pending'[s][i] # r
                 /\ ~QueuedNext(r, s) => pending'[s][i] = r
      <4> DEFINE h == Head(rx[t])
      <4>1. /\ h \in Requests /\ rpc[h] = "none" /\ rid[h] \in Ids /\ route[h] = t
            /\ \A u \in Sessions : u # t => pending'[u] = pending[u] /\ rx'[u] = rx[u]
            /\ pending'[t][rid[h]] = h /\ \A j \in Ids : j # rid[h] => pending'[t][j] = pending[t][j]
            /\ call'[r] = IF r = pending[t][rid[h]] /\ call[r] = "waiting" THEN "disconnected" ELSE call[r]
        BY <3>2, TakeFacts
      <4>2. QueuedNext(r, t) <=> Queued(r, t) /\ r # h
        BY <3>2, QueueAfterTake DEF QueuedNext, Queued
      <4> HIDE DEF h, s, i
      <4>3. CASE s # t
        BY <3>1, <4>1, <4>3, <2>0 DEF QueuedNext, Queued
      <4>4. CASE s = t /\ r = h
        BY <4>1, <4>2, <4>4 DEF i
      <4>5. CASE s = t /\ r # h
        <5>1. pending[s][i] = r => rid[h] # i
          BY <1>2, <2>2, <4>1, <4>5
        <5>2. pending'[s][i] = r <=> pending[s][i] = r
          BY <2>0, <4>1, <4>5, <5>1
        <5> QED
          BY <3>1, <4>2, <4>5, <5>2
      <4> QED
        BY <4>3, <4>4, <4>5
    <3>3. ASSUME NEW q \in Requests, Resolve(q)
          PROVE  /\ QueuedNext(r, s) => pending'[s][i] # r
                 /\ ~QueuedNext(r, s) => pending'[s][i] = r
      <4> DEFINE t == route[q]
                 a == pending[t][rid[q]]
      <4>1. /\ t \in Sessions /\ rpc[q] \in {"result", "error"}
            /\ \A u \in Sessions : u # t => pending'[u] = pending[u]
            /\ \A j \in Ids : pending'[t][j] = IF pending[t][j] = a THEN NoRequest ELSE pending[t][j]
            /\ a \in Requests => IF call[a] = "waiting" THEN call'[a] = rpc[q] ELSE call'[a] = call[a]
        BY <3>3, ResolveFacts
      <4>2. UNCHANGED rx
        BY <3>3 DEF Resolve
      <4> HIDE DEF t, a, s, i
      <4>3. r # a
        BY <1>2, <2>2, <4>1
      <4>4. pending'[s][i] = r <=> pending[s][i] = r
        BY <2>0, <4>1, <4>3
      <4> QED
        BY <3>1, <4>2, <4>4 DEF QueuedNext, Queued
    <3>4. ASSUME NEW t \in Sessions, Return(t)
          PROVE  /\ QueuedNext(r, s) => pending'[s][i] # r
                 /\ ~QueuedNext(r, s) => pending'[s][i] = r
      <4>1. s # t /\ \A u \in Sessions : u # t => pending'[u] = pending[u] /\ rx'[u] = rx[u]
        BY <1>2, <3>4, ReturnFacts
      <4> HIDE DEF s, i
      <4> QED
        BY <2>0, <3>1, <4>1 DEF QueuedNext, Queued
    <3>5. ASSUME NEW q \in Requests, Submit(q)
          PROVE  /\ QueuedNext(r, s) => pending'[s][i] # r
                 /\ ~QueuedNext(r, s) => pending'[s][i] = r
      <4>1. UNCHANGED pending /\ call[q] = "routed" /\ q # r
        BY <2>2, <3>5 DEF Submit
      <4>2. CASE rx' # rx
        <5> DEFINE t == route[q]
        <5>0. /\ t \in Sessions /\ \A u \in Sessions : u # t => rx'[u] = rx[u]
              /\ \A k \in DOMAIN rx'[t] : (k \in DOMAIN rx[t] /\ rx'[t][k] = rx[t][k]) \/ (k = Len(rx[t]) + 1 /\ rx'[t][k] = q)
          BY <3>5, <4>2, SubmitFacts
        <5>1. \A k \in DOMAIN rx[t] : k \in DOMAIN rx'[t] /\ rx'[t][k] = rx[t][k]
          BY <3>5, <4>2, SubmitFacts
        <5> HIDE DEF t
        <5> HIDE DEF s, i
        <5>2. QueuedNext(r, s) <=> Queued(r, s)
          BY <2>0, <4>1, <5>0, <5>1 DEF QueuedNext, Queued
        <5> QED
          BY <3>1, <4>1, <5>2
      <4>3. CASE rx' = rx
        BY <3>1, <4>1, <4>3 DEF QueuedNext, Queued
      <4> QED
        BY <4>2, <4>3
    <3>6. CASE UNCHANGED <<rx, pending>>
      BY <3>1, <3>6 DEF QueuedNext, Queued
    <3> QED
      BY <3>2, <3>3, <3>4, <3>5, <3>6, WhoMoves
  <2> QED
    BY <1>1, <1>2, <2>1, <2>2
<1> QED
  BY <1>1, <1>2, HeldNext

TieNext(q, r) == q # r /\ rid'[q] = rid'[r] /\ route'[q] = route'[r]

LEMMA AnsweredStep ==
  ASSUME TypeOK, QueuedOnce, OnRecord, Routed, InTurn, AnsweredByItsOwnReply, Next
  PROVE  AnsweredByItsOwnReply'
<1>0. Onwards
  BY NextOnwards
<1>1. ASSUME NEW r \in Requests, NEW q \in Requests, call[r] # "idle", call[q] # "idle", Tie(q, r)
      PROVE  TieNext(q, r)
  BY <1>0, <1>1 DEF Onwards, Tie, TieNext
<1>2. ASSUME NEW r \in Requests, answerer'[r] # NoRequest
      PROVE  answerer'[r] = r \/ TieNext(answerer'[r], r)
  <2>1. CASE answerer'[r] = answerer[r]
    <3>1. answerer[r] \in Requests /\ call[r] # "idle" /\ call[answerer[r]] # "idle"
      BY <1>2, <2>1 DEF Routed, TypeOK
    <3>2. answerer[r] = r \/ Tie(answerer[r], r)
      BY <1>2, <2>1 DEF AnsweredByItsOwnReply
    <3> QED
      BY <1>1, <2>1, <3>1, <3>2
  <2>2. CASE answerer'[r] # answerer[r]
    <3>1. PICK p \in Requests : Resolve(p)
      BY <2>2 DEF Next, Session, Request, Message, LookUp, Submit, Abandon, Register, SendersGone, LinkGone,
             TakeMessage, SpawnTask, SendReply, Clear, Return, Connect, ConnectFails, Leave, LinkBreaks,
             Quiet, vars, asked
    <3>2. /\ rpc[p] \in {"result", "error"} /\ call[r] = "waiting" /\ answerer'[r] = p
          /\ r = p \/ Tie(p, r)
      BY <2>2, <3>1, ResolveFacts
    <3>3. call[r] # "idle" /\ call[p] # "idle"
      BY <3>2 DEF Routed
    <3> QED
      BY <1>1, <3>2, <3>3
  <2> QED
    BY <2>1, <2>2
<1> QED
  BY <1>2 DEF AnsweredByItsOwnReply, Tie, TieNext

LEMMA DisconnectedStep ==
  ASSUME TypeOK, QueuedOnce, OnRecord, Routed, InTurn, WaitingIsHeld, DisconnectedIsTrue, Next
  PROVE  DisconnectedIsTrue'
<1>0. Onwards
  BY NextOnwards
<1>1. ASSUME NEW r \in Requests, call'[r] = "disconnected", NEW q \in Requests, Tie(q, r),
             route[r] \in Sessions
      PROVE  TieNext(q, r)
  <2>1. None \notin Sessions
    BY DEF None, Sessions
  <2>2. call[q] # "idle" /\ call[r] # "idle"
    BY <1>1, <2>1 DEF Routed, Tie
  <2> QED
    BY <1>0, <1>1, <2>2 DEF Onwards, Tie, TieNext
<1>2. ASSUME NEW r \in Requests, call'[r] = "disconnected", call[r] = "disconnected"
      PROVE  phase'[route'[r]] = "over" \/ \E q \in Requests : TieNext(q, r)
  <2>1. route[r] \in Sessions /\ route'[r] = route[r]
    BY <1>0, <1>2 DEF Onwards, Routed
  <2>2. CASE phase[route[r]] = "over"
    BY <1>0, <2>1, <2>2 DEF Onwards
  <2>3. CASE \E q \in Requests : Tie(q, r)
    BY <1>1, <1>2, <2>1, <2>3
  <2> QED
    BY <1>2, <2>2, <2>3 DEF DisconnectedIsTrue
<1>3. ASSUME NEW r \in Requests, call'[r] = "disconnected", call[r] # "disconnected"
      PROVE  phase'[route'[r]] = "over" \/ \E q \in Requests : TieNext(q, r)
  <2>1. ASSUME NEW s \in Sessions, TakeMessage(s)
        PROVE  \E q \in Requests : TieNext(q, r)
    <3> DEFINE h == Head(rx[s])
    <3>1. /\ h \in Requests /\ rpc[h] = "none" /\ rid[h] \in Ids /\ route[h] = s
          /\ call'[r] = IF r = pending[s][rid[h]] /\ call[r] = "waiting" THEN "disconnected" ELSE call[r]
      BY <2>1, TakeFacts
    <3> HIDE DEF h
    <3>2. r = pending[s][rid[h]] /\ r # NoRequest
      BY <1>3, <3>1, RequestAssumption
    <3>3. rid[r] = rid[h] /\ route[r] = s /\ rpc[r] # "none"
      BY <3>1, <3>2 DEF OnRecord
    <3>4. Tie(h, r) /\ route[r] \in Sessions
      BY <3>1, <3>3 DEF Tie
    <3> QED
      BY <1>1, <1>3, <3>1, <3>4
  <2>2. ASSUME NEW s \in Sessions, Return(s)
        PROVE  phase'[route'[r]] = "over"
    <3>1. r \in Dropped(s)
      BY <1>3, <2>2, ReturnFacts
    <3>2. route[r] = s
      BY <3>1, RequestAssumption DEF Dropped, QueuedOnce, OnRecord
    <3> QED
      BY <2>2, <3>2 DEF Return, TypeOK
  <2>3. ASSUME NEW q \in Requests, LookUp(q) \/ Submit(q) \/ Abandon(q)
        PROVE  FALSE
    <3>1. call \in [Requests -> Call]
      BY DEF TypeOK
    <3> QED
      BY <1>3, <2>3, <3>1 DEF LookUp, Submit, Abandon
  <2>4. ASSUME NEW q \in Requests, Resolve(q)
        PROVE  FALSE
    BY <1>3, <2>4, ResolveFacts
  <2> QED
    BY <1>3, <2>1, <2>2, <2>3, <2>4, WhoMoves
<1> QED
  BY <1>2, <1>3 DEF DisconnectedIsTrue, Tie, TieNext

-----------------------------------------------------------------------------
(* The invariant                                                           *)

LEMMA InitIInv == Init => IInv
<1> SUFFICES ASSUME Init
             PROVE  IInv
  OBVIOUS
<1>1. TypeOK
  <2>1. <<>> \in Seq(Requests)
    OBVIOUS
  <2> QED
    BY <2>1, BoundAssumption DEF Init, TypeOK, NoIds, None, Phase, Call, Outcome, Rpc
<1>2. QueuedOnce /\ OnRecord /\ Routed
  <2>1. DOMAIN <<>> = {}
    OBVIOUS
  <2> QED
    BY <2>1 DEF Init, QueuedOnce, OnRecord, Routed, NoIds
<1>3. InTurn
  BY SessionFacts, <1>1 DEF Init, InTurn
<1>4. WaitingIsHeld /\ AnsweredByItsOwnReply /\ DisconnectedIsTrue
  BY DEF Init, WaitingIsHeld, AnsweredByItsOwnReply, DisconnectedIsTrue
<1>5. Budget
  <2>1. MayRegister = {} /\ MayClear = {} /\ ~Doomed /\ opened = 0 /\ breaks = 0
    BY DEF Init, MayRegister, MayClear, Doomed
  <2> QED
    BY <2>1, FS_EmptySet DEF Budget
<1> QED
  BY <1>1, <1>2, <1>3, <1>4, <1>5 DEF IInv

\* The inductive invariant: what a message in a channel, a record and a route
\* say of each other, and what the breaks have yet to cost.
THEOREM InvCorrect == Spec => []IInv
<1>1. IInv /\ [Next]_vars => IInv'
  <2> SUFFICES ASSUME IInv, [Next]_vars
               PROVE  IInv'
    OBVIOUS
  <2>1. CASE Next
    <3>1. TypeOK' /\ InTurn' /\ Budget'
      BY <2>1, TypeStep, InTurnStep, BudgetStep DEF IInv
    <3>2. QueuedOnce' /\ OnRecord' /\ Routed'
      BY <2>1, QueuedOnceStep, OnRecordStep, RoutedStep DEF IInv
    <3>3. WaitingIsHeld' /\ AnsweredByItsOwnReply' /\ DisconnectedIsTrue'
      BY <2>1, WaitingStep, AnsweredStep, DisconnectedStep DEF IInv
    <3> QED
      BY <3>1, <3>2, <3>3 DEF IInv
  <2>2. CASE UNCHANGED vars
    <3>1. TypeOK' /\ QueuedOnce' /\ OnRecord' /\ Routed' /\ InTurn'
      BY <2>2 DEF vars, IInv, TypeOK, QueuedOnce, OnRecord, Routed, InTurn
    <3>2. WaitingIsHeld' /\ AnsweredByItsOwnReply' /\ DisconnectedIsTrue'
      <4>1. UNCHANGED <<phase, rx, pending, call, route, rid, answerer>>
        BY <2>2 DEF vars
      <4>2. WaitingIsHeld => WaitingIsHeld'
        BY ONLY <4>1 DEF WaitingIsHeld
      <4>3. AnsweredByItsOwnReply => AnsweredByItsOwnReply'
        BY ONLY <4>1 DEF AnsweredByItsOwnReply, Tie
      <4>4. DisconnectedIsTrue => DisconnectedIsTrue'
        BY ONLY <4>1 DEF DisconnectedIsTrue, Tie
      <4> QED
        BY <4>2, <4>3, <4>4 DEF IInv
    <3>3. Budget'
      <4>1. UNCHANGED <<opened, breaks>> /\ MayRegister' = MayRegister /\ MayClear' = MayClear /\ Doomed' = Doomed
        BY <2>2 DEF vars, MayRegister, MayClear, Doomed
      <4> QED
        BY <4>1, BudgetKept DEF IInv
    <3> QED
      BY <3>1, <3>2, <3>3 DEF IInv
  <2> QED
    BY <2>1, <2>2
<1> QED
  BY <1>1, InitIInv, PTL DEF Spec

\* Every variable of the channel keeps its type, the daemon's delay within its
\* two bounds.
THEOREM TypeCorrect == Spec => []TypeOK
BY InvCorrect, PTL DEF IInv

\* forward_request gets the reply to its own message, or, if the clock gave two
\* requests of a session one id, the reply to the other.
THEOREM AnsweredByItsOwnReplySafe == Spec => []AnsweredByItsOwnReply
BY InvCorrect, PTL DEF IInv

\* No request waits that handle_companion_session could forget: it is in the
\* channel or on record of a session that has not returned.
THEOREM WaitingIsHeldSafe == Spec => []WaitingIsHeld
BY InvCorrect, PTL DEF IInv

\* "Companion disconnected" is said of a session that is over, or of a request
\* whose id another one took.
THEOREM DisconnectedIsTrueSafe == Spec => []DisconnectedIsTrue
BY InvCorrect, PTL DEF IInv

\* Sessions take each other down, but every broken link costs three connections
\* at most: the daemon and the proxy never reconnect for ever on their own.
THEOREM ReconnectsBoundedSafe == Spec => []ReconnectsBounded
<1>1. IInv => ReconnectsBounded
  BY SessionFacts, HarmFinite DEF IInv, Budget, ReconnectsBounded
<1> QED
  BY <1>1, InvCorrect, PTL
=============================================================================
