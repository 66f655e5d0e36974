------------------------------ MODULE Companion ------------------------------
(***************************************************************************)
(* The companion channel: dashboard requests that the proxy forwards over  *)
(* the /companion WebSocket (proxy/src/server/companion.rs) to the daemon  *)
(* that keeps one connection to it (cli/src/companion_daemon.rs).          *)
(*                                                                         *)
(* Every connection the daemon makes is a session of the proxy.  A session *)
(* and the daemon's end of it notice a broken link each at its own time,   *)
(* so a new session may register while the old one is still up.            *)
(*                                                                         *)
(* What a request asks for is abstracted away: the daemon's answer to it   *)
(* is a result or an error.                                                *)
(***************************************************************************)
EXTENDS Naturals, Sequences, FiniteSets

CONSTANTS
  Requests,     \* the dashboard requests
  NoRequest,    \* not one of them
  Ids,          \* the readings of the clock that name them
  MaxSessions,  \* bound of the model: the connections the daemon makes
  MaxBreaks,    \* bound of the model: the links that break by themselves
  MinBackoff, MaxBackoff  \* 100 ms and 5 s

ASSUME RequestAssumption == NoRequest \notin Requests
ASSUME BoundAssumption ==
  /\ MaxSessions \in Nat \ {0} /\ MaxBreaks \in Nat
  /\ MinBackoff \in Nat \ {0} /\ MaxBackoff \in Nat /\ MinBackoff =< MaxBackoff

Sessions == 1..MaxSessions
None     == 0

VARIABLES
  active,   \* CompanionState.active: the session whose tx is in the slot
  phase,    \* where handle_companion_session is, per session
  rx,       \* the messages in its unbounded channel
  pending,  \* its pending_requests: who waits for the reply with an id
  cut,      \* the link of the session is broken or closed
  breaks,   \* how many links have broken by themselves
  opened,   \* how many sessions have been opened
  daemon,   \* the session run_companion_session is in, None between two
  backoff,  \* the daemon's next delay
  call,     \* where forward_request is, per request
  route,    \* the session whose tx the request cloned
  rid,      \* its request_id
  rpc,      \* where the forwarded message or its reply is
  answerer  \* history: the request whose reply answered this one

proxy == <<active, phase, rx, pending>>
link  == <<cut, breaks, opened, daemon, backoff>>
asked == <<call, route, rid, answerer>>
vars  == <<active, phase, rx, pending, cut, breaks, opened, daemon, backoff,
           call, route, rid, rpc, answerer>>

Phase   == {"unborn", "accepted", "serving", "clearing", "draining", "over"}
Outcome == {"offline", "result", "error", "disconnected", "abandoned"}
Call    == {"idle", "routed", "waiting"} \cup Outcome
Rpc     == {"none", "wire", "task", "result", "error", "lost", "read"}
NoIds   == [i \in Ids |-> NoRequest]

Init ==
  /\ active = None
  /\ phase = [s \in Sessions |-> "unborn"]
  /\ rx = [s \in Sessions |-> <<>>]
  /\ pending = [s \in Sessions |-> NoIds]
  /\ cut = [s \in Sessions |-> FALSE]
  /\ breaks = 0 /\ opened = 0
  /\ daemon = None /\ backoff = MinBackoff
  /\ call = [r \in Requests |-> "idle"]
  /\ route = [r \in Requests |-> None]
  /\ rid \in [Requests -> Ids]
  /\ rpc = [r \in Requests |-> "none"]
  /\ answerer = [r \in Requests |-> NoRequest]

-----------------------------------------------------------------------------
(* forward_request.  Its clone of tx lives as long as it does.             *)

LookUp(r) ==
  /\ call[r] = "idle"
  /\ call' = [call EXCEPT ![r] = IF active = None THEN "offline" ELSE "routed"]
  /\ route' = [route EXCEPT ![r] = active]
  /\ UNCHANGED <<proxy, link, rid, rpc, answerer>>

\* tx.send fails only when the session has returned and dropped its receiver.
Submit(r) ==
  /\ call[r] = "routed"
  /\ LET s == route[r] IN
       IF phase[s] = "over"
       THEN /\ call' = [call EXCEPT ![r] = "offline"]
            /\ UNCHANGED rx
       ELSE /\ call' = [call EXCEPT ![r] = "waiting"]
            /\ rx' = [rx EXCEPT ![s] = Append(rx[s], r)]
  /\ UNCHANGED <<active, phase, pending, link, route, rid, rpc, answerer>>

\* The dashboard goes away: axum drops the future and the receiver with it.
Abandon(r) ==
  /\ call[r] \in {"routed", "waiting"}
  /\ call' = [call EXCEPT ![r] = "abandoned"]
  /\ UNCHANGED <<proxy, link, route, rid, rpc, answerer>>

\* The calls when the response senders of the requests in R are dropped or
\* told so: response_rx yields "Companion disconnected".
DisconnectAll(R) ==
  [r \in Requests |->
     IF r \in R /\ call[r] = "waiting" THEN "disconnected" ELSE call[r]]

-----------------------------------------------------------------------------
(* handle_companion_session                                                *)

\* The tx of the session that was in the slot is dropped.
Register(s) ==
  /\ phase[s] = "accepted"
  /\ phase' = [phase EXCEPT ![s] = "serving"]
  /\ active' = s
  /\ UNCHANGED <<rx, pending, link, asked, rpc>>

\* Mutant: the map keeps no entry but the last one.
Inserted_Alone(s, r) == [NoIds EXCEPT ![rid[r]] = r]

\* HashMap::insert: a sender already there under the same id is dropped.
Inserted(s, r) == [pending[s] EXCEPT ![rid[r]] = r]

\* rx.recv() yields a message: it is on record before it is written, and a
\* write to a broken link may or may not fail.
TakeMessage(s) ==
  /\ phase[s] = "serving"
  /\ rx[s] # <<>>
  /\ LET r    == Head(rx[s])
         held == {pending[s][i] : i \in Ids}
         kept == {Inserted(s, r)[i] : i \in Ids}
     IN /\ pending' = [pending EXCEPT ![s] = Inserted(s, r)]
        /\ call' = DisconnectAll(held \ kept)
        /\ rpc' = [rpc EXCEPT ![r] = IF cut[s] THEN "lost" ELSE "wire"]
  /\ rx' = [rx EXCEPT ![s] = Tail(rx[s])]
  /\ \/ UNCHANGED phase
     \/ cut[s] /\ phase' = [phase EXCEPT ![s] = "clearing"]
  /\ UNCHANGED <<active, link, route, rid, answerer>>

Holds(r, s) == route[r] = s /\ call[r] \in {"routed", "waiting"}

\* rx.recv() yields None: the slot has dropped tx and no request has a clone.
SendersGone(s) ==
  /\ phase[s] = "serving"
  /\ rx[s] = <<>>
  /\ active # s /\ \A r \in Requests : ~Holds(r, s)
  /\ phase' = [phase EXCEPT ![s] = "clearing"]
  /\ UNCHANGED <<active, rx, pending, link, asked, rpc>>

\* Mutant: the end of the socket is ignored like its other events.
LinkGone_Ignored(s) == phase[s] = "serving" /\ cut[s] /\ UNCHANGED vars

\* ws_stream.next() yields Close or None, at once or after an error that is
\* ignored; or the answer to a ping cannot be written.
LinkGone(s) ==
  /\ phase[s] = "serving"
  /\ cut[s]
  /\ phase' = [phase EXCEPT ![s] = "clearing"]
  /\ UNCHANGED <<active, rx, pending, link, asked, rpc>>

\* Mutant: the reply answers whoever is pending.
Addressee_Any(s, r) ==
  IF \E i \in Ids : pending[s][i] # NoRequest
  THEN CHOOSE q \in Requests : \E i \in Ids : pending[s][i] = q
  ELSE NoRequest

Addressee(s, r) == pending[s][rid[r]]

\* resolve_pending_response, on the reply to r: an unknown id is ignored.
Resolve(r) ==
  /\ rpc[r] \in {"result", "error"}
  /\ phase[route[r]] = "serving"
  /\ rpc' = [rpc EXCEPT ![r] = "read"]
  /\ LET s == route[r]
         q == Addressee(s, r)
     IN /\ pending' = [pending EXCEPT ![s] =
                         [i \in Ids |-> IF pending[s][i] = q THEN NoRequest
                                                             ELSE pending[s][i]]]
        /\ IF q # NoRequest /\ call[q] = "waiting"
           THEN /\ call' = [call EXCEPT ![q] = rpc[r]]
                /\ answerer' = [answerer EXCEPT ![q] = r]
           ELSE UNCHANGED <<call, answerer>>
  /\ UNCHANGED <<active, phase, rx, link, route, rid>>

\* Mutant: the socket is closed before the slot is emptied.
Clear_AfterSocket(s) ==
  /\ phase[s] = "clearing"
  /\ IF cut[s]
     THEN /\ active' = None
          /\ phase' = [phase EXCEPT ![s] = "draining"]
          /\ UNCHANGED cut
     ELSE /\ cut' = [cut EXCEPT ![s] = TRUE]
          /\ UNCHANGED <<active, phase>>
  /\ UNCHANGED <<rx, pending, breaks, opened, daemon, backoff, asked, rpc>>

\* The slot is emptied whichever session is in it.
Clear(s) ==
  /\ phase[s] = "clearing"
  /\ active' = None
  /\ phase' = [phase EXCEPT ![s] = "draining"]
  /\ UNCHANGED <<rx, pending, link, asked, rpc>>

\* Mutant: what is still in the channel when the session returns is forgotten.
Dropped_PendingOnly(s) == {pending[s][i] : i \in Ids}

Dropped(s) ==
  {pending[s][i] : i \in Ids} \cup {rx[s][k] : k \in DOMAIN rx[s]}

\* pending.drain(), then the return drops the channel with the messages still
\* in it, and the socket.
Return(s) ==
  /\ phase[s] = "draining"
  /\ phase' = [phase EXCEPT ![s] = "over"]
  /\ call' = DisconnectAll(Dropped(s))
  /\ pending' = [pending EXCEPT ![s] = NoIds]
  /\ rx' = [rx EXCEPT ![s] = <<>>]
  /\ cut' = [cut EXCEPT ![s] = TRUE]
  /\ UNCHANGED <<active, breaks, opened, daemon, backoff, route, rid, rpc,
                 answerer>>

-----------------------------------------------------------------------------
(* companion_daemon                                                        *)

Connect ==
  /\ daemon = None
  /\ opened < MaxSessions
  /\ opened' = opened + 1
  /\ daemon' = opened + 1
  /\ phase' = [phase EXCEPT ![opened + 1] = "accepted"]
  /\ backoff' = MinBackoff
  /\ UNCHANGED <<active, rx, pending, cut, breaks, asked, rpc>>

Doubled(b) == IF 2 * b < MaxBackoff THEN 2 * b ELSE MaxBackoff

\* No token in the settings yet, or the proxy refuses the connection.  An address
\* or a header value that is not valid would end the daemon for good; from the
\* token and the port the program makes itself neither arises.
ConnectFails ==
  /\ daemon = None
  /\ backoff' = Doubled(backoff)
  /\ UNCHANGED <<proxy, cut, breaks, opened, daemon, asked, rpc>>

\* run_companion_session spawns a task for every text it reads.
SpawnTask(r) ==
  /\ rpc[r] = "wire"
  /\ daemon = route[r]
  /\ rpc' = [rpc EXCEPT ![r] = "task"]
  /\ UNCHANGED <<proxy, link, asked>>

\* The task has run handle_rpc_logic and writes its reply.
SendReply(r) ==
  /\ rpc[r] = "task"
  /\ \E answer \in {"result", "error"} :
       rpc' = [rpc EXCEPT ![r] = IF cut[route[r]] THEN "lost" ELSE answer]
  /\ UNCHANGED <<proxy, link, asked>>

\* Mutant: the daemon stops with its first session.
Leave_ForGood ==
  /\ daemon # None
  /\ cut[daemon]
  /\ UNCHANGED vars

\* Close, an error or the end of the socket: the loop connects again at once.
Leave ==
  /\ daemon # None
  /\ cut[daemon]
  /\ daemon' = None
  /\ UNCHANGED <<proxy, cut, breaks, opened, backoff, asked, rpc>>

LinkBreaks(s) ==
  /\ s =< opened /\ ~cut[s]
  /\ breaks < MaxBreaks
  /\ breaks' = breaks + 1
  /\ cut' = [cut EXCEPT ![s] = TRUE]
  /\ UNCHANGED <<proxy, opened, daemon, backoff, asked, rpc>>

Settled == \A r \in Requests : call[r] \in Outcome
Connected ==
  daemon # None /\ active = daemon /\ phase[daemon] = "serving" /\ ~cut[daemon]

Quiet == Settled /\ Connected /\ UNCHANGED vars

-----------------------------------------------------------------------------

Session(s) ==
  \/ Register(s) \/ TakeMessage(s) \/ SendersGone(s) \/ LinkGone(s)
  \/ Clear(s) \/ Return(s)

Request(r) == LookUp(r) \/ Submit(r) \/ Abandon(r)
Message(r) == SpawnTask(r) \/ SendReply(r) \/ Resolve(r)

Next ==
  \/ \E s \in Sessions : Session(s) \/ LinkBreaks(s)
  \/ \E r \in Requests : Request(r) \/ Message(r)
  \/ Connect \/ ConnectFails \/ Leave
  \/ Quiet

Spec == Init /\ [][Next]_vars

\* Tasks that can run are polled, the loopback interface reports a closed
\* socket to both ends, an RPC of the daemon returns, and a proxy that goes on
\* listening accepts the daemon at some attempt.  Links need not break.
Fairness ==
  /\ \A s \in Sessions : WF_vars(Session(s))
  /\ \A r \in Requests : WF_vars(Submit(r)) /\ WF_vars(Message(r))
  /\ WF_vars(Connect) /\ WF_vars(Leave)

FairSpec == Spec /\ Fairness
-----------------------------------------------------------------------------
(* Properties                                                              *)

\* Every variable keeps its type; the delay stays within its two bounds.
TypeOK ==
  /\ active \in Sessions \cup {None}
  /\ phase \in [Sessions -> Phase]
  /\ rx \in [Sessions -> Seq(Requests)]
  /\ pending \in [Sessions -> [Ids -> Requests \cup {NoRequest}]]
  /\ cut \in [Sessions -> BOOLEAN]
  /\ breaks \in 0..MaxBreaks /\ opened \in 0..MaxSessions
  /\ daemon \in 0..opened
  /\ backoff \in MinBackoff..MaxBackoff
  /\ call \in [Requests -> Call]
  /\ route \in [Requests -> Sessions \cup {None}]
  /\ rid \in [Requests -> Ids]
  /\ rpc \in [Requests -> Rpc]
  /\ answerer \in [Requests -> Requests \cup {NoRequest}]

Tie(q, r) == q # r /\ rid[q] = rid[r] /\ route[q] = route[r]

\* A request is answered with the reply to itself, however the tasks of the
\* daemon reorder the replies, unless the clock gave two requests of one
\* session the same id.
AnsweredByItsOwnReply ==
  \A r \in Requests :
    answerer[r] # NoRequest => answerer[r] = r \/ Tie(answerer[r], r)

\* A request that waits is always held by exactly the session it was routed
\* to, in its channel or on its record, and that session has yet to return:
\* no sender is ever out of reach of the drain that would release it.
WaitingIsHeld ==
  \A r \in Requests : call[r] = "waiting" =>
    LET s == route[r] IN
      /\ phase[s] \in {"serving", "clearing", "draining"}
      /\ (\E k \in DOMAIN rx[s] : rx[s][k] = r) # (pending[s][rid[r]] = r)

\* "Companion disconnected" is only said of a session that has returned, or
\* of a request whose id was taken over by another one.
DisconnectedIsTrue ==
  \A r \in Requests : call[r] = "disconnected" =>
    phase[route[r]] = "over" \/ \E q \in Requests : Tie(q, r)

\* A session empties the slot whoever is in it, and so may take down its
\* successor, twice at worst: by registering after it, and by clearing late.
\* It never goes on: a link that breaks costs at most three connections.
ReconnectsBounded == opened =< 1 + 3 * breaks

\* forward_request has no timeout, and still every request comes back: the end
\* of a session, or of its last sender, releases all that wait.
EveryRequestReturns ==
  \A r \in Requests : call[r] \in {"routed", "waiting"} ~> call[r] \in Outcome

\* After the last broken link the daemon is in the slot for good.
Reconnects == <>[]Connected

-----------------------------------------------------------------------------
(* The inductive invariant                                                 *)

Queued(r, s) == \E k \in DOMAIN rx[s] : rx[s][k] = r

\* A message is in one channel, once, and has not been forwarded yet.
QueuedOnce ==
  \A s \in Sessions :
    /\ \A j, k \in DOMAIN rx[s] : rx[s][j] = rx[s][k] => j = k
    /\ \A k \in DOMAIN rx[s] :
         LET r == rx[s][k] IN
           route[r] = s /\ rpc[r] = "none" /\ call[r] \notin {"idle", "routed", "offline"}

\* A record is kept under its own id, by the session that forwarded it.
OnRecord ==
  \A s \in Sessions, i \in Ids :
    LET r == pending[s][i] IN
      r # NoRequest => rid[r] = i /\ route[r] = s /\ rpc[r] # "none"

\* A request gets its route with its first step, and its message leaves later.
Routed ==
  \A r \in Requests :
    /\ call[r] = "idle" => route[r] = None
    /\ call[r] \in {"idle", "routed", "offline"} => rpc[r] = "none"
    /\ call[r] \notin {"idle", "offline"} =>
         route[r] \in Sessions /\ phase[route[r]] \notin {"unborn", "accepted"}
    /\ answerer[r] # NoRequest =>
         call[r] \notin {"idle", "routed", "offline"} /\ rpc[answerer[r]] # "none"

\* Sessions come one after the other, each when the link of the last is gone.
InTurn ==
  /\ active # None => phase[active] \notin {"unborn", "accepted"}
  /\ \A s \in Sessions :
       /\ phase[s] = "unborn" <=> s > opened
       /\ cut[s] => s =< opened
       /\ s < opened => cut[s]
  /\ daemon # None => daemon = opened
  /\ daemon = None /\ opened > 0 => cut[opened]

\* Sessions with a broken link that may yet register, or yet empty the slot.
MayRegister == {s \in Sessions : cut[s] /\ phase[s] = "accepted"}
MayClear    == {s \in Sessions : cut[s] /\ phase[s] \in {"accepted", "serving", "clearing"}}

\* The last session is going to end.
Doomed ==
  /\ opened > 0
  /\ \/ cut[opened]
     \/ phase[opened] \in {"clearing", "draining", "over"}
     \/ phase[opened] = "serving" /\ active # opened

\* What a break costs is its own session, and one each time the session it broke
\* takes the slot from another: what it has not yet done is still to be paid.
Budget ==
  opened + (IF Doomed THEN 1 ELSE 0) + Cardinality(MayRegister) + Cardinality(MayClear)
    =< 1 + 3 * breaks

IInv ==
  /\ TypeOK /\ QueuedOnce /\ OnRecord /\ Routed /\ InTurn
  /\ WaitingIsHeld /\ AnsweredByItsOwnReply /\ DisconnectedIsTrue /\ Budget
=============================================================================
