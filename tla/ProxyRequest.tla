---------------------------- MODULE ProxyRequest -----------------------------
(***************************************************************************)
(* POST /v1/messages (proxy/src/server/handler.rs, model_retry.rs), next   *)
(* to everything that changes under it: the user saves other settings, the *)
(* list of models is fetched again, the gateway offers other models, and   *)
(* Claude Desktop reads the list.  A request is answered locally, refused, *)
(* or sent to the gateway, and sent once more to another model if the      *)
(* gateway says the first is gone.  How a streamed answer goes on is the   *)
(* subject of SseStream, how the stores are written that of SettingsStore. *)
(***************************************************************************)
EXTENDS ModelRouting, Sequences

CONSTANTS
  Requests,   \* POST requests
  Bodies,     \* what a request for a model of the menu may be
  Strays,     \* other requests: bodies with their model
  Gateways,
  Native,     \* the gateways that speak Anthropic's protocol themselves
  Reasoners,  \* the models whose id says o1 or o3
  Lists,      \* what a gateway may offer: sets of models
  ListPrefs,  \* the overrides of the list there may be
  Mappings,   \* the models the user may set for each family, and for all
  MaxChanges, \* bound: how often anything changes under the requests
  NoGateway

ASSUME GatewaysAssumption == Native \subseteq Gateways /\ NoGateway \notin Gateways
ASSUME ReasonersAssumption == Reasoners \subseteq Models
ASSUME ListsAssumption ==
  Lists \subseteq SUBSET Models /\ \A list \in Lists : IsFiniteSet(list)
ASSUME ChangesAssumption == MaxChanges \in Nat
ASSUME PrefsAssumption ==
  /\ ListPrefs \subseteq Prefs
  /\ Mappings \subseteq [family : [Family -> Models \cup {None}], all : Models \cup {None}]
Readable(name) == name.family \in Family \cup {"none"} /\ name.id \in Models \cup {None}

\* An empty name has nothing in it.
ASSUME NamesAssumption ==
  \A stray \in Strays :
    /\ Readable(stray.name)
    /\ stray.name.empty => ~Bracketed(stray.name) /\ ~stray.name.numbered

VARIABLES
  settings, \* the settings file
  keyring,  \* the gateway the key in the keyring belongs to
  saving,   \* the gateway whose key a save has stored, but not its settings
  offered,  \* the models the gateways know
  menu,     \* the list Claude Desktop shows: models by alias
  changes,  \* how often anything has changed
  pc,
  req,      \* the request
  snap,     \* the settings it works with
  sent,     \* what it sent to the gateway: model, effort and key
  replies,  \* what it got
  answer,   \* what the client got
  log,      \* the outcomes in the API call log
  \* History
  picked,     \* what the user picked from the menu, if the list is still the
              \* one in the settings
  undisturbed \* no save was under way between reading settings and key

world == <<settings, keyring, saving, offered, menu, changes>>
vars  == <<settings, keyring, saving, offered, menu, changes, pc, req, snap,
           sent, replies, answer, log, picked, undisturbed>>

\* "local": an optimisation answers; "probe": an empty request; "short": the
\* one-word probe, which goes to the gateway; "broken": not a request.
Class == {"plain", "local", "probe", "short", "broken"}
Body  == [class : Class, stream : BOOLEAN, thinking : Thinking]

\* How a gateway, or the connection to it, may answer.  The first four are
\* successes, by their bodies; "gone" is an error that says the model is not
\* there any more.
Success == {"good", "unreadable", "empty", "garbage"}
Reply   == Success \cup {"failed", "gone", "error"}

Ended(r)  == pc[r] \in {"done", "dropped"}
Active(r) == pc[r] # "idle" /\ ~Ended(r)

Init ==
  /\ offered \in Lists
  /\ \E gw \in Gateways, p \in ListPrefs, m \in Mappings, fetched \in Lists :
       settings = [gw |-> gw, prefs |-> p, override |-> m.family, global |-> m.all,
                   models |-> Published(fetched, p)]
  /\ keyring = settings.gw /\ saving = NoGateway
  /\ menu = settings.models.routes
  /\ changes = 0
  /\ pc = [r \in Requests |-> "idle"]
  /\ req = [r \in Requests |-> <<>>]
  /\ snap = [r \in Requests |-> <<>>]
  /\ sent = [r \in Requests |-> <<>>]
  /\ replies = [r \in Requests |-> <<>>]
  /\ answer = [r \in Requests |-> "none"]
  /\ log = [r \in Requests |-> <<>>]
  /\ picked = [r \in Requests |-> [model |-> None, levels |-> {}]]
  /\ undisturbed = [r \in Requests |-> TRUE]

Go(r, label)   == pc' = [pc EXCEPT ![r] = label] /\ UNCHANGED answer
Finish(r, how) == pc' = [pc EXCEPT ![r] = "done"] /\ answer' = [answer EXCEPT ![r] = how]
Record(r, how) == log' = [log EXCEPT ![r] = Append(@, how)]
History        == UNCHANGED <<picked, undisturbed>>

-----------------------------------------------------------------------------
(* handle_proxy                                                            *)

MenuName(a) ==
  [empty |-> FALSE, family |-> a.family, alias |-> a, long |-> FALSE, id |-> None,
   inner |-> None, numbered |-> FALSE]

\* The model under an alias, and the levels the list gives it, if it gives any.
Pick(a, list) ==
  [model |-> list.routes[a], levels |-> {list.efforts[b] : b \in {a} \cap DOMAIN list.efforts}]
NoPick == [model |-> None, levels |-> {}]

\* A request arrives and the settings are read.
Receive(r) ==
  /\ pc[r] = "idle"
  /\ \/ \E b \in Bodies, a \in DOMAIN menu, long \in BOOLEAN :
          /\ req' = [req EXCEPT ![r] = [body |-> b, name |-> [MenuName(a) EXCEPT !.long = long]]]
          /\ picked' = [picked EXCEPT ![r] =
               IF settings.models.routes = menu THEN Pick(a, settings.models) ELSE NoPick]
     \/ \E stray \in Strays : req' = [req EXCEPT ![r] = stray] /\ UNCHANGED picked
  /\ \/ snap' = [snap EXCEPT ![r] = settings] /\ Go(r, "prepare")
     \/ UNCHANGED snap /\ Finish(r, "refused")
  /\ undisturbed' = [undisturbed EXCEPT ![r] = saving = NoGateway]
  /\ UNCHANGED <<world, sent, replies, log>>

IsNative(r) == snap[r].gw \in Native
Streams(r)  == req[r].body.stream /\ ~IsNative(r)

\* The optimisations, the connection probe, the conversion of the body and the
\* URL, in this order.
Prepare(r) ==
  /\ pc[r] = "prepare"
  /\ CASE req[r].body.class = "local" -> Finish(r, "local") /\ Record(r, "optimized")
       [] req[r].body.class = "probe" -> Finish(r, "local") /\ Record(r, "probe")
       [] req[r].body.class = "broken" /\ ~IsNative(r) -> Finish(r, "refused") /\ UNCHANGED log
       [] OTHER -> (Go(r, "key") \/ Finish(r, "refused")) /\ UNCHANGED log
  /\ UNCHANGED <<world, req, snap, sent, replies>> /\ History

\* The model and the effort of the converted request.  Without a rule for it the
\* name goes out as it is: an id, or else None, for what is no model's.
Target(r) ==
  LET name == req[r].name
      m    == Resolve(name, snap[r])
  IN  IF req[r].body.class = "broken" THEN None
      ELSE IF m = {} THEN (IF Bracketed(name) THEN None ELSE name.id)
      ELSE CHOOSE k \in m : TRUE

Asked(r) ==
  IF IsNative(r) THEN {}
  ELSE Effort(req[r].name, req[r].body.thinking, snap[r], Target(r) \in Reasoners)

\* Mutant: the keyring is locked while a save is under way.
Dispatch_Locked(r) ==
  /\ pc[r] = "key" /\ saving = NoGateway
  /\ \/ Finish(r, "refused") /\ UNCHANGED sent
     \/ /\ sent' = [sent EXCEPT ![r] =
             <<[model |-> Target(r), effort |-> Asked(r), key |-> keyring]>>]
        /\ Go(r, "wait")
  /\ UNCHANGED <<world, req, snap, replies, log>> /\ History

\* The key is read, the request built and sent.
Dispatch(r) ==
  /\ pc[r] = "key"
  /\ \/ Finish(r, "refused") /\ UNCHANGED sent
     \/ /\ sent' = [sent EXCEPT ![r] =
             <<[model |-> Target(r), effort |-> Asked(r), key |-> keyring]>>]
        /\ Go(r, "wait")
  /\ UNCHANGED <<world, req, snap, replies, log>> /\ History

-----------------------------------------------------------------------------
(* dispatch_upstream                                                       *)

\* Mutant: an answer is only recorded when its body has been looked at, and an
\* error that leads to a retry is not.
Respond_LogLate(r) ==
  /\ pc[r] = "wait"
  /\ \E reply \in Reply :
       /\ replies' = [replies EXCEPT ![r] = <<reply>>]
       /\ IF reply = "gone" THEN UNCHANGED log ELSE Record(r, reply)
       /\ IF reply = "failed" THEN Finish(r, "unreachable") ELSE Go(r, "body")
  /\ UNCHANGED <<world, req, snap, sent>> /\ History

\* The headers of the answer, or an error; either is recorded.
Respond(r) ==
  /\ pc[r] = "wait"
  /\ \E reply \in Reply :
       /\ replies' = [replies EXCEPT ![r] = <<reply>>]
       /\ Record(r, reply)
       /\ IF reply = "failed" THEN Finish(r, "unreachable") ELSE Go(r, "body")
  /\ UNCHANGED <<world, req, snap, sent>> /\ History

\* The body: a stream is passed on as it comes, and so is everything a native
\* gateway says; what cannot be converted is an answer to a short probe all the
\* same, unless it could not be read.
Deliver(r) ==
  /\ pc[r] = "body"
  /\ LET reply == replies[r][1] IN
       CASE reply = "gone"  -> Go(r, "refresh")
         [] reply = "error" -> Finish(r, "error")
         [] OTHER ->
              IF Streams(r) THEN Finish(r, "stream")
              ELSE IF IsNative(r) THEN Finish(r, "passed")
              ELSE IF reply = "good" THEN Finish(r, "message")
              ELSE IF reply # "unreadable" /\ req[r].body.class = "short" /\ ~req[r].body.stream
                   THEN Finish(r, "local")
              ELSE Finish(r, "bad")
  /\ UNCHANGED <<world, req, snap, sent, replies, log>> /\ History

-----------------------------------------------------------------------------
(* try_stale_model_retry                                                   *)

\* Mutant: the retry reads the key again.
Retry_FreshKey(r) ==
  /\ pc[r] = "refresh"
  /\ \E models \in {snap[r].models, Refreshed(offered, snap[r].prefs)} :
       LET s    == [snap[r] EXCEPT !.models = models]
           next == Lowest(Fallbacks(req[r].name, sent[r][1].model, s))
       IN  /\ snap' = [snap EXCEPT ![r] = s]
           /\ IF next = {} \/ req[r].body.class = "broken"
              THEN Finish(r, "error") /\ UNCHANGED sent
              ELSE /\ \E m \in next :
                        sent' = [sent EXCEPT ![r] =
                          Append(@, [sent[r][1] EXCEPT !.model = m, !.key = keyring])]
                   /\ Go(r, "again")
  /\ UNCHANGED <<world, req, replies, log>> /\ History

\* The list is fetched again for this request alone, or the old one is used.
\* The body keeps the effort that was computed for the first model.
Retry(r) ==
  /\ pc[r] = "refresh"
  /\ \E models \in {snap[r].models, Refreshed(offered, snap[r].prefs)} :
       LET s    == [snap[r] EXCEPT !.models = models]
           next == Lowest(Fallbacks(req[r].name, sent[r][1].model, s))
       IN  /\ snap' = [snap EXCEPT ![r] = s]
           /\ IF next = {} \/ req[r].body.class = "broken"
              THEN Finish(r, "error") /\ UNCHANGED sent
              ELSE /\ \E m \in next :
                        sent' = [sent EXCEPT ![r] = Append(@, [sent[r][1] EXCEPT !.model = m])]
                   /\ Go(r, "again")
  /\ UNCHANGED <<world, req, replies, log>> /\ History

\* Mutant: a stream is started whatever the second answer is.
Second_AnyStream(r, reply) ==
  CASE reply = "failed" -> "error"
    [] reply # "failed" /\ IsNative(r) -> "passed"
    [] reply # "failed" /\ Streams(r) -> "stream"
    [] reply = "good" /\ ~IsNative(r) /\ ~Streams(r) -> "message"
    [] OTHER -> "error"

\* What the second answer comes to: an error of the gateway, or an answer that
\* is of no use, leaves the first error in force; a native gateway's is passed
\* on whatever it says.
Second(r, reply) ==
  CASE reply = "failed" -> "error"
    [] reply # "failed" /\ IsNative(r) -> "passed"
    [] reply \in Success /\ Streams(r) -> "stream"
    [] reply = "good" /\ ~IsNative(r) /\ ~Streams(r) -> "message"
    [] OTHER -> "error"

RespondAgain(r) ==
  /\ pc[r] = "again"
  /\ \E reply \in Reply :
       /\ replies' = [replies EXCEPT ![r] = Append(@, reply)]
       /\ Finish(r, Second(r, reply))
  /\ UNCHANGED <<world, req, snap, sent, log>> /\ History

\* The client goes away, and the handler with all it holds.
Drop(r) ==
  /\ Active(r)
  /\ pc' = [pc EXCEPT ![r] = "dropped"]
  /\ req' = [req EXCEPT ![r] = <<>>]
  /\ snap' = [snap EXCEPT ![r] = <<>>]
  /\ sent' = [sent EXCEPT ![r] = <<>>]
  /\ replies' = [replies EXCEPT ![r] = <<>>]
  /\ UNCHANGED <<world, answer, log>> /\ History

-----------------------------------------------------------------------------
(* What changes under the requests                                         *)

\* Nothing more changes when all is over, which is a bound too.
Open   == \E r \in Requests : ~Ended(r)
Change == Open /\ changes < MaxChanges /\ changes' = changes + 1
Others == UNCHANGED <<pc, req, snap, sent, replies, answer, log>>

\* A save stores the key first.
SaveKey ==
  /\ Change /\ saving = NoGateway
  /\ \E g \in Gateways : keyring' = g /\ saving' = g
  /\ undisturbed' = [r \in Requests |-> undisturbed[r] /\ pc[r] \notin {"prepare", "key"}]
  /\ UNCHANGED <<settings, offered, menu, picked>> /\ Others

\* Then the settings, with a list it has fetched, or with the one there was.
SaveFile ==
  /\ Open /\ saving # NoGateway
  /\ \E p \in ListPrefs :
       \E models \in {settings.models, Published(offered, p)} :
         settings' = [settings EXCEPT !.gw = saving, !.prefs = p, !.models = models]
  /\ saving' = NoGateway
  /\ UNCHANGED <<keyring, offered, menu, changes>> /\ Others /\ History

\* handle_models.
FetchList ==
  /\ Change /\ saving = NoGateway
  /\ settings' = [settings EXCEPT !.models = Published(offered, settings.prefs)]
  /\ UNCHANGED <<keyring, saving, offered, menu>> /\ Others /\ History

\* Claude Desktop reads its configuration.
ReadMenu ==
  /\ Open /\ menu # settings.models.routes
  /\ menu' = settings.models.routes
  /\ UNCHANGED <<settings, keyring, saving, offered, changes>> /\ Others /\ History

\* Models are retired, or new ones offered.
Offer ==
  /\ Change
  /\ offered' \in Lists \ {offered}
  /\ UNCHANGED <<settings, keyring, saving, menu>> /\ Others /\ History

Finished == ~Open /\ UNCHANGED vars

-----------------------------------------------------------------------------

Handle(r) ==
  \/ Prepare(r) \/ Dispatch(r) \/ Respond(r) \/ Deliver(r) \/ Retry(r) \/ RespondAgain(r)

Next ==
  \/ \E r \in Requests : Receive(r) \/ Handle(r) \/ Drop(r)
  \/ SaveKey \/ SaveFile \/ FetchList \/ ReadMenu \/ Offer
  \/ Finished

Spec == Init /\ [][Next]_vars

\* The total timeout of the HTTP client ends every call to a gateway.
FairSpec == Spec /\ \A r \in Requests : WF_vars(Handle(r))
-----------------------------------------------------------------------------
(* Properties                                                              *)

Sent == [model : Models \cup {None}, effort : SUBSET Rank, key : Gateways]
Aliases == [family : Family, index : Nat]

Typed(s) ==
  /\ s.gw \in Gateways /\ s.prefs \in ListPrefs
  /\ s.override \in [Family -> Models \cup {None}] /\ s.global \in Models \cup {None}
  /\ DOMAIN s.models.routes \subseteq Aliases
  /\ \A a \in DOMAIN s.models.efforts : s.models.efforts[a] \subseteq Rank

\* Every variable keeps its type.
TypeOK ==
  /\ Typed(settings)
  /\ keyring \in Gateways /\ saving \in Gateways \cup {NoGateway}
  /\ offered \in Lists /\ DOMAIN menu \subseteq Aliases
  /\ changes \in 0 .. MaxChanges
  /\ \A r \in Requests :
       /\ Active(r) => Typed(snap[r]) /\ Readable(req[r].name)
       /\ sent[r] \in Seq(Sent) /\ replies[r] \in Seq(Reply)
       /\ Len(replies[r]) =< Len(sent[r])
       /\ picked[r].model \in Models \cup {None}

\* README.md:98 "publishes every model in the Claude Desktop picker with
\* per-model visibility toggles": a list that is written to the settings has a
\* route to every model that was fetched and is not hidden, each under an alias
\* of its own.
EveryModelHasAnAlias ==
  [][LET list  == settings'.models
         shown == list.discovered \ settings'.prefs.hidden
     IN  list # settings.models =>
           /\ {list.routes[a] : a \in DOMAIN list.routes} = shown
           /\ Cardinality(DOMAIN list.routes) = Cardinality(shown)
           /\ DOMAIN list.efforts \subseteq DOMAIN list.routes]_vars

\* A user who picks a model from a list that is still in force, and has set no
\* model for its family, gets that model, whatever is saved, fetched or retired
\* while the request is under way, and with an effort the list says it has.
PickedModelIsAsked ==
  \A r \in Requests :
    LET pick == picked[r] IN
      (/\ sent[r] # <<>> /\ pick.model # None /\ req[r].body.class # "broken"
       /\ Some(snap[r].override[req[r].name.family]) = {})
      => /\ sent[r][1].model = pick.model
         /\ sent[r][1].effort \subseteq
              IF pick.levels # {} THEN UNION pick.levels
              ELSE IF pick.model \in Reasoners THEN Rank ELSE {}

\* A name with brackets or of the form claude-...-<number> never goes out as it is
\* once any list was fetched: the gateway would not know it.  (Claude's other
\* names are not covered: without a rule they do go out.)
ClaudeNamesAreMapped ==
  \A r \in Requests :
    (/\ sent[r] # <<>> /\ req[r].body.class # "broken" /\ Len(sent[r]) = 1
     /\ (Bracketed(req[r].name) \/ req[r].name.numbered)
     /\ snap[r].models.discovered # {})
    => sent[r][1].model # None

\* A request is sent at most twice, the second time only because the gateway
\* said that the model is gone, and then to another one.
RetriesOnce ==
  \A r \in Requests :
    /\ Len(sent[r]) =< 2
    /\ Len(sent[r]) = 2 =>
         /\ replies[r][1] = "gone" /\ answer[r] \notin {"refused", "local", "bad"}
         /\ sent[r][2].model \notin {sent[r][1].model, None}

\* What the client is told is what the gateway said: the message or the stream
\* of a call that succeeded, a second try that was of use and nothing less, or
\* else the error of the first.
AnswerTellsTheReplies ==
  \A r \in Requests :
    LET n == Len(replies[r]) IN
      /\ answer[r] \in {"message", "stream"} => (n > 0 /\ replies[r][n] \in Success)
      /\ answer[r] = "message" => replies[r][n] = "good"
      /\ answer[r] = "error" => (replies[r][1] \in {"gone", "error"})
      /\ (pc[r] = "done" /\ n = 2 /\ replies[r][2] = "good") =>
           answer[r] \in {"message", "stream", "passed"}
      /\ answer[r] = "passed" => IsNative(r)

\* With logging enabled, every call that was answered locally or sent to the
\* gateway is in the log exactly once, with its first outcome, however often it
\* was sent; one that was refused before is not.
LoggedOnce ==
  \A r \in Requests :
    /\ Len(log[r]) =< 1
    /\ pc[r] = "done" => ((log[r] = <<>>) <=> (answer[r] = "refused"))
    /\ replies[r] # <<>> => log[r] = <<replies[r][1]>>

\* As long as no save comes between the settings and the key of a request, the
\* key it sends belongs to the gateway it is sent to, however many saves there
\* were before and come after.
KeyOfItsGateway ==
  \A r \in Requests : \A i \in DOMAIN sent[r] :
    undisturbed[r] => sent[r][i].key = snap[r].gw

\* Every request is answered, unless the client goes away.
EveryRequestAnswered == \A r \in Requests : pc[r] # "idle" ~> Ended(r)
=============================================================================
