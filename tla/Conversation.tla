---------------------------- MODULE Conversation -----------------------------
(***************************************************************************)
(* A conversation of many turns through the two conversions: the client    *)
(* keeps it as a list of Anthropic messages, to which it adds what the     *)
(* user says, the answers to tool calls and the replies; every request     *)
(* carries the whole list, which anthropic_to_openai_request               *)
(* (request_converter.rs) turns into OpenAI messages, and the reply of the *)
(* gateway comes back through openai_to_anthropic_response                 *)
(* (response_converter.rs).  The proxy keeps nothing between two requests: *)
(* what the gateway sees of the conversation is what the conversion makes  *)
(* of it each time.                                                        *)
(*                                                                         *)
(* A text, an image, a call or its result is a token: the turn it is of,   *)
(* what it is, and its number.  Captions, arguments and JSON are left out. *)
(***************************************************************************)
EXTENDS Naturals, Sequences, SequencesExt, FiniteSets

CONSTANTS
  MaxTurns, \* bound: how many turns there are
  Words,    \* what the user may say: sequences of kinds, a subset of Seq(Word)
  Replies,  \* what the gateway may reply: [think, text, calls, ids]
  Results,  \* what a tool may return, a subset of Result
  Styles,   \* how the client sends results, a subset of Style
  Strays,   \* the ids for which it may send results instead of those of the last
            \* reply's calls: sequences of ids; late ones, foreign ones, none
  NoReply

Word   == {"text", "blank", "image", "other"}
Result == {"text", "picture", "unusable"}

\* All results and the user's words in one message, as Claude's clients do; each
\* result in a message of its own; a system message before them.
Style == {"one", "apart", "noted"}

ASSUME TurnsAssumption == MaxTurns \in Nat
ASSUME WordsAssumption == Words \subseteq Seq(Word)
ASSUME RepliesAssumption ==
  \A r \in Replies :
    r.think \in BOOLEAN /\ r.text \in BOOLEAN /\ r.calls \in Nat /\ r.ids \in BOOLEAN
ASSUME ChoicesAssumption == Results \subseteq Result /\ Styles \subseteq Style
ASSUME StraysAssumption == Strays \subseteq Seq(Seq(Nat))
ASSUME NoReplyAssumption == NoReply \notin Replies

VARIABLES
  history, \* the messages the client keeps
  phase,   \* "user": its turn; "ready": to send; "sent"; "refused" by the proxy
  wire,    \* the messages of the last request that reached the gateway
  turns,   \* history: what was said, returned and replied, turn by turn
  orderly  \* history: the client has answered all calls, and no other, in style "one"

vars == <<history, phase, wire, turns, orderly>>

Init ==
  /\ history = <<>> /\ phase = "user" /\ wire = <<>>
  /\ turns = <<>> /\ orderly = TRUE

-----------------------------------------------------------------------------
(* Blocks and messages of the client.                                      *)

Block(kind, token)       == [kind |-> kind, token |-> token, id |-> <<>>, picture |-> "none"]
Message(role, blocks)    == [role |-> role, plain |-> FALSE, blocks |-> blocks]
Plain(role, kind, token) == [role |-> role, plain |-> TRUE, blocks |-> <<Block(kind, token)>>]

Said(n, words) == [k \in DOMAIN words |-> Block(words[k], <<n, "say", k>>)]

Has(m, kind) == \E k \in DOMAIN m.blocks : m.blocks[k].kind = kind

\* The reply as the client keeps it: a missing id of a call is the empty one.
CallId(n, reply, k) == IF reply.ids THEN <<n, k>> ELSE <<>>

\* openai_to_anthropic_response.
ToAnthropic(n, reply) ==
  Message("assistant",
    (IF reply.think THEN <<Block("thinking", <<n, "think", 0>>)>> ELSE <<>>) \o
    (IF reply.text THEN <<Block("text", <<n, "text", 0>>)>> ELSE <<>>) \o
    [k \in 1 .. reply.calls |->
       [Block("call", <<n, "call", k>>) EXCEPT !.id = CallId(n, reply, k)]])

-----------------------------------------------------------------------------
(* The request: messages of the gateway, [role, parts, calls, answers].    *)

Out(role, parts) == [role |-> role, parts |-> parts, calls |-> <<>>, answers |-> <<>>]
OfKind(blocks, kinds) ==
  FlattenSeq([k \in DOMAIN blocks |->
                IF blocks[k].kind \in kinds THEN <<blocks[k]>> ELSE <<>>])
Tokens(blocks) == [k \in DOMAIN blocks |-> blocks[k].token]

\* collect_assistant_parts and build_assistant_message: thinking goes before the
\* text, in <think>.
AssistantOut(m) ==
  [role    |-> "assistant",
   parts   |-> Tokens(OfKind(m.blocks, {"thinking"})) \o Tokens(OfKind(m.blocks, {"text"})),
   calls   |-> LET calls == OfKind(m.blocks, {"call"}) IN
                 [k \in DOMAIN calls |-> [token |-> calls[k].token, id |-> calls[k].id]],
   answers |-> <<>>]

\* build_tool_messages: one for each result, with its text.
ToolsOut(m) ==
  LET results == OfKind(m.blocks, {"result"}) IN
    [k \in DOMAIN results |->
       [Out("tool", <<results[k].token>>) EXCEPT !.answers = <<results[k].id>>]]

\* convert_user_blocks: what is blank counts for nothing.
UserParts(m) == Tokens(OfKind(m.blocks, {"text", "image"}))

\* tool_result_images: each after a caption that names the call.
Pictures(m) ==
  LET results == OfKind(m.blocks, {"result"}) IN
    FlattenSeq([k \in DOMAIN results |->
                  IF results[k].picture = "picture"
                  THEN <<<<results[k].token[1], "picture", results[k].token[3]>>>>
                  ELSE <<>>])

\* Mutant: with images among the results, the words of the user are left out.
AfterTools_PicturesOnly(m) ==
  LET parts == IF Pictures(m) # <<>> THEN Pictures(m) ELSE UserParts(m)
  IN  IF parts = <<>> THEN <<>> ELSE <<Out("user", parts)>>

\* extract_after_tools_user_text.
AfterTools(m) ==
  LET parts == Pictures(m) \o UserParts(m)
  IN  IF parts = <<>> THEN <<>> ELSE <<Out("user", parts)>>

\* convert_single_user_message: results are not looked at, and a plain text is
\* the user's whoever says it.
SingleOut(m) ==
  IF UserParts(m) = <<>> THEN <<>>
  ELSE <<Out(IF m.role = "system" /\ ~m.plain THEN "system" ELSE "user", UserParts(m))>>

\* Mutant: results are taken wherever they are.
FollowsUp_Anywhere(h, i) ==
  h[i].role = "user" /\ ~h[i].plain /\ Has(h[i], "result")

\* try_handle_tool_followup: results count in the message after an assistant's.
FollowsUp(h, i) ==
  /\ i > 1 /\ h[i - 1].role = "assistant"
  /\ h[i].role = "user" /\ ~h[i].plain /\ Has(h[i], "result")

\* What one of the client's messages becomes.
OutOf(h, i) ==
  CASE h[i].role = "assistant" -> <<AssistantOut(h[i])>>
    [] FollowsUp(h, i)         -> ToolsOut(h[i]) \o AfterTools(h[i])
    [] OTHER                   -> SingleOut(h[i])

\* Mutant: two messages of the user in a row are sent as one.
Converted_Joined(h) ==
  FoldLeft(LAMBDA out, m :
             IF out # <<>> /\ m.role = "user" /\ Last(out).role = "user"
             THEN [out EXCEPT ![Len(out)].parts = @ \o m.parts]
             ELSE Append(out, m),
           <<>>, FlattenSeq([i \in DOMAIN h |-> OutOf(h, i)]))

\* convert_claude_messages.
Converted(h) == FlattenSeq([i \in DOMAIN h |-> OutOf(h, i)])

\* The whole request is refused for a block of a kind that is not known, or an
\* image in a result that is in no known form, in any message it carries.
Refused(h) ==
  \E i \in DOMAIN h : \E k \in DOMAIN h[i].blocks :
    h[i].blocks[k].kind = "other" \/ h[i].blocks[k].picture = "unusable"

-----------------------------------------------------------------------------
(* The conversation.                                                       *)

Turn == Len(turns) + 1

\* The calls that wait for results: those of the last reply.
OpenCalls(h) ==
  IF h = <<>> \/ Last(h).role # "assistant" THEN <<>> ELSE OfKind(Last(h).blocks, {"call"})

OpenIds(h) == [k \in DOMAIN OpenCalls(h) |-> OpenCalls(h)[k].id]

\* What the tools return, all of them the same.
ResultBlocks(n, ids, result) ==
  [k \in DOMAIN ids |->
     [kind |-> "result", token |-> <<n, "result", k>>, id |-> ids[k],
      picture |-> IF result = "text" THEN "none" ELSE result]]

\* The messages with which the client goes on.
Continuation(n, style, results, said) ==
  IF results = <<>> THEN <<Message("user", said)>>
  ELSE CASE style = "one"   -> <<Message("user", results \o said)>>
         [] style = "apart" -> [k \in DOMAIN results |-> Message("user", <<results[k]>>)] \o
                               <<Message("user", said)>>
         [] style = "noted" -> <<Message("system", <<Block("text", <<n, "note", 0>>)>>),
                                 Message("user", results \o said)>>

\* Nothing holds the client to the calls of the last reply: every id is copied.
Say ==
  /\ phase = "user" /\ Turn =< MaxTurns
  /\ \E words \in Words, result \in Results, style \in Styles,
        ids \in Strays \cup {OpenIds(history)} :
       LET results == ResultBlocks(Turn, ids, result)
       IN  /\ ids = <<>> => (result = "text" /\ style = "one")
           /\ \/ history' = history \o Continuation(Turn, style, results, Said(Turn, words))
              \/ /\ ids = <<>> /\ Len(words) = 1 /\ words[1] \in {"text", "blank"}
                 /\ history' = history \o <<Plain("user", words[1], <<Turn, "say", 1>>)>>
           /\ turns' = Append(turns, [words |-> words, results |-> Len(ids),
                                      result |-> result, reply |-> NoReply])
           /\ orderly' = (orderly /\ style = "one" /\ ids = OpenIds(history))
  /\ phase' = "ready"
  /\ UNCHANGED wire

Send ==
  /\ phase = "ready"
  /\ IF Refused(history)
     THEN phase' = "refused" /\ UNCHANGED wire
     ELSE phase' = "sent" /\ wire' = Converted(history)
  /\ UNCHANGED <<history, turns, orderly>>

Reply ==
  /\ phase = "sent"
  /\ \E reply \in Replies :
       /\ history' = Append(history, ToAnthropic(Len(turns), reply))
       /\ turns' = [turns EXCEPT ![Len(turns)].reply = reply]
  /\ phase' = "user"
  /\ UNCHANGED <<wire, orderly>>

\* The gateway fails, or the proxy has refused: the user says something else.
\* Results that were sent stay where they are.
GoOn ==
  /\ phase \in {"sent", "refused"}
  /\ phase' = "user"
  /\ UNCHANGED <<history, wire, turns, orderly>>

\* The client sends the same request again.
Resend ==
  /\ phase \in {"sent", "refused"}
  /\ phase' = "ready"
  /\ UNCHANGED <<history, wire, turns, orderly>>

Next == Say \/ Send \/ Reply \/ GoOn \/ Resend

Spec == Init /\ [][Next]_vars

-----------------------------------------------------------------------------
(* Types                                                                   *)

TokenType ==
  Nat \X {"say", "think", "text", "call", "note", "result", "picture"} \X Nat
IdType    == Seq(Nat)
BlockType == [kind : Word \cup {"thinking", "call", "result"}, token : TokenType,
              id : IdType, picture : {"none", "picture", "unusable"}]
MessageType == [role : {"user", "assistant", "system"}, plain : BOOLEAN,
                blocks : Seq(BlockType)]
OutType  == [role : {"user", "assistant", "system", "tool"}, parts : Seq(TokenType),
             calls : Seq([token : TokenType, id : IdType]), answers : Seq(IdType)]
TurnType == [words : Seq(Word), results : Nat, result : Result,
             reply : Replies \cup {NoReply}]

\* What each variable holds.
TypeOK ==
  /\ history \in Seq(MessageType)
  /\ phase \in {"user", "ready", "sent", "refused"}
  /\ wire \in Seq(OutType)
  /\ turns \in Seq(TurnType)
  /\ orderly \in BOOLEAN

-----------------------------------------------------------------------------
(* Properties                                                              *)

\* The tool messages of a request stand right behind an assistant's message.
Behind(outs) ==
  \A i \in DOMAIN outs : outs[i].role = "tool" =>
    \E j \in 1 .. i - 1 :
      outs[j].role = "assistant" /\ \A k \in j + 1 .. i : outs[k].role = "tool"

\* The calls of message i are answered: by one tool message each, of the same id,
\* in their order and right behind it, and there is no other.
AnsweredAt(outs, i) ==
  LET calls == outs[i].calls
      next  == i + Len(calls) + 1
  IN  /\ \A k \in DOMAIN calls :
           /\ i + k \in DOMAIN outs
           /\ outs[i + k].role = "tool" /\ outs[i + k].answers = <<calls[k].id>>
      /\ next \in DOMAIN outs => outs[next].role # "tool"

\* A gateway refuses a request whose tool messages and calls do not match.  From
\* a client that answers the calls of each reply in one message no such request
\* comes, in however many turns, over failures, refusals and retries.  For any
\* other the results go out under whatever ids it sends, but only right behind
\* an assistant's message; the rest are dropped.
CallsAreAnswered ==
  /\ Behind(wire)
  /\ phase = "sent" /\ orderly =>
       \A i \in DOMAIN wire : wire[i].role = "assistant" => AnsweredAt(wire, i)

\* What each turn brings the gateway, told without the client's messages: the
\* results, then their images, then what the user says, then its own reply.
ToldByUser(t, n) ==
  [k \in 1 .. t.results |-> <<n, "result", k>>]
  \o (IF t.result = "picture" THEN [k \in 1 .. t.results |-> <<n, "picture", k>>] ELSE <<>>)
  \o FlattenSeq([k \in DOMAIN t.words |->
        IF t.words[k] \in {"text", "image"} THEN <<<<n, "say", k>>>> ELSE <<>>])

ToldByModel(reply, n) ==
  (IF reply.think THEN <<<<n, "think", 0>>>> ELSE <<>>)
  \o (IF reply.text THEN <<<<n, "text", 0>>>> ELSE <<>>)
  \o [k \in 1 .. reply.calls |-> <<n, "call", k>>]

Told(t, n) ==
  ToldByUser(t, n) \o (IF t.reply = NoReply THEN <<>> ELSE ToldByModel(t.reply, n))

AllTold(ts) == FlattenSeq([n \in DOMAIN ts |-> Told(ts[n], n)])

\* What a message of the gateway says.
Sound(out) == out.parts \o [k \in DOMAIN out.calls |-> out.calls[k].token]
Heard(outs) == FlattenSeq([i \in DOMAIN outs |-> Sound(outs[i])])

\* The gateway hears the conversation as it was: every result, image, word and
\* reply of its own once and in order, over all the turns, if the client answers
\* the calls of each reply in one message.
HeardAsTold == (phase = "sent" /\ orderly) => Heard(wire) = AllTold(turns)

\* A request says the same as the one before, and goes on from there: what a
\* gateway has cached of a conversation stays of use.
OnlyGrows == [][IsPrefix(wire, wire')]_vars

-----------------------------------------------------------------------------
(* The inductive invariant.                                                *)

\* The turn of a request has no reply before the gateway's, and ends its messages.
Unreplied ==
  phase # "user" =>
    /\ turns # <<>> /\ turns[Len(turns)].reply = NoReply
    /\ history # <<>> /\ history[Len(history)].role # "assistant"

\* What was sent is what the messages become, or was; what they become goes on
\* from it.
Sent ==
  /\ phase = "sent" => wire = Converted(history)
  /\ IsPrefix(wire, Converted(history))

\* Whether or not it is ever sent, the client's messages say what was told.
HistoryAsTold == orderly => Heard(Converted(history)) = AllTold(turns)

\* What the messages become has all calls answered but those of the last reply.
AllAnswered(outs)      == \A i \in DOMAIN outs : outs[i].role = "assistant" => AnsweredAt(outs, i)
AllAnsweredButTo(outs) ==
  \A i \in DOMAIN outs : outs[i].role = "assistant" => (i = Len(outs) \/ AnsweredAt(outs, i))

Replied(h) == h # <<>> /\ h[Len(h)].role = "assistant"

HistoryAnswered ==
  orderly => IF Replied(history) THEN AllAnsweredButTo(Converted(history))
                                 ELSE AllAnswered(Converted(history))

IInv ==
  /\ TypeOK
  /\ Unreplied
  /\ Sent
  /\ Behind(wire)
  /\ HistoryAnswered
  /\ HistoryAsTold
=============================================================================
