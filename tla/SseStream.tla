----------------------------- MODULE SseStream -----------------------------
(***************************************************************************)
(* The stream converter of proxy/src/server/streaming.rs: one task reads   *)
(* the OpenAI chunks of an upstream answer and writes Anthropic events     *)
(* into a bounded channel that the HTTP response body drains.  Every       *)
(* tx.send(..).await is a point where the task may wait for the consumer   *)
(* or be cancelled by its disconnection, so every send is one action.      *)
(*                                                                         *)
(* The text of an event is abstracted away: what is kept of the output is  *)
(* the ledger of the blocks it started and stopped, as the reader of the   *)
(* stream would keep it.                                                   *)
(***************************************************************************)
EXTENDS Naturals, Sequences, FiniteSets

CONSTANTS
  ToolIndex,   \* the values of tool_calls[].index the upstream may use
  Chunks,      \* the JSON chunks the upstream may send
  Capacity,    \* the capacity of the channel to the response body
  MaxBase      \* bound of the model: no chunk is read beyond this index

Field == {"absent", "empty", "given"}
ToolCall == [idx : ToolIndex, id : Field, name : Field, args : BOOLEAN]
Chunk == [reasoning : BOOLEAN, text : BOOLEAN, calls : Seq(ToolCall),
          finish : {"none", "tool", "other"}]

ASSUME ToolIndexAssumption == ToolIndex \subseteq Nat /\ IsFiniteSet(ToolIndex)
ASSUME ChunksAssumption == Chunks \subseteq Chunk
ASSUME BoundsAssumption == Capacity \in Nat \ {0} /\ MaxBase \in Nat

VARIABLES
  mode,        \* ReasoningReplayMode of the request
  phase,       \* where convert_stream_inner and its caller are
  todo,        \* what process_data_line has still to do for its chunk
  sentStart,   \* sent_start
  sentStop,    \* sent_stop
  textOpen,    \* text_block_open
  thinking,    \* thinking_block_open, and "signed" between its two last events
  base,        \* content_block_index
  tools,       \* active_tools: what is known of each tool call
  finish,      \* detected_finish_reason
  unstopped,   \* the tools finish_active_tools has not stopped yet
  rxOpen,      \* the response body still holds the receiver
  queued,      \* the number of events in the channel
  \* The ledger of the events written so far.
  starts,      \* message_start events
  stops,       \* message_stop events
  errors,      \* error events
  open,        \* the blocks started and not stopped: <<index, kind>>
  closed,      \* the indices a content_block_stop named
  stopReason,  \* the stop_reason of message_delta
  faults       \* events out of place: <<"early" | "reused" | "stray", kind>>

code   == <<mode, phase, todo, sentStart, sentStop, textOpen, thinking, base,
            tools, finish, unstopped>>
pipe   == <<rxOpen, queued>>
ledger == <<starts, stops, errors, open, closed, stopReason, faults>>
vars   == <<mode, phase, todo, sentStart, sentStop, textOpen, thinking, base,
            tools, finish, unstopped, rxOpen, queued, starts, stops, errors,
            open, closed, stopReason, faults>>

Kind == {"text", "thinking", "tool"}
Phase == {"reading", "finishing", "stopping", "failing", "ended"}
Tool == [known : BOOLEAN, id : BOOLEAN, name : BOOLEAN, started : BOOLEAN]
NoTool == [known |-> FALSE, id |-> FALSE, name |-> FALSE, started |-> FALSE]
NoWork == [reasoning |-> FALSE, text |-> FALSE, calls |-> <<>>]

-----------------------------------------------------------------------------
(* The channel and the ledger                                              *)

\* Mutant: the channel never makes the sender wait.
Send_Unbounded ==
  /\ queued' = IF rxOpen THEN queued + 1 ELSE queued
  /\ UNCHANGED rxOpen

\* tx.send waits for room while the receiver lives; once it is dropped the
\* send fails at once and `let _ =` ignores the failure.
Send ==
  /\ rxOpen => queued < Capacity
  /\ queued' = IF rxOpen THEN queued + 1 ELSE queued
  /\ UNCHANGED rxOpen

Note(fault, kind, when) == IF when THEN {<<fault, kind>>} ELSE {}
Busy(i) == \E k \in Kind : <<i, k>> \in open

BlockStart(i, k) ==
  /\ open' = open \cup {<<i, k>>}
  /\ faults' = faults \cup Note("early", k, starts = 0)
                      \cup Note("reused", k, Busy(i) \/ i \in closed)
  /\ UNCHANGED <<starts, stops, errors, closed, stopReason>>

BlockDelta(i, k) ==
  /\ faults' = faults \cup Note("stray", k, <<i, k>> \notin open)
  /\ UNCHANGED <<starts, stops, errors, open, closed, stopReason>>

BlockStop(i, k) ==
  /\ open' = {b \in open : b[1] # i}
  /\ closed' = closed \cup {i}
  /\ faults' = faults \cup Note("stray", k, <<i, k>> \notin open)
  /\ UNCHANGED <<starts, stops, errors, stopReason>>

-----------------------------------------------------------------------------
(* Whose turn it is in process_data_line: reasoning, then text, then the   *)
(* tool calls of the chunk.                                                *)

Reading       == phase = "reading"
Finishing     == phase = "finishing"
ReasoningTurn == Reading /\ todo.reasoning
TextTurn      == Reading /\ ~todo.reasoning /\ todo.text
ToolsTurn     == Reading /\ ~todo.reasoning /\ ~todo.text /\ todo.calls # <<>>
Idle          == Reading /\ todo = NoWork

\* Inline mode replays reasoning as text; only the text handler itself calls
\* close_thinking_if_needed.
WantsText     == TextTurn \/ (ReasoningTurn /\ mode = "Inline")
WantsThinking == ReasoningTurn /\ mode = "Separate"

Init ==
  /\ mode \in {"Inline", "Separate"}
  /\ phase = "reading"
  /\ todo = NoWork
  /\ sentStart = FALSE /\ sentStop = FALSE
  /\ textOpen = FALSE /\ thinking = "closed"
  /\ base = 0
  /\ tools = [i \in ToolIndex |-> NoTool]
  /\ finish = "none"
  /\ unstopped = {}
  /\ rxOpen = TRUE /\ queued = 0
  /\ starts = 0 /\ stops = 0 /\ errors = 0
  /\ open = {} /\ closed = {}
  /\ stopReason = "none"
  /\ faults = {}

-----------------------------------------------------------------------------
(* What stream.next() yields                                               *)

\* A data line with a JSON chunk.  The finish reason is only read by
\* handle_done_event, so recording it here or after the deltas is the same.
ReadChunk(c) ==
  /\ Idle
  /\ base =< MaxBase
  /\ todo' = [reasoning |-> c.reasoning, text |-> c.text, calls |-> c.calls]
  /\ finish' = IF c.finish = "none" THEN finish ELSE c.finish
  /\ UNCHANGED <<mode, phase, sentStart, sentStop, textOpen, thinking, base,
                 tools, unstopped, pipe, ledger>>

\* Mutant: the body ends without the done event.
ReadEnd_Truncating ==
  /\ Idle
  /\ phase' = "ended"
  /\ UNCHANGED <<mode, todo, sentStart, sentStop, textOpen, thinking, base,
                 tools, finish, unstopped, pipe, ledger>>

\* data: [DONE] or the end of the upstream body: both run handle_done_event,
\* which does nothing unless a message was started and not yet stopped.
ReadEnd ==
  /\ Idle
  /\ IF sentStart /\ ~sentStop
     THEN /\ phase' = "finishing"
          /\ unstopped' = {i \in ToolIndex : tools[i].started}
     ELSE /\ phase' = "ended"
          /\ UNCHANGED unstopped
  /\ UNCHANGED <<mode, todo, sentStart, sentStop, textOpen, thinking, base,
                 tools, finish, pipe, ledger>>

\* Mutant: an error of the upstream is skipped and the loop goes on.
ReadError_Skipped == Idle /\ UNCHANGED vars

\* The `?` on a chunk: connection lost, or the total timeout of http_client.
ReadError ==
  /\ Idle
  /\ phase' = "failing"
  /\ UNCHANGED <<mode, todo, sentStart, sentStop, textOpen, thinking, base,
                 tools, finish, unstopped, pipe, ledger>>

-----------------------------------------------------------------------------
(* handle_reasoning_delta, handle_text_delta                               *)

EnsureMessageStart ==
  /\ WantsText \/ WantsThinking
  /\ ~sentStart
  /\ Send
  /\ sentStart' = TRUE
  /\ starts' = starts + 1
  /\ UNCHANGED <<mode, phase, todo, sentStop, textOpen, thinking, base, tools,
                 finish, unstopped, stops, errors, open, closed, stopReason,
                 faults>>

MayCloseThinking == (TextTurn /\ sentStart) \/ ToolsTurn \/ Finishing

\* finish_thinking_block writes an empty signature, then the stop.
SignThinking ==
  /\ MayCloseThinking
  /\ thinking = "open"
  /\ Send
  /\ thinking' = "signed"
  /\ BlockDelta(base, "thinking")
  /\ UNCHANGED <<mode, phase, todo, sentStart, sentStop, textOpen, base, tools,
                 finish, unstopped>>

CloseThinking ==
  /\ MayCloseThinking
  /\ thinking = "signed"
  /\ Send
  /\ thinking' = "closed"
  /\ base' = base + 1
  /\ BlockStop(base, "thinking")
  /\ UNCHANGED <<mode, phase, todo, sentStart, sentStop, textOpen, tools,
                 finish, unstopped>>

MayCloseText ==
  \/ WantsThinking /\ sentStart
  \/ (ToolsTurn \/ Finishing) /\ thinking = "closed"

\* Mutant: the index is not advanced past the closed text block.
CloseText_SameIndex ==
  /\ MayCloseText
  /\ textOpen
  /\ Send
  /\ textOpen' = FALSE
  /\ BlockStop(base, "text")
  /\ UNCHANGED <<mode, phase, todo, sentStart, sentStop, thinking, base, tools,
                 finish, unstopped>>

CloseText ==
  /\ MayCloseText
  /\ textOpen
  /\ Send
  /\ textOpen' = FALSE
  /\ base' = base + 1
  /\ BlockStop(base, "text")
  /\ UNCHANGED <<mode, phase, todo, sentStart, sentStop, thinking, tools,
                 finish, unstopped>>

\* Mutant: text without ensure_message_start.
ReadyForText_NoStart == WantsText /\ (TextTurn => thinking = "closed")
ReadyForText == WantsText /\ sentStart /\ (TextTurn => thinking = "closed")

EmitTextBlockStart ==
  /\ ReadyForText
  /\ ~textOpen
  /\ Send
  /\ textOpen' = TRUE
  /\ BlockStart(base, "text")
  /\ UNCHANGED <<mode, phase, todo, sentStart, sentStop, thinking, base, tools,
                 finish, unstopped>>

EmitTextDelta ==
  /\ ReadyForText
  /\ textOpen
  /\ Send
  /\ todo' = IF todo.reasoning THEN [todo EXCEPT !.reasoning = FALSE]
                               ELSE [todo EXCEPT !.text = FALSE]
  /\ BlockDelta(base, "text")
  /\ UNCHANGED <<mode, phase, sentStart, sentStop, textOpen, thinking, base,
                 tools, finish, unstopped>>

ReadyForThinking == WantsThinking /\ sentStart /\ ~textOpen

EmitThinkingBlockStart ==
  /\ ReadyForThinking
  /\ thinking = "closed"
  /\ Send
  /\ thinking' = "open"
  /\ BlockStart(base, "thinking")
  /\ UNCHANGED <<mode, phase, todo, sentStart, sentStop, textOpen, base, tools,
                 finish, unstopped>>

EmitThinkingDelta ==
  /\ ReadyForThinking
  /\ thinking = "open"
  /\ Send
  /\ todo' = [todo EXCEPT !.reasoning = FALSE]
  /\ BlockDelta(base, "thinking")
  /\ UNCHANGED <<mode, phase, sentStart, sentStop, textOpen, thinking, base,
                 tools, finish, unstopped>>

-----------------------------------------------------------------------------
(* handle_tool_calls_delta: one round of its loop per tool call            *)

\* Mutant: tool calls are handled without closing the prose block.
ToolsReady_NoClose == ToolsTurn

ToolsReady == ToolsTurn /\ thinking = "closed" /\ ~textOpen
Call == Head(todo.calls)

\* entry(idx).or_insert_with(..), then the id and the name the delta carries
\* replace the ones on record, an empty string included.
Merged(t, call) ==
  [known   |-> TRUE,
   id      |-> IF call.id = "absent" THEN t.id ELSE call.id = "given",
   name    |-> IF call.name = "absent" THEN t.name ELSE call.name = "given",
   started |-> t.started]

Startable(t) == ~t.started /\ t.id /\ t.name

\* The block starts at the current base; the round goes on with the arguments.
StartToolBlock ==
  /\ ToolsReady
  /\ LET t == Merged(tools[Call.idx], Call) IN
       /\ Startable(t)
       /\ tools' = [tools EXCEPT ![Call.idx] = [t EXCEPT !.started = TRUE]]
  /\ Send
  /\ BlockStart(base + Call.idx, "tool")
  /\ UNCHANGED <<mode, phase, todo, sentStart, sentStop, textOpen, thinking,
                 base, finish, unstopped>>

NextCall == todo' = [todo EXCEPT !.calls = Tail(todo.calls)]

EmitToolDelta ==
  /\ ToolsReady
  /\ LET t == Merged(tools[Call.idx], Call) IN
       /\ t.started /\ Call.args
       /\ tools' = [tools EXCEPT ![Call.idx] = t]
  /\ Send
  /\ NextCall
  /\ BlockDelta(base + Call.idx, "tool")
  /\ UNCHANGED <<mode, phase, sentStart, sentStop, textOpen, thinking, base,
                 finish, unstopped>>

\* Nothing to write: no arguments, or a block that cannot start yet, whose
\* arguments are then lost.
PassToolCall ==
  /\ ToolsReady
  /\ LET t == Merged(tools[Call.idx], Call) IN
       /\ ~Startable(t)
       /\ ~(t.started /\ Call.args)
       /\ tools' = [tools EXCEPT ![Call.idx] = t]
  /\ NextCall
  /\ UNCHANGED <<mode, phase, sentStart, sentStop, textOpen, thinking, base,
                 finish, unstopped, pipe, ledger>>

-----------------------------------------------------------------------------
(* handle_done_event, after the thinking and the text block are closed     *)

BlocksClosed == Finishing /\ thinking = "closed" /\ ~textOpen

\* active_tools is a HashMap: the order of the stops is arbitrary.
FinishTool(i) ==
  /\ BlocksClosed
  /\ i \in unstopped
  /\ Send
  /\ unstopped' = unstopped \ {i}
  /\ BlockStop(base + i, "tool")
  /\ UNCHANGED <<mode, phase, todo, sentStart, sentStop, textOpen, thinking,
                 base, tools, finish>>

HasTools == finish = "tool" \/ \E i \in ToolIndex : tools[i].known

\* Mutant: the message ends before finish_active_tools is through.
EmitMessageDelta_ToolsOpen ==
  /\ BlocksClosed
  /\ Send
  /\ phase' = "stopping"
  /\ stopReason' = IF HasTools THEN "tool_use" ELSE "end_turn"
  /\ UNCHANGED <<mode, todo, sentStart, sentStop, textOpen, thinking, base,
                 tools, finish, unstopped, starts, stops, errors, open, closed,
                 faults>>

EmitMessageDelta ==
  /\ BlocksClosed
  /\ unstopped = {}
  /\ Send
  /\ phase' = "stopping"
  /\ stopReason' = IF HasTools THEN "tool_use" ELSE "end_turn"
  /\ UNCHANGED <<mode, todo, sentStart, sentStop, textOpen, thinking, base,
                 tools, finish, unstopped, starts, stops, errors, open, closed,
                 faults>>

\* convert_stream_inner returns Ok: the task ends and drops its senders.
EmitMessageStop ==
  /\ phase = "stopping"
  /\ Send
  /\ phase' = "ended"
  /\ sentStop' = TRUE
  /\ stops' = stops + 1
  /\ UNCHANGED <<mode, todo, sentStart, textOpen, thinking, base, tools,
                 finish, unstopped, starts, errors, open, closed, stopReason,
                 faults>>

-----------------------------------------------------------------------------
(* start_sse_stream_conversion                                             *)

\* convert_stream_inner returned Err: one error event, nothing is closed.
EmitError ==
  /\ phase = "failing"
  /\ Send
  /\ phase' = "ended"
  /\ errors' = errors + 1
  /\ UNCHANGED <<mode, todo, sentStart, sentStop, textOpen, thinking, base,
                 tools, finish, unstopped, starts, stops, open, closed,
                 stopReason, faults>>

UpstreamHeld == phase \in {"reading", "finishing", "stopping"}

\* Mutant: without the select only a send would notice the disconnection.
Cancel_NoSelect ==
  /\ ~rxOpen
  /\ UpstreamHeld /\ ~Idle
  /\ phase' = "ended"
  /\ UNCHANGED <<mode, todo, sentStart, sentStop, textOpen, thinking, base,
                 tools, finish, unstopped, pipe, ledger>>

\* The biased select: tx.closed() wins over the conversion whatever it waits
\* for, and dropping the conversion drops the upstream connection.
Cancel ==
  /\ ~rxOpen
  /\ UpstreamHeld
  /\ phase' = "ended"
  /\ UNCHANGED <<mode, todo, sentStart, sentStop, textOpen, thinking, base,
                 tools, finish, unstopped, pipe, ledger>>

\* The response body: it drains the channel, or is dropped with the client's
\* connection.
Receive ==
  /\ rxOpen /\ queued > 0
  /\ queued' = queued - 1
  /\ UNCHANGED <<rxOpen, code, ledger>>

Disconnect ==
  /\ rxOpen
  /\ rxOpen' = FALSE
  /\ queued' = 0
  /\ UNCHANGED <<code, ledger>>

Terminated ==
  /\ phase = "ended"
  /\ rxOpen => queued = 0
  /\ UNCHANGED vars

-----------------------------------------------------------------------------

Write ==
  \/ EnsureMessageStart \/ SignThinking \/ CloseThinking \/ CloseText
  \/ EmitTextBlockStart \/ EmitTextDelta
  \/ EmitThinkingBlockStart \/ EmitThinkingDelta
  \/ StartToolBlock \/ EmitToolDelta \/ PassToolCall
  \/ \E i \in ToolIndex : FinishTool(i)
  \/ EmitMessageDelta \/ EmitMessageStop \/ EmitError

Others == ReadEnd \/ ReadError \/ Write \/ Cancel \/ Receive \/ Disconnect \/ Terminated

Next == (\E c \in Chunks : ReadChunk(c)) \/ Others

Spec == Init /\ [][Next]_vars

\* The runtime polls a task that can proceed, and hyper polls the body of a
\* live connection.  The upstream owes nothing.
Fairness == WF_vars(Write) /\ WF_vars(Cancel) /\ WF_vars(Receive)

FairSpec == Spec /\ Fairness

\* An upstream that keeps the order the protocol has in practice: something
\* said before the tool calls, and nothing said after the first of them.
Orderly(c) ==
  /\ (c.reasoning \/ c.text) => \A i \in ToolIndex : ~tools[i].known
  /\ c.calls # <<>> => sentStart \/ c.reasoning \/ c.text

OrderlyNext == (\E c \in Chunks : Orderly(c) /\ ReadChunk(c)) \/ Others

OrderlySpec == Init /\ [][OrderlyNext]_vars
-----------------------------------------------------------------------------
(* Properties                                                              *)

\* Every variable keeps its type.
TypeOK ==
  /\ mode \in {"Inline", "Separate"}
  /\ phase \in Phase
  /\ todo \in [reasoning : BOOLEAN, text : BOOLEAN, calls : Seq(ToolCall)]
  /\ sentStart \in BOOLEAN /\ sentStop \in BOOLEAN
  /\ textOpen \in BOOLEAN /\ thinking \in {"closed", "open", "signed"}
  /\ base \in Nat
  /\ tools \in [ToolIndex -> Tool]
  /\ finish \in {"none", "tool", "other"}
  /\ unstopped \subseteq ToolIndex
  /\ rxOpen \in BOOLEAN /\ queued \in 0..Capacity
  /\ starts \in Nat /\ stops \in Nat /\ errors \in Nat
  /\ open \subseteq Nat \X Kind
  /\ closed \subseteq Nat
  /\ stopReason \in {"none", "tool_use", "end_turn"}
  /\ faults \subseteq {"early", "reused", "stray"} \X Kind

\* Whatever the upstream sends, a text or thinking event falls inside the
\* message and inside an open block of its own kind: the flags the handlers
\* pass along never disagree with the blocks the reader has been told of.
TextAndThinkingInPlace ==
  \A f \in faults : f[1] \in {"early", "stray"} => f[2] = "tool"

\* Whatever the upstream sends, the reader never has a text and a thinking
\* block open together, nor two of either: a switch of kind closes first.
OneProseBlockAtATime ==
  \A b, c \in open : b[2] # "tool" /\ c[2] # "tool" => b = c

\* Whatever the upstream sends, the stream ends at most once, and a client
\* still connected when the task ends has been told so if a message was
\* started; a stopped message leaves no text or thinking block open.
EndsOnce ==
  /\ starts =< 1 /\ stops + errors =< 1
  /\ phase = "ended" /\ rxOpen /\ starts = 1 => stops + errors = 1
  /\ stops = 1 => starts = 1 /\ \A b \in open : b[2] = "tool"

\* Whatever the upstream sends, a block never starts at an index that was
\* stopped before: content_block_index only moves up past closed blocks.
ClosedIndexStaysClosed ==
  [][\A b \in open' : b \notin open => b[1] \notin closed]_<<open, closed>>

\* The strengthening that makes the invariants above inductive: the flags of
\* the code mirror the blocks of the ledger, all stopped indices lie below
\* base while chunks are read, and the phases order the ending events.
ProseAtBase ==
  /\ \A b \in open : b[2] = "text" => textOpen /\ b[1] = base
  /\ \A b \in open : b[2] = "thinking" => thinking # "closed" /\ b[1] = base
  /\ textOpen => <<base, "text">> \in open
  /\ thinking # "closed" => <<base, "thinking">> \in open

FlagsAgree ==
  /\ mode = "Inline" => thinking = "closed"
  /\ thinking # "closed" => ~textOpen
  /\ textOpen \/ thinking # "closed" => sentStart
  /\ starts = IF sentStart THEN 1 ELSE 0

ClosedBelowBase == phase = "reading" => \A i \in closed : i < base

EndingInOrder ==
  /\ phase # "ended" => ~sentStop /\ stops = 0 /\ errors = 0
  /\ phase \in {"finishing", "stopping"} => sentStart
  /\ phase = "stopping" \/ stops = 1 => ~textOpen /\ thinking = "closed"
  /\ stops = 1 => sentStart

IInv ==
  /\ TypeOK /\ ProseAtBase /\ FlagsAgree /\ ClosedBelowBase /\ EndingInOrder
  /\ TextAndThinkingInPlace /\ EndsOnce

\* For an orderly upstream every event is in its place, tool deltas and stops
\* included: base does not move once the first tool block has started.
WellFormed == faults = {}

\* Why an orderly upstream is well served: once a tool is known nothing but
\* tool calls is handled, so base stands still, and the open tool blocks are
\* exactly those at base + i of the started tools not yet stopped.
ToolsLast ==
  /\ (\E i \in ToolIndex : tools[i].known) =>
       ~todo.reasoning /\ ~todo.text /\ ~textOpen /\ thinking = "closed"
  /\ \A i \in ToolIndex : tools[i].started => tools[i].known
  /\ todo.calls # <<>> => sentStart \/ todo.reasoning \/ todo.text

Unstopped(i) == IF phase = "reading" THEN tools[i].started ELSE i \in unstopped

ToolBlocksAtBase ==
  phase \in {"reading", "finishing", "stopping"} =>
    /\ \A b \in open :
         b[2] = "tool" => \E i \in ToolIndex : b[1] = base + i /\ Unstopped(i)
    /\ \A i \in ToolIndex : Unstopped(i) => <<base + i, "tool">> \in open

UnstoppedStarted ==
  /\ \A i \in unstopped : tools[i].started
  /\ phase = "stopping" => unstopped = {}
  /\ stops = 1 => open = {}

OrderlyInv ==
  IInv /\ ToolsLast /\ ToolBlocksAtBase /\ UnstoppedStarted /\ WellFormed

Messages == INSTANCE MessageStream
              WITH started <- starts > 0,
                   ending  <- CASE stops > 0  -> "stop"
                                [] errors > 0 -> "error"
                                [] OTHER      -> "none"

\* For an orderly upstream the stream is one the reader is promised.
ImplementsMessageStream == Messages!Spec

\* tx.closed() in the select: a client that disconnects frees the upstream
\* connection even if the upstream never sends another byte.
DisconnectReleasesUpstream == ~rxOpen ~> ~UpstreamHeld

\* The conversion of every request comes to an end and its last event is
\* delivered, provided the 60 s deadline of http_client cuts an upstream that
\* does not end: once it has passed, every later poll of the upstream says so.
StreamEnds == SF_vars(ReadError) => <>(phase = "ended" /\ (rxOpen => queued = 0))

\* README.md:87 promises an Anthropic SSE stream, which opens with
\* message_start; a tool call that comes first opens its block without one.
BlocksInsideMessage == \A k \in Kind : <<"early", k>> \notin faults

=============================================================================
