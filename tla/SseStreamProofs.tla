-------------------------- MODULE SseStreamProofs --------------------------
(***************************************************************************)
(* What SseStream guarantees for every set of chunks and tool indices and  *)
(* every channel capacity.                                                 *)
(***************************************************************************)
EXTENDS SseStream, SequenceTheorems, TLAPS

USE DEF Kind, Phase, Tool, NoTool, NoWork

\* The first tool call of a chunk, what is left after it, and the record of
\* its tool once the call is merged are well typed.
LEMMA CallType ==
  ASSUME TypeOK, todo.calls # <<>>
  PROVE  /\ Call \in ToolCall
         /\ Tail(todo.calls) \in Seq(ToolCall)
         /\ Call.idx \in ToolIndex
         /\ Merged(tools[Call.idx], Call) \in Tool
<1>1. todo.calls \in Seq(ToolCall)
  BY DEF TypeOK
<1>2. Head(todo.calls) \in ToolCall /\ Tail(todo.calls) \in Seq(ToolCall)
  BY <1>1, HeadTailProperties
<1>3. Call \in ToolCall /\ Call.idx \in ToolIndex
  BY <1>2 DEF Call, ToolCall
<1>4. tools[Call.idx] \in Tool
  BY <1>3 DEF TypeOK
<1>5. Merged(tools[Call.idx], Call) \in Tool
  BY <1>3, <1>4 DEF Merged, ToolCall, Field
<1> QED
  BY <1>2, <1>3, <1>5

\* Every variable keeps its type through every step of the converter, the
\* upstream and the consumer.
LEMMA TypeStep == TypeOK /\ [Next]_vars => TypeOK'
<1> SUFFICES ASSUME TypeOK, [Next]_vars
             PROVE  TypeOK'
  OBVIOUS
<1> USE BoundsAssumption DEF code, pipe, ledger
<1>1. ASSUME NEW c \in Chunks, ReadChunk(c) PROVE TypeOK'
  <2>1. c \in [reasoning : BOOLEAN, text : BOOLEAN, calls : Seq(ToolCall),
               finish : {"none", "tool", "other"}]
    BY ChunksAssumption DEF Chunk
  <2>2. todo' \in [reasoning : BOOLEAN, text : BOOLEAN, calls : Seq(ToolCall)]
    BY <1>1, <2>1 DEF ReadChunk
  <2>3. finish' \in {"none", "tool", "other"}
    BY <1>1, <2>1 DEF ReadChunk, TypeOK
  <2> QED
    BY <1>1, <2>2, <2>3 DEF ReadChunk, TypeOK
<1>2. CASE ReadEnd
  BY <1>2 DEF ReadEnd, TypeOK
<1>3. CASE ReadError
  BY <1>3 DEF ReadError, TypeOK
<1>4. CASE EnsureMessageStart
  BY <1>4 DEF EnsureMessageStart, Send, TypeOK
<1>5. CASE SignThinking
  BY <1>5 DEF SignThinking, Send, BlockDelta, Note, TypeOK
<1>6. CASE CloseThinking
  BY <1>6 DEF CloseThinking, Send, BlockStop, Note, TypeOK
<1>7. CASE CloseText
  <2>1. textOpen' \in BOOLEAN
    BY <1>7 DEF CloseText
  <2> QED
    BY <1>7, <2>1 DEF CloseText, Send, BlockStop, Note, TypeOK
<1>8. CASE EmitTextBlockStart
  BY <1>8 DEF EmitTextBlockStart, Send, BlockStart, Note, TypeOK
<1>9. CASE EmitTextDelta
  <2>1. todo' \in [reasoning : BOOLEAN, text : BOOLEAN, calls : Seq(ToolCall)]
    BY <1>9 DEF EmitTextDelta, TypeOK
  <2> QED
    BY <1>9, <2>1 DEF EmitTextDelta, Send, BlockDelta, Note, TypeOK
<1>10. CASE EmitThinkingBlockStart
  BY <1>10 DEF EmitThinkingBlockStart, Send, BlockStart, Note, TypeOK
<1>11. CASE EmitThinkingDelta
  <2>1. todo' \in [reasoning : BOOLEAN, text : BOOLEAN, calls : Seq(ToolCall)]
    BY <1>11 DEF EmitThinkingDelta, TypeOK
  <2> QED
    BY <1>11, <2>1 DEF EmitThinkingDelta, Send, BlockDelta, Note, TypeOK
<1>12. CASE StartToolBlock
  <2>1. /\ Call.idx \in ToolIndex /\ Call.idx \in Nat
        /\ Merged(tools[Call.idx], Call) \in Tool
    BY <1>12, CallType, ToolIndexAssumption
       DEF StartToolBlock, ToolsReady, ToolsTurn
  <2>2. tools' \in [ToolIndex -> Tool]
    BY <1>12, <2>1 DEF StartToolBlock, TypeOK
  <2> QED
    BY <1>12, <2>1, <2>2 DEF StartToolBlock, Send, BlockStart, Note, TypeOK
<1>13. CASE EmitToolDelta
  <2>1. /\ Call.idx \in ToolIndex /\ Call.idx \in Nat
        /\ Merged(tools[Call.idx], Call) \in Tool
        /\ Tail(todo.calls) \in Seq(ToolCall)
    BY <1>13, CallType, ToolIndexAssumption
       DEF EmitToolDelta, ToolsReady, ToolsTurn
  <2>2. tools' \in [ToolIndex -> Tool]
    BY <1>13, <2>1 DEF EmitToolDelta, TypeOK
  <2>3. todo' \in [reasoning : BOOLEAN, text : BOOLEAN, calls : Seq(ToolCall)]
    BY <1>13, <2>1 DEF EmitToolDelta, NextCall, TypeOK
  <2> QED
    BY <1>13, <2>2, <2>3
       DEF EmitToolDelta, NextCall, Send, BlockDelta, Note, TypeOK
<1>14. CASE PassToolCall
  <2>1. /\ Call.idx \in ToolIndex
        /\ Merged(tools[Call.idx], Call) \in Tool
        /\ Tail(todo.calls) \in Seq(ToolCall)
    BY <1>14, CallType DEF PassToolCall, ToolsReady, ToolsTurn
  <2>2. tools' \in [ToolIndex -> Tool]
    BY <1>14, <2>1 DEF PassToolCall, TypeOK
  <2>3. todo' \in [reasoning : BOOLEAN, text : BOOLEAN, calls : Seq(ToolCall)]
    BY <1>14, <2>1 DEF PassToolCall, NextCall, TypeOK
  <2> QED
    BY <1>14, <2>2, <2>3 DEF PassToolCall, NextCall, TypeOK
<1>15. ASSUME NEW i \in ToolIndex, FinishTool(i) PROVE TypeOK'
  BY <1>15, ToolIndexAssumption DEF FinishTool, Send, BlockStop, Note, TypeOK
<1>16. CASE EmitMessageDelta
  BY <1>16 DEF EmitMessageDelta, Send, TypeOK
<1>17. CASE EmitMessageStop
  BY <1>17 DEF EmitMessageStop, Send, TypeOK
<1>18. CASE EmitError
  BY <1>18 DEF EmitError, Send, TypeOK
<1>19. CASE Cancel
  BY <1>19 DEF Cancel, TypeOK
<1>20. CASE Receive
  BY <1>20 DEF Receive, TypeOK
<1>21. CASE Disconnect
  <2>1. rxOpen' \in BOOLEAN
    BY <1>21 DEF Disconnect
  <2> QED
    BY <1>21, <2>1 DEF Disconnect, TypeOK
<1>22. CASE UNCHANGED vars
  BY <1>22 DEF vars, TypeOK
<1>23. CASE Terminated
  BY <1>22, <1>23 DEF Terminated
<1> QED
  BY <1>1, <1>2, <1>3, <1>4, <1>5, <1>6, <1>7, <1>8, <1>9, <1>10, <1>11,
     <1>12, <1>13, <1>14, <1>15, <1>16, <1>17, <1>18, <1>19, <1>20, <1>21,
     <1>22, <1>23 DEF Next, Others, Write

\* The initial state is well typed.
LEMMA TypeInit == Init => TypeOK
<1> SUFFICES ASSUME Init PROVE TypeOK
  OBVIOUS
<1>1. /\ sentStart \in BOOLEAN /\ sentStop \in BOOLEAN
      /\ textOpen \in BOOLEAN /\ rxOpen \in BOOLEAN
  BY DEF Init
<1>2. todo \in [reasoning : BOOLEAN, text : BOOLEAN, calls : Seq(ToolCall)]
  BY DEF Init
<1>3. tools \in [ToolIndex -> Tool]
  BY DEF Init
<1> QED
  BY <1>1, <1>2, <1>3, BoundsAssumption DEF Init, TypeOK

\* Every variable keeps its type, for every upstream and channel capacity.
THEOREM TypeCorrect == Spec => []TypeOK
BY TypeInit, TypeStep, PTL DEF Spec

-----------------------------------------------------------------------------
(* The inductive invariant                                                 *)

LEMMA InvInit == Init => IInv
<1> SUFFICES ASSUME Init PROVE IInv
  OBVIOUS
<1>1. TypeOK
  BY TypeInit
<1>2. ProseAtBase /\ FlagsAgree
  BY DEF Init, ProseAtBase, FlagsAgree
<1>3. ClosedBelowBase /\ EndingInOrder
  BY DEF Init, ClosedBelowBase, EndingInOrder
<1>4. TextAndThinkingInPlace /\ EndsOnce
  BY DEF Init, TextAndThinkingInPlace, EndsOnce
<1> QED
  BY <1>1, <1>2, <1>3, <1>4 DEF IInv

LEMMA InvStep == IInv /\ [Next]_vars => IInv'
<1> SUFFICES ASSUME IInv, [Next]_vars
             PROVE  IInv'
  OBVIOUS
<1>t. TypeOK /\ TypeOK'
  BY TypeStep DEF IInv
<1> USE DEF code, pipe, ledger, IInv, ProseAtBase, FlagsAgree, ClosedBelowBase,
            EndingInOrder, TextAndThinkingInPlace, EndsOnce, TypeOK
<1> DEFINE Rest ==
      /\ ProseAtBase' /\ FlagsAgree' /\ ClosedBelowBase' /\ EndingInOrder'
      /\ TextAndThinkingInPlace' /\ EndsOnce'
<1>1. ASSUME NEW c \in Chunks, ReadChunk(c) PROVE Rest
  BY <1>1, <1>t DEF ReadChunk
<1>2. ASSUME ReadEnd PROVE Rest
  BY <1>2, <1>t DEF ReadEnd, Idle, Reading
<1>3. ASSUME ReadError PROVE Rest
  BY <1>3, <1>t DEF ReadError, Idle, Reading
<1>4. ASSUME EnsureMessageStart PROVE Rest
  BY <1>4, <1>t DEF EnsureMessageStart, Send, WantsText, WantsThinking, TextTurn, ReasoningTurn, Reading
<1>5. ASSUME SignThinking PROVE Rest
  BY <1>5, <1>t DEF SignThinking, Send, BlockDelta, Note
<1>6. ASSUME CloseThinking PROVE Rest
  BY <1>6, <1>t DEF CloseThinking, Send, BlockStop, Note, MayCloseThinking, TextTurn, ToolsTurn, Reading, Finishing
<1>7. ASSUME CloseText PROVE Rest
  BY <1>7, <1>t DEF CloseText, Send, BlockStop, Note, MayCloseText, WantsThinking, ReasoningTurn, ToolsTurn, Reading, Finishing
<1>8. ASSUME EmitTextBlockStart PROVE Rest
  BY <1>8, <1>t DEF EmitTextBlockStart, Send, BlockStart, Note, ReadyForText, WantsText, TextTurn, ReasoningTurn, Reading
<1>9. ASSUME EmitTextDelta PROVE Rest
  BY <1>9, <1>t DEF EmitTextDelta, Send, BlockDelta, Note
<1>10. ASSUME EmitThinkingBlockStart PROVE Rest
  BY <1>10, <1>t DEF EmitThinkingBlockStart, Send, BlockStart, Note, ReadyForThinking, WantsThinking, ReasoningTurn, Reading
<1>11. ASSUME EmitThinkingDelta PROVE Rest
  BY <1>11, <1>t DEF EmitThinkingDelta, Send, BlockDelta, Note
<1>12. ASSUME StartToolBlock PROVE Rest
  BY <1>12, <1>t DEF StartToolBlock, Send, BlockStart, Note, ToolsReady, ToolsTurn, Reading
<1>13. ASSUME EmitToolDelta PROVE Rest
  BY <1>13, <1>t DEF EmitToolDelta, Send, BlockDelta, Note
<1>14. ASSUME PassToolCall PROVE Rest
  BY <1>14, <1>t DEF PassToolCall
<1>15. ASSUME NEW i \in ToolIndex, FinishTool(i) PROVE Rest
  BY <1>15, <1>t DEF FinishTool, Send, BlockStop, Note, BlocksClosed, Finishing
<1>16. ASSUME EmitMessageDelta PROVE Rest
  BY <1>16, <1>t DEF EmitMessageDelta, Send, BlocksClosed, Finishing
<1>17. ASSUME EmitMessageStop PROVE Rest
  BY <1>17, <1>t DEF EmitMessageStop, Send
<1>18. ASSUME EmitError PROVE Rest
  BY <1>18, <1>t DEF EmitError, Send
<1>19. ASSUME Cancel PROVE Rest
  BY <1>19, <1>t DEF Cancel, UpstreamHeld
<1>20. ASSUME Receive PROVE Rest
  BY <1>20, <1>t DEF Receive
<1>21. ASSUME Disconnect PROVE Rest
  BY <1>21, <1>t DEF Disconnect
<1>22. ASSUME UNCHANGED vars PROVE Rest
  BY <1>22, <1>t DEF vars
<1>23. ASSUME Terminated PROVE Rest
  BY <1>23, <1>t DEF Terminated, vars
<1> QED
  BY <1>t, <1>1, <1>2, <1>3, <1>4, <1>5, <1>6, <1>7, <1>8, <1>9, <1>10, <1>11, <1>12, <1>13, <1>14, <1>15, <1>16, <1>17, <1>18, <1>19, <1>20, <1>21, <1>22, <1>23 DEF Next, Others, Write

\* The invariant holds for every upstream.
THEOREM InvCorrect == Spec => []IInv
BY InvInit, InvStep, PTL DEF Spec

\* Whatever the upstream sends, text and thinking events fall inside the
\* message and inside an open block of their own kind.
THEOREM TextAndThinkingSafe == Spec => []TextAndThinkingInPlace
<1>1. IInv => TextAndThinkingInPlace
  BY DEF IInv
<1> QED
  BY <1>1, InvCorrect, PTL

\* Whatever the upstream sends, the stream ends at most once and a connected
\* client is told of the end of every message that was started.
THEOREM EndsOnceSafe == Spec => []EndsOnce
<1>1. IInv => EndsOnce
  BY DEF IInv
<1> QED
  BY <1>1, InvCorrect, PTL

\* The reader never has two prose blocks open: both would be at base, and the
\* flags exclude each other.
THEOREM OneProseBlockSafe == Spec => []OneProseBlockAtATime
<1>1. IInv => OneProseBlockAtATime
  <2> SUFFICES ASSUME IInv, NEW b \in open, NEW c \in open,
                      b[2] # "tool", c[2] # "tool"
               PROVE  b = c
    BY DEF OneProseBlockAtATime
  <2>1. b \in Nat \X Kind /\ c \in Nat \X Kind
    BY DEF IInv, TypeOK
  <2>2. b[1] = base /\ c[1] = base /\ b[2] = c[2]
    BY <2>1 DEF IInv, ProseAtBase, FlagsAgree
  <2> QED
    BY <2>1, <2>2
<1> QED
  BY <1>1, InvCorrect, PTL

\* A block never starts at an index that was stopped before.
THEOREM ClosedIndexSafe == Spec => ClosedIndexStaysClosed
<1> DEFINE Fresh == \A b \in open' : b \notin open => b[1] \notin closed
<1>1. IInv /\ [Next]_vars => [Fresh]_<<open, closed>>
  <2> SUFFICES ASSUME IInv, [Next]_vars PROVE Fresh \/ UNCHANGED <<open, closed>>
    OBVIOUS
  <2> USE DEF code, pipe, ledger
  <2>1. ASSUME EmitTextBlockStart \/ EmitThinkingBlockStart PROVE Fresh
    <3>1. open' \subseteq open \cup {<<base, "text">>, <<base, "thinking">>}
      BY <2>1 DEF EmitTextBlockStart, EmitThinkingBlockStart, BlockStart
    <3>2. base \notin closed
      BY <2>1 DEF EmitTextBlockStart, EmitThinkingBlockStart, ReadyForText,
           ReadyForThinking, WantsText, WantsThinking, TextTurn, ReasoningTurn,
           Reading, IInv, TypeOK, ClosedBelowBase
    <3> QED
      BY <3>1, <3>2
  <2>2. ASSUME StartToolBlock PROVE Fresh
    <3>1. Call.idx \in Nat
      BY <2>2, CallType, ToolIndexAssumption
         DEF StartToolBlock, ToolsReady, ToolsTurn, IInv
    <3>2. open' = open \cup {<<base + Call.idx, "tool">>}
      BY <2>2 DEF StartToolBlock, BlockStart
    <3>3. base + Call.idx \notin closed
      BY <2>2, <3>1 DEF StartToolBlock, ToolsReady, ToolsTurn, Reading, IInv,
           TypeOK, ClosedBelowBase
    <3> QED
      BY <3>2, <3>3
  <2>3. ASSUME CloseThinking \/ CloseText \/ \E i \in ToolIndex : FinishTool(i)
        PROVE  Fresh
    BY <2>3 DEF CloseThinking, CloseText, FinishTool, BlockStop
  <2> QED
    BY <2>1, <2>2, <2>3 DEF Next, Others, Write, ReadChunk, ReadEnd, ReadError,
       EnsureMessageStart, SignThinking, EmitTextDelta, EmitThinkingDelta,
       EmitToolDelta, PassToolCall, EmitMessageDelta, EmitMessageStop,
       EmitError, Cancel, Receive, Disconnect, Terminated, BlockDelta, vars
<1> QED
  BY <1>1, InvCorrect, PTL DEF Spec, ClosedIndexStaysClosed

-----------------------------------------------------------------------------
(* Orderly upstreams: every event in its place, and the refinement of      *)
(* MessageStream.                                                          *)

LEMMA OrderlyIsStep == [OrderlyNext]_vars => [Next]_vars
BY DEF OrderlyNext, Next

LEMMA OrderlyInit == Init => OrderlyInv
<1> SUFFICES ASSUME Init PROVE OrderlyInv
  OBVIOUS
<1>1. IInv
  BY InvInit
<1>2. \A i \in ToolIndex : tools[i] = NoTool
  BY DEF Init
<1> QED
  BY <1>1, <1>2 DEF Init, OrderlyInv, ToolsLast, ToolBlocksAtBase, Unstopped,
     UnstoppedStarted, WellFormed

LEMMA OrderlyStep == OrderlyInv /\ [OrderlyNext]_vars => OrderlyInv'
<1> SUFFICES ASSUME OrderlyInv, [OrderlyNext]_vars
             PROVE  OrderlyInv'
  OBVIOUS
<1>t. IInv /\ TypeOK /\ IInv'
  BY OrderlyIsStep, InvStep DEF OrderlyInv, IInv
<1> USE DEF code, pipe, ledger, OrderlyInv, ToolsLast, ToolBlocksAtBase,
            Unstopped, UnstoppedStarted, WellFormed, TypeOK
<1> DEFINE Rest ==
      ToolsLast' /\ ToolBlocksAtBase' /\ UnstoppedStarted' /\ WellFormed'
<1>1. ASSUME NEW c \in Chunks, Orderly(c), ReadChunk(c) PROVE Rest
  BY <1>1, <1>t DEF ReadChunk, Orderly, Idle, Reading
<1>2. ASSUME ReadEnd PROVE Rest
  BY <1>2, <1>t DEF ReadEnd, Idle, Reading, EndingInOrder, IInv
<1>3. ASSUME ReadError PROVE Rest
  BY <1>3, <1>t DEF ReadError, Idle, Reading
<1>4. ASSUME EnsureMessageStart PROVE Rest
  BY <1>4, <1>t DEF EnsureMessageStart, Send
<1>5. ASSUME SignThinking PROVE Rest
  BY <1>5, <1>t DEF SignThinking, Send, BlockDelta, Note, IInv, ProseAtBase
<1>6. ASSUME CloseThinking PROVE Rest
  BY <1>6, <1>t DEF CloseThinking, Send, BlockStop, Note, IInv, ProseAtBase, MayCloseThinking, TextTurn, ToolsTurn, Finishing, Reading, EndingInOrder
<1>7. ASSUME CloseText PROVE Rest
  BY <1>7, <1>t DEF CloseText, Send, BlockStop, Note, IInv, ProseAtBase, MayCloseText, WantsThinking, ReasoningTurn, ToolsTurn, Finishing, Reading, EndingInOrder
<1>8. ASSUME EmitTextBlockStart PROVE Rest
  <2>1. /\ phase = "reading" /\ sentStart /\ ~textOpen /\ thinking = "closed"
        /\ todo.reasoning \/ todo.text
    BY <1>8, <1>t DEF EmitTextBlockStart, ReadyForText, WantsText, TextTurn,
       ReasoningTurn, Reading, IInv, FlagsAgree
  <2>2. starts = 1 /\ base \notin closed
    BY <2>1, <1>t DEF IInv, FlagsAgree, ClosedBelowBase
  <2>3. \A i \in ToolIndex : ~tools[i].known /\ ~tools[i].started
    BY <2>1
  <2>4. open = {}
    BY <2>1, <2>3, <1>t DEF IInv, ProseAtBase
  <2>5. faults' = {}
    BY <1>8, <2>2, <2>4 DEF EmitTextBlockStart, BlockStart, Note, Busy
  <2> QED
    BY <1>8, <1>t, <2>1, <2>3, <2>4, <2>5
       DEF EmitTextBlockStart, Send, BlockStart, IInv, EndingInOrder
<1>9. ASSUME EmitTextDelta PROVE Rest
  BY <1>9, <1>t DEF EmitTextDelta, Send, BlockDelta, Note, IInv, ProseAtBase, ReadyForText, WantsText, TextTurn, ReasoningTurn, Reading
<1>10. ASSUME EmitThinkingBlockStart PROVE Rest
  <2>1. /\ phase = "reading" /\ sentStart /\ ~textOpen /\ thinking = "closed"
        /\ todo.reasoning \/ todo.text
    BY <1>10, <1>t DEF EmitThinkingBlockStart, ReadyForThinking, WantsThinking,
       ReasoningTurn, Reading, IInv, FlagsAgree
  <2>2. starts = 1 /\ base \notin closed
    BY <2>1, <1>t DEF IInv, FlagsAgree, ClosedBelowBase
  <2>3. \A i \in ToolIndex : ~tools[i].known /\ ~tools[i].started
    BY <2>1
  <2>4. open = {}
    BY <2>1, <2>3, <1>t DEF IInv, ProseAtBase
  <2>5. faults' = {}
    BY <1>10, <2>2, <2>4 DEF EmitThinkingBlockStart, BlockStart, Note, Busy
  <2> QED
    BY <1>10, <1>t, <2>1, <2>3, <2>4, <2>5
       DEF EmitThinkingBlockStart, Send, BlockStart, IInv, EndingInOrder
<1>11. ASSUME EmitThinkingDelta PROVE Rest
  BY <1>11, <1>t DEF EmitThinkingDelta, Send, BlockDelta, Note, IInv, ProseAtBase, ReadyForThinking, WantsThinking, ReasoningTurn, Reading
<1>12. ASSUME StartToolBlock PROVE Rest
  <2>1. Call \in ToolCall /\ Call.idx \in ToolIndex /\ Call.idx \in Nat
    BY <1>12, <1>t, CallType, ToolIndexAssumption DEF StartToolBlock, ToolsReady, ToolsTurn
  <2>2. /\ phase = "reading" /\ ~textOpen /\ thinking = "closed"
        /\ ~todo.reasoning /\ ~todo.text /\ sentStart
    BY <1>12 DEF StartToolBlock, ToolsReady, ToolsTurn, Reading
  <2>3. starts = 1 /\ base + Call.idx \notin closed
    BY <2>1, <2>2, <1>t DEF IInv, FlagsAgree, ClosedBelowBase
  <2>4. ~tools[Call.idx].started
    <3>1. Startable(Merged(tools[Call.idx], Call))
      BY <1>12 DEF StartToolBlock
    <3>2. Merged(tools[Call.idx], Call).started = tools[Call.idx].started
      BY DEF Merged
    <3> QED
      BY <3>1, <3>2 DEF Startable
  <2>5. tools' = [tools EXCEPT ![Call.idx] = [Merged(tools[Call.idx], Call)
                                                EXCEPT !.started = TRUE]]
    BY <1>12 DEF StartToolBlock
  <2>6. /\ tools'[Call.idx].known /\ tools'[Call.idx].started
        /\ \A i \in ToolIndex \ {Call.idx} : tools'[i] = tools[i]
    <3>1. Merged(tools[Call.idx], Call).known
      BY DEF Merged
    <3>2. Merged(tools[Call.idx], Call) \in Tool
      BY <1>12, <1>t, CallType DEF StartToolBlock, ToolsReady, ToolsTurn
    <3>3. tools'[Call.idx] = [Merged(tools[Call.idx], Call)
                                EXCEPT !.started = TRUE]
      BY <2>1, <2>5, <1>t
    <3>4. \A i \in ToolIndex \ {Call.idx} : tools'[i] = tools[i]
      BY <2>1, <2>5, <1>t
    <3> QED
      BY <3>1, <3>2, <3>3, <3>4
  <2>7. ~Busy(base + Call.idx)
    <3>1. \A k \in {"text", "thinking"} : <<base + Call.idx, k>> \notin open
      BY <2>2, <1>t DEF IInv, ProseAtBase
    <3>2. <<base + Call.idx, "tool">> \notin open
      <4>1. SUFFICES ASSUME <<base + Call.idx, "tool">> \in open PROVE FALSE
        OBVIOUS
      <4>2. PICK i \in ToolIndex : base + Call.idx = base + i /\ tools[i].started
        BY <4>1, <2>2
      <4> QED
        BY <4>2, <2>1, <2>4, <1>t, ToolIndexAssumption
    <3> QED
      BY <3>1, <3>2 DEF Busy
  <2>8. faults' = {} /\ open' = open \cup {<<base + Call.idx, "tool">>}
    BY <1>12, <2>3, <2>7 DEF StartToolBlock, BlockStart, Note
  <2>9. ToolBlocksAtBase'
    BY <1>12, <2>1, <2>2, <2>6, <2>8 DEF StartToolBlock
  <2> QED
    BY <1>12, <1>t, <2>1, <2>2, <2>6, <2>8, <2>9
       DEF StartToolBlock, IInv, EndingInOrder
<1>13. ASSUME EmitToolDelta PROVE Rest
  <2>1. Call \in ToolCall /\ Call.idx \in ToolIndex /\ Call.idx \in Nat
    BY <1>13, <1>t, CallType, ToolIndexAssumption DEF EmitToolDelta, ToolsReady, ToolsTurn
  <2> QED
    BY <1>13, <1>t, <2>1 DEF EmitToolDelta, NextCall, Send, BlockDelta, Note, IInv, ToolsReady, ToolsTurn, Reading, Merged
<1>14. ASSUME PassToolCall PROVE Rest
  <2>1. Call \in ToolCall /\ Call.idx \in ToolIndex /\ Call.idx \in Nat
    BY <1>14, <1>t, CallType, ToolIndexAssumption DEF PassToolCall, ToolsReady, ToolsTurn
  <2> QED
    BY <1>14, <1>t, <2>1 DEF PassToolCall, NextCall, IInv, ToolsReady, ToolsTurn, Reading, Merged
<1>15. ASSUME NEW i \in ToolIndex, FinishTool(i) PROVE Rest
  BY <1>15, <1>t, ToolIndexAssumption DEF FinishTool, Send, BlockStop, Note, BlocksClosed, Finishing, IInv, ProseAtBase
<1>16. ASSUME EmitMessageDelta PROVE Rest
  BY <1>16, <1>t DEF EmitMessageDelta, Send, BlocksClosed, Finishing
<1>17. ASSUME EmitMessageStop PROVE Rest
  BY <1>17, <1>t DEF EmitMessageStop, Send, IInv, ProseAtBase, EndingInOrder
<1>18. ASSUME EmitError PROVE Rest
  BY <1>18, <1>t DEF EmitError, Send, IInv, EndingInOrder
<1>19. ASSUME Cancel PROVE Rest
  BY <1>19, <1>t DEF Cancel
<1>20. ASSUME Receive PROVE Rest
  BY <1>20, <1>t DEF Receive
<1>21. ASSUME Disconnect PROVE Rest
  BY <1>21, <1>t DEF Disconnect
<1>22. ASSUME UNCHANGED vars PROVE Rest
  BY <1>22, <1>t DEF vars
<1>23. ASSUME Terminated PROVE Rest
  BY <1>22, <1>23 DEF Terminated
<1> QED
  BY <1>t, <1>1, <1>2, <1>3, <1>4, <1>5, <1>6, <1>7, <1>8, <1>9, <1>10, <1>11,
     <1>12, <1>13, <1>14, <1>15, <1>16, <1>17, <1>18, <1>19, <1>20, <1>21,
     <1>22, <1>23 DEF OrderlyNext, Others, Write

\* For an orderly upstream the invariant holds in every state.
THEOREM OrderlyCorrect == OrderlySpec => []OrderlyInv
BY OrderlyInit, OrderlyStep, PTL DEF OrderlySpec

\* For an orderly upstream no event is ever out of its place.
THEOREM OrderlyWellFormed == OrderlySpec => []WellFormed
<1>1. OrderlyInv => WellFormed
  BY DEF OrderlyInv
<1> QED
  BY <1>1, OrderlyCorrect, PTL

\* For an orderly upstream no two open blocks share an index.
LEMMA OneOpenBlockPerIndex ==
  ASSUME OrderlyInv, phase \in {"reading", "finishing"},
         NEW b \in open, NEW c \in open, b[1] = c[1]
  PROVE  b = c
<1>1. b \in Nat \X Kind /\ c \in Nat \X Kind
  BY DEF OrderlyInv, IInv, TypeOK
<1>2. ASSUME NEW d \in open, d[2] = "tool"
      PROVE  ~textOpen /\ thinking = "closed"
  <2>1. PICK i \in ToolIndex : Unstopped(i)
    BY <1>2 DEF OrderlyInv, ToolBlocksAtBase
  <2>2. tools[i].known
    BY <2>1 DEF OrderlyInv, UnstoppedStarted, ToolsLast, Unstopped
  <2> QED
    BY <2>2 DEF OrderlyInv, ToolsLast
<1>3. b[2] = c[2]
  BY <1>1, <1>2 DEF OrderlyInv, IInv, ProseAtBase, FlagsAgree
<1> QED
  BY <1>1, <1>3

\* Each step on the ledger is a step of MessageStream, every other stutters.
LEMMA RefinementStep ==
  OrderlyInv /\ OrderlyInv' /\ [OrderlyNext]_vars => [Messages!Next]_(Messages!vars)
<1> SUFFICES ASSUME OrderlyInv, OrderlyInv', [OrderlyNext]_vars
             PROVE  Messages!Next \/ UNCHANGED Messages!vars
  OBVIOUS
<1> USE DEF code, pipe, ledger, Messages!vars
<1>t. /\ IInv /\ TypeOK /\ starts \in Nat /\ stops \in Nat /\ errors \in Nat
      /\ open \subseteq Nat \X Kind
  BY DEF OrderlyInv, IInv, TypeOK
<1>e. phase # "ended" => stops = 0 /\ errors = 0
  BY <1>t DEF IInv, EndingInOrder
<1>1. ASSUME EnsureMessageStart PROVE Messages!MessageStart
  <2>1. starts = 0 /\ phase # "ended"
    BY <1>1, <1>t DEF EnsureMessageStart, IInv, FlagsAgree, WantsText,
       WantsThinking, TextTurn, ReasoningTurn, Reading
  <2> QED
    BY <1>1, <1>e, <2>1 DEF EnsureMessageStart, Messages!MessageStart
<1>2. ASSUME NEW i \in Nat, NEW k \in Kind, BlockStart(i, k), phase = "reading"
      PROVE  Messages!BlockStart
  <2>1. faults' = {}
    BY DEF OrderlyInv, WellFormed
  <2>2. starts # 0 /\ ~Busy(i) /\ i \notin closed
    BY <1>2, <2>1 DEF BlockStart, Note
  <2>3. \A c \in open : c[1] # i
    BY <2>2, <1>t DEF Busy
  <2>4. <<i, k>> \in open' \ open /\ open' = open \cup {<<i, k>>}
    BY <1>2, <2>3 DEF BlockStart
  <2> QED
    BY <1>2, <1>e, <1>t, <2>2, <2>3, <2>4
       DEF BlockStart, Messages!BlockStart, Messages!Kind
<1>3. ASSUME NEW i \in Nat, NEW k \in Kind, BlockStop(i, k),
             phase \in {"reading", "finishing"}
      PROVE  Messages!BlockStop
  <2>1. faults' = {}
    BY DEF OrderlyInv, WellFormed
  <2>2. <<i, k>> \in open
    BY <1>3, <2>1 DEF BlockStop, Note
  <2>3. \A c \in open : c[1] = i => c = <<i, k>>
    BY <1>3, <2>2, OneOpenBlockPerIndex
  <2> QED
    BY <1>3, <1>e, <2>2, <2>3 DEF BlockStop, Messages!BlockStop
<1>4. ASSUME EmitMessageStop PROVE Messages!MessageStop
  <2>1. phase = "stopping" /\ phase # "ended" /\ stops' = 1 /\ stops = 0
    BY <1>4, <1>e, <1>t DEF EmitMessageStop
  <2>2. open = {}
    BY <2>1, <1>4 DEF EmitMessageStop, OrderlyInv, UnstoppedStarted
  <2>3. starts > 0
    BY <2>1, <1>t DEF IInv, FlagsAgree, EndingInOrder
  <2> QED
    BY <1>4, <1>e, <2>1, <2>2, <2>3 DEF EmitMessageStop, Messages!MessageStop
<1>5. ASSUME EmitError PROVE Messages!Error
  BY <1>5, <1>e, <1>t DEF EmitError, Messages!Error
<1>6. ASSUME EmitTextBlockStart \/ EmitThinkingBlockStart PROVE Messages!BlockStart
  <2>1. base \in Nat /\ phase = "reading"
    BY <1>6, <1>t DEF TypeOK, EmitTextBlockStart, EmitThinkingBlockStart,
       ReadyForText, ReadyForThinking, WantsText, WantsThinking, TextTurn,
       ReasoningTurn, Reading
  <2> QED
    BY <1>6, <1>2, <2>1 DEF EmitTextBlockStart, EmitThinkingBlockStart
<1>7. ASSUME StartToolBlock PROVE Messages!BlockStart
  <2>1. base + Call.idx \in Nat /\ phase = "reading"
    BY <1>7, <1>t, CallType, ToolIndexAssumption
       DEF TypeOK, StartToolBlock, ToolsReady, ToolsTurn, Reading
  <2> QED
    BY <1>7, <1>2, <2>1 DEF StartToolBlock
<1>8. ASSUME CloseThinking \/ CloseText PROVE Messages!BlockStop
  <2>1. base \in Nat /\ phase \in {"reading", "finishing"}
    BY <1>8, <1>t DEF TypeOK, CloseThinking, CloseText, MayCloseThinking,
       MayCloseText, WantsThinking, TextTurn, ReasoningTurn, ToolsTurn, Reading,
       Finishing
  <2> QED
    BY <1>8, <1>3, <2>1 DEF CloseThinking, CloseText
<1>9. ASSUME NEW i \in ToolIndex, FinishTool(i) PROVE Messages!BlockStop
  <2>1. base + i \in Nat /\ phase = "finishing"
    BY <1>9, <1>t, ToolIndexAssumption DEF TypeOK, FinishTool, BlocksClosed, Finishing
  <2> QED
    BY <1>9, <1>3, <2>1 DEF FinishTool
<1>10. ASSUME \/ \E c \in Chunks : ReadChunk(c)
              \/ ReadEnd \/ ReadError \/ PassToolCall \/ Cancel \/ Receive
              \/ Disconnect \/ Terminated \/ UNCHANGED vars
       PROVE  UNCHANGED Messages!vars
  BY <1>10 DEF ReadChunk, ReadEnd, ReadError, PassToolCall, Cancel, Receive,
     Disconnect, Terminated, vars
<1>11. ASSUME \/ SignThinking \/ EmitTextDelta \/ EmitThinkingDelta
              \/ EmitToolDelta \/ EmitMessageDelta
       PROVE  UNCHANGED Messages!vars
  BY <1>11 DEF SignThinking, EmitTextDelta, EmitThinkingDelta, EmitToolDelta,
     EmitMessageDelta, BlockDelta
<1> QED
  BY <1>1, <1>4, <1>5, <1>6, <1>7, <1>8, <1>9, <1>10, <1>11
     DEF OrderlyNext, Others, Write, Messages!Next

\* For an orderly upstream the converter implements the promise made to the
\* reader of the stream.
THEOREM Refinement == OrderlySpec => ImplementsMessageStream
<1>1. Init => Messages!Init
  BY DEF Init, Messages!Init
<1> QED
  BY <1>1, OrderlyCorrect, RefinementStep, PTL
     DEF OrderlySpec, ImplementsMessageStream, Messages!Spec
=============================================================================
