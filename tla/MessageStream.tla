--------------------------- MODULE MessageStream ---------------------------
(***************************************************************************)
(* What the reader of an Anthropic event stream is promised: the message   *)
(* starts once, content blocks start and stop inside it, an index names    *)
(* one block only, and the stream ends once, with message_stop when every  *)
(* block has been stopped or with an error at any point.                   *)
(***************************************************************************)
EXTENDS Naturals

VARIABLES started, open, closed, ending

vars == <<started, open, closed, ending>>

Kind == {"text", "thinking", "tool"}

Init ==
  /\ started = FALSE
  /\ open = {} /\ closed = {}
  /\ ending = "none"

MessageStart ==
  /\ ending = "none" /\ ~started
  /\ started' = TRUE
  /\ UNCHANGED <<open, closed, ending>>

\* Some block b = <<index, kind>> starts at an index never used before.
BlockStart ==
  /\ ending = "none" /\ started
  /\ \E b \in open' \ open :
       /\ b[2] \in Kind
       /\ b[1] \notin closed
       /\ \A c \in open : c[1] # b[1]
       /\ open' = open \cup {b}
  /\ UNCHANGED <<started, closed, ending>>

BlockStop ==
  /\ ending = "none"
  /\ \E b \in open :
       /\ open' = open \ {b}
       /\ closed' = closed \cup {b[1]}
  /\ UNCHANGED <<started, ending>>

MessageStop ==
  /\ ending = "none" /\ started /\ open = {}
  /\ ending' = "stop"
  /\ UNCHANGED <<started, open, closed>>

Error ==
  /\ ending = "none"
  /\ ending' = "error"
  /\ UNCHANGED <<started, open, closed>>

Next == MessageStart \/ BlockStart \/ BlockStop \/ MessageStop \/ Error

Spec == Init /\ [][Next]_vars
=============================================================================
