---------------------------- MODULE MCSseStream ----------------------------
(* Small instances of SseStream.                                           *)
EXTENDS SseStream

MCToolIndex == {0, 1}

Tc(i, id, name, args) == [idx |-> i, id |-> id, name |-> name, args |-> args]

\* A call announced at once, in two halves, by an empty id, and continued;
\* two calls in one delta, the second index first.
MCCalls ==
  {<<>>,
   <<Tc(0, "given", "given", TRUE)>>,
   <<Tc(1, "given", "given", FALSE)>>,
   <<Tc(0, "given", "absent", FALSE)>>,
   <<Tc(0, "absent", "given", TRUE)>>,
   <<Tc(0, "empty", "given", TRUE)>>,
   <<Tc(0, "absent", "absent", TRUE)>>,
   <<Tc(1, "given", "given", TRUE), Tc(0, "given", "given", TRUE)>>}

MCChunks == [reasoning : BOOLEAN, text : BOOLEAN, calls : MCCalls,
             finish : {"none", "tool"}]
=============================================================================
