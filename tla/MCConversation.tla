---------------------------- MODULE MCConversation ----------------------------
(***************************************************************************)
(* Small instances of Conversation.                                        *)
(***************************************************************************)
EXTENDS Conversation

MCWords == {<<"text">>, <<"blank">>, <<"text", "image">>, <<"other">>}

\* A text after thought; two calls at once; a text and a call without an id;
\* nothing.
MCReplies ==
  {[think |-> TRUE,  text |-> TRUE,  calls |-> 0, ids |-> TRUE],
   [think |-> FALSE, text |-> FALSE, calls |-> 2, ids |-> TRUE],
   [think |-> FALSE, text |-> TRUE,  calls |-> 1, ids |-> FALSE],
   [think |-> FALSE, text |-> FALSE, calls |-> 0, ids |-> TRUE]}

\* None; the first call's of the first turn, whether or not it was made or has been
\* answered.
MCStrays == {<<>>, <<<<1, 1>>>>}
=============================================================================
