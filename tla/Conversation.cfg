SPECIFICATION Spec
CONSTANTS
  MaxTurns = 3
  Words <- MCWords
  Replies <- MCReplies
  Results = {"text", "picture", "unusable"}
  Styles = {"one", "apart", "noted"}
  Strays <- MCStrays
  NoReply = NoReply
INVARIANTS CallsAreAnswered HeardAsTold
PROPERTY OnlyGrows
CHECK_DEADLOCK FALSE
