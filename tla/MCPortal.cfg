\* A portal that answers on the path the client expects.  A call that waits
\* forever is for RequestEnds to find, and not for the check for deadlocks.
SPECIFICATION FairSpec

CONSTANT
  Predictable = TRUE

INVARIANTS
  HandlerInv
  AnswerIsForRequest
PROPERTIES
  RequestEnds

CHECK_DEADLOCK FALSE
