\* A portal that makes up the path it answers on.
SPECIFICATION FairSpec

CONSTANT
  Predictable = FALSE

PROPERTY
  RequestEnds

\* That the program is stuck is the point.
CHECK_DEADLOCK FALSE
