\* launch.sh: two rulerunner bosses, no fault at all.
SPECIFICATION Spec
CONSTANTS
  Entry <- MCThreeEntries
  v1 = v1
  v2 = v2
  Void <- MCVoid
  VoidOf <- MCVoidOf
  Window = 2
  NULL = NULL
  QueueType = "EMAILIN"
  Boss = {b1, b2}
  Pid = {p1, p2}
  NumThreads = 1
  EMPTY = EMPTY
  Faults = {}
INVARIANTS VoidExclusive
