\* One boss with two slots, every fault, restarts beside orphans.
SPECIFICATION Spec
CONSTANTS
  Entry <- MCThreeEntries
  v1 = v1
  v2 = v2
  Void <- MCVoid
  VoidOf <- MCVoidOf
  Window = 2
  NULL = NULL
  QueueType = "EMAILIN"
  Boss = {b1}
  Pid = {p1, p2, p3}
  NumThreads = 2
  EMPTY = EMPTY
  Faults = {"fork", "conn", "boss", "setup"}
SYMMETRY Symmetry
INVARIANTS VoidExclusive
PROPERTIES DispatchSafety
