\* Two bosses on the outgoing queue, every fault.
SPECIFICATION Spec
CONSTANTS
  Entry <- MCThreeEntries
  v1 = v1
  v2 = v2
  Void <- MCVoid
  VoidOf <- MCVoidOf
  Window = 2
  NULL = NULL
  QueueType = "EMAILOUT"
  Boss = {b1, b2}
  Pid = {p1, p2, p3}
  NumThreads = 1
  EMPTY = EMPTY
  Faults = {"fork", "conn", "boss", "setup"}
SYMMETRY Symmetry
INVARIANTS TypeOK AtMostOnce WorkerOwnsRow ChildrenTracked
PROPERTIES RowsMoveForward OnlyFaultsStrand
