\* Two bosses, one slot each; children may fail to set up.
SPECIFICATION FairSpec
CONSTANTS
  Entry <- MCThreeEntries
  v1 = v1
  v2 = v2
  Void <- MCVoid
  VoidOf <- MCVoidOf
  Window = 1
  NULL = NULL
  QueueType = "EMAILIN"
  Boss = {b1, b2}
  Pid = {p1, p2}
  NumThreads = 1
  EMPTY = EMPTY
  Faults = {"setup"}
INVARIANTS NoRowStranded
PROPERTIES EveryEntryFinishes
