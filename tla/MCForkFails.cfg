\* One boss whose fork() may fail.
SPECIFICATION FairSpec
CONSTANTS
  Entry <- MCThreeEntries
  v1 = v1
  v2 = v2
  Void <- MCVoid
  VoidOf <- MCVoidOf
  Window = 2
  NULL = NULL
  QueueType = "EMAILIN"
  Boss = {b1}
  Pid = {p1, p2}
  NumThreads = 2
  EMPTY = EMPTY
  Faults = {"fork"}
PROPERTIES EveryEntryFinishes
