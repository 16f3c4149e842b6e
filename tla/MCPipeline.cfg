\* One rulerunner that may be killed and started again, one msgdelivery; fair.
SPECIFICATION FairSpec
CONSTANTS
  Mail <- MCTwo
  Letter <- MCTwo
  v1 = v1
  Void = {v1}
  VoidOf <- MCVoidOf
  Window = 2
  NULL = NULL
  EMPTY = EMPTY
  Runner = {r1}
  RunnerPid = {p1, p2}
  RunnerSlots = 1
  RunnerFaults = {"boss"}
  Sender = {s1}
  SenderPid = {q1}
  SenderSlots = 1
  SenderFaults = {}
  Late = TRUE
INVARIANTS TypeOK LetterOnce PostsInTurn
PROPERTIES LettersServed KeepsListPromise
