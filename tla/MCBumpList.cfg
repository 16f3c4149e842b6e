\* Two scripts that may overlap, every fault.
SPECIFICATION Spec
CONSTANTS
  a = a
  b = b
  thelist = thelist
  Person <- MCPerson
  BumplistAddress = thelist
  Seed <- MCSeed
  TopSize = 2
  Script = {s1, s2}
  MaxMails = 3
  MaxFaults = 2
  NONE = NONE
  Faults = {"kill", "read", "write"}
SYMMETRY Symmetry
INVARIANTS TypeOK NobodyTwice SubscribesCoverBumps CountsNeverShort CountsAddUp FilesAgree
PROPERTIES OldestIsBumped HistoryKept TopOnlyRises
CHECK_DEADLOCK FALSE
