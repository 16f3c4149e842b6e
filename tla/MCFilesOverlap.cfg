\* Scripts of one void overlap, as they do with two rulerunners; no fault.
SPECIFICATION Spec
CONSTANTS
  v1 = v1
  v2 = v2
  d1 = d1
  d2 = d2
  w1 = w1
  w2 = w2
  w3 = w3
  Void = {v1}
  Dir <- MCDir
  Namings <- MCNamings
  Worker = {w1, w2}
  VoidOf <- MCVoidOf
  Base = {f}
  Content = {c1, c2}
  REL = REL
  NONE = NONE
  MaxRows = 2
  CreatorReads = {"creator"}
  Faults = {}
PROPERTIES FilesStayReadable
