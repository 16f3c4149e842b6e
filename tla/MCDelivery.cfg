\* Every fault; the buffer is smaller than the pipe, as 10000 is than 65536.
SPECIFICATION FairSpec
CONSTANTS
  Capacity = 4
  Buffer = 3
  Lengths = {1, 3, 5}
  Faults = {"pipe", "fork", "dup", "exec", "write", "wait", "sendmail", "kill"}
INVARIANTS TypeOK AllOrNothing WriteHasReader ReportsAreTrue
PROPERTIES WorkerEnds SendmailEnds
