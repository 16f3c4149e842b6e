\* Every fault, every directory.
SPECIFICATION Spec
CONSTANTS
  i1 = i1
  i2 = i2
  s1 = s1
  main = main
  second = second
  adminMail = adminMail
  list = list
  stranger = stranger
  NULL = NULL
  Injector <- MCInjector
  Script <- MCScript
  Address <- MCAddress
  Looping <- MCOurs
  Ours <- MCOurs
  Directories <- MCDirectories
  MaxMessages = 3
  Faults = {"select", "message", "protocol", "queue", "delete", "answer", "kill"}
SYMMETRY Symmetry
INVARIANTS TypeOK QueuedIsComplete PrivateIsPrivate ResultIsTrue ArrivedIsQueued
