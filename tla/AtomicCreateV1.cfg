\* Archive V1: two processes, one of them with two threads.
CONSTANTS
  p1 = p1  p2 = p2  p3 = p3
  w1 = w1  w2 = w2  w3 = w3
  Store = "V1"
  Procs = {p1, p2}
  Writers = {w1, w2, w3}
  ProcOf <- TwoProcs
  MaxCalls = 1
  MaxTries = 2
  MaxSeq = 4
  MaxCrashes = 1
  AnyProc = AnyProc
  NoFile = NoFile
SPECIFICATION Spec
SYMMETRY Interchangeable
INVARIANTS TargetComplete OkIsDurable
PROPERTIES TempsRemovedByOwner PromiseKept
CHECK_DEADLOCK FALSE
