\* Archive V2 and V3: three processes, each of which counts from zero.
CONSTANTS
  p1 = p1  p2 = p2  p3 = p3
  w1 = w1  w2 = w2  w3 = w3
  Store = "V2"
  Procs = {p1, p2, p3}
  Writers = {w1, w2, w3}
  ProcOf <- ThreeProcs
  MaxCalls = 1
  MaxTries = 2
  MaxSeq = 2
  MaxCrashes = 0
  AnyProc = AnyProc
  NoFile = NoFile
SPECIFICATION Spec
INVARIANT TargetComplete
CHECK_DEADLOCK FALSE
