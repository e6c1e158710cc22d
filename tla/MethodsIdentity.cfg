\* Two threads and a library file that is replaced or lost while they call.
CONSTANTS
  t1 = t1  t2 = t2  a = a  b = b  old = old  new = new  bad = bad
  Threads = {t1, t2}
  Sources = {a, b}
  Libs = {old, new, bad}
  Requests <- MCRequests
  Executable = {old, new}
  WithRoles = {new}
  AbiMinor <- MCAbiMinor
  HostLibs = {}
  MaxCalls = 1
  MaxChanges = 1
  Snapshot = Snapshot
  None = None
SPECIFICATION FairSpec
INVARIANTS SingleLibrary ServedFromPath AbiHonoured
PROPERTY Returns
CHECK_DEADLOCK FALSE
