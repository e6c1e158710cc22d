\* A replay in a process whose host has selected another library.
CONSTANTS
  t1 = t1  t2 = t2  a = a  b = b  old = old  new = new  bad = bad
  Threads = {t1}
  Sources = {a, b}
  Libs = {old, new, bad}
  Requests <- ReplayOnly
  Executable = {old, new}
  WithRoles = {new}
  AbiMinor <- MCAbiMinor
  HostLibs = {new}
  MaxCalls = 1
  MaxChanges = 1
  Snapshot = Snapshot
  None = None
SPECIFICATION Spec
INVARIANT AbiHonoured
CHECK_DEADLOCK FALSE
