\* Two commands and rivals that leave the windows of a command alone.
CONSTANTS
  r1 = r1  r2 = r2  a = a  b = b  c = c
  Runs = {r1, r2}
  Paths = {a, b, c}
  Requests <- MCRequests
  HasIdentity = TRUE
  Faults = {"train", "link", "reserve", "rename", "emit", "write"}
  RivalInWindow = FALSE
  MaxRivalActs = 3
  MaxCrashes = 1
  Rival = Rival
  NoPath = NoPath
  NoFile = NoFile
SPECIFICATION Spec
INVARIANTS ResponseTruthful ExportAnnounced ResultsNeedArchive FailureLeavesNothing
PROPERTY OwnersOnly
CHECK_DEADLOCK FALSE
