\* Two callers of any kind and rivals at one path, on either platform.
CONSTANTS
  r1 = r1  r2 = r2
  Runs = {r1, r2}
  Platforms = {"posix", "windows"}
  Members <- MCMembers
  Names <- MCNames
  Faults = {"stage", "reserve", "rename", "move", "link", "reopen", "discard"}
  RivalInWindow = FALSE
  MaxRivalActs = 3
  MaxCrashes = 1
  Rival = Rival
  NoFile = NoFile
SPECIFICATION Spec
INVARIANT FailureLeavesNothing
PROPERTIES PromiseKept OwnersOnly
CHECK_DEADLOCK FALSE
