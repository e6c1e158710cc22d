\* Every request with up to one change, of the request or of the file.
CONSTANTS
  c1 = c1
  c2 = c2
  c3 = c3
  c4 = c4
  Contents = {c1, c2, c3, c4}
  Size <- MCSize
  Paths <- MCPaths
  MaxMember = 10
  MaxTotal = 16
  MaxEntries = 10
  MaxManifest = 5
  MaxPath = 9
  NotSha = NotSha
  None = None
  LocalHeader = 2
  ManifestPath <- pManifest
  EndMark = 61
  Strings = {"a", "b"}
  Literals = {"1"}
  Malformed = {"nul"}
  MaxNesting = 2
  Requests <- MCRequests
  Variants <- MCVariants
  Texts <- MCTexts
  MaxChanges = 1
SPECIFICATION Spec
INVARIANTS RoundTripV3
CHECK_DEADLOCK FALSE
