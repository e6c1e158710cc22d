\* Every pipeline of up to three steps, and sessions of four definitions with one change.
CONSTANTS
  RoleTokens = {"n4m:known", "n4m:unknown"}
  Resolvable = {"n4m:known"}
  I32Max = 15
  SplitterClass = "KennardStone"
  SnvClass = "SNV"
  SavgolClass = "SavitzkyGolay"
  PlsClass = "PLSRegression"
  MaxVariants = 4
  Texts <- MCTexts
  Used <- MCUsed
  MaxSteps = 3
  Width = 2
  Libraries = {libA, libB}
  NaN = NaN
  Sizes = {1, 3}
  PerByte = 4
  MaxModel = 3
  MaxExport = 8
  MaxChanges = 1
  MaxReplies = 4
  None = None
  libA = libA
  libB = libB
SPECIFICATION Spec
INVARIANTS TypeOK PlanFaithful PreprocessedOnce SessionSound SavedReloads BestSelected HandlesSound PinnedRuntime
PROPERTY OperationsEnd
CHECK_DEADLOCK FALSE
