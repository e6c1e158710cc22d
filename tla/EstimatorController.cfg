\* A host with several calls of any kind under way on one controller.
CONSTANTS
  f1 = f1  f2 = f2
  MaxCalls = 4
  Ops <- MCOps
  Folds = {f1, f2}
  Variants = {base, v}
  Base = base
  MaxSets = 2
  MaxErrors = 1
  Whole = Whole
  Given = Given
  None = None
SPECIFICATION Spec
SYMMETRY Interchangeable
INVARIANTS KeyedByIdentity FittedForIt LatestServes
CHECK_DEADLOCK FALSE
