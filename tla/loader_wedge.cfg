\* What is said of a refused submit.
CONSTANTS
  p = p
  q = q
  SlotMax = 2
  Programs = {p, q}
  Ceiling <- MCCeiling
  Target <- MCTarget
  RequestMax = 2
  NoProgram = NoProgram
  NoTarget = NoTarget
SPECIFICATION Spec
INVARIANT RefusedOnlyIfIncomplete
CHECK_DEADLOCK FALSE
