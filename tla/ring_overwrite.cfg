\* A ring of four units: records of one and three units fill it exactly at an
\* offset where the next one needs padding.
CONSTANTS
  Size = 4
  Needs = {1, 3}
  Word = 1024
  EmitMax = 5
  Retain = 2
  PageMax = 2
  FaultMax = 0
SPECIFICATION Spec
INVARIANT NeverSilentGap
CHECK_DEADLOCK FALSE
