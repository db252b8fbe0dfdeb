\* Two programs, two slots, prepares that may be late.
CONSTANTS
  p = p
  q = q
  SlotMax = 2
  Programs = {p, q}
  Ceiling <- MCCeiling
  Target <- MCTarget
  RequestMax = 3
  NoProgram = NoProgram
  NoTarget = NoTarget
SPECIFICATION FairSpec
INVARIANTS TypeOK OwnAnswer OneConfigWriter PayloadSound SlotsAuthorised
PROPERTY LoaderReturns
\* Connections are bounded.
CHECK_DEADLOCK FALSE
