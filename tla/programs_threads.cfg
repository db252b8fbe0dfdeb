\* One program with two entries, two sites and two data-path threads.
CONSTANTS
  ProgramMax = 1
  EntryMax = 2
  SiteMax = 2
  Addresses = {a, b}
  LegacySlots = {}
  Threads = {t1, t2}
  Ceilings = {2}
  SafeValues = {0}
  MaxInstances = 1
  NoAddress = NoAddress
  NoSite = NoSite
SYMMETRY Symmetry
SPECIFICATION Spec
INVARIANTS TypeOK GateExclusion ReadersExact NoUseAfterReclaim
\* With every instance used and revoked nothing is left to ask for.
CHECK_DEADLOCK FALSE
