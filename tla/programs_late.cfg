\* A legacy ARM beside an operation the loader stopped waiting for.
CONSTANTS
  ProgramMax = 1
  EntryMax = 1
  SiteMax = 2
  Addresses = {a, b}
  LegacySlots = {0}
  Threads = {}
  Ceilings = {2}
  SafeValues = {0}
  MaxInstances = 1
  NoAddress = NoAddress
  NoSite = NoSite
SPECIFICATION Spec
INVARIANT PatchRefusesOwned
\* With every instance used and revoked nothing is left to ask for.
CHECK_DEADLOCK FALSE
