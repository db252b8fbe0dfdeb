\* Two one-entry programs that may share the only site, two safe values.
CONSTANTS
  ProgramMax = 2
  EntryMax = 1
  SiteMax = 1
  Addresses = {a, b}
  LegacySlots = {}
  Threads = {t1}
  Ceilings = {2}
  SafeValues = {0, 7}
  MaxInstances = 2
  NoAddress = NoAddress
  NoSite = NoSite
SYMMETRY Symmetry
SPECIFICATION Spec
INVARIANTS RunsOwnFunction VerdictJustified VMsBelongToInstance TextMatchesLinks
PROPERTY AtomicCalls
\* With every instance used and revoked nothing is left to ask for.
CHECK_DEADLOCK FALSE
