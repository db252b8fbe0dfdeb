\* A program and a legacy hook on the same sites and functions: attach, detach and
\* revoke beside ARM and DISARM, with the fairness of running threads.
CONSTANTS
  ProgramMax = 1
  EntryMax = 1
  SiteMax = 2
  Addresses = {a, b}
  LegacySlots = {0}
  Threads = {t1}
  Ceilings = {2}
  SafeValues = {0}
  MaxInstances = 1
  NoAddress = NoAddress
  NoSite = NoSite
SPECIFICATION FairSpec
INVARIANT OneOwner
PROPERTY NobodyWaits
\* With every instance used and revoked nothing is left to ask for.
CHECK_DEADLOCK FALSE
