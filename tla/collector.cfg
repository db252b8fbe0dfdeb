\* A ring of four units, records of one and three, two faults.
CONSTANTS
  Size = 4
  Needs = {1, 3}
  Word = 1024
  EmitMax = 2
  Retain = 2
  PageMax = 2
  FaultMax = 2
SPECIFICATION FairSpec
INVARIANTS TypeOK JournalExact ConsumedIsJournalled ReplayHonest
PROPERTY EverythingJournalled
CHECK_DEADLOCK FALSE
