\* One slot, two programs, a client whose status may be out of date, a restart, and
\* a thread whose lookups run beside a writer that may stop anywhere.
CONSTANTS
  Slots = {0}
  Programs = {p, q}
  Clients = {c1}
  Threads = {t1}
  RowMax = 1
  SequenceLimit = 7
  InstanceLimit = 2
  RevisionLimit = 2
  SessionLimit = 2
  NoProgram = NoProgram
SPECIFICATION FairSpec
INVARIANTS TypeOK RowsMeantForProgram OneSnapshotPerCall
PROPERTIES WholeAndCurrent RevisionsGrow LookupEnds
CHECK_DEADLOCK FALSE
