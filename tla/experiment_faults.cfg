\* Seven experiments, with two faults or interferences in each behaviour.
SPECIFICATION Spec
CONSTANTS
  Campaigns <- MCSome
  EventMax = 2
INVARIANTS
  PassedIsClean
  NothingLeftBehind
  RemovedIsKept
  VerifiedIsCurrent
CHECK_DEADLOCK FALSE
