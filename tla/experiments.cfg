\* Every experiment, with one fault or interference in each behaviour.
SPECIFICATION FairSpec
CONSTANTS
  Campaigns <- MCCampaigns
  EventMax = 1
INVARIANTS
  SignedIsVerified
  PassedIsComplete
  VerifiedIsComplete
PROPERTIES
  ReceiptsGuard
  EveryRunEnds
CHECK_DEADLOCK FALSE
