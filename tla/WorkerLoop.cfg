SPECIFICATION FairSpec
CONSTANTS
  AttemptLimits = {1, 3}
  MaxFaults = 3
  IdleBreaks = 4
  MaxCrashes = 2
INVARIANTS
  ExtraCopiesCostFaults
PROPERTIES
  KeepsHandoffPromise
  MentionIsClosed
