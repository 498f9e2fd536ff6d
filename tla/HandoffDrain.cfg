CONSTANTS
  Branches = {nis2, dora, sec}
  MaxFailures = 2
  MaxVisits = 6
SPECIFICATION FairSpec
INVARIANTS
  LandedOnce
  EveryBranchFiles
PROPERTIES
  KeepsHandoffPromise
  RunEnds
