SPECIFICATION FairSpec
CONSTANT MAX_ROUNDS = 3
INVARIANTS
  WardenIInv
PROPERTIES
  KeepsFilingPromise
  Progress
