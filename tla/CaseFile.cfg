SPECIFICATION CaseSpec
CONSTANTS
  BRANCHES <- MCBranches
  Modes = {"normal", "inject_contradiction", "chaos", "amendment", "submit"}
  MAX_REVISIONS = 2
  MAX_CRASHES = 2
INVARIANTS
  ReceiptsAreExact
  AcceptedBundleIsOneSeal
PROPERTIES
  ResealHeals
CHECK_DEADLOCK FALSE
