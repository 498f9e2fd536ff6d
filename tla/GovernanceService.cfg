SPECIFICATION FairSpec
CONSTANTS
  BRANCHES <- MCBranches
  Modes = {"normal", "inject_contradiction"}
  PostModes = {"inject_contradiction", "bad"}
  Posts = {p1, p2}
  Attestor = attestor
  Names <- MCNames
  Captures <- MCCaptures
  Intake <- MCIntake
  EntityMap <- MCEntities
  MAX_FAULTS = 1
PROPERTIES
  ReadsAreSound
  VerifiesIffUnchanged
  FleetAddsUp
  PostsAreAnswered
CHECK_DEADLOCK FALSE
