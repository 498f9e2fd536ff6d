SPECIFICATION ConsoleSpec
CONSTANTS
  s1 = s1
  s2 = s2
  None = None
  Scenarios <- MCScenarios
  Beats <- MCBeats
  Default <- MCDefault
  Altered <- MCAltered
  Gates <- MCGates
  MaxLoads = 2
  MaxChecks = 1
  Hasty = FALSE
INVARIANTS
  PanelsAgree
  VerdictBindsOneRun
  CertificateIsEarned
CHECK_DEADLOCK FALSE
