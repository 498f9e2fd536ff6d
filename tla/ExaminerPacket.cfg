SPECIFICATION PacketSpec
CONSTANTS
  Scenarios <- CliScenarios
  ModelSlips <- OneSlip
INVARIANTS
  TimelineReplays
  AccountsAgree
  ExportIsOfTheFilings
  ScreensFlagOnlySlips
  PageTellsTheRun
