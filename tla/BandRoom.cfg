SPECIFICATION FairRoomSpec
CONSTANTS
  Scenarios <- CliScenarios
  Lags <- SomeLags
INVARIANTS
  FilingsOfARoundAgree
  FiledIsWhatWasDrafted
  SealedRunIsComplete
  LastThingsLast
  TurnsAreServed
  RoomKnowsEveryFiling
  RecoveryIsTold
PROPERTIES
  KeepsFilingPromise
  RunEnds
