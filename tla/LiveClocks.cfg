CONSTANTS
  Catalogs <- MCCatalogs
  Anchors <- MCAnchors
  Drafters <- MCDrafters
  Ticks <- MCTicks
  Duration = 24
  Compression = 10800
SPECIFICATION ClocksSpec
INVARIANT DeadlinesAreLawful
INVARIANT ToldOnceAndInTime
PROPERTY EscalationEnds
