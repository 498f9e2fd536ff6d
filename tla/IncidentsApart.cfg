SPECIFICATION IncidentsSpec
CONSTANTS
  Incidents <- TwoIncidents
  BranchOrder <- SomeBranches
  Kills <- SomeKills
PROPERTIES
  IncidentsAreApart
