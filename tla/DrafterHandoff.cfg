SPECIFICATION Spec
CONSTANTS
  AttemptLimits = {1, 3}
  MaxFaults = 3
  DrainLoops = 3
INVARIANTS
  PacketShowsWhatLanded
PROPERTIES
  KeepsHandoffPromise
