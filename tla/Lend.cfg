SPECIFICATION FairSpec
CONSTANTS
  Sizes <- MCSizes
  Weights = {1, 2}
  Ttls = {1, 3}
  Targets = {1, 4, 5, 20}
  MaxRequests = 4
INVARIANTS
  EngineMemoryReady
  GateSound
PROPERTIES
  NobodyOvertakes
  ParkedServed
