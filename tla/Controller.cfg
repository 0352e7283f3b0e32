SPECIFICATION FairSpec
CHECK_DEADLOCK FALSE
CONSTANTS
  Modes <- CheckedModes
  Layers = 2
  RingSize = 2
  Ahead = 1
  QueueCap = 2
  MaxCalls = 2
  MaxFaults = 1
INVARIANTS
  RowsSound
  AnswersExact
  NeverStarved
PROPERTIES
  CallsReturn
