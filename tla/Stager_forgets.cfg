SPECIFICATION Spec
CHECK_DEADLOCK FALSE
CONSTANTS
  Layers = 1
  Experts = 3
  VSlots = 1
  RSlots = 2
  Picks = 2
  Rings = {1, 2}
  MaxCalls = 2
  Seeds = {2}
  Faults = 0
INVARIANTS
  WritesAlone
