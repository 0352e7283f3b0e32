SPECIFICATION Spec
CONSTANTS
  Layers = 2
  Experts = 2
  VSlots = 2
  RSlots = 2
  Picks = 2
  Policies = {"clock", "unified"}
  Chunks <- LastSlot
INVARIANTS
  TypeOK
  Consistent
  MovesServable
  BytesFollow
  LateReadsKeepSlot
