\* Every staging mode of a grouped prefill, with and without the ring.
CONSTANTS
  Layers = 4
  Groups = 3
  Chunks = 2
  Builds <- SoundBuilds
SPECIFICATION Spec
CHECK_DEADLOCK FALSE
INVARIANTS
  GemmsReadTheirs
  BuffersSound
