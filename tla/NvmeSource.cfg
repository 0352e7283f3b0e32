SPECIFICATION FairSpec
CHECK_DEADLOCK FALSE
CONSTANTS
  Threads = 2
  Fetches = 2
  MaxRecs = 2
  Pieces = 2
  Kinds = {"fifo", "demand_first", "pool"}
  Lanes = {1, 2}
  Faults = 1
INVARIANTS
  FlagAfterBytes
  TicketsSound
PROPERTIES
  TicketsDone
