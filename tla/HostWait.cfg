SPECIFICATION FairSpec
CONSTANTS
  stager = stager
  reader = reader
  Threads = {stager, reader}
  Limit = 1
  MaxTime = 2
  MaxRows = 2
INVARIANTS
  StampsSound
PROPERTIES
  ReportsSound
  HangReported
