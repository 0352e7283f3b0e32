SPECIFICATION Spec
CONSTANTS
  Experts = {e1, e2, e3, e4}
  HotN = 2
  Spares = 2
  Defer = TRUE
  Modes = {TRUE, FALSE}
  None = None
SYMMETRY ExpertSymmetry
INVARIANTS
  BooksSound
  TableExact
  DrainSettles
PROPERTIES
  SwapsReturn
