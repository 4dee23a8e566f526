SPECIFICATION Spec
CONSTANTS
  h1 = h1
  h2 = h2
  Handles = {h1, h2}
  MayFail = FALSE
  MayLose = FALSE
  UsesWds = TRUE
  MayBadApn = FALSE
  MaxSsr = 0
  MaxQueue = 4
SYMMETRY HandleSymmetry
INVARIANTS
  HeldIsOpen
