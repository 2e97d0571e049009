SPECIFICATION Spec
CONSTANTS
  w1 = w1
  w2 = w2
  Workers = {w1, w2}
  Asks <- MCAll
  Derived = {}
  MaxContent = 2
  Hashless = {1}
  MaxVersion = 1
  Runs = {1}
  Archived <- MCNothing
  Renames = {"tmp", "secondary"}
  Evicting = FALSE
  Crashing = FALSE
  None = None
  Failed = Failed
SYMMETRY Threads
INVARIANTS
  TypeOK
  FreshAnswer
  FreshVersion
PROPERTIES
  ImplementsService
