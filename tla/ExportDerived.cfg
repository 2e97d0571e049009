SPECIFICATION Spec
CONSTANTS
  w1 = w1
  w2 = w2
  Workers = {w1, w2}
  Asks <- MCLinks
  Derived = {"pdf"}
  MaxContent = 2
  Hashless = {1}
  MaxVersion = 0
  Runs = {1}
  Archived <- MCNothing
  Renames = {"tmp", "secondary"}
  Evicting = FALSE
  Crashing = FALSE
  None = None
  Failed = Failed
SYMMETRY Threads
INVARIANTS
  LogProvenance
