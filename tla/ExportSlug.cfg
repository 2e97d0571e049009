SPECIFICATION Spec
CONSTANTS
  w1 = w1
  Workers = {w1}
  Asks <- MCAll
  Derived = {}
  MaxContent = 2
  Hashless = {}
  MaxVersion = 0
  Runs = {1}
  Archived <- MCEpub
  Renames = {"tmp", "secondary"}
  Evicting = FALSE
  Crashing = FALSE
  None = None
  Failed = Failed
INVARIANTS
  SlugServedDirectly
