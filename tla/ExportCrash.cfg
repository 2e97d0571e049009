SPECIFICATION Spec
CONSTANTS
  w1 = w1
  w2 = w2
  Workers = {w1, w2}
  Asks <- MCAll
  Derived = {"html"}
  MaxContent = 1
  Hashless = {}
  MaxVersion = 0
  Runs = {1}
  Archived <- MCEpub
  Renames = {"tmp"}
  Evicting = FALSE
  Crashing = TRUE
  None = None
  Failed = Failed
SYMMETRY Threads
INVARIANTS
  LoggedOnDisk
  LinkHonoured
  TornIsTransient
  ArchiveSafe
PROPERTIES
  EachStepCounts
