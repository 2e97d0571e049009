SPECIFICATION FairSpec
CONSTANTS
  w1 = w1
  w2 = w2
  Workers = {w1, w2}
  Asks <- MCAll
  Derived = {}
  MaxContent = 1
  Hashless = {}
  MaxVersion = 0
  Runs = {1}
  Archived <- MCEpub
  Renames = {}
  Evicting = TRUE
  Crashing = FALSE
  None = None
  Failed = Failed
PROPERTIES
  ApiAnswered
  LinkAnswered
