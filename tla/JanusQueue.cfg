SPECIFICATION FairSpec
CONSTANTS
  Procs <- MCProcs
  Keys = {mobi, pdf}
  CommandLines = {"janus", "other"}
  MaxPolls = 2
  MaxOtherWaiting = 2
  MaxClock = 1
CHECK_DEADLOCK FALSE
INVARIANTS
  TypeOK OneConversion NotAllGiveUp
PROPERTIES
  ImplementsLine WaitShrinks WaitEnds
