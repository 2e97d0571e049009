SPECIFICATION Spec
CONSTANTS
  Workers = {w1, w2}
  Addresses = {a, b}
  Tokens = {t}
  Global = g
  Headless = {b}
  One = 10
  Late = 2
  Bad = 5
  Default <- MCDefault
  Lowered <- MCLowered
  Shared <- MCShared
  Agreed <- MCAgreed
  MaxClock = 2
  MaxRequests = 3
  NoRow = NoRow
SYMMETRY MCSymmetry
CHECK_DEADLOCK FALSE
INVARIANTS
  TypeOK WindowBound PassBound HonestWait
PROPERTIES
  ChargeKept
