SPECIFICATION Spec
CONSTANTS
  Workers = {w1, w2}
  Queries = {q1}
  Reasons = {asked, stolen, other}
  Known = {asked, stolen}
  MaxRequests = 3
  MaxMarks = 2
SYMMETRY MCSymmetry
CHECK_DEADLOCK FALSE
INVARIANTS
  TypeOK ListedNotServed NotIndexedAnew BulkLeavesOut
