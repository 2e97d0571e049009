SPECIFICATION Spec
CONSTANTS
  Workers = {w1}
  Queries = {q1, q2}
  Reasons = {asked}
  Known = {asked}
  MaxRequests = 2
  MaxMarks = 1
CHECK_DEADLOCK FALSE
INVARIANTS
  EchoesQuery
