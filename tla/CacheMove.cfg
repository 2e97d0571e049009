SPECIFICATION Spec
CONSTANTS
  Requests = {r1, r2}
  Script = script
  Nobody = Nobody
  MaxRequests = 5
  MaxFaults = 3
CHECK_DEADLOCK FALSE
INVARIANTS
  TypeOK ScriptKeeps UnwrittenIsWhole
PROPERTIES
  ScriptAdvances
