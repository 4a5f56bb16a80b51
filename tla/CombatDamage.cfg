SPECIFICATION Spec
CONSTANTS
  att = att  b1 = b1  b2 = b2  b3 = b3
  Attacker = att
  Blockers = {b1, b2, b3}
  Casts <- CastSet
  Amounts = {1}
  Batches <- BatchSet
  MaxActs = 3
CHECK_DEADLOCK FALSE
INVARIANTS AssignmentLegal CreaturesSound CountersSound AtTheSameTime
