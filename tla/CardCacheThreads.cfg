SPECIFICATION Spec
CONSTANTS
  NoThread = NoThread
  NoItem = NoItem
  Pictures = {p1, p2}
  Boards = {b}
  Missing = {p2}
  Bad = {}
  MaxQueue = 1
  MaxCached = 1
  CounterLimit = 4
  MaxLocks = 1
CHECK_DEADLOCK FALSE
PROPERTIES RequestsEnd MainReturns
