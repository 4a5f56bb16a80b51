SPECIFICATION SafetySpec
CONSTANTS
  NoThread = NoThread
  NoItem = NoItem
  Pictures = {p1, p2, p3}
  Boards = {b}
  Missing = {p2}
  Bad = {p3}
  MaxQueue = 1
  MaxCached = 1
  CounterLimit = 4
  MaxLocks = 2
CHECK_DEADLOCK FALSE
INVARIANTS CacheSound RequestsAgree
PROPERTIES ServesPictures
