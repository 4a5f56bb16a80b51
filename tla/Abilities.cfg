SPECIFICATION Spec
CONSTANTS
  bird = bird
  bear = bear
  flock = flock
  banner = banner
  Creatures = {bird, bear}
  Lords = {flock, banner}
  Gives <- GivesOf
  OnlyFlyers <- FlyersFor
  Bonus = 0
  MaxActs = 6
  MaxTurns = 2
INVARIANTS LayerSound
PROPERTIES InstantsEnd Settles
CHECK_DEADLOCK FALSE
