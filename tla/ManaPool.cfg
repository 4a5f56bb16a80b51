SPECIFICATION Spec
CONSTANTS
  NbColors = 3
  Half = 8
  Costs <- CostSet
  Abilities <- AbilitySet
  Outputs <- OutputSet
  MaxPool = 5
  MaxActs = 7
CHECK_DEADLOCK FALSE
INVARIANTS PoolSound AffordIsRight IconsShowPool SunburstKeepsTotal SpellIsPaid KickedIsPaid
