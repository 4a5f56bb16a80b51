SPECIFICATION Spec
CONSTANTS
  a1 = a1  a2 = a2  b1 = b1  b2 = b2
  NoCard = NoCard
  Creature = {a1, b1}
  Owner <- OwnerOf
  Strike <- StrikeOf
  Trample = {a1}
  AI = {1}
  StartPhase = 4
  MaxMod = 1
INVARIANTS TypeOK
PROPERTIES TurnsInOrder
