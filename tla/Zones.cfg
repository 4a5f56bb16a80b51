SPECIFICATION Spec
CONSTANTS
  persist = persist
  treason = treason
  treason2 = treason2
  aura = aura
  sorcery = sorcery
  token = token
  Cards = {persist, aura, treason2}
  Tokens = {token}
  Owner <- OwnerOf
  Has <- HasThese
  Starts <- StartSet
  MaxActs = 3
INVARIANTS CardsInPlace PastIsKept TokensCease SweepInBounds
CHECK_DEADLOCK FALSE
