SPECIFICATION Spec
CONSTANTS
  a1 = a1  a2 = a2  b1 = b1  b2 = b2
  NoCard = NoCard
  Creature = {a1, a2, b1, b2}
  Owner <- OwnerOf
  Strike <- StrikeOf
  Trample = {a2}
  AI = {1}
  StartPhase = 4
  MaxMod = 0
INVARIANTS StepFitsPhase FullCombat ViewsAgree ListsAgree DamageIsCurrent
PROPERTIES ScreenSafe BlockedStays EngineReturns
