SPECIFICATION Spec
CONSTANTS
  cheap = cheap
  dear = dear
  Cards = {cheap, dear}
  Price <- PriceOf
  BoosterPrice = 2
  Tasks = {1}
  Reward = 1
  Default = 2
  FirstDeck <- FirstCards
  MaxYes = 2
  MaxActs = 5
INVARIANTS ShopKeepsBooks KilledSafely EditorKeepsBooks
CHECK_DEADLOCK FALSE
