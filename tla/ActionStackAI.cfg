SPECIFICATION Spec
CONSTANTS
  NoPlayer = NoPlayer
  AI = {1}
  AutoDecline = {"spell"}
  Seconds = 2
  MaxStack = 4
INVARIANTS StackSound HandsMatch
PROPERTIES BothWereAsked OfferEnds StackSettles
