CONSTANTS
  HEADER_MAX = 2
  MaxMessages = 2
  MaxHeaders = 2
  MaxCuts = 1
SPECIFICATION Spec
INVARIANTS
    SlotsInBounds
    MessagesExact
    OutOrTold
PROPERTIES
    Closes
CHECK_DEADLOCK FALSE
