CONSTANTS
  v1 = v1
  v2 = v2
  n0 = n0
  n1 = n1
  Var <- MCVar
  Number <- MCNumber
  Slot <- MCSlot
  Item <- MCItem
  NOTHING = NOTHING
  MaxBlocks = 4
  MaxStray = 1
  NumThreads = 2
  Careful = FALSE
SPECIFICATION ValuesSpec
PROPERTY ChangesOne
