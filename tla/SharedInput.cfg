CONSTANTS
  Clients = {c1, c2}
  Layout <- TwoKeys
  Foreign = {99}
  MayShift = FALSE
  Buttons = {7}
  MaxQueue = 2
  Eof = Eof
SPECIFICATION FairSpec
INVARIANTS TypeOK KeysExplained
PROPERTY NobodyHolds
