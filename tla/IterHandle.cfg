SPECIFICATION FairSpec
CONSTANTS
  Calls = {c1,c2,c3}
  NoCall = NoCall
  Items = 3
INVARIANTS
  TypeOK
  AdvancedByOne
  BusyOnlyWhileAdvancing
  InOrder
  NoItemLost
PROPERTY NextReturns
CHECK_DEADLOCK FALSE
