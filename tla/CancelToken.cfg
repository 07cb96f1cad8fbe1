SPECIFICATION FairSpec
CONSTANTS
  t1 = t1
  f1 = f1
  f2 = f2
  NoTask = NoTask
  Tokens = {t1}
  Tasks = {f1, f2}
  Cancellers = {k1, k2}
  TokenOf <- SharedToken
INVARIANTS
  TypeOK
  NoLostCancel
  RegistrationsInFlight
  CountsHolders
PROPERTY CancelEndsCalls
CHECK_DEADLOCK FALSE
