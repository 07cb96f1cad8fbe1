SPECIFICATION FairSpec
CONSTANTS
  Calls = {c1}
  Tokened = {c1}
INVARIANTS
  TypeOK
  AtMostOnce
  NoLostCompletion
  CancelledForAReason
PROPERTIES Promise CancelCompletes EveryLaunchCompletes
CHECK_DEADLOCK FALSE
