SPECIFICATION Spec
CONSTANTS
  Calls = {c1}
  Tokened = {c1}
INVARIANT NeverUnwinds
CHECK_DEADLOCK FALSE
