SPECIFICATION Spec
CONSTANTS
  Calls = {c1, c2}
  Signatures <- All
  Width = 3
  MaxHandles = 2
SYMMETRY CallSymmetry
INVARIANT AllOthersAdopted
CHECK_DEADLOCK FALSE
