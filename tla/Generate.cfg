SPECIFICATION Spec
CONSTANTS
  t1 = t1
  t2 = t2
  p1 = p1
  p2 = p2
  q = q
  a1 = a1
  a2 = a2
  x = "x"
  y = "y"
  NoApi = NoApi
  NoTarget = NoTarget
  Targets = {t1, t2}
  Paths = {p1, p2}
  TargetOf <- Owner
  Fold <- CaseSensitive
  Apis = {a1, a2}
  Renders <- Renaming
  Texts = {"x", "y"}
  Text <- Versions
INVARIANTS
  UpToDate
  NoStaleFile
PROPERTY OwnFilesOnly
CHECK_DEADLOCK FALSE
