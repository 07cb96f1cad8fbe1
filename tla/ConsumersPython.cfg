SPECIFICATION Spec
CONSTANTS
  Calls = {c1, c2}
  Closers = {k1, k2}
  Collector = gc
  Workers = {t1, t2, t3}
  Owner = t1
  MaxCalls = 3
  Codes = {e1, e2}
  MaxLost = 1
INVARIANT NothingOutlivesCall
\* Wrappers are closed, calls return and implementations are released.
CHECK_DEADLOCK FALSE
