SPECIFICATION Spec
CONSTANTS
  t1 = t1
  u1 = u1
  c1 = c1
  c2 = c2
  None = None
  Tabs = {t1}
  Users = {u1}
  Calls = {c1, c2}
  MaxPairs = 2
INVARIANTS
  SignedOutStaysOut
\* The browser may be left alone.
CHECK_DEADLOCK FALSE
