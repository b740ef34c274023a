SPECIFICATION Spec
CONSTANTS
  t1 = t1
  t2 = t2
  u1 = u1
  u2 = u2
  c1 = c1
  c2 = c2
  None = None
  Tabs = {t1, t2}
  Users = {u1, u2}
  Calls = {c1, c2}
  MaxPairs = 2
SYMMETRY Symmetry
INVARIANTS
  IInv
  UsedPairIsReplaced
  TokensAreShown
PROPERTIES
  SentOnce
  ImplementsSession
\* All pairs may be issued and the browser left alone.
CHECK_DEADLOCK FALSE
