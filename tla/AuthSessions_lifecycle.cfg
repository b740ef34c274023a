SPECIFICATION FairSpec
CONSTANTS
  u1 = u1
  r1 = r1
  r2 = r2
  r3 = r3
  None = None
  Users = {u1}
  Requests = {r1, r2, r3}
  AccessTtl = 1
  RefreshTtl = 1
  MaxTime = 1
PROPERTIES
  ImplementsLifecycle
  EveryRequestAnswered
\* Every request may be answered and the clock at its bound.
CHECK_DEADLOCK FALSE
