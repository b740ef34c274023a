SPECIFICATION Spec
CONSTANTS
  u1 = u1
  r1 = r1
  r2 = r2
  r3 = r3
  None = None
  Users = {u1}
  Requests = {r1, r2, r3}
  AccessTtl = 1
  RefreshTtl = 2
  MaxTime = 3
SYMMETRY Symmetry
INVARIANTS
  IInv
  DeliveredLiveUntilRevoked
  ReuseVerdictJustified
\* Every request may be answered and the clock at its bound.
CHECK_DEADLOCK FALSE
