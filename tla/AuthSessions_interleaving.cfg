SPECIFICATION Spec
CONSTANTS
  u1 = u1
  u2 = u2
  r1 = r1
  r2 = r2
  r3 = r3
  r4 = r4
  None = None
  Users = {u1, u2}
  Requests = {r1, r2, r3, r4}
  AccessTtl = 1
  RefreshTtl = 1
  MaxTime = 0
SYMMETRY Symmetry
INVARIANTS
  RevokedStaysRevoked
  RevocationIsScoped
  ReuseRevokesDoomed
  OnlyReuseEndsSessions
\* Every request may be answered and the clock at its bound.
CHECK_DEADLOCK FALSE
