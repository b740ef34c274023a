SPECIFICATION Spec
CONSTANTS
  u1 = u1
  u2 = u2
  r1 = r1
  r2 = r2
  r3 = r3
  r4 = r4
  name = name
  price = price
  None = None
  Users = {u1, u2}
  Requests = {r1, r2, r3, r4}
  Fields = {name, price}
SYMMETRY Symmetry
INVARIANTS
  IInv
  NoResurrection
  NoLostPatch
PROPERTIES
  OnlyOwnerChanges
  ImplementsTable
\* Every call may be answered.
CHECK_DEADLOCK FALSE
