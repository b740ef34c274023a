SPECIFICATION Spec
CONSTANTS
  bad = bad
  m1 = m1
  d1 = d1
  Messages = {bad, m1}
  Poison = {bad}
  Deliveries = {d1}
  BatchSize = 2
  BatchWindow = 1
  LambdaTimeout = 1
  VisibilityTimeout = 3
  MaxReceiveCount = 3
  FunctionResponseTypes = {}
SYMMETRY Symmetry
INVARIANTS
  NoLoss
\* Every message may be consumed or in the DLQ.
CHECK_DEADLOCK FALSE
