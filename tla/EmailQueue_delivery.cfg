SPECIFICATION FairSpec
CONSTANTS
  bad = bad
  m1 = m1
  d1 = d1
  d2 = d2
  Messages = {bad, m1}
  Poison = {bad}
  Deliveries = {d1, d2}
  BatchSize = 2
  BatchWindow = 1
  LambdaTimeout = 1
  VisibilityTimeout = 3
  MaxReceiveCount = 3
  FunctionResponseTypes = {"ReportBatchItemFailures"}
INVARIANTS
  IInv
  NoOverlap
  NoLoss
  DuplicateOnlyAfterKill
PROPERTIES
  ImplementsDelivery
  EveryMessageSettles
\* Every message may be consumed or in the DLQ.
CHECK_DEADLOCK FALSE
