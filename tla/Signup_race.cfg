SPECIFICATION FairSpec
CONSTANTS
  r1 = r1
  r2 = r2
  r3 = r3
  None = None
  Requests = {r1, r2, r3}
  Spellings = {"A@b.com", "a@b.com", "c@d.com"}
  Emails = {"a@b.com", "c@d.com"}
  Normalized <- MCNormalized
  MaxAttempts = 2
INVARIANTS
  IInv
  OneAccountPerEmail
PROPERTIES
  ImplementsAccounts
  SomebodyWins
\* Every call may be answered.
CHECK_DEADLOCK FALSE
