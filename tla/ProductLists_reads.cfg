SPECIFICATION Spec
CONSTANTS
  Ids <- MCIds
  Rows <- MCRows
  Me = "me"
  Prices <- MCPrices
  MaxCents = 100
  WalkLimit = 1
  ListLimit = 2
  None = None
INVARIANTS
  IInv
  WalkIsExact
  PageShowsOwnWrites
  PricesAreKept
\* All products may be gone.
CHECK_DEADLOCK FALSE
