SPECIFICATION Spec
CONSTANTS
  ApiIds <- MCApiIds
  None = None
  DotEnvs <- MCDotEnvs
  MaxFaults = 3
INVARIANTS
  IInv
  CompleteIsDeployed
  EveryFunctionStarts
  CleanRunConverges
PROPERTIES
  CleanRunCompletes
  WebEnvIsServed
  Redeployed
