SPECIFICATION Spec
CONSTANTS
  Limit = 64
  Default = 5
  p = p
  q = q
  Pairs <- MCPairs
  Settings <- MCSettings
INVARIANTS
  CachedQuoteIsServed
  DelayIsExponential
PROPERTIES
  CalculationEnds
