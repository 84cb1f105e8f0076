SPECIFICATION ScopeSpec
CONSTANTS
  Letters = {"u", "i"}
  Reserved <- MCReserved
  Namespaces <- MCNamespaces
  Values <- MCValues
  MaxSegments = 3
  MaxText = 3
INVARIANTS
  ScopeAnswers
  IdentifiersCanonical
