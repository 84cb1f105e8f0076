SPECIFICATION Spec
CONSTANTS
  Callers = {c1, c2, c3}
  Views = {v1, v2, v3}
  Reasons = {user, policy, shutdown}
  NoReason = NoReason
INVARIANTS
  OneWinner
  ViewsAgree
PROPERTIES
  ImplementsFirstReason
  ReasonArrives
