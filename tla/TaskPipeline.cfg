SPECIFICATION Spec
CONSTANTS
  Attempts = {1, 2}
  NoAttempt = NoAttempt
  Reasons = {user}
  NoReason = NoReason
  Capacity = 2
  MaxPushes = 3
INVARIANTS
  RecordAgrees
  TerminalAccounted
PROPERTIES
  RefusedOnlyWhenStale
  TerminalArrives
CHECK_DEADLOCK FALSE
