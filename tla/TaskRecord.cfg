SPECIFICATION Spec
CONSTANTS
  Attempts = {0, 1, 2}
  NoAttempt = NoAttempt
  Reasons = {user, policy}
  NoReason = NoReason
  Keys = {own, other}
  OwnKey = own
  MaxObservers = 1
INVARIANTS
  TypeOK
  NewestAttemptRules
  CancelClaimsBacked
  SettledWasTouched
PROPERTIES
  TerminalStaysTerminal
