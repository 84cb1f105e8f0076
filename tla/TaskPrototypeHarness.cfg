SPECIFICATION Spec
CONSTANTS
  Attempts = {1, 2}
  NoAttempt = NoAttempt
  Reasons = {user}
  NoReason = NoReason
  OwnKey = own
  Outputs = {out}
  Observers = {o1, o2}
  CoalescingKeys = {rows}
  Capacity = 2
  MaxPushes = 4
  MaxEpisodes = 1
  MaxStale = 1
INVARIANTS
  CountFollows
  CompletionAnnounced
PROPERTIES
  LatestWins
CHECK_DEADLOCK FALSE
