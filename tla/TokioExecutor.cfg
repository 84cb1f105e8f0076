SPECIFICATION Spec
CONSTANTS
  w1 = w1
  w2 = w2
  w3 = w3
  h1 = h1
  h2 = h2
  t1 = t1
  t2 = t2
  Work = {w1, w2}
  Handles = {h1, h2}
  Tokens = {t1, t2}
  Assignments <- DistinctHandles
  Leaky = {w2}
  NoWork = NoWork
  MaxJobEvents = 1
INVARIANTS
  ChannelExact
  TerminalOnce
  TruthfulVerdict
  RemainsActive
PROPERTIES
  ImplementsContract
  JobsSettle
  DrainReturns
CHECK_DEADLOCK FALSE
