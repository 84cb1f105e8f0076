SPECIFICATION Spec
CONSTANTS
  w1 = w1
  w2 = w2
  h1 = h1
  h2 = h2
  t1 = t1
  t2 = t2
  Work = {w1, w2}
  Handles = {h1, h2}
  Tokens = {t1, t2}
  Assignments <- TwoRequests
  Leaky = {w2}
  NoWork = NoWork
  MaxJobEvents = 1
  MaxCancels = 1
INVARIANTS
  CountsAdd
  AnswerMatchesSink
  EntryMatchesAnswer
PROPERTIES
  ImplementsContract
CHECK_DEADLOCK FALSE
