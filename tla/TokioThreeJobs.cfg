SPECIFICATION Spec
CONSTANTS
  w1 = w1
  w2 = w2
  w3 = w3
  h1 = h1
  h2 = h2
  t1 = t1
  t2 = t2
  Work = {w1, w2, w3}
  Handles = {h1, h2}
  Tokens = {t1}
  Assignments <- ThreeJobs
  Leaky = {}
  NoWork = NoWork
  MaxJobEvents = 0
INVARIANTS
  CountsAdd
  ActiveCoherent
CHECK_DEADLOCK FALSE
