SPECIFICATION Spec
CONSTANTS
  Keys = {k1, k2}
  Observers = {o1, o2, o3}
  MaxEpisodes = 2
INVARIANTS
  NoEmptyEntry
  EpisodesBalance
PROPERTIES
  ImplementsAttachments
