CONSTANTS
  N = 2
  Kinds = {"line", "user", "noisy", "loud", "refusing", "dead", "silent"}
  Shows <- MCShows
  MaxLate = 1
SPECIFICATION DiscSpec
INVARIANTS
  OwnAnswers
  NoMixUp
PROPERTIES
  Finishes
CHECK_DEADLOCK FALSE
