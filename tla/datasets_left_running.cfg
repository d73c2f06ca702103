\* A server is left running on another dataset.
CONSTANTS
  Dataset = {d1, d2}
  Corpus = {c1}
  Server = {p1, p2}
  Commands = 4
  Kills = 0
SPECIFICATION Spec
CHECK_DEADLOCK FALSE
INVARIANT ResultIsSound
