\* Two datasets, two corpora, two servers; feeds fail, servers crash and linger, and a
\* command is killed anywhere, between the lines of a start script too.
CONSTANTS
  Dataset = {d1, d2}
  Corpus = {c1, c2}
  Server = {p1, p2}
  Commands = 3
  Kills = 1
SPECIFICATION Spec
CHECK_DEADLOCK FALSE
INVARIANTS
  ReusableIsWhole
  MeasuredAsAsked
