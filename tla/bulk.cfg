\* Three clients on sources of up to five documents, short, exact or longer than the
\* limit; and one client that flushes every 0 to 5 documents, in chunks of 1 to 4.
CONSTANTS
  Client = {c1, c2, c3}
  One = {c1}
  Several = {c1, c2, c3}
  Args <- MCArgs
SPECIFICATION FairSpec
INVARIANTS
  FeedIsWhole
  LossBounded
  FlushesKeepUp
PROPERTY
  FeedEnds
