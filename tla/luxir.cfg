\* Records longer and shorter than ranges and blocks, a last record with and without
\* its newline, more streams than bytes, committed or not.
CONSTANTS
  Jobs <- MCJobs
  Block = 2
SPECIFICATION Spec
INVARIANTS
  RecordAligned
  PublishedAfterDrain
  FedIsWhole
