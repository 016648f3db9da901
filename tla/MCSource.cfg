\* Two threads and a producer.
SPECIFICATION SourceSpec
CONSTANTS
  Frames <- MCFrames
  Queries <- MCQueries
  Threads = {t1, t2}
  NoThread = NoThread
SYMMETRY MCSymmetry
INVARIANTS WindowsExact NewestKnown LeaseStable
PROPERTY WindowsFixed
