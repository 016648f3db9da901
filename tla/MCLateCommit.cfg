\* A reset between the two steps of commit_window().
SPECIFICATION SourceSpec
CONSTANTS
  Frames <- MCFrames
  Queries <- MCQueries
  Threads = {t1, t2}
  NoThread = NoThread
SYMMETRY MCSymmetry
INVARIANT NothingLeftBehind
