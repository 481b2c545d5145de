CONSTANTS
  Threads = {t1, t2}
  Capacity = 1
  Sizes = {0, 2}
  Modes = {{}, {"internal_non_blocking"}, {"user_set_non_blocking"}}
  Options = {FALSE}
  Shutdowns = {{"read"}, {"read", "write"}}
  SignalBound = 1
SPECIFICATION Spec
SYMMETRY Symmetry
INVARIANTS
  TypeOK
  ReportsWhatMoved
  WouldBlockOnlyOnRequest
  NothingMovedHasError
  EofAtEnd
