CONSTANTS
  Threads = {t1, t2, t3}
  Ops = {o1, o2, o3}
  Guards = {g1}
  TaskOp = TaskOp
  NoOp = NoOp
  NoThread = NoThread
  OneThread = FALSE
  ClientCalls = {"post", "stop", "restart", "init_task", "guard", "shutdown"}
  HandlerCalls = {"post", "defer", "throw", "stop", "init_task"}
  Guarded = FALSE
  Signals = TRUE
  HeapBools = {FALSE, TRUE}
  HeapWork = 0
SPECIFICATION Spec
CHECK_DEADLOCK FALSE
SYMMETRY Symmetry
INVARIANTS
  TypeOK
  WorkCounted
  EachOpInOnePlace
  TaskHasOnePlace
  NoSleepBesideWork
  StopReachesAll
PROPERTIES
  ImplementsContract
