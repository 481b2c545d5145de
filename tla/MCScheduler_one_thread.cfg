CONSTANTS
  Threads = {t1, t2, t3}
  Ops = {o1, o2, o3}
  Guards = {g1}
  TaskOp = TaskOp
  NoOp = NoOp
  NoThread = NoThread
  OneThread = TRUE
  ClientCalls = {"post", "stop", "restart", "guard", "reset", "shutdown"}
  HandlerCalls = {"post", "defer", "init_task", "throw", "reset"}
  Guarded = FALSE
  Signals = FALSE
  HeapBools = {FALSE}
  HeapWork = 0
SPECIFICATION Spec
CHECK_DEADLOCK FALSE
SYMMETRY Symmetry
INVARIANTS
  SomeoneComesBack
