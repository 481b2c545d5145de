CONSTANTS
  Threads = {t1, t2, t3}
  Ops = {o1, o2}
  Guards = {g1, g2}
  TaskOp = TaskOp
  NoOp = NoOp
  NoThread = NoThread
  OneThread = FALSE
  ClientCalls = {"post", "guard"}
  HandlerCalls = {"post", "defer", "init_task", "guard"}
  Guarded = TRUE
  Signals = FALSE
  HeapBools = {FALSE}
  HeapWork = 0
SPECIFICATION FairSpec
CHECK_DEADLOCK FALSE
INVARIANTS
  StopsOnlyWhenDrained
PROPERTIES
  PostedOpsRun
  FinishedWorkEndsRun
