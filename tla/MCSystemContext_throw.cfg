CONSTANTS
  Threads = {u1, u2, p1, p2}
  Pool = {p1, p2}
  Ops = {o1, o2}
  Guards = {unit}
  TaskOp = TaskOp
  NoOp = NoOp
  NoThread = NoThread
  OneThread = TRUE
  ClientCalls = {"post"}
  HandlerCalls = {}
  Guarded = FALSE
  Signals = FALSE
  HeapBools = {FALSE}
  HeapWork = 0
  StartFails = TRUE
SPECIFICATION ContextFairSpec
CHECK_DEADLOCK FALSE
PROPERTIES
  ThrowPassesOn
