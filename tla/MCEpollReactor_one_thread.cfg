CONSTANTS
  d1 = d1
  d2 = d2
  o1 = o1
  o2 = o2
  o3 = o3
  Threads = {t1}
  Clients = {c1}
  Descriptors = {d1, d2}
  Ops = {o1, o2, o3}
  TaskOp = TaskOp
  NoOp = NoOp
  Desc <- TwoDescriptors
  Kind <- ReadAndWrites
  Speculative <- Mixed
  Continuation <- WritesContinue
  Stream = FALSE
  Raised = {"out"}
  Failures = {"ADD", "MOD"}
  MaxEvents = 1
  OneThread = TRUE
CHECK_DEADLOCK FALSE
SPECIFICATION Spec
INVARIANTS
  WorkCounted
