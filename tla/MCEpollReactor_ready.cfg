CONSTANTS
  d1 = d1
  d2 = d2
  o1 = o1
  o2 = o2
  o3 = o3
  Threads = {t1, t2}
  Clients = {c1}
  Descriptors = {d1}
  Ops = {o1, o2, o3}
  TaskOp = TaskOp
  NoOp = NoOp
  Desc <- SameDescriptor
  Kind <- ReadAndWrites
  Speculative <- AllSpeculative
  Continuation <- WritesContinue
  Stream = TRUE
  Raised = {"out", "hup"}
  Failures = {"MOD"}
  MaxEvents = 2
  OneThread = FALSE
CHECK_DEADLOCK FALSE
SPECIFICATION Spec
SYMMETRY ThreadSymmetry
INVARIANTS
  ReadyOpsAttended
  DescriptorQueuedOnce
