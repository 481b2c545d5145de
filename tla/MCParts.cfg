CONSTANTS
  Threads = {t1, t2}
  Frames = {f1, f2, f3}
  Ops = {o1, o2, o3, o4}
  Recycled = {o1, o2, o3}
  Dispatched = {o2, o4}
  Throwing = {o1, o2}
  Heap = Heap
  Lost = Lost
  NoOp = NoOp
  NoFrame = NoFrame
  Callers = {c1, c2, c3}
  Numbers = {3, 4}
  MayFail = TRUE
  invalid_socket = invalid_socket
  NoCaller = NoCaller
  any6 = any6
  a6 = a6
  Ports <- MCPorts
  Bytes4 <- MCBytes4
  Bytes16 = {a6}
  Unspecified = any6
  Scopes = {2, 5}
  ScopeLimit = 4
SPECIFICATION PartsSpec
CHECK_DEADLOCK FALSE
SYMMETRY Symmetry
INVARIANTS
  BlocksAccounted
  WorkAccounted
  SocketsOwned
  EndpointKeeps
