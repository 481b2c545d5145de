CONSTANTS
  Threads = {t1, t2}
  Scheduler = Scheduler
  Reactor = Reactor
  StreamSocket = StreamSocket
  Services <- MCServices
  KeyOrder <- MCKeyOrder
  Uses <- MCUses
  MayFail = {Reactor}
  NoService = NoService
  NoInstance = NoInstance
  NoThread = NoThread
SPECIFICATION FairSpec
CHECK_DEADLOCK FALSE
PROPERTIES
  CallsReturn
INVARIANTS
  TypeOK
  OneInstance
  EachInstanceOwned
  TeardownOrder
