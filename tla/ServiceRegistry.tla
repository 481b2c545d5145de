--------------------------- MODULE ServiceRegistry ---------------------------
(***************************************************************************)
(* boost::asio::detail::service_registry (service_registry.hpp,            *)
(* service_registry.cc) as execution_context and io_context use it: the    *)
(* creation of services on demand by several threads, and their shutdown   *)
(* and destruction with the context.                                       *)
(*                                                                         *)
(* use_service releases mutex_ while the constructor of the service runs,  *)
(* and that constructor may call use_service itself.  A thread therefore   *)
(* has a stack of calls in progress; a step is one critical section of     *)
(* mutex_.  scheduler::init_task also calls use_service, with the mutex_   *)
(* of the scheduler (here task_mutex) held.                                *)
(***************************************************************************)
EXTENDS Naturals, SequencesExt, FiniteSets

CONSTANTS
  Threads,
  Services,      (* keys of services_                                        *)
  Scheduler,     (* the scheduler's key                                      *)
  Reactor,       (* the reactor's key                                        *)
  KeyOrder,      (* the keys in the order of std::map                        *)
  Uses,          (* the service its constructor calls use_service for        *)
  MayFail,       (* services whose constructor may throw                     *)
  NoService,
  NoInstance,    (* a null service pointer                                   *)
  NoThread

(* An instance is known by its service and the thread that constructed it, *)
(* which has at most one of them at a time.                                *)
Instances == Services \X Threads

ASSUME RegistryAssumption ==
  /\ Scheduler \in Services /\ Reactor \in Services
  /\ NoService \notin Services /\ NoInstance \notin Instances
  /\ NoThread \notin Threads
  /\ IsFiniteSet(Services)
  /\ KeyOrder \in Seq(Services) /\ Range(KeyOrder) = Services
  /\ Len(KeyOrder) = Cardinality(Services)
  /\ Uses \in [Services -> Services \cup {NoService}]
  /\ MayFail \subseteq Services
  (* no constructor waits, in the end, for itself *)
  /\ \E depth \in [Services -> 1 .. Cardinality(Services)] :
       \A s \in Services : Uses[s] # NoService => depth[Uses[s]] < depth[s]

VARIABLES
  mutex_,        (* of the registry                                          *)
  services_,
  task_mutex,    (* scheduler::mutex_, held by a thread in init_task         *)
  task_,         (* scheduler::task_                                         *)
  stack,         (* the calls of use_service in progress, innermost last     *)
  life,          (* which instances exist, and were shut down                *)
  phase,         (* the life of the context                                  *)
  at,            (* the iterator of shutdown_services, destroy_services      *)
  member,        (* the service an instance keeps a reference to             *)
  handed         (* history: references given to callers                     *)

registryVars == <<mutex_, services_, task_mutex, task_, stack, member, handed>>
contextVars  == <<phase, at>>
vars == <<registryVars, life, contextVars>>

(* A call: the key, the instance it is constructing, and the critical      *)
(* section it is heading for.                                              *)
Frames == [service : Services, instance : Instances \cup {NoInstance},
           step : {"find", "insert", "discard"}]
Frame(s, i, step) == [service |-> s, instance |-> i, step |-> step]
Lookup(s) == Frame(s, NoInstance, "find")

Calling(t) == stack[t] # <<>>
Top(t)     == Last(stack[t])
Callers(t) == Front(stack[t])
At(t, step) == Calling(t) /\ Top(t).step = step

(* The innermost call returns instance i: to the constructor below it,     *)
(* which keeps the reference, to init_task, or to the thread's own code.   *)
Return(t, i) ==
  /\ stack' = [stack EXCEPT ![t] = Callers(t)]
  /\ IF Callers(t) # <<>>
     THEN /\ member' = [member EXCEPT ![Last(Callers(t)).instance] = i]
          /\ UNCHANGED <<handed, task_, task_mutex>>
     ELSE /\ handed' = handed \cup {i}
          /\ IF task_mutex = t
             THEN task_' = i /\ task_mutex' = NoThread
             ELSE UNCHANGED <<task_, task_mutex>>
          /\ UNCHANGED member

-----------------------------------------------------------------------------
(* use_service.                                                            *)

UseService(t, s) ==
  /\ phase = "open" /\ ~Calling(t)
  /\ stack' = [stack EXCEPT ![t] = <<Lookup(s)>>]
  /\ UNCHANGED <<mutex_, services_, task_mutex, task_, handed, member, life,
                 contextVars>>

(* scheduler::init_task, when there is no task yet.                        *)
InitTask(t) ==
  /\ phase = "open" /\ ~Calling(t)
  /\ task_mutex = NoThread
  /\ task_ = NoInstance
  /\ task_mutex' = t
  /\ stack' = [stack EXCEPT ![t] = <<Lookup(Reactor)>>]
  /\ UNCHANGED <<mutex_, services_, task_, handed, member, life, contextVars>>

(* new Service(owner_), which starts with the service its constructor uses.*)
Construct(t, s) ==
  /\ life' = [life EXCEPT ![<<s, t>>] = "made"]
  /\ member' = [member EXCEPT ![<<s, t>>] = NoInstance]
  /\ stack' = [stack EXCEPT ![t] =
                 Append(Callers(t), Frame(s, <<s, t>>, "insert"))
                 \o (IF Uses[s] = NoService THEN <<>> ELSE <<Lookup(Uses[s])>>)]
  /\ UNCHANGED <<handed, task_, task_mutex>>

(* Variant: the mutex is kept for the construction.                        *)
FindKeepingLock(t) ==
  /\ At(t, "find")
  /\ mutex_ = NoThread
  /\ LET s == Top(t).service
     IN IF services_[s] # NoInstance
        THEN Return(t, services_[s]) /\ UNCHANGED <<life, mutex_>>
        ELSE Construct(t, s) /\ mutex_' = t
  /\ UNCHANGED <<services_, contextVars>>

(* The first lookup.  If it fails the mutex is released and the service    *)
(* constructed.                                                            *)
Find(t) ==
  /\ At(t, "find")
  /\ mutex_ = NoThread
  /\ LET s == Top(t).service
     IN IF services_[s] # NoInstance
        THEN Return(t, services_[s]) /\ UNCHANGED life
        ELSE Construct(t, s)
  /\ UNCHANGED <<mutex_, services_, contextVars>>

(* The constructor throws: every construction in progress is undone and    *)
(* init_task releases the scheduler.                                       *)
ConstructorThrows(t) ==
  /\ At(t, "insert")
  /\ Top(t).service \in MayFail
  /\ LET undone == {stack[t][n].instance : n \in DOMAIN stack[t]}
     IN life' = [i \in Instances |-> IF i \in undone THEN "none" ELSE life[i]]
  /\ stack' = [stack EXCEPT ![t] = <<>>]
  /\ task_mutex' = IF task_mutex = t THEN NoThread ELSE task_mutex
  /\ UNCHANGED <<mutex_, services_, task_, handed, member, contextVars>>

(* Variant: no second lookup.                                              *)
InsertUnchecked(t) ==
  /\ At(t, "insert")
  /\ mutex_ = NoThread
  /\ services_' = [services_ EXCEPT ![Top(t).service] = Top(t).instance]
  /\ Return(t, Top(t).instance)
  /\ UNCHANGED <<mutex_, life, contextVars>>

(* Variant: the loser is released, not destroyed.                          *)
InsertReleased(t) ==
  /\ At(t, "insert")
  /\ mutex_ = NoThread
  /\ LET s == Top(t).service
     IN IF services_[s] # NoInstance
        THEN Return(t, services_[s]) /\ UNCHANGED services_
        ELSE /\ services_' = [services_ EXCEPT ![s] = Top(t).instance]
             /\ Return(t, Top(t).instance)
  /\ UNCHANGED <<mutex_, life, contextVars>>

(* The second lookup.  The thread that lost the race destroys its own      *)
(* instance before it releases the mutex: new_service is the younger local *)
(* variable.                                                               *)
Insert(t) ==
  /\ At(t, "insert")
  /\ mutex_ = NoThread
  /\ LET s == Top(t).service
         i == Top(t).instance
     IN IF services_[s] # NoInstance
        THEN /\ mutex_' = t
             /\ stack' = [stack EXCEPT ![t] =
                            Append(Callers(t), Frame(s, i, "discard"))]
             /\ UNCHANGED <<services_, task_mutex, task_, handed, member>>
        ELSE /\ services_' = [services_ EXCEPT ![s] = i]
             /\ Return(t, i)
             /\ UNCHANGED mutex_
  /\ UNCHANGED <<life, contextVars>>

(* Variant: the winner's pointer is lost.                                  *)
DiscardBoth(t) ==
  /\ At(t, "discard")
  /\ life' = [life EXCEPT ![Top(t).instance] = "none"]
  /\ mutex_' = NoThread
  /\ Return(t, NoInstance)
  /\ UNCHANGED <<services_, contextVars>>

Discard(t) ==
  /\ At(t, "discard")
  /\ life' = [life EXCEPT ![Top(t).instance] = "none"]
  /\ mutex_' = NoThread
  /\ Return(t, services_[Top(t).service])
  /\ UNCHANGED <<services_, contextVars>>

-----------------------------------------------------------------------------
(* The context.                                                            *)

(* io_context::add_impl, in the constructor of the context: the scheduler  *)
(* is added before another thread can see the registry.  The constructor   *)
(* of system_context does the same with use_service.                       *)
AddImpl(t) ==
  /\ phase = "new"
  /\ phase' = "open"
  /\ services_' = [services_ EXCEPT ![Scheduler] = <<Scheduler, t>>]
  /\ life' = [life EXCEPT ![<<Scheduler, t>>] = "made"]
  /\ UNCHANGED <<mutex_, task_mutex, task_, stack, member, handed, at>>

(* ~execution_context: nobody uses the context any more.                   *)
Shutdown ==
  /\ phase = "open"
  /\ \A t \in Threads : ~Calling(t)
  /\ phase' = "shutting" /\ at' = 1
  /\ UNCHANGED <<registryVars, life>>

(* The loops visit services_ in the order of the keys.                     *)
Visit(order, becomes) ==
  /\ at <= Len(order)
  /\ at' = at + 1
  /\ LET i == services_[order[at]]
     IN life' = IF i = NoInstance THEN life
                ELSE [life EXCEPT ![i] = becomes]

(* shutdown_services; the scheduler forgets its task.                      *)
ShutdownServices ==
  /\ phase = "shutting"
  /\ \/ /\ Visit(KeyOrder, "shut")
        /\ task_' = IF KeyOrder[at] = Scheduler THEN NoInstance ELSE task_
        /\ UNCHANGED phase
     \/ /\ at > Len(KeyOrder)
        /\ phase' = "deleting" /\ at' = 1
        /\ UNCHANGED <<life, task_>>
  /\ UNCHANGED <<mutex_, services_, task_mutex, stack, member, handed>>

(* Variant: in the reverse order.                                          *)
DestroyBackwards ==
  /\ phase = "deleting"
  /\ \/ /\ Visit([n \in 1 .. Len(KeyOrder) |->
                   KeyOrder[Len(KeyOrder) + 1 - n]], "none")
        /\ UNCHANGED <<phase, services_>>
     \/ /\ at > Len(KeyOrder)
        /\ services_' = [s \in Services |-> NoInstance]
        /\ phase' = "gone" /\ UNCHANGED <<at, life>>
  /\ UNCHANGED <<mutex_, task_mutex, task_, stack, member, handed>>

(* destroy_services.                                                       *)
DestroyServices ==
  /\ phase = "deleting"
  /\ \/ Visit(KeyOrder, "none") /\ UNCHANGED <<phase, services_>>
     \/ /\ at > Len(KeyOrder)
        /\ services_' = [s \in Services |-> NoInstance]
        /\ phase' = "gone" /\ UNCHANGED <<at, life>>
  /\ UNCHANGED <<mutex_, task_mutex, task_, stack, member, handed>>

-----------------------------------------------------------------------------
Init ==
  /\ mutex_ = NoThread /\ task_mutex = NoThread
  /\ services_ = [s \in Services |-> NoInstance]
  /\ task_ = NoInstance
  /\ stack = [t \in Threads |-> <<>>]
  /\ life = [i \in Instances |-> "none"]
  /\ phase = "new" /\ at = 1
  /\ member = [i \in Instances |-> NoInstance]
  /\ handed = {}

Continue(t) == Find(t) \/ Insert(t) \/ Discard(t)

Next == \/ \E t \in Threads : \/ Continue(t) \/ ConstructorThrows(t)
                             \/ InitTask(t) \/ AddImpl(t)
                             \/ \E s \in Services : UseService(t, s)
        \/ Shutdown \/ ShutdownServices \/ DestroyServices

Spec == Init /\ [][Next]_vars

(* A thread inside use_service keeps running.                              *)
FairSpec == Spec /\ \A t \in Threads : WF_vars(Continue(t))

-----------------------------------------------------------------------------
(* Properties.                                                             *)

(* Every variable has its type: in particular use_service never returns a  *)
(* reference to nothing.                                                   *)
TypeOK ==
  /\ mutex_ \in Threads \cup {NoThread}
  /\ task_mutex \in Threads \cup {NoThread}
  /\ services_ \in [Services -> Instances \cup {NoInstance}]
  /\ task_ \in Instances \cup {NoInstance}
  /\ stack \in [Threads -> Seq(Frames)]
  /\ life \in [Instances -> {"none", "made", "shut"}]
  /\ phase \in {"new", "open", "shutting", "deleting", "gone"}
  /\ at \in 1 .. Len(KeyOrder) + 1
  /\ handed \subseteq Instances
  /\ member \in [Instances -> Instances \cup {NoInstance}]

(* use_service: while the context is open every reference it has returned, *)
(* to a caller, to a constructor or to init_task, is to the registered     *)
(* instance of its service - two threads that construct the same service   *)
(* at once end up with one, and nobody holds the one that is destroyed.    *)
OneInstance ==
  phase = "open" =>
    LET kept == {member[i] : i \in {j \in Instances : life[j] # "none"}}
    IN \A i \in (handed \cup kept \cup {task_}) \ {NoInstance} :
         services_[i[1]] = i /\ life[i] = "made"

(* use_service, destroy_services: an instance is owned by one call in      *)
(* progress or by the registry from its construction until it is deleted,  *)
(* whatever loses a race or throws: none leaks and none is deleted twice.  *)
EachInstanceOwned ==
  LET calls(i) == {c \in UNION {{t} \X DOMAIN stack[t] : t \in Threads} :
                     stack[c[1]][c[2]].instance = i}
      owners(i) == Cardinality(calls(i))
                     + (IF services_[i[1]] = i THEN 1 ELSE 0)
  IN phase # "deleting" => \A i \in Instances :
       owners(i) = IF life[i] = "none" THEN 0 ELSE 1

(* ~execution_context: services refer to each other, so all of them are    *)
(* shut down before the first is deleted, and none outlives one that it    *)
(* uses.  The order is that of the keys, typeid(Service).name().           *)
TeardownOrder ==
  /\ \A i \in Instances : (life[i] # "none" /\ member[i] # NoInstance)
                             => life[member[i]] # "none"
  /\ phase = "deleting" => \A s \in Services :
       services_[s] # NoInstance => life[services_[s]] # "made"

(* use_service, init_task: every call returns, although constructors call  *)
(* use_service and init_task does so with the scheduler locked.            *)
CallsReturn == \A t \in Threads : Calling(t) ~> ~Calling(t)

=============================================================================
