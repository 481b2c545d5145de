------------------------- MODULE SystemContextProofs --------------------------
(***************************************************************************)
(* Proofs about SystemContext, for any number of users, of threads in the  *)
(* pool and of operations: that its variables keep their types, that the   *)
(* pool uses its scheduler as module Scheduler says and so keeps the       *)
(* scheduler's promises and its contract, to the end of the program, and   *)
(* that join() lets the pool finish what was posted.                       *)
(***************************************************************************)
EXTENDS SystemContext, SchedulerWorkProofs

-----------------------------------------------------------------------------
(* What the program does to the scheduler.                                 *)

(* A step of a thread in a call of the scheduler, or into one, but stop(). *)
Works(t) ==
  \/ Continue(t) \/ Run(t) \/ SpuriousWake(t)
  \/ \E op \in Ops, c \in BOOLEAN : Post(t, op, c)
  \/ \E unit \in guards : GuardFinish(t, unit)

(* A step of the exit, with all users outside: it gives a unit of work     *)
(* back, which may not be there, stops the scheduler, or both.             *)
Departs(u) ==
  /\ pc[u] \in ClientSteps
  /\ \/ CallStep(u, "stopping", pc[u])
     \/ Goto(u, pc[u]) /\ ret' = [ret EXCEPT ![u] = "none"]
  /\ outstanding_work_' \in {outstanding_work_, outstanding_work_ - 1}
  /\ guards' \in {guards, {}}
  /\ UNCHANGED <<mutex_, task_, task_interrupted_, op_queue_, stopped_,
                 shutdown_, eventVars, edge, privateVars, posting, running,
                 posted, started, destroyed, unwound>>

(* What a step does to the history of join() and stop().                   *)
Joined == joined' = joined \/ (guards # {} /\ joined' = posted)

(* The scheduler is used, stopped or left alone until the program exits,   *)
(* and whoever stops it is seen.                                           *)
LEMMA LifeStep ==
  ASSUME [ContextNext]_allVars
  PROVE  /\ \/ UNCHANGED vars
            \/ \E t \in Threads : Works(t)
            \/ stopCalled' /\ \E t \in Threads : Stop(t)
            \/ fate' # "running" /\ \E u \in Threads : Departs(u)
         /\ Joined
         /\ stopCalled => stopCalled'
<1> DEFINE goal == /\ \/ UNCHANGED vars
                      \/ \E t \in Threads : Works(t)
                      \/ stopCalled' /\ \E t \in Threads : Stop(t)
                      \/ fate' # "running" /\ \E u \in Threads : Departs(u)
                   /\ Joined
                   /\ stopCalled => stopCalled'
<1> USE DEF Joined
<1>1. ASSUME NEW t \in Threads, Construct(t) PROVE goal
  BY <1>1 DEF Construct, EnterOnce, PassOnce, CreateThread, Constructed
<1>2. ASSUME NEW t \in Threads, StartThread(t) PROVE goal
  BY <1>2 DEF StartThread, userVars, Works
<1>3. ASSUME NEW t \in Threads, Advance(t) PROVE goal
  BY <1>3 DEF Advance, Works
<1>4. ASSUME NEW t \in Threads, CallGlobal(t) \/ CreateThrows(t) PROVE goal
  BY <1>4 DEF CallGlobal, CreateThrows
<1>5. ASSUME NEW t \in Threads, Join(t) PROVE goal
  BY <1>5 DEF Join, Works
<1>6. ASSUME NEW t \in Threads, PostToContext(t) PROVE goal
  BY <1>6 DEF PostToContext, userVars, Works
<1>7. ASSUME NEW t \in Threads, StopContext(t) PROVE goal
  BY <1>7 DEF StopContext
<1>8. ASSUME NEW t \in Threads, Interfere(t) PROVE goal
  BY <1>8 DEF Interfere, userVars, Works
<1>9. ASSUME NEW t \in Threads, ThrowInPool(t) PROVE goal
  BY <1>9 DEF ThrowInPool
<1>10. ASSUME NEW u \in Users, Exit(u) PROVE goal
  <2>1. u \in Threads /\ pc[u] \in ClientSteps
    BY <1>10 DEF Exit, Quiet, Users
  <2>2. CASE once = "done"
    <3>1. Departs(u) /\ fate' = "finishing"
      BY <1>10, <2>1, <2>2 DEF Exit, Departs, WorkFinished
    <3> QED BY <1>10, <2>1, <3>1 DEF Exit
  <2>3. CASE once # "done"
    BY <1>10, <2>3 DEF Exit, vars, historyVars
  <2> QED BY <2>2, <2>3
<1>11. ASSUME NEW u \in Users, ExitStops(u) PROVE goal
  <2>1. u \in Threads /\ pc[u] \in ClientSteps
    BY <1>11 DEF ExitStops, Quiet, Users
  <2>2. Departs(u) /\ fate' = "stopping"
    BY <1>11, <2>1 DEF ExitStops, Departs, historyVars
  <2> QED BY <1>11, <2>1, <2>2 DEF ExitStops
<1>12. ASSUME ExitDestroysThreads PROVE goal
  BY <1>12 DEF ExitDestroysThreads
<1>13. ASSUME UNCHANGED allVars PROVE goal
  BY <1>13 DEF allVars, userVars, vars
<1> HIDE DEF goal
<1>14. goal
  BY <1>1, <1>2, <1>3, <1>4, <1>5, <1>6, <1>7, <1>8, <1>9, <1>10, <1>11, <1>12,
     <1>13 DEF ContextNext, Proceed, Demand
<1> QED BY <1>14 DEF goal

(* A program that has begun to exit does not go back.                      *)
LEMMA NoReturn ==
  ASSUME [ContextNext]_allVars, fate' = "running"
  PROVE  fate = "running"
<1>1. ASSUME NEW t \in Threads, Proceed(t) PROVE fate = "running"
  BY <1>1 DEF Proceed, Construct, EnterOnce, PassOnce, CreateThread, Constructed,
              StartThread, Advance, userVars
<1>2. ASSUME NEW t \in Threads, Demand(t) PROVE fate = "running"
  BY <1>2 DEF Demand, PostToContext, StopContext, userVars
<1>3. ASSUME NEW t \in Threads, Interfere(t) \/ ThrowInPool(t) PROVE fate = "running"
  BY <1>3 DEF Interfere, ThrowInPool, userVars
<1>4. ASSUME NEW u \in Users, Exit(u) \/ ExitStops(u) PROVE fate = "running"
  BY <1>4 DEF Exit, ExitStops
<1>5. ASSUME ExitDestroysThreads PROVE fate = "running"
  BY <1>5 DEF ExitDestroysThreads
<1>6. CASE UNCHANGED allVars
  BY <1>6 DEF allVars, userVars
<1> QED BY <1>1, <1>2, <1>3, <1>4, <1>5, <1>6 DEF ContextNext

(* Those steps are steps of the scheduler.                                 *)
LEMMA SchedulerStep ==
  ASSUME Typed, \/ UNCHANGED vars
                 \/ \E t \in Threads : Works(t) \/ Stop(t)
  PROVE  [Next]_vars
<1>1. ASSUME NEW t \in Threads, Works(t) PROVE Next
  <2>1. \A g : g \in guards => g \in Guards
    BY DEF Typed
  <2>2. \A c \in BOOLEAN : c = TRUE \/ c = FALSE
    OBVIOUS
  <2> QED BY <1>1, <2>1, <2>2 DEF Works, Next, Call, Surprise
<1>2. ASSUME NEW t \in Threads, Stop(t) PROVE Next
  BY <1>2 DEF Next, Call
<1> QED BY <1>1, <1>2

-----------------------------------------------------------------------------
(* The scheduler of the pool.                                              *)

(* What is true of the scheduler in every state.                           *)
PoolInv == PlaceInv /\ AttendInv

LEMMA PoolInit == Init => PoolInv
BY StopInit, AttendInit, TypeInit, PlaceInit DEF PoolInv, PlaceInv, AttendInv

(* The work stays counted, without executor_work_guard::reset().           *)
LEMMA WorksCounts ==
  ASSUME PlaceInv, WorkCounted, NEW t \in Threads, Works(t) \/ Stop(t)
  PROVE  WorkCounted'
<1>1. CASE UNCHANGED countVars
  <2>1. CountedWork' = CountedWork
    BY <1>1 DEF countVars, placeVars, CountedWork, CountedOps, QueuedOps
  <2> QED BY <1>1, <2>1, CountSame DEF countVars
<1>2. CASE ~UNCHANGED countVars
  <2> USE DEF countVars, placeVars, privateVars, historyVars
  <2>1. NotifyOne(t) \/ Wake(t) \/ StopAllThreads(t) \/ Lock(t) \/ LeaveRun(t)
          \/ WaitForWork(t) \/ EpollReturns(t) \/ HandlerReturns(t)
          => UNCHANGED countVars
    BY DEF NotifyOne, Wake, StopAllThreads, Lock, LeaveRun, WaitForWork, EpollReturns,
           HandlerReturns
  <2>2. Run(t) \/ Stop(t) \/ SpuriousWake(t) => UNCHANGED countVars
    BY DEF Run, Stop, SpuriousWake
  <2>3. \A unit : unit \in guards => unit \in Guards
    BY DEF PlaceInv, TypeInv, Typed
  <2> HIDE DEF countVars, placeVars, privateVars, historyVars
  <2> QED BY <1>2, <2>1, <2>2, <2>3, CountPost, CountPostLocked, CountTask,
             CountTakeOp, CountPrivate, CountFinishOp, CountFlush, CountGuard
          DEF Works, Continue
<1> QED BY <1>1, <1>2

(* The exit is no step of the scheduler, but it does it no harm: a user    *)
(* who holds nothing calls stop() or goes on.                              *)
LEMMA DepartStep ==
  ASSUME PoolInv, NEW u \in Threads, Departs(u)
  PROVE  PoolInv'
<1>1. /\ Typed /\ CallsReturn /\ MutexHeld /\ WaitersCounted /\ TaskPlaces
      /\ InterruptPending /\ StopSignalled /\ HoldsByStep /\ OpPlaces
      /\ ReturnsUnwound /\ QueueAttended /\ QueueNoticed
  BY DEF PoolInv, PlaceInv, AttendInv, StopInv, TypeInv
<1>2. PICK x \in ClientSteps \cup {"stopping"}, r \in ClientSteps \cup {"none"} :
        /\ pc' = [pc EXCEPT ![u] = x] /\ ret' = [ret EXCEPT ![u] = r]
        /\ x = "stopping" => r # "none"
  <2> pc[u] \in ClientSteps /\ pc[u] # "none"
    BY DEF Departs, ClientSteps
  <2>1. CASE CallStep(u, "stopping", pc[u])
    <3> WITNESS "stopping" \in ClientSteps \cup {"stopping"}, pc[u] \in ClientSteps \cup {"none"}
    <3> QED BY <2>1 DEF CallStep, Goto
  <2>2. CASE Goto(u, pc[u]) /\ ret' = [ret EXCEPT ![u] = "none"]
    <3> pc[u] # "stopping"
      BY DEF Departs, ClientSteps
    <3> WITNESS pc[u] \in ClientSteps \cup {"stopping"}, "none" \in ClientSteps \cup {"none"}
    <3> QED BY <2>2 DEF Goto
  <2> QED BY <2>1, <2>2 DEF Departs
<1>3. /\ pc[u] \in ClientSteps
      /\ outstanding_work_' \in {outstanding_work_, outstanding_work_ - 1}
      /\ guards' \in {guards, {}}
      /\ mutex_' = mutex_ /\ task_' = task_ /\ task_interrupted_' = task_interrupted_
      /\ op_queue_' = op_queue_ /\ stopped_' = stopped_ /\ shutdown_' = shutdown_
      /\ signalled' = signalled /\ waiters' = waiters /\ edge' = edge
      /\ private_op_queue' = private_op_queue
      /\ private_outstanding_work' = private_outstanding_work
      /\ posting' = posting /\ running' = running /\ posted' = posted
      /\ started' = started /\ destroyed' = destroyed /\ unwound' = unwound
  BY DEF Departs, eventVars, privateVars
<1> USE DEF ClientSteps
<1>4. Typed'
  BY <1>1, <1>2, <1>3 DEF Typed, Steps, ReturnSteps, HomeSteps, CallSteps
<1>5. CallsReturn'
  BY <1>1, <1>2, <1>3 DEF Typed, CallsReturn, CallSteps
<1>6. MutexHeld'
  BY <1>1, <1>2, <1>3 DEF Typed, MutexHeld
<1>7. WaitersCounted'
  <2>1. Waiting' = Waiting
    BY <1>1, <1>2, <1>3 DEF Typed, Waiting
  <2> QED BY <1>1, <1>3, <2>1 DEF WaitersCounted
<1>8. TaskPlaces'
  <2>1. TaskCarriers' = TaskCarriers
    BY <1>1, <1>2, <1>3 DEF Typed, TaskCarriers, TaskSteps
  <2>2. TaskPositions' = TaskPositions
    BY <1>3 DEF TaskPositions
  <2> QED BY <1>1, <1>3, <2>1, <2>2 DEF TaskPlaces
<1>9. InterruptPending'
  BY <1>1, <1>2, <1>3 DEF Typed, InterruptPending
<1>10. StopSignalled'
  <2>1. TaskCarriers' = TaskCarriers
    BY <1>1, <1>2, <1>3 DEF Typed, TaskCarriers, TaskSteps
  <2> QED BY <1>1, <1>2, <1>3, <2>1 DEF Typed, StopSignalled
<1>11. HoldsByStep'
  <2> SUFFICES ASSUME NEW t \in Threads
               PROVE  /\ pc'[t] \in {"cleanup", "finish"} => ret'[t] \in {"lock", "returned"}
                      /\ posting'[t] # NoOp <=> pc'[t] = "posting"
                      /\ running'[t] # NoOp <=> Completing(t)'
                      /\ private_op_queue'[t] # <<>> => Completing(t)' \/ Flushing(t)'
                      /\ private_outstanding_work'[t] =
                           IF InHandler(t)' \/ pc'[t] = "cleanup"
                           THEN Len(private_op_queue'[t]) ELSE 0
    BY DEF HoldsByStep
  <2>1. CASE t = u
    BY <1>1, <1>2, <1>3, <2>1 DEF Typed, HoldsByStep, Completing, InHandler, Flushing, CallSteps
  <2>2. CASE t # u
    <3>1. pc'[t] = pc[t] /\ ret'[t] = ret[t]
      BY <1>1, <1>2, <2>2 DEF Typed
    <3> QED BY <1>1, <1>3, <3>1 DEF HoldsByStep, Completing, InHandler, Flushing
  <2> QED BY <2>1, <2>2
<1>12. OpPlaces'
  BY <1>1, <1>3, PlacesQuiet DEF placeVars
<1>13. ReturnsUnwound'
  BY <1>1, <1>2, <1>3 DEF Typed, ReturnsUnwound
<1>14. QueueAttended' /\ QueueNoticed'
  <2>1. ~Heeds(pc[u], ret[u], edge) /\ ~Inside(x, r)
    BY <1>2, <1>3 DEF Heeds, Inside, CallSteps
  <2> HIDE DEF ClientSteps
  <2>2. pc[u] \notin {"asleep", "woken", "notify"}
    BY <1>3 DEF ClientSteps
  <2> QED BY <1>1, <1>2, <1>3, <2>1, <2>2, AttendMove
<1> QED BY <1>4, <1>5, <1>6, <1>7, <1>8, <1>9, <1>10, <1>11, <1>12, <1>13, <1>14
        DEF PoolInv, PlaceInv, AttendInv, StopInv, TypeInv

(* So every step, whether of the scheduler or of the exit, keeps it.       *)
LEMMA PoolStep ==
  ASSUME PoolInv, \/ UNCHANGED vars
                  \/ \E t \in Threads : Works(t) \/ Stop(t) \/ Departs(t)
  PROVE  PoolInv'
<1>1. CASE \E u \in Threads : Departs(u)
  BY <1>1, DepartStep
<1>2. CASE \/ UNCHANGED vars
           \/ \E t \in Threads : Works(t) \/ Stop(t)
  <2>1. [Next]_vars
    BY <1>2, SchedulerStep DEF PoolInv, PlaceInv, TypeInv
  <2>2. /\ TypeInv /\ HoldsByStep /\ OpPlaces
        /\ StopInv /\ ReturnsUnwound /\ QueueAttended /\ QueueNoticed
    BY DEF PoolInv, PlaceInv, AttendInv
  <2>3. TypeInv' /\ HoldsByStep' /\ OpPlaces'
    BY <2>1, <2>2, TypeStep, CallsReturnStep, MutexStep, WaitersStep, HoldsStep, PlacesStep
       DEF TypeInv
  <2>4. StopInv'
    BY <2>1, <2>2, <2>3, TaskPlacesStep, InterruptStep, StopSignalledStep DEF StopInv
  <2>5. ReturnsUnwound' /\ QueueAttended' /\ QueueNoticed'
    BY <2>1, <2>2, ReturnsStep, AttendStep DEF StopInv
  <2> QED BY <2>3, <2>4, <2>5 DEF PoolInv, PlaceInv, AttendInv
<1> QED BY <1>1, <1>2

-----------------------------------------------------------------------------
(* The variables of SystemContext.                                         *)

(* The types of the variables, and the scheduler's invariant; but the work *)
(* is only counted until the exit, which gives a unit back that join() may *)
(* have given back already.                                                *)
ContextInv ==
  /\ ContextTypeOK
  /\ PoolInv
  /\ fate = "running" => WorkCounted

LEMMA ContextTypeStep ==
  ASSUME ContextTypeOK, posted \subseteq Ops, [ContextNext]_allVars
  PROVE  ContextTypeOK'
<1> USE DEF ContextTypeOK
<1>1. ASSUME NEW t \in Threads, t \in Users /\ Construct(t) PROVE ContextTypeOK'
  BY <1>1 DEF Construct, EnterOnce, PassOnce, CreateThread, Constructed, Now
<1>2. ASSUME NEW t \in Threads, StartThread(t) PROVE ContextTypeOK'
  BY <1>2 DEF StartThread, userVars
<1>3. ASSUME NEW t \in Threads, Advance(t) PROVE ContextTypeOK'
  BY <1>3 DEF Advance
<1>4. ASSUME NEW t \in Users, CallGlobal(t) \/ CreateThrows(t) PROVE ContextTypeOK'
  BY <1>4 DEF CallGlobal, CreateThrows, Now
<1>5. ASSUME NEW t \in Threads, Join(t) PROVE ContextTypeOK'
  BY <1>5 DEF Join
<1>6. ASSUME NEW t \in Threads, PostToContext(t) PROVE ContextTypeOK'
  BY <1>6 DEF PostToContext, userVars
<1>7. ASSUME NEW t \in Threads, StopContext(t) PROVE ContextTypeOK'
  BY <1>7 DEF StopContext
<1>8. ASSUME NEW t \in Threads, Interfere(t) PROVE ContextTypeOK'
  BY <1>8 DEF Interfere, userVars
<1>9. ASSUME NEW t \in Threads, ThrowInPool(t) PROVE ContextTypeOK'
  BY <1>9 DEF ThrowInPool
<1>10. ASSUME NEW u \in Users, Exit(u) PROVE ContextTypeOK'
  BY <1>10 DEF Exit
<1>11. ASSUME NEW u \in Users, ExitStops(u) PROVE ContextTypeOK'
  BY <1>11 DEF ExitStops
<1>12. ASSUME ExitDestroysThreads PROVE ContextTypeOK'
  BY <1>12 DEF ExitDestroysThreads
<1>13. ASSUME UNCHANGED allVars PROVE ContextTypeOK'
  BY <1>13 DEF allVars, userVars
<1> HIDE DEF ContextTypeOK
<1> QED BY <1>1, <1>2, <1>3, <1>4, <1>5, <1>6, <1>7, <1>8, <1>9, <1>10, <1>11, <1>12, <1>13
        DEF ContextNext, Proceed, Demand

(* What the context says of itself, and what its scheduler is proved to    *)
(* keep, holds to the end of the program.                                  *)
THEOREM ContextInvariant == ContextSpec => []ContextInv
<1>1. ContextInit => ContextInv
  BY PoolInit, CountInit DEF ContextInit, ContextInv, ContextTypeOK
<1>2. ContextInv /\ [ContextNext]_allVars => ContextInv'
  <2> SUFFICES ASSUME ContextInv, [ContextNext]_allVars PROVE ContextInv'
    OBVIOUS
  <2>1. ContextTypeOK /\ PoolInv
    BY DEF ContextInv
  <2>2. posted \subseteq Ops
    BY <2>1 DEF PoolInv, PlaceInv, TypeInv, Typed
  <2>3. ContextTypeOK'
    BY <2>1, <2>2, ContextTypeStep
  <2>4. PoolInv'
    BY <2>1, LifeStep, PoolStep
  <2>5. ASSUME fate' = "running" PROVE WorkCounted'
    <3>1. PlaceInv /\ WorkCounted
      BY <2>1, <2>5, NoReturn DEF ContextInv, PoolInv
    <3>2. UNCHANGED vars \/ \E t \in Threads : Works(t) \/ Stop(t)
      BY <2>5, LifeStep
    <3>3. CASE UNCHANGED vars
      <4>1. UNCHANGED countVars
        BY <3>3 DEF vars, countVars, placeVars, privateVars, historyVars
      <4>2. CountedWork' = CountedWork
        BY <4>1 DEF countVars, placeVars, CountedWork, CountedOps, QueuedOps
      <4> QED BY <3>1, <4>1, <4>2, CountSame DEF countVars
    <3> QED BY <3>1, <3>2, <3>3, WorksCounts
  <2> QED BY <2>3, <2>4, <2>5 DEF ContextInv
<1> QED BY <1>1, <1>2, PTL DEF ContextSpec

(* global_impl, system_context, join(): the variables keep their types; in *)
(* particular threads_ only holds threads of the pool.                     *)
THEOREM ContextTyped == ContextSpec => []ContextTypeOK
BY ContextInvariant, PTL DEF ContextInv

-----------------------------------------------------------------------------
(* What the scheduler promises, the pool keeps.                            *)

(* system_context: until the program exits every step of it is one of its  *)
(* scheduler, or leaves the scheduler alone.                               *)
THEOREM PoolUsesScheduler ==
  ContextSpec => [][fate' = "running" => [Next]_vars]_allVars
<1>1. ContextInv /\ [ContextNext]_allVars => [fate' = "running" => [Next]_vars]_allVars
  <2> SUFFICES ASSUME ContextInv, [ContextNext]_allVars, fate' = "running"
               PROVE  [Next]_vars
    OBVIOUS
  <2>1. Typed
    BY DEF ContextInv, PoolInv, PlaceInv, TypeInv
  <2>2. UNCHANGED vars \/ \E t \in Threads : Works(t) \/ Stop(t)
    BY LifeStep
  <2> QED BY <2>1, <2>2, SchedulerStep
<1> QED BY <1>1, ContextInvariant, PTL DEF ContextSpec

(* So in the pool too each function posted is in one place, a stop() - the *)
(* one of the destructor included - reaches every thread, and somebody     *)
(* comes back for what is queued, although one_thread_ suppresses          *)
(* wake-ups.  The work is counted until the program exits.                 *)
THEOREM PoolKeepsPromises ==
  ContextSpec => [](/\ EachOpInOnePlace /\ StopReachesAll /\ SomeoneComesBack
                    /\ fate = "running" => WorkCounted)
<1>1. ContextInv => /\ EachOpInOnePlace /\ StopReachesAll /\ SomeoneComesBack
                    /\ fate = "running" => WorkCounted
  BY PlacesCounted, StopIsSeen, AttendedComesBack DEF ContextInv, PoolInv, AttendInv
<1> QED BY <1>1, ContextInvariant, PTL

(* And system_executor keeps the promise of ExecutorContract, from the     *)
(* first call of global() to the end of the program.                       *)
THEOREM PoolKeepsContract == ContextSpec => ImplementsContract
<1>1. ContextInit => Contract!Init
  BY ContractInit DEF ContextInit
<1>2. ContextInv /\ ContextInv' /\ [ContextNext]_allVars
        => [Contract!Next]_(Contract!vars)
  <2> SUFFICES ASSUME ContextInv, ContextInv', [ContextNext]_allVars
               PROVE  [Contract!Next]_(Contract!vars)
    OBVIOUS
  <2>1. PlaceInv /\ PlaceInv' /\ Typed
    BY DEF ContextInv, PoolInv, PlaceInv, TypeInv
  <2>2. CASE \E u \in Threads : Departs(u)
    <3>1. UNCHANGED statusVars
      BY <2>2 DEF Departs, statusVars
    <3> QED BY <2>1, <3>1, ContractQuiet
  <2>3. CASE UNCHANGED vars \/ \E t \in Threads : Works(t) \/ Stop(t)
    BY <2>1, <2>3, SchedulerStep, ContractStep
  <2> QED BY <2>2, <2>3, LifeStep
<1> QED BY <1>1, <1>2, ContextInvariant, PTL DEF ContextSpec, ImplementsContract, Contract!Spec

-----------------------------------------------------------------------------
(* join().                                                                 *)

(* From when the scheduler is going to stop, without a stop(): the work of *)
(* the context has been given back and whatever was posted before that has *)
(* been run.                                                               *)
JoinInv ==
  /\ destroyed = {} /\ joined \subseteq posted
  /\ StopNear /\ ~stopCalled =>
       guards = {} /\ joined \subseteq started /\ Values(running) \cap joined = {}

(* Apart from stop(), a thread decides to stop when it finds no work.      *)
LEMMA WorksStop ==
  ASSUME Typed, CallsReturn, ~StopNear, NEW t \in Threads, Works(t)
  PROVE  StopNear' => outstanding_work_' = 0
<1> DEFINE goal == StopNear' => outstanding_work_' = 0
<1> USE DEF Typed, CallsReturn, StopNear, Goto, CallStep, CallSteps, ClientSteps,
        HomeSteps, ReturnSteps
<1>1. ASSUME NotifyOne(t) PROVE goal
  <2>1. ret[t] # "stopping" /\ stopped_' = stopped_
    BY <1>1 DEF NotifyOne
  <2> QED BY <1>1, <2>1 DEF NotifyOne
<1>2. ASSUME Wake(t) PROVE goal
  BY <1>2 DEF Wake
<1>3. ASSUME SpuriousWake(t) PROVE goal
  BY <1>3 DEF SpuriousWake
<1>4. ASSUME NEW op \in Ops, NEW c \in BOOLEAN, Post(t, op, c) PROVE goal
  BY <1>4 DEF Post, MayCall
<1>5. ASSUME PostLocked(t) PROVE goal
  BY <1>5 DEF PostLocked, WakeOneThreadAndUnlock, Interrupt
<1>6. ASSUME StopAllThreads(t) PROVE goal
  BY <1>6 DEF StopAllThreads
<1>7. ASSUME NEW unit, GuardFinish(t, unit) PROVE goal
  BY <1>7 DEF GuardFinish, WorkFinished, MayCall
<1>8. ASSUME Run(t) PROVE goal
  BY <1>8 DEF Run
<1>9. ASSUME Lock(t) \/ LeaveRun(t) \/ WaitForWork(t) PROVE goal
  BY <1>9 DEF Lock, LeaveRun, WaitForWork
<1>10. ASSUME TakeTask(t) PROVE goal
  BY <1>10 DEF TakeTask, UnlockAfterPop, UnlockAndSignalOne
<1>11. ASSUME TakeOp(t) PROVE goal
  BY <1>11 DEF TakeOp, UnlockAfterPop, UnlockAndSignalOne
<1>12. ASSUME EpollReturns(t) \/ TaskCleanup(t) PROVE goal
  BY <1>12 DEF EpollReturns, TaskCleanup
<1>13. ASSUME HandlerReturns(t) \/ CountPrivateWork(t) PROVE goal
  BY <1>13 DEF HandlerReturns, CountPrivateWork
<1>14. ASSUME FinishOp(t) PROVE goal
  BY <1>14 DEF FinishOp, WorkFinished
<1>15. ASSUME FlushPrivateQueue(t) PROVE goal
  BY <1>15 DEF FlushPrivateQueue
<1> HIDE DEF goal
<1>16. goal
  BY <1>1, <1>2, <1>3, <1>4, <1>5, <1>6, <1>7, <1>8, <1>9, <1>10, <1>11, <1>12,
     <1>13, <1>14, <1>15 DEF Works, Continue
<1> QED BY <1>16 DEF goal

(* No step unposts or unstarts an operation, or takes a guard; and what a  *)
(* thread begins to run was queued.                                        *)
LEMMA WorksGrow ==
  ASSUME Typed, NEW t \in Threads, Works(t) \/ Stop(t)
  PROVE  /\ destroyed' = destroyed /\ guards' \subseteq guards
         /\ posted \subseteq posted' /\ started \subseteq started'
         /\ Values(running') \subseteq Values(running) \cup QueuedOps
<1> DEFINE goal == /\ destroyed' = destroyed /\ guards' \subseteq guards
                   /\ posted \subseteq posted' /\ started \subseteq started'
                   /\ Values(running') \subseteq Values(running) \cup QueuedOps
<1> USE DEF historyVars
<1>1. ASSUME UNCHANGED <<historyVars, running>> PROVE goal
  BY <1>1 DEF historyVars
<1>2. ASSUME NEW op \in Ops, NEW c \in BOOLEAN, Post(t, op, c) PROVE goal
  BY <1>2 DEF Post
<1>3. ASSUME NEW unit, GuardFinish(t, unit) PROVE goal
  BY <1>3 DEF GuardFinish
<1>4. ASSUME TakeOp(t) PROVE goal
  <2> DEFINE op == Head(op_queue_)
  <2>1. /\ op_queue_ \in Seq(Ops \cup {TaskOp}) /\ op_queue_ # <<>> /\ op # TaskOp
        /\ running' = [running EXCEPT ![t] = op] /\ started' = started \cup {op}
        /\ UNCHANGED <<guards, posted, destroyed>>
    BY <1>4 DEF TakeOp, Typed
  <2>2. op \in QueuedOps
    BY <2>1, TailQueue DEF QueuedOps
  <2> HIDE DEF op
  <2>3. Values(running') \subseteq Values(running) \cup {op}
    BY <2>1 DEF Values, Typed
  <2> QED BY <2>1, <2>2, <2>3
<1>5. ASSUME FinishOp(t) PROVE goal
  <2>1. Values(running') \subseteq Values(running)
    BY <1>5 DEF FinishOp, Values, Typed
  <2> QED BY <1>5, <2>1 DEF FinishOp
<1>6. ASSUME FlushPrivateQueue(t) PROVE goal
  BY <1>6 DEF FlushPrivateQueue
<1> HIDE DEF goal
<1>7. NotifyOne(t) \/ Wake(t) \/ PostLocked(t) \/ StopAllThreads(t)
        => UNCHANGED <<historyVars, running>>
  BY DEF NotifyOne, Wake, PostLocked, StopAllThreads
<1>8. Lock(t) \/ LeaveRun(t) \/ WaitForWork(t) \/ TakeTask(t) \/ EpollReturns(t)
        => UNCHANGED <<historyVars, running>>
  BY DEF Lock, LeaveRun, WaitForWork, TakeTask, EpollReturns
<1>9. TaskCleanup(t) \/ HandlerReturns(t) \/ CountPrivateWork(t) \/ Run(t) \/ Stop(t)
        \/ SpuriousWake(t) => UNCHANGED <<historyVars, running>>
  BY DEF TaskCleanup, HandlerReturns, CountPrivateWork, Run, Stop, SpuriousWake
<1>10. goal
  BY <1>1, <1>2, <1>3, <1>4, <1>5, <1>6, <1>7, <1>8, <1>9 DEF Works, Continue
<1> QED BY <1>10 DEF goal

(* Without work, whatever was posted has been run.                         *)
NoWork == WorkInv /\ outstanding_work_ = 0
AllRun == /\ guards = {} /\ Values(running) = {}
          /\ posted \subseteq started \cup destroyed

LEMMA NoWorkAllRun == NoWork => AllRun
<1> SUFFICES ASSUME WorkInv, outstanding_work_ = 0 PROVE AllRun
  BY DEF NoWork
<1>1. Typed /\ OpPlaces /\ WorkCounted
  BY DEF WorkInv, PlaceInv, TypeInv
<1>2. HeapWork = 0
  BY <1>1, CountedFinite, CountedWorkIs, ConstantsAssumption
<1>3. guards = {} /\ CountedOps = {} /\ \A t \in Threads : private_op_queue[t] = <<>>
  BY <1>2, NoWorkLeft
<1>4. QueuedOps = {} /\ Values(posting) = {} /\ Values(running) = {}
  BY <1>3 DEF CountedOps
<1>5. InAny(private_op_queue) = {}
  BY <1>3, EmptyQueue DEF InAny
<1> QED BY <1>1, <1>3, <1>4, <1>5 DEF AllRun, OpPlaces, Apart

(* The same in the next state.                                             *)
LEMMA NoWorkAllRunNext == NoWork' => AllRun'
BY NoWorkAllRun, PTL

(* Once it is near, the stop finds everything run that was joined.         *)
LEMMA JoinStep ==
  ASSUME PoolInv, WorkInv', JoinInv, [ContextNext]_allVars, fate' = "running"
  PROVE  JoinInv'
<1>1. /\ Typed /\ CallsReturn /\ OpPlaces
  BY DEF PoolInv, PlaceInv, TypeInv
<1>2. /\ \/ UNCHANGED vars
         \/ \E t \in Threads : Works(t)
         \/ stopCalled' /\ \E t \in Threads : Stop(t)
      /\ Joined
      /\ stopCalled => stopCalled'
  BY LifeStep
<1>3. /\ destroyed' = destroyed /\ guards' \subseteq guards
      /\ posted \subseteq posted' /\ started \subseteq started'
      /\ Values(running') \subseteq Values(running) \cup QueuedOps
  <2>1. CASE UNCHANGED vars
    BY <2>1 DEF vars, historyVars, Values
  <2> QED BY <1>1, <1>2, <2>1, WorksGrow
<1>4. destroyed' = {} /\ joined' \subseteq posted'
  BY <1>2, <1>3 DEF JoinInv, Joined
<1>5. ASSUME StopNear', ~stopCalled', StopNear
      PROVE  /\ guards' = {} /\ joined' \subseteq started'
             /\ Values(running') \cap joined' = {}
  <2>1. /\ guards = {} /\ joined \subseteq started /\ Values(running) \cap joined = {}
    BY <1>2, <1>5 DEF JoinInv
  <2>2. joined' = joined
    BY <1>2, <2>1 DEF Joined
  <2>3. QueuedOps \cap started = {}
    BY <1>1 DEF OpPlaces, Apart
  <2> QED BY <1>3, <2>1, <2>2, <2>3
<1>6. ASSUME StopNear', ~stopCalled', ~StopNear
      PROVE  /\ guards' = {} /\ joined' \subseteq started'
             /\ Values(running') \cap joined' = {}
  <2>1. ~UNCHANGED vars
    BY <1>6 DEF vars, StopNear
  <2>2. outstanding_work_' = 0
    BY <1>1, <1>2, <1>6, <2>1, WorksStop
  <2>3. AllRun'
    BY <2>2, NoWorkAllRunNext DEF NoWork
  <2>4. posted' \subseteq started'
    BY <1>4, <2>3 DEF AllRun
  <2>5. guards' = {} /\ Values(running') = {}
    BY <2>3 DEF AllRun, Values
  <2> QED BY <1>4, <2>4, <2>5
<1> QED BY <1>4, <1>5, <1>6 DEF JoinInv

(* join() gives back the work of the context and waits for nobody; but,    *)
(* unless stop() is called or the program exits, the scheduler stops only  *)
(* when every function posted before the join has returned.  A scheduler   *)
(* whose uninitialised stopped_ is set from the start never runs anything. *)
THEOREM JoinLetsFinish == ASSUME HeapBools = {FALSE} PROVE ContextSpec => []JoinDrains
<1> DEFINE Inv == fate = "running" => JoinInv
<1>1. ContextInit => Inv
  BY DEF ContextInit, Init, JoinInv, StopNear
<1>2. ContextInv /\ ContextInv' /\ Inv /\ [ContextNext]_allVars => Inv'
  BY JoinStep, NoReturn DEF ContextInv, PoolInv, WorkInv
<1>3. ContextInv /\ Inv => JoinDrains
  <2> SUFFICES ASSUME ContextInv, Inv, fate = "running", stopped_, ~stopCalled
               PROVE  /\ guards = {} /\ joined \subseteq started
                      /\ \A t \in Threads : running[t] \notin joined
    BY DEF JoinDrains
  <2>1. /\ guards = {} /\ joined \subseteq started /\ Values(running) \cap joined = {}
    BY DEF JoinInv, StopNear
  <2>2. NoOp \notin joined
    BY ConstantsAssumption DEF ContextInv, ContextTypeOK
  <2> QED BY <2>1, <2>2 DEF Values
<1> HIDE DEF Inv
<1> QED BY <1>1, <1>2, <1>3, ContextInvariant, PTL DEF ContextSpec

=============================================================================
