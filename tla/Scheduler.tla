------------------------------ MODULE Scheduler ------------------------------
(***************************************************************************)
(* boost::asio::detail::scheduler (scheduler.cc, scheduler.hpp) with the   *)
(* event it sleeps on (event.hpp), its operation queues (op_queue.hpp) and *)
(* the per-thread state of the threads inside run()                        *)
(* (scheduler_thread_info.hpp).                                            *)
(*                                                                         *)
(* Every thread is either a client of the scheduler (it has not entered    *)
(* run(), or has left it) or a worker inside run().  A step is one         *)
(* critical section of mutex_, one access to the atomic outstanding_work_, *)
(* one notification or one system call.  The mutex is explicit because     *)
(* do_run_one is entered, and its loop repeated, with the mutex held.      *)
(*                                                                         *)
(* The reactor is the scheduler's task.  Here it has no descriptor         *)
(* registered, which is how main.cc uses it: epoll_wait reports the        *)
(* interrupter and nothing else.                                           *)
(***************************************************************************)
EXTENDS Integers, Sequences, FiniteSets, Functions

CONSTANTS
  Threads,       (* threads that post, stop and run                          *)
  Ops,           (* operations; each one is allocated, posted and run once   *)
  Guards,        (* executor_work_guard objects                              *)
  TaskOp,        (* &task_operation_, the reactor's place in op_queue_       *)
  NoOp,          (* the null operation pointer                               *)
  NoThread,      (* mutex_ is not locked                                     *)
  OneThread,     (* one_thread_: concurrency_hint == 1                       *)
  ClientCalls,   (* what a thread may call outside run() ...                 *)
  HandlerCalls,  (* ... and from a handler                                   *)
  Guarded,       (* clients only post or copy a guard while one is alive     *)
  Signals,       (* epoll_wait may fail with EINTR                           *)
  HeapBools,     (* what the uninitialised bool members may hold             *)
  HeapWork       (* what the uninitialised outstanding_work_ holds           *)

Calls == {"post", "defer", "stop", "restart", "init_task", "guard", "reset",
          "throw", "shutdown"}

ASSUME ConstantsAssumption ==
  /\ IsFiniteSet(Threads) /\ IsFiniteSet(Ops) /\ IsFiniteSet(Guards)
  /\ Ops \cap Guards = {}
  /\ TaskOp \notin Ops /\ NoOp \notin Ops /\ NoThread \notin Threads
  /\ OneThread \in BOOLEAN /\ Guarded \in BOOLEAN /\ Signals \in BOOLEAN
  /\ ClientCalls \subseteq Calls /\ HandlerCalls \subseteq Calls
  /\ HeapBools \subseteq BOOLEAN /\ HeapBools # {}
  /\ HeapWork \in Nat

VARIABLES
  (* scheduler *)
  mutex_,              (* the thread that owns it, or NoThread               *)
  task_,               (* whether task_ points to the reactor                *)
  task_interrupted_,
  outstanding_work_,
  op_queue_,
  stopped_,
  shutdown_,
  (* event wakeup_event_: bit 0 of state_, and state_ >> 1                   *)
  signalled,
  waiters,
  (* the interrupter's eventfd has an edge epoll_wait has not reported       *)
  edge,
  (* scheduler_thread_info, one per thread inside run()                      *)
  private_op_queue,
  private_outstanding_work,
  (* threads: the next step, where it returns to, and its operations         *)
  pc,
  ret,
  posting,             (* argument of the post in progress                   *)
  running,             (* the operation being completed                      *)
  (* history *)
  guards,              (* work guards that own work                          *)
  posted,              (* operations allocated by a post                     *)
  started,             (* operations whose complete() has been called        *)
  destroyed,           (* operations destroyed by shutdown()                 *)
  unwound              (* an exception has left run()                        *)

eventVars   == <<signalled, waiters>>
privateVars == <<private_op_queue, private_outstanding_work>>
historyVars == <<guards, posted, started, destroyed, unwound>>
vars == <<mutex_, task_, task_interrupted_, outstanding_work_, op_queue_,
          stopped_, shutdown_, eventVars, edge, privateVars, pc, ret, posting,
          running, historyVars>>

-----------------------------------------------------------------------------
(* The steps of a thread.  "outside" is a client that never entered run(), *)
(* "returned" one that left it; "lock" is about to take the mutex for the  *)
(* loop of do_run_one and "loop" is at its head, holding it.               *)
ClientSteps  == {"outside", "returned"}
HomeSteps    == ClientSteps \cup {"handler"}
TaskSteps    == {"poll", "block", "task_done"}
CallSteps    == {"posting", "notify", "stopping"}
CleanupSteps == {"cleanup", "finish", "flush"}
Steps == HomeSteps \cup TaskSteps \cup CallSteps \cup CleanupSteps
           \cup {"lock", "loop", "asleep", "woken", "gone"}
ReturnSteps == HomeSteps \cup {"none", "poll", "flush", "lock"}

(* thread_call_stack::contains(this): the thread is inside run().          *)
InRun(t) == /\ pc[t] \notin ClientSteps \cup {"gone"}
            /\ pc[t] \in CallSteps => ret[t] \notin ClientSteps

Goto(t, step) == pc' = [pc EXCEPT ![t] = step]

(* Leave for step s, to come back to r.                                    *)
CallStep(t, s, r) == Goto(t, s) /\ ret' = [ret EXCEPT ![t] = r]

MayCall(t, call) == \/ pc[t] \in ClientSteps /\ call \in ClientCalls
                    \/ pc[t] = "handler" /\ call \in HandlerCalls

(* Clients outside run() that keep the discipline of main.cc.              *)
Covered(t) == (Guarded /\ pc[t] \in ClientSteps) => guards # {}

-----------------------------------------------------------------------------
(* event.hpp.  have_waiters is (state_ > 1) after bit 0 was set.           *)

(* unlock_and_signal_one: set bit 0, unlock, and notify if there are       *)
(* waiters; the caller then continues at step next.                        *)
UnlockAndSignalOne(t, next) ==
  /\ signalled' = TRUE
  /\ mutex_' = NoThread
  /\ IF waiters > 0 THEN CallStep(t, "notify", next)
                    ELSE Goto(t, next) /\ ret' = [ret EXCEPT ![t] = "none"]
  /\ UNCHANGED waiters

(* cond_.notify_one(), after the unlock: it wakes some sleeping thread, or *)
(* nobody when every waiter has been woken already.                        *)
NotifyOne(t) ==
  /\ pc[t] = "notify"
  /\ LET asleep == {s \in Threads : pc[s] = "asleep"}
     IN \/ /\ asleep = {}
           /\ Goto(t, ret[t])
        \/ \E s \in asleep : pc' = [pc EXCEPT ![s] = "woken", ![t] = ret[t]]
  /\ ret' = [ret EXCEPT ![t] = "none"]
  /\ UNCHANGED <<mutex_, task_, task_interrupted_, outstanding_work_,
                 op_queue_, stopped_, shutdown_, eventVars, edge, privateVars,
                 posting, running, historyVars>>

(* Variant: the waiter is taken off before bit 0 is looked at.             *)
WakeUnregistered(t) ==
  /\ pc[t] = "woken"
  /\ mutex_ = NoThread
  /\ waiters' = waiters - 1
  /\ IF signalled THEN Goto(t, "loop") /\ mutex_' = t
                  ELSE Goto(t, "asleep") /\ UNCHANGED mutex_
  /\ UNCHANGED <<task_, task_interrupted_, outstanding_work_, op_queue_,
                 stopped_, shutdown_, signalled, edge, privateVars, ret,
                 posting, running, historyVars>>

(* A thread leaves cond_.wait: event::wait goes on while bit 0 is clear.   *)
Wake(t) ==
  /\ pc[t] = "woken"
  /\ mutex_ = NoThread
  /\ IF signalled
     THEN /\ Goto(t, "loop")
          /\ mutex_' = t
          /\ waiters' = waiters - 1
     ELSE /\ Goto(t, "asleep")
          /\ UNCHANGED <<mutex_, waiters>>
  /\ UNCHANGED <<task_, task_interrupted_, outstanding_work_, op_queue_,
                 stopped_, shutdown_, signalled, edge, privateVars, ret,
                 posting, running, historyVars>>

(* std::condition_variable may wake a waiter for no reason.                *)
SpuriousWake(t) ==
  /\ pc[t] = "asleep"
  /\ Goto(t, "woken")
  /\ UNCHANGED <<mutex_, task_, task_interrupted_, outstanding_work_,
                 op_queue_, stopped_, shutdown_, eventVars, edge, privateVars,
                 ret, posting, running, historyVars>>

-----------------------------------------------------------------------------
(* Queueing an operation.                                                  *)

(* epoll_reactor::interrupt: epoll_ctl(MOD) on the eventfd, which stays    *)
(* readable from its construction on, arms a new edge.                     *)
Interrupt == edge' = TRUE

(* Variant: the reactor is not interrupted.                                *)
WakeWaiterOnly(t, hasTask, next) ==
  /\ signalled' = TRUE
  /\ IF waiters > 0 THEN CallStep(t, "notify", next)
                    ELSE Goto(t, next) /\ ret' = [ret EXCEPT ![t] = "none"]
  /\ UNCHANGED <<mutex_, waiters, task_interrupted_, edge>>

(* Variant: maybe_unlock_and_signal_one notifies without setting bit 0.    *)
WakeUnsignalled(t, hasTask, next) ==
  /\ IF waiters > 0
     THEN /\ CallStep(t, "notify", next)
          /\ UNCHANGED <<task_interrupted_, edge>>
     ELSE /\ Goto(t, next)
          /\ ret' = [ret EXCEPT ![t] = "none"]
          /\ IF hasTask
             THEN task_interrupted_' = TRUE /\ Interrupt
             ELSE UNCHANGED <<task_interrupted_, edge>>
  /\ UNCHANGED <<mutex_, eventVars>>

(* wake_one_thread_and_unlock.  &task_interrupted_ is an address and never *)
(* null, so the reactor is interrupted whenever there is one.              *)
WakeOneThreadAndUnlock(t, hasTask, next) ==
  /\ signalled' = TRUE
  /\ IF waiters > 0
     THEN /\ CallStep(t, "notify", next)
          /\ UNCHANGED <<task_interrupted_, edge>>
     ELSE /\ Goto(t, next)
          /\ ret' = [ret EXCEPT ![t] = "none"]
          /\ IF hasTask
             THEN task_interrupted_' = TRUE /\ Interrupt
             ELSE UNCHANGED <<task_interrupted_, edge>>
  /\ UNCHANGED <<mutex_, waiters>>

(* post_immediate_completion of a freshly allocated operation: posted by   *)
(* executor_type::post (is_continuation FALSE) or defer (TRUE).  Inside    *)
(* run() a continuation, and with one_thread_ every operation, goes to the *)
(* private queue of the thread; otherwise the work is counted first and    *)
(* the operation queued in a critical section of its own.                  *)
Post(t, op, is_continuation) ==
  /\ MayCall(t, IF is_continuation THEN "defer" ELSE "post")
  /\ Covered(t)
  /\ op \in Ops \ posted
  /\ posted' = posted \cup {op}
  /\ IF InRun(t) /\ (OneThread \/ is_continuation)
     THEN /\ private_outstanding_work' =
               [private_outstanding_work EXCEPT ![t] = @ + 1]
          /\ private_op_queue' =
               [private_op_queue EXCEPT ![t] = Append(@, op)]
          /\ UNCHANGED <<outstanding_work_, pc, ret, posting>>
     ELSE /\ outstanding_work_' = outstanding_work_ + 1
          /\ posting' = [posting EXCEPT ![t] = op]
          /\ CallStep(t, "posting", pc[t])
          /\ UNCHANGED privateVars
  /\ UNCHANGED <<mutex_, task_, task_interrupted_, op_queue_, stopped_,
                 shutdown_, eventVars, edge, running, guards, started,
                 destroyed, unwound>>

PostLocked(t) ==
  /\ pc[t] = "posting"
  /\ mutex_ = NoThread
  /\ op_queue_' = Append(op_queue_, posting[t])
  /\ posting' = [posting EXCEPT ![t] = NoOp]
  /\ WakeOneThreadAndUnlock(t, task_, ret[t])
  /\ UNCHANGED <<task_, outstanding_work_, stopped_, shutdown_, privateVars,
                 running, historyVars>>

(* Variant: every call queues the task.                                    *)
InitTaskAgain(t) ==
  /\ MayCall(t, "init_task")
  /\ mutex_ = NoThread
  /\ ~shutdown_
  /\ task_' = TRUE
  /\ op_queue_' = Append(op_queue_, TaskOp)
  /\ WakeOneThreadAndUnlock(t, TRUE, pc[t])
  /\ UNCHANGED <<outstanding_work_, stopped_, shutdown_, privateVars,
                 posting, running, historyVars>>

(* init_task: the first call queues the task.                              *)
InitTask(t) ==
  /\ MayCall(t, "init_task")
  /\ mutex_ = NoThread
  /\ ~shutdown_ /\ ~task_
  /\ task_' = TRUE
  /\ op_queue_' = Append(op_queue_, TaskOp)
  /\ WakeOneThreadAndUnlock(t, TRUE, pc[t])
  /\ UNCHANGED <<outstanding_work_, stopped_, shutdown_, privateVars,
                 posting, running, historyVars>>

-----------------------------------------------------------------------------
(* Stopping.                                                               *)

Stop(t) ==
  /\ MayCall(t, "stop")
  /\ CallStep(t, "stopping", pc[t])
  /\ UNCHANGED <<mutex_, task_, task_interrupted_, outstanding_work_,
                 op_queue_, stopped_, shutdown_, eventVars, edge, privateVars,
                 posting, running, historyVars>>

(* Variant: one waiter is notified.                                        *)
SignalOne(t) ==
  /\ signalled' = TRUE
  /\ LET asleep == {s \in Threads : pc[s] = "asleep"}
     IN IF asleep = {} THEN Goto(t, ret[t])
        ELSE \E s \in asleep : pc' = [pc EXCEPT ![s] = "woken", ![t] = ret[t]]

(* event::signal_all: set bit 0 and notify every waiter.                   *)
SignalAll(t) ==
  /\ signalled' = TRUE
  /\ pc' = [s \in Threads |-> IF s = t THEN ret[t]
                              ELSE IF pc[s] = "asleep" THEN "woken"
                              ELSE pc[s]]

(* Variant: the test of task_interrupted_ is inverted.                     *)
InterruptTaskAgain ==
  IF task_interrupted_ /\ task_ THEN Interrupt /\ UNCHANGED task_interrupted_
                               ELSE UNCHANGED <<task_interrupted_, edge>>

InterruptTaskOnStop ==
  IF ~task_interrupted_ /\ task_
  THEN task_interrupted_' = TRUE /\ Interrupt
  ELSE UNCHANGED <<task_interrupted_, edge>>

(* The critical section of stop(): stop_all_threads.                       *)
StopAllThreads(t) ==
  /\ pc[t] = "stopping"
  /\ mutex_ = NoThread
  /\ stopped_' = TRUE
  /\ SignalAll(t)
  /\ ret' = [ret EXCEPT ![t] = "none"]
  /\ InterruptTaskOnStop
  /\ UNCHANGED <<mutex_, task_, outstanding_work_, op_queue_, shutdown_,
                 waiters, privateVars, posting, running, historyVars>>

(* restart(); it changes nothing unless the scheduler is stopped.          *)
Restart(t) ==
  /\ MayCall(t, "restart")
  /\ mutex_ = NoThread
  /\ stopped_
  /\ stopped_' = FALSE
  /\ UNCHANGED <<mutex_, task_, task_interrupted_, outstanding_work_,
                 op_queue_, shutdown_, eventVars, edge, privateVars, pc, ret,
                 posting, running, historyVars>>

(* shutdown(), from ~execution_context when no thread uses the context any *)
(* more: the queued operations are destroyed, not run.                     *)
Shutdown(t) ==
  /\ MayCall(t, "shutdown")
  /\ \A s \in Threads : pc[s] \in ClientSteps
  /\ shutdown_' = TRUE
  /\ destroyed' = destroyed \cup (Range(op_queue_) \ {TaskOp})
  /\ op_queue_' = <<>>
  /\ task_' = FALSE
  /\ pc' = [s \in Threads |-> "gone"]
  /\ UNCHANGED <<mutex_, task_interrupted_, outstanding_work_, stopped_,
                 eventVars, edge, privateVars, ret, posting, running, guards,
                 posted, started, unwound>>

(* work_started() of a copied work guard.                                  *)
GuardStart(t, g) ==
  /\ MayCall(t, "guard")
  /\ Covered(t)
  /\ g \in Guards \ guards
  /\ guards' = guards \cup {g}
  /\ outstanding_work_' = outstanding_work_ + 1
  /\ UNCHANGED <<mutex_, task_, task_interrupted_, op_queue_, stopped_,
                 shutdown_, eventVars, edge, privateVars, pc, ret, posting,
                 running, posted, started, destroyed, unwound>>

(* Variant: the last unit of work is given back in silence.                *)
WorkFinishedInSilence(t, next) ==
  /\ outstanding_work_' = outstanding_work_ - 1
  /\ Goto(t, next) /\ ret' = [ret EXCEPT ![t] = "none"]

(* work_finished(): the last unit of work stops the scheduler, in a        *)
(* critical section that comes later.                                      *)
WorkFinished(t, next) ==
  /\ outstanding_work_' = outstanding_work_ - 1
  /\ IF outstanding_work_' = 0
     THEN CallStep(t, "stopping", next)
     ELSE Goto(t, next) /\ ret' = [ret EXCEPT ![t] = "none"]

(* ~executor_work_guard.                                                   *)
GuardFinish(t, g) ==
  /\ MayCall(t, "guard")
  /\ g \in guards
  /\ guards' = guards \ {g}
  /\ WorkFinished(t, pc[t])
  /\ UNCHANGED <<mutex_, task_, task_interrupted_, op_queue_, stopped_,
                 shutdown_, eventVars, edge, privateVars, posting, running,
                 posted, started, destroyed, unwound>>

(* executor_work_guard::reset leaves owns_ set, so the guard finishes its  *)
(* work again later.  MinWork bounds how far below zero that goes here.    *)
MinWork == -2
GuardReset(t, g) ==
  /\ MayCall(t, "reset")
  /\ g \in guards
  /\ outstanding_work_ > MinWork
  /\ WorkFinished(t, pc[t])
  /\ UNCHANGED <<mutex_, task_, task_interrupted_, op_queue_, stopped_,
                 shutdown_, eventVars, edge, privateVars, posting, running,
                 historyVars>>

-----------------------------------------------------------------------------
(* Running.                                                                *)

(* run(): without outstanding work it stops the scheduler and returns 0.   *)
(* A thread that left run() only comes back after a restart, if at all.    *)
Run(t) ==
  /\ \/ pc[t] = "outside"
     \/ pc[t] = "returned" /\ "restart" \in ClientCalls
  /\ IF outstanding_work_ = 0 THEN CallStep(t, "stopping", "returned")
                              ELSE Goto(t, "lock") /\ UNCHANGED ret
  /\ UNCHANGED <<mutex_, task_, task_interrupted_, outstanding_work_,
                 op_queue_, stopped_, shutdown_, eventVars, edge, privateVars,
                 posting, running, historyVars>>

Lock(t) ==
  /\ pc[t] = "lock"
  /\ mutex_ = NoThread
  /\ mutex_' = t
  /\ Goto(t, "loop")
  /\ UNCHANGED <<task_, task_interrupted_, outstanding_work_, op_queue_,
                 stopped_, shutdown_, eventVars, edge, privateVars, ret,
                 posting, running, historyVars>>

(* do_run_one: its loop ends when the scheduler is stopped, and so does    *)
(* run(), which releases the mutex.                                        *)
LeaveRun(t) ==
  /\ pc[t] = "loop"
  /\ stopped_
  /\ mutex_' = NoThread
  /\ Goto(t, "returned")
  /\ UNCHANGED <<task_, task_interrupted_, outstanding_work_, op_queue_,
                 stopped_, shutdown_, eventVars, edge, privateVars, ret,
                 posting, running, historyVars>>

(* do_run_one with an empty queue: clear bit 0 and wait.                   *)
WaitForWork(t) ==
  /\ pc[t] = "loop"
  /\ ~stopped_
  /\ op_queue_ = <<>>
  /\ signalled' = FALSE
  /\ waiters' = waiters + 1
  /\ mutex_' = NoThread
  /\ Goto(t, "asleep")
  /\ UNCHANGED <<task_, task_interrupted_, outstanding_work_, op_queue_,
                 stopped_, shutdown_, edge, privateVars, ret, posting,
                 running, historyVars>>

(* Release the mutex after a pop, waking another thread for the rest of    *)
(* the queue unless the scheduler was told there is only one.              *)
UnlockAfterPop(t, more_handlers, next) ==
  IF more_handlers /\ ~OneThread
  THEN UnlockAndSignalOne(t, next)
  ELSE /\ mutex_' = NoThread
       /\ Goto(t, next)
       /\ UNCHANGED <<ret, eventVars>>

(* do_run_one pops the task: run it without blocking if there is more to   *)
(* do, otherwise until an event or an interrupt.                           *)
TakeTask(t) ==
  /\ pc[t] = "loop"
  /\ ~stopped_
  /\ op_queue_ # <<>> /\ Head(op_queue_) = TaskOp
  /\ op_queue_' = Tail(op_queue_)
  /\ LET more_handlers == op_queue_' # <<>>
     IN /\ task_interrupted_' = more_handlers
        /\ UnlockAfterPop(t, more_handlers,
                          IF more_handlers THEN "poll" ELSE "block")
  /\ UNCHANGED <<task_, outstanding_work_, stopped_, shutdown_, edge,
                 privateVars, posting, running, historyVars>>

(* Variant: stopped_ is not looked at again before a pop.                  *)
TakeOpUnchecked(t) ==
  /\ pc[t] = "loop"
  /\ op_queue_ # <<>> /\ Head(op_queue_) # TaskOp
  /\ op_queue_' = Tail(op_queue_)
  /\ running' = [running EXCEPT ![t] = Head(op_queue_)]
  /\ started' = started \cup {Head(op_queue_)}
  /\ UnlockAfterPop(t, op_queue_' # <<>>, "handler")
  /\ UNCHANGED <<task_, task_interrupted_, outstanding_work_, stopped_,
                 shutdown_, edge, privateVars, posting, guards, posted,
                 destroyed, unwound>>

(* do_run_one pops an operation and completes it with the mutex released.  *)
TakeOp(t) ==
  /\ pc[t] = "loop"
  /\ ~stopped_
  /\ op_queue_ # <<>> /\ Head(op_queue_) # TaskOp
  /\ op_queue_' = Tail(op_queue_)
  /\ running' = [running EXCEPT ![t] = Head(op_queue_)]
  /\ started' = started \cup {Head(op_queue_)}
  /\ UnlockAfterPop(t, op_queue_' # <<>>, "handler")
  /\ UNCHANGED <<task_, task_interrupted_, outstanding_work_, stopped_,
                 shutdown_, edge, privateVars, posting, guards, posted,
                 destroyed, unwound>>

-----------------------------------------------------------------------------
(* The task.  epoll_reactor::run drains what epoll_wait reports.           *)

(* epoll_wait returns at once, or when the interrupter's edge is armed.    *)
EpollReturns(t) ==
  /\ \/ pc[t] = "poll"
     \/ pc[t] = "block" /\ edge
  /\ edge' = FALSE
  /\ Goto(t, "task_done")
  /\ UNCHANGED <<mutex_, task_, task_interrupted_, outstanding_work_,
                 op_queue_, stopped_, shutdown_, eventVars, privateVars, ret,
                 posting, running, historyVars>>

(* A signal ends epoll_wait: the loop over -1 events does nothing.         *)
EpollInterruptedBySignal(t) ==
  /\ Signals
  /\ pc[t] = "block"
  /\ Goto(t, "task_done")
  /\ UNCHANGED <<mutex_, task_, task_interrupted_, outstanding_work_,
                 op_queue_, stopped_, shutdown_, eventVars, edge, privateVars,
                 ret, posting, running, historyVars>>

(* ~task_cleanup; the loop of do_run_one goes on with the mutex held.      *)
TaskCleanup(t) ==
  /\ pc[t] = "task_done"
  /\ mutex_ = NoThread
  /\ mutex_' = t
  /\ outstanding_work_' = outstanding_work_ + private_outstanding_work[t]
  /\ op_queue_' = Append(op_queue_ \o private_op_queue[t], TaskOp)
  /\ private_outstanding_work' = [private_outstanding_work EXCEPT ![t] = 0]
  /\ private_op_queue' = [private_op_queue EXCEPT ![t] = <<>>]
  /\ task_interrupted_' = TRUE
  /\ Goto(t, "loop")
  /\ UNCHANGED <<task_, stopped_, shutdown_, eventVars, edge, ret, posting,
                 running, historyVars>>

-----------------------------------------------------------------------------
(* Handlers.                                                               *)

(* Variant: the handler's own work is given back before the private work   *)
(* is counted.                                                             *)
HandlerReturnsUncounted(t) ==
  /\ pc[t] = "handler"
  /\ CallStep(t, "finish", "lock")
  /\ UNCHANGED <<mutex_, task_, task_interrupted_, outstanding_work_,
                 op_queue_, stopped_, shutdown_, eventVars, edge, privateVars,
                 posting, running, historyVars>>

HandlerReturns(t) ==
  /\ pc[t] = "handler"
  /\ CallStep(t, "cleanup", "lock")
  /\ UNCHANGED <<mutex_, task_, task_interrupted_, outstanding_work_,
                 op_queue_, stopped_, shutdown_, eventVars, edge, privateVars,
                 posting, running, historyVars>>

(* An exception from a handler leaves run() through ~work_cleanup.         *)
HandlerThrows(t) ==
  /\ pc[t] = "handler" /\ MayCall(t, "throw")
  /\ CallStep(t, "cleanup", "returned")
  /\ unwound' = TRUE
  /\ UNCHANGED <<mutex_, task_, task_interrupted_, outstanding_work_,
                 op_queue_, stopped_, shutdown_, eventVars, edge, privateVars,
                 posting, running, guards, posted, started, destroyed>>

(* ~work_cleanup: first the work of the private queue is counted ...       *)
CountPrivateWork(t) ==
  /\ pc[t] = "cleanup"
  /\ outstanding_work_' = outstanding_work_ + private_outstanding_work[t]
  /\ private_outstanding_work' = [private_outstanding_work EXCEPT ![t] = 0]
  /\ Goto(t, "finish")
  /\ UNCHANGED <<mutex_, task_, task_interrupted_, op_queue_, stopped_,
                 shutdown_, eventVars, edge, private_op_queue, ret, posting,
                 running, historyVars>>

(* ... then the work of the operation itself is given back ...             *)
FinishOp(t) ==
  /\ pc[t] = "finish"
  /\ running' = [running EXCEPT ![t] = NoOp]
  /\ WorkFinished(t, IF private_op_queue[t] # <<>> THEN "flush" ELSE ret[t])
  /\ UNCHANGED <<mutex_, task_, task_interrupted_, op_queue_, stopped_,
                 shutdown_, eventVars, edge, privateVars, posting, historyVars>>

(* Variant: the private queue is copied, not spliced.                      *)
CopyPrivateQueue(t) ==
  /\ pc[t] = "flush"
  /\ mutex_ = NoThread
  /\ op_queue_' = op_queue_ \o private_op_queue[t]
  /\ unwound' = TRUE
  /\ Goto(t, "returned")
  /\ UNCHANGED <<mutex_, task_, task_interrupted_, outstanding_work_,
                 stopped_, shutdown_, eventVars, edge, privateVars, ret,
                 posting, running, guards, posted, started, destroyed>>

(* ... and a non-empty private queue is spliced into op_queue_.  That      *)
(* leaves the mutex locked, and run() locks it again: unique_lock::lock    *)
(* throws resource_deadlock_would_occur and the exception leaves run(),    *)
(* which unlocks the mutex without having woken anybody.                   *)
FlushPrivateQueue(t) ==
  /\ pc[t] = "flush"
  /\ mutex_ = NoThread
  /\ op_queue_' = op_queue_ \o private_op_queue[t]
  /\ private_op_queue' = [private_op_queue EXCEPT ![t] = <<>>]
  /\ unwound' = TRUE
  /\ Goto(t, "returned")
  /\ UNCHANGED <<mutex_, task_, task_interrupted_, outstanding_work_,
                 stopped_, shutdown_, eventVars, edge,
                 private_outstanding_work, ret, posting, running, guards,
                 posted, started, destroyed>>

-----------------------------------------------------------------------------
Init ==
  /\ mutex_ = NoThread
  /\ task_ = FALSE
  /\ task_interrupted_ \in HeapBools
  /\ stopped_ \in HeapBools
  /\ shutdown_ \in HeapBools
  /\ outstanding_work_ = HeapWork + Cardinality(Guards)
  /\ op_queue_ = <<>>
  /\ signalled = FALSE
  /\ waiters = 0
  /\ edge = TRUE
  /\ private_op_queue = [t \in Threads |-> <<>>]
  /\ private_outstanding_work = [t \in Threads |-> 0]
  /\ pc = [t \in Threads |-> "outside"]
  /\ ret = [t \in Threads |-> "none"]
  /\ posting = [t \in Threads |-> NoOp]
  /\ running = [t \in Threads |-> NoOp]
  /\ guards = Guards
  /\ posted = {} /\ started = {} /\ destroyed = {}
  /\ unwound = FALSE

(* What a thread does next by itself ...                                   *)
Continue(t) ==
  \/ NotifyOne(t) \/ Wake(t) \/ PostLocked(t) \/ StopAllThreads(t)
  \/ Lock(t) \/ LeaveRun(t) \/ WaitForWork(t)
  \/ TakeTask(t) \/ TakeOp(t) \/ EpollReturns(t) \/ TaskCleanup(t)
  \/ HandlerReturns(t) \/ CountPrivateWork(t) \/ FinishOp(t)
  \/ FlushPrivateQueue(t)

(* ... what it chooses to call ...                                         *)
Call(t) ==
  \/ \E op \in Ops : Post(t, op, FALSE)
  \/ \E op \in Ops : Post(t, op, TRUE)
  \/ InitTask(t) \/ Run(t) \/ Stop(t) \/ Restart(t) \/ Shutdown(t)
  \/ \E g \in Guards : GuardStart(t, g)
  \/ \E g \in Guards : GuardFinish(t, g)
  \/ \E g \in Guards : GuardReset(t, g)

(* ... and what happens to it.                                             *)
Surprise(t) ==
  SpuriousWake(t) \/ EpollInterruptedBySignal(t) \/ HandlerThrows(t)

Next == \E t \in Threads : Continue(t) \/ Call(t) \/ Surprise(t)

Spec == Init /\ [][Next]_vars

(* A thread inside a call or run() keeps running, and a handler returns.   *)
(* Nobody has to call anything, and nothing is assumed of who gets the     *)
(* mutex.                                                                  *)
FairSpec == Spec /\ \A t \in Threads : WF_vars(Continue(t))

-----------------------------------------------------------------------------
(* Properties.                                                             *)

QueuedOps == Range(op_queue_) \ {TaskOp}
PrivateOps(t) == Range(private_op_queue[t])

(* The set each variable takes its values from.                            *)
Typed ==
  /\ mutex_ \in Threads \cup {NoThread}
  /\ task_ \in BOOLEAN /\ task_interrupted_ \in BOOLEAN
  /\ outstanding_work_ \in Int
  /\ op_queue_ \in Seq(Ops \cup {TaskOp})
  /\ stopped_ \in BOOLEAN /\ shutdown_ \in BOOLEAN
  /\ signalled \in BOOLEAN /\ waiters \in Nat /\ edge \in BOOLEAN
  /\ private_op_queue \in [Threads -> Seq(Ops)]
  /\ private_outstanding_work \in [Threads -> Nat]
  /\ pc \in [Threads -> Steps] /\ ret \in [Threads -> ReturnSteps]
  /\ posting \in [Threads -> Ops \cup {NoOp}]
  /\ running \in [Threads -> Ops \cup {NoOp}]
  /\ guards \subseteq Guards
  /\ posted \subseteq Ops /\ started \subseteq Ops /\ destroyed \subseteq Ops
  /\ unwound \in BOOLEAN

(* event::state_ >> 1 counts the threads inside event::wait.               *)
Waiting == {t \in Threads : pc[t] \in {"asleep", "woken"}}
WaitersCounted == waiters = Cardinality(Waiting)

(* Every variable has its type, and state_ of the event, which wait()      *)
(* adds to and subtracts from without looking, counts neither more nor     *)
(* fewer waiters than there are.                                           *)
TypeOK == Typed /\ WaitersCounted

(* do_run_one, work_cleanup: outstanding_work_ counts the work guards and  *)
(* each operation from its post until its handler has returned - between   *)
(* the two halves of a post, in a queue, being run, and in a private queue *)
(* once work_cleanup has counted it.  If it ran ahead of the operations,   *)
(* run() would never return; behind them, it would return too early, and   *)
(* below zero it wraps around.                                             *)
WorkCounted ==
  LET held == {posting[t] : t \in Threads} \cup {running[t] : t \in Threads}
      flushing == UNION {PrivateOps(t) : t \in
                           {s \in Threads : private_outstanding_work[s] = 0}}
  IN outstanding_work_ = HeapWork + Cardinality(
       guards \cup QueuedOps \cup (held \ {NoOp}) \cup flushing \cup destroyed)

(* An operation whose post has begun is in exactly one place until it is   *)
(* run, once, or destroyed: the splices of op_queue_, private queues and   *)
(* exceptions lose none and duplicate none.                                *)
EachOpInOnePlace ==
  LET copies(op) ==
        Cardinality({i \in DOMAIN op_queue_ : op_queue_[i] = op})
        + Cardinality({t \in Threads : posting[t] = op})
        + Cardinality({p \in Threads \X (1 .. Cardinality(Ops)) :
                         /\ p[2] \in DOMAIN private_op_queue[p[1]]
                         /\ private_op_queue[p[1]][p[2]] = op})
        + Cardinality({s \in {started, destroyed} : op \in s})
  IN \A op \in Ops : copies(op) = IF op \in posted THEN 1 ELSE 0

(* The task is in the queue once, or with one thread, from init_task to    *)
(* shutdown: two threads never run the reactor and it is never lost.       *)
TaskCarriers == {t \in Threads : \/ pc[t] \in TaskSteps
                                 \/ pc[t] = "notify" /\ ret[t] = "poll"}
TaskPositions == {i \in DOMAIN op_queue_ : op_queue_[i] = TaskOp}
TaskHasOnePlace ==
  Cardinality(TaskCarriers) + Cardinality(TaskPositions) = IF task_ THEN 1 ELSE 0

(* wake_one_thread_and_unlock, do_run_one: a thread never sleeps on the    *)
(* event while an operation is queued, unless another one is about to take *)
(* it or to wake someone - however posts, pops, stale notifications and    *)
(* spurious wake-ups interleave (unless one_thread_ says there is no other *)
(* thread to wake).                                                        *)
Attending == {t \in Threads : pc[t] \in {"notify", "woken", "loop"}}
NoSleepBesideWork ==
  (~OneThread /\ op_queue_ # <<>> /\ ~stopped_ /\ ~unwound)
    => (Attending # {} \/ \A t \in Threads : pc[t] # "asleep")

(* The weaker promise when one_thread_ suppresses the wake-ups of          *)
(* do_run_one: while an operation is queued and a thread is inside run(),  *)
(* one of them comes back to the queue - it is not asleep and not blocked  *)
(* in epoll_wait without an interrupt - or will be woken.                  *)
SomeoneComesBack ==
  (op_queue_ # <<>> /\ ~stopped_ /\ ~unwound /\ \E t \in Threads : InRun(t))
    => \/ \E t \in Threads : pc[t] = "notify"
       \/ \E t \in Threads : /\ InRun(t) /\ pc[t] # "asleep"
                             /\ (pc[t] = "block" => edge)

(* stop_all_threads: once the scheduler is stopped no thread sleeps on the *)
(* event and none blocks in epoll_wait without an interrupt, although      *)
(* task_interrupted_ may make stop() leave the reactor alone.              *)
StopReachesAll ==
  stopped_ => \A t \in Threads : /\ pc[t] # "asleep"
                                 /\ pc[t] = "block" => edge

(* work_finished: when nobody calls stop() and clients only post while     *)
(* they hold a work guard, the scheduler stops only when every operation   *)
(* has been run and its handler has returned, although the decision (the   *)
(* decrement) and the stop are two steps.                                  *)
StopsOnlyWhenDrained ==
  stopped_ => /\ guards = {} /\ posted = started
              /\ \A t \in Threads : running[t] = NoOp

(* What became of an operation, for the caller of post.                    *)
Status ==
  [op \in Ops |->
     IF op \in destroyed THEN "destroyed"
     ELSE IF op \notin posted THEN "new"
     ELSE IF op \notin started THEN "pending"
     ELSE IF \E t \in Threads : running[t] = op THEN "running"
     ELSE "done"]

(* The promise to that caller: see ExecutorContract.                       *)
Contract == INSTANCE ExecutorContract WITH stopped <- stopped_, status <- Status

(* post, run, stop, restart, ~io_context implement that promise.           *)
ImplementsContract == Contract!Spec

(* An operation that was posted is eventually run when one thread at least *)
(* is inside run() - asleep, blocked in epoll_wait or on its way - unless  *)
(* the scheduler is stopped or an exception leaves run().                  *)
PostedOpsRun ==
  \A op \in Ops :
    (op \in posted /\ \E t \in Threads : InRun(t))
      ~> (op \in started \/ stopped_ \/ unwound)

(* Once all work is finished every thread eventually leaves run().         *)
FinishedWorkEndsRun ==
  (outstanding_work_ = 0) ~> (\A t \in Threads : ~InRun(t))

=============================================================================
