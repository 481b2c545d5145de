--------------------------- MODULE SchedulerProofs ---------------------------
(***************************************************************************)
(* Proofs about Scheduler, for any number of threads, operations and       *)
(* guards.                                                                 *)
(***************************************************************************)
EXTENDS SchedulerInv, FiniteSetTheorems, TLAPS

-----------------------------------------------------------------------------
(* Types.                                                                  *)

(* The sets of steps are made of the names the actions use.                *)
LEMMA StepNames ==
  /\ ReturnSteps \ {"none"} \subseteq Steps
  /\ HomeSteps \subseteq ReturnSteps /\ "none" \notin HomeSteps
  /\ {"poll", "flush", "lock", "none", "returned"} \subseteq ReturnSteps
  /\ CallSteps \cup TaskSteps \cup CleanupSteps \cup {"lock", "loop"} \subseteq Steps
  /\ {"asleep", "woken", "gone", "outside", "returned", "handler"} \subseteq Steps
BY DEF Steps, ReturnSteps, HomeSteps, ClientSteps, CallSteps, TaskSteps, CleanupSteps

(* The initial state is well typed, with nobody waiting.                   *)
LEMMA TypeInit == Init => TypeInv
<1> SUFFICES ASSUME Init PROVE TypeInv
  OBVIOUS
<1> USE ConstantsAssumption
<1>1. Cardinality(Guards) \in Nat
  BY FS_CardinalityType
<1>2. Typed
  <2>1. /\ pc \in [Threads -> Steps] /\ ret \in [Threads -> ReturnSteps]
        /\ outstanding_work_ \in Int
    BY <1>1, StepNames DEF Init
  <2>2. /\ op_queue_ \in Seq(Ops \cup {TaskOp})
        /\ private_op_queue \in [Threads -> Seq(Ops)]
    BY DEF Init
  <2>3. /\ task_ \in BOOLEAN /\ task_interrupted_ \in BOOLEAN
        /\ stopped_ \in BOOLEAN /\ shutdown_ \in BOOLEAN
        /\ signalled \in BOOLEAN /\ edge \in BOOLEAN /\ unwound \in BOOLEAN
    BY DEF Init
  <2> QED BY <2>1, <2>2, <2>3 DEF Init, Typed
<1>3. CallsReturn
  BY DEF Init, CallsReturn, CallSteps
<1>4. MutexHeld
  BY DEF Init, MutexHeld
<1>5. WaitersCounted
  <2>1. Waiting = {}
    BY DEF Init, Waiting
  <2> QED BY <2>1, FS_EmptySet DEF Init, WaitersCounted
<1> QED BY <1>2, <1>3, <1>4, <1>5 DEF TypeInv

(* A thread that leaves event::wait was counted there.                     *)
LEMMA WaitingPositive ==
  ASSUME TypeInv, NEW t \in Threads, pc[t] \in {"asleep", "woken"}
  PROVE  waiters \in Nat /\ waiters > 0
<1>1. IsFiniteSet(Waiting) /\ t \in Waiting
  BY ConstantsAssumption, FS_Subset DEF Waiting
<1>2. Cardinality(Waiting) \in Nat /\ Cardinality(Waiting) # 0
  BY <1>1, FS_CardinalityType, FS_EmptySet
<1> QED BY <1>2 DEF TypeInv, WaitersCounted

ControlOK == pc \in [Threads -> Steps] /\ ret \in [Threads -> ReturnSteps]

(* Goto and CallStep stay among the steps.                                 *)
LEMMA GotoType ==
  ASSUME ControlOK, NEW t \in Threads, NEW step \in Steps, Goto(t, step)
  PROVE  pc' \in [Threads -> Steps]
BY DEF Goto, ControlOK

(* A call of notify, posting, stopping or a cleanup, which returns to next.*)
LEMMA CallStepType ==
  ASSUME ControlOK, NEW t \in Threads, NEW s \in Steps, NEW r \in ReturnSteps,
         CallStep(t, s, r)
  PROVE  ControlOK'
BY GotoType DEF CallStep, ControlOK

(* So does a step that continues at next, directly or after a call.        *)
LEMMA ContinueType ==
  ASSUME ControlOK, NEW t \in Threads, NEW next \in ReturnSteps \ {"none"},
         NEW s \in CallSteps,
         \/ CallStep(t, s, next)
         \/ Goto(t, next) /\ ret' = [ret EXCEPT ![t] = "none"]
  PROVE  ControlOK'
<1>1. s \in Steps /\ next \in Steps /\ "none" \in ReturnSteps
  BY StepNames
<1>2. CASE CallStep(t, s, next)
  BY <1>1, <1>2, CallStepType
<1>3. CASE Goto(t, next) /\ ret' = [ret EXCEPT ![t] = "none"]
  BY <1>1, <1>3, GotoType DEF ControlOK
<1> QED BY <1>2, <1>3

(* A call in progress returns to one of them.                              *)
LEMMA ReturnType ==
  ASSUME Typed, CallsReturn, NEW t \in Threads,
         pc[t] \in CallSteps \cup {"cleanup", "finish"}
  PROVE  ret[t] \in ReturnSteps \ {"none"}
BY DEF Typed, CallsReturn

(* wake_one_thread_and_unlock: the step after it is the notification or    *)
(* the caller's next one, and the flags it sets are flags.                 *)
LEMMA WakeOneType ==
  ASSUME Typed, NEW t \in Threads, NEW hasTask, NEW next \in ReturnSteps \ {"none"},
         WakeOneThreadAndUnlock(t, hasTask, next)
  PROVE  /\ ControlOK' /\ signalled' \in BOOLEAN /\ task_interrupted_' \in BOOLEAN
         /\ edge' \in BOOLEAN /\ mutex_' = mutex_ /\ waiters' = waiters
<1>1. ControlOK'
  <2>1. "notify" \in CallSteps /\ ControlOK
    BY DEF CallSteps, Typed, ControlOK
  <2> QED BY <2>1, ContinueType DEF WakeOneThreadAndUnlock
<1> QED BY <1>1 DEF WakeOneThreadAndUnlock, Typed, Interrupt

(* The unlock of do_run_one after a pop releases the mutex and counts no   *)
(* waiter.                                                                 *)
LEMMA UnlockType ==
  ASSUME Typed, NEW t \in Threads, NEW more, NEW next \in ReturnSteps \ {"none"},
         UnlockAfterPop(t, more, next)
  PROVE  ControlOK' /\ signalled' \in BOOLEAN /\ mutex_' = NoThread /\ waiters' = waiters
<1>0. "notify" \in CallSteps /\ ControlOK /\ next \in Steps
  BY StepNames DEF CallSteps, Typed, ControlOK
<1>1. CASE more /\ ~OneThread
  BY <1>0, <1>1, ContinueType DEF UnlockAfterPop, UnlockAndSignalOne
<1>2. CASE ~(more /\ ~OneThread)
  <2>1. pc' \in [Threads -> Steps] /\ ret' = ret
    BY <1>0, <1>2, GotoType DEF UnlockAfterPop
  <2> QED BY <1>0, <1>2, <2>1 DEF UnlockAfterPop, eventVars, ControlOK, Typed
<1> QED BY <1>1, <1>2

(* work_finished goes on with the caller's next step or with a stop().     *)
LEMMA WorkFinishedType ==
  ASSUME Typed, NEW t \in Threads, NEW next \in ReturnSteps \ {"none"},
         WorkFinished(t, next)
  PROVE  ControlOK' /\ outstanding_work_' \in Int
<1>0. "stopping" \in CallSteps /\ ControlOK
  BY DEF CallSteps, Typed, ControlOK
<1>1. ControlOK'
  BY <1>0, ContinueType DEF WorkFinished
<1> QED BY <1>1 DEF WorkFinished, Typed

(* Every step keeps every variable in its type.                            *)
LEMMA TypeStep ==
  ASSUME TypeInv, [Next]_vars
  PROVE  Typed'
<1>0. Typed /\ CallsReturn /\ ControlOK
  BY DEF TypeInv, Typed, ControlOK
<1> USE <1>0
<1> USE DEF eventVars, privateVars, historyVars
<1>1. ASSUME NEW t \in Threads, NotifyOne(t) PROVE Typed'
  <2>1. ret[t] \in Steps /\ "woken" \in Steps /\ "none" \in ReturnSteps
    BY <1>1, ReturnType, StepNames DEF NotifyOne, CallSteps
  <2>2. ControlOK'
    BY <1>1, <2>1, GotoType DEF NotifyOne, ControlOK
  <2> QED BY <1>1, <2>2 DEF NotifyOne, Typed, ControlOK
<1>2. ASSUME NEW t \in Threads, Wake(t) PROVE Typed'
  <2>1. waiters \in Nat /\ waiters > 0
    BY <1>2, WaitingPositive DEF Wake
  <2>2. pc' \in [Threads -> Steps]
    BY <1>2, StepNames, GotoType DEF Wake
  <2> QED BY <1>2, <2>1, <2>2 DEF Wake, Typed
<1>3. ASSUME NEW t \in Threads, SpuriousWake(t) PROVE Typed'
  <2>1. pc' \in [Threads -> Steps]
    BY <1>3, StepNames, GotoType DEF SpuriousWake
  <2> QED BY <1>3, <2>1 DEF SpuriousWake, Typed
<1>4. ASSUME NEW t \in Threads, NEW op \in Ops, NEW c \in BOOLEAN, Post(t, op, c)
      PROVE  Typed'
  <2>1. pc[t] \in ReturnSteps \ {"none"} /\ "posting" \in Steps
    BY <1>4, StepNames DEF Post, MayCall, HomeSteps, CallSteps
  <2>2. CASE InRun(t) /\ (OneThread \/ c)
    <3>1. /\ private_op_queue' \in [Threads -> Seq(Ops)]
          /\ private_outstanding_work' \in [Threads -> Nat]
      <4>1. /\ private_op_queue[t] \in Seq(Ops)
            /\ private_outstanding_work[t] \in Nat
        BY DEF Typed
      <4>2. /\ Append(private_op_queue[t], op) \in Seq(Ops)
            /\ private_outstanding_work[t] + 1 \in Nat
        BY <4>1
      <4> QED BY <1>4, <2>2, <4>2 DEF Post, Typed
    <3>2. posted' \subseteq Ops
      BY <1>4 DEF Post, Typed
    <3> QED BY <1>4, <2>2, <3>1, <3>2 DEF Post, Typed
  <2>3. CASE ~(InRun(t) /\ (OneThread \/ c))
    <3>1. ControlOK'
      BY <1>4, <2>1, <2>3, CallStepType DEF Post
    <3>2. posted' \subseteq Ops /\ outstanding_work_' \in Int
      BY <1>4, <2>3 DEF Post, Typed
    <3>3. posting' \in [Threads -> Ops \cup {NoOp}]
      BY <1>4, <2>3 DEF Post, Typed
    <3> QED BY <1>4, <2>3, <3>1, <3>2, <3>3 DEF Post, Typed, ControlOK
  <2> QED BY <2>2, <2>3
<1>5. ASSUME NEW t \in Threads, PostLocked(t) PROVE Typed'
  <2>1. ret[t] \in ReturnSteps \ {"none"} /\ posting[t] \in Ops
    BY <1>5, ReturnType DEF PostLocked, CallSteps, CallsReturn
  <2>2. op_queue_' \in Seq(Ops \cup {TaskOp})
    BY <1>5, <2>1 DEF PostLocked, Typed
  <2> QED BY <1>5, <2>1, <2>2, WakeOneType DEF PostLocked, Typed, ControlOK
<1>6. ASSUME NEW t \in Threads, InitTask(t) PROVE Typed'
  <2>1. pc[t] \in ReturnSteps \ {"none"}
    BY <1>6, StepNames DEF InitTask, MayCall, HomeSteps
  <2>2. op_queue_' \in Seq(Ops \cup {TaskOp})
    BY <1>6 DEF InitTask, Typed
  <2> QED BY <1>6, <2>1, <2>2, WakeOneType DEF InitTask, Typed, ControlOK
<1>7. ASSUME NEW t \in Threads, Stop(t) PROVE Typed'
  <2>1. pc[t] \in ReturnSteps /\ "stopping" \in Steps
    BY <1>7, StepNames DEF Stop, MayCall, HomeSteps, CallSteps
  <2> QED BY <1>7, <2>1, CallStepType DEF Stop, Typed, ControlOK
<1>8. ASSUME NEW t \in Threads, StopAllThreads(t) PROVE Typed'
  <2>1. ret[t] \in Steps /\ "woken" \in Steps /\ "none" \in ReturnSteps
    BY <1>8, ReturnType, StepNames DEF StopAllThreads, CallSteps
  <2>2. ControlOK'
    BY <1>8, <2>1 DEF StopAllThreads, SignalAll, ControlOK
  <2>3. task_interrupted_' \in BOOLEAN /\ edge' \in BOOLEAN
    BY <1>8 DEF StopAllThreads, InterruptTaskOnStop, Interrupt, Typed
  <2> QED BY <1>8, <2>2, <2>3 DEF StopAllThreads, SignalAll, Typed, ControlOK
<1>9. ASSUME NEW t \in Threads, Restart(t) PROVE Typed'
  BY <1>9 DEF Restart, Typed
<1>10. ASSUME NEW t \in Threads, Shutdown(t) PROVE Typed'
  <2>1. pc' \in [Threads -> Steps]
    BY <1>10, StepNames DEF Shutdown
  <2>2. Range(op_queue_) \ {TaskOp} \subseteq Ops
    BY DEF Range, Typed
  <2>3. destroyed' \subseteq Ops /\ op_queue_' \in Seq(Ops \cup {TaskOp})
    BY <1>10, <2>2 DEF Shutdown, Typed
  <2> QED BY <1>10, <2>1, <2>3 DEF Shutdown, Typed
<1>11. ASSUME NEW t \in Threads, NEW g \in Guards, GuardStart(t, g) PROVE Typed'
  BY <1>11 DEF GuardStart, Typed
<1>12. ASSUME NEW t \in Threads, NEW g \in Guards, GuardFinish(t, g) PROVE Typed'
  <2>1. pc[t] \in ReturnSteps \ {"none"}
    BY <1>12, StepNames DEF GuardFinish, MayCall, HomeSteps
  <2> QED BY <1>12, <2>1, WorkFinishedType DEF GuardFinish, Typed, ControlOK
<1>13. ASSUME NEW t \in Threads, NEW g \in Guards, GuardReset(t, g) PROVE Typed'
  <2>1. pc[t] \in ReturnSteps \ {"none"}
    BY <1>13, StepNames DEF GuardReset, MayCall, HomeSteps
  <2> QED BY <1>13, <2>1, WorkFinishedType DEF GuardReset, Typed, ControlOK
<1>14. ASSUME NEW t \in Threads, Run(t) PROVE Typed'
  <2>1. {"stopping", "lock"} \subseteq Steps /\ "returned" \in ReturnSteps
    BY StepNames DEF CallSteps
  <2>2. ControlOK'
    BY <1>14, <2>1, CallStepType, GotoType DEF Run, ControlOK
  <2> QED BY <1>14, <2>2 DEF Run, Typed, ControlOK
<1>15. ASSUME NEW t \in Threads, Lock(t) PROVE Typed'
  <2>1. pc' \in [Threads -> Steps]
    BY <1>15, StepNames, GotoType DEF Lock
  <2> QED BY <1>15, <2>1 DEF Lock, Typed
<1>16. ASSUME NEW t \in Threads, LeaveRun(t) PROVE Typed'
  <2>1. pc' \in [Threads -> Steps]
    BY <1>16, StepNames, GotoType DEF LeaveRun
  <2> QED BY <1>16, <2>1 DEF LeaveRun, Typed
<1>17. ASSUME NEW t \in Threads, WaitForWork(t) PROVE Typed'
  <2>1. pc' \in [Threads -> Steps]
    BY <1>17, StepNames, GotoType DEF WaitForWork
  <2>2. waiters' \in Nat
    BY <1>17 DEF WaitForWork, Typed
  <2> QED BY <1>17, <2>1, <2>2 DEF WaitForWork, Typed
<1>18. ASSUME NEW t \in Threads, TakeTask(t) PROVE Typed'
  <2> DEFINE more == op_queue_' # <<>>
             next == IF more THEN "poll" ELSE "block"
  <2>1. op_queue_' \in Seq(Ops \cup {TaskOp})
    BY <1>18 DEF TakeTask, Typed
  <2>2. CASE more
    <3>1. UnlockAfterPop(t, more, "poll") /\ task_interrupted_' = TRUE
      BY <1>18, <2>2 DEF TakeTask
    <3>2. "poll" \in ReturnSteps \ {"none"}
      BY StepNames
    <3> HIDE DEF more
    <3> QED BY <1>18, <2>1, <3>1, <3>2, UnlockType DEF TakeTask, Typed, ControlOK
  <2>3. CASE ~more
    <3>1. mutex_' = NoThread /\ Goto(t, "block") /\ UNCHANGED <<ret, eventVars>>
      BY <1>18, <2>3 DEF TakeTask, UnlockAfterPop
    <3>2. pc' \in [Threads -> Steps]
      BY <3>1, StepNames, GotoType DEF TaskSteps
    <3> QED BY <1>18, <2>1, <2>3, <3>1, <3>2 DEF TakeTask, Typed
  <2> QED BY <2>2, <2>3
<1>19. ASSUME NEW t \in Threads, TakeOp(t) PROVE Typed'
  <2>1. op_queue_' \in Seq(Ops \cup {TaskOp}) /\ Head(op_queue_) \in Ops
    BY <1>19 DEF TakeOp, Typed
  <2>2. "handler" \in ReturnSteps \ {"none"}
    BY StepNames DEF HomeSteps
  <2>3. UnlockAfterPop(t, op_queue_' # <<>>, "handler")
    BY <1>19 DEF TakeOp
  <2>4. ControlOK' /\ signalled' \in BOOLEAN /\ mutex_' = NoThread /\ waiters' = waiters
    BY <2>2, <2>3, UnlockType
  <2> QED BY <1>19, <2>1, <2>4 DEF TakeOp, Typed, ControlOK
<1>20. ASSUME NEW t \in Threads, EpollReturns(t) PROVE Typed'
  <2>1. pc' \in [Threads -> Steps]
    BY <1>20, StepNames, GotoType DEF EpollReturns, TaskSteps
  <2> QED BY <1>20, <2>1 DEF EpollReturns, Typed
<1>21. ASSUME NEW t \in Threads, EpollInterruptedBySignal(t) PROVE Typed'
  <2>1. pc' \in [Threads -> Steps]
    BY <1>21, StepNames, GotoType DEF EpollInterruptedBySignal, TaskSteps
  <2> QED BY <1>21, <2>1 DEF EpollInterruptedBySignal, Typed
<1>22. ASSUME NEW t \in Threads, TaskCleanup(t) PROVE Typed'
  <2>1. pc' \in [Threads -> Steps]
    BY <1>22, StepNames, GotoType DEF TaskCleanup
  <2>2. op_queue_' \in Seq(Ops \cup {TaskOp})
    <3>1. private_op_queue[t] \in Seq(Ops \cup {TaskOp})
      BY DEF Typed
    <3> QED BY <1>22, <3>1 DEF TaskCleanup, Typed
  <2>3. outstanding_work_' \in Int
    BY <1>22 DEF TaskCleanup, Typed
  <2>4. /\ private_op_queue' \in [Threads -> Seq(Ops)]
        /\ private_outstanding_work' \in [Threads -> Nat]
    BY <1>22 DEF TaskCleanup, Typed
  <2> QED BY <1>22, <2>1, <2>2, <2>3, <2>4 DEF TaskCleanup, Typed
<1>23. ASSUME NEW t \in Threads, HandlerReturns(t) PROVE Typed'
  <2>1. "cleanup" \in Steps /\ "lock" \in ReturnSteps
    BY StepNames DEF CleanupSteps
  <2> QED BY <1>23, <2>1, CallStepType DEF HandlerReturns, Typed, ControlOK
<1>24. ASSUME NEW t \in Threads, HandlerThrows(t) PROVE Typed'
  <2>1. "cleanup" \in Steps /\ "returned" \in ReturnSteps
    BY StepNames DEF CleanupSteps
  <2> QED BY <1>24, <2>1, CallStepType DEF HandlerThrows, Typed, ControlOK
<1>25. ASSUME NEW t \in Threads, CountPrivateWork(t) PROVE Typed'
  <2>1. pc' \in [Threads -> Steps]
    BY <1>25, StepNames, GotoType DEF CountPrivateWork, CleanupSteps
  <2>2. outstanding_work_' \in Int
    BY <1>25 DEF CountPrivateWork, Typed
  <2> QED BY <1>25, <2>1, <2>2 DEF CountPrivateWork, Typed
<1>26. ASSUME NEW t \in Threads, FinishOp(t) PROVE Typed'
  <2> DEFINE next == IF private_op_queue[t] # <<>> THEN "flush" ELSE ret[t]
  <2>1. ret[t] \in ReturnSteps \ {"none"} /\ "flush" \in ReturnSteps \ {"none"}
    BY <1>26, ReturnType, StepNames DEF FinishOp
  <2>2. WorkFinished(t, next) /\ next \in ReturnSteps \ {"none"}
    BY <1>26, <2>1 DEF FinishOp
  <2> HIDE DEF next
  <2>3. ControlOK' /\ outstanding_work_' \in Int
    BY <2>2, WorkFinishedType
  <2> QED BY <1>26, <2>3 DEF FinishOp, Typed, ControlOK
<1>27. ASSUME NEW t \in Threads, FlushPrivateQueue(t) PROVE Typed'
  <2>1. pc' \in [Threads -> Steps]
    BY <1>27, StepNames, GotoType DEF FlushPrivateQueue
  <2>2. op_queue_' \in Seq(Ops \cup {TaskOp})
    <3>1. private_op_queue[t] \in Seq(Ops \cup {TaskOp})
      BY DEF Typed
    <3> QED BY <1>27, <3>1 DEF FlushPrivateQueue, Typed
  <2>3. private_op_queue' \in [Threads -> Seq(Ops)]
    BY <1>27 DEF FlushPrivateQueue, Typed
  <2> QED BY <1>27, <2>1, <2>2, <2>3 DEF FlushPrivateQueue, Typed
<1>28. CASE UNCHANGED vars
  BY <1>28 DEF vars, Typed
<1> QED
  BY <1>1, <1>2, <1>3, <1>4, <1>5, <1>6, <1>7, <1>8, <1>9, <1>10, <1>11, <1>12,
     <1>13, <1>14, <1>15, <1>16, <1>17, <1>18, <1>19, <1>20, <1>21, <1>22, <1>23,
     <1>24, <1>25, <1>26, <1>27, <1>28 DEF Next, Continue, Call, Surprise

(* Every call keeps its return step until it returns.                      *)
LEMMA CallsReturnStep ==
  ASSUME TypeInv, [Next]_vars
  PROVE  CallsReturn'
<1>0. Typed /\ CallsReturn
  BY DEF TypeInv
<1> USE <1>0
<1> USE DEF Typed, CallsReturn, Goto, CallStep, CallSteps, ClientSteps, HomeSteps, ReturnSteps
<1>1. ASSUME NEW t \in Threads, NotifyOne(t) PROVE CallsReturn'
  BY <1>1 DEF NotifyOne
<1>2. ASSUME NEW t \in Threads, Wake(t) PROVE CallsReturn'
  BY <1>2 DEF Wake
<1>3. ASSUME NEW t \in Threads, SpuriousWake(t) PROVE CallsReturn'
  BY <1>3 DEF SpuriousWake
<1>4. ASSUME NEW t \in Threads, NEW op \in Ops, NEW c \in BOOLEAN, Post(t, op, c) PROVE CallsReturn'
  BY <1>4 DEF Post, MayCall
<1>5. ASSUME NEW t \in Threads, PostLocked(t) PROVE CallsReturn'
  BY <1>5 DEF PostLocked, WakeOneThreadAndUnlock, Interrupt
<1>6. ASSUME NEW t \in Threads, InitTask(t) PROVE CallsReturn'
  BY <1>6 DEF InitTask, WakeOneThreadAndUnlock, Interrupt, MayCall
<1>7. ASSUME NEW t \in Threads, Stop(t) PROVE CallsReturn'
  BY <1>7 DEF Stop, MayCall
<1>8. ASSUME NEW t \in Threads, StopAllThreads(t) PROVE CallsReturn'
  BY <1>8 DEF StopAllThreads, SignalAll, InterruptTaskOnStop, Interrupt
<1>9. ASSUME NEW t \in Threads, Restart(t) PROVE CallsReturn'
  BY <1>9 DEF Restart
<1>10. ASSUME NEW t \in Threads, Shutdown(t) PROVE CallsReturn'
  BY <1>10 DEF Shutdown, MayCall
<1>11. ASSUME NEW t \in Threads, NEW g \in Guards, GuardStart(t, g) PROVE CallsReturn'
  BY <1>11 DEF GuardStart
<1>12. ASSUME NEW t \in Threads, NEW g \in Guards, GuardFinish(t, g) PROVE CallsReturn'
  BY <1>12 DEF GuardFinish, WorkFinished, MayCall
<1>13. ASSUME NEW t \in Threads, NEW g \in Guards, GuardReset(t, g) PROVE CallsReturn'
  BY <1>13 DEF GuardReset, WorkFinished, MayCall
<1>14. ASSUME NEW t \in Threads, Run(t) PROVE CallsReturn'
  BY <1>14 DEF Run
<1>15. ASSUME NEW t \in Threads, Lock(t) PROVE CallsReturn'
  BY <1>15 DEF Lock
<1>16. ASSUME NEW t \in Threads, LeaveRun(t) PROVE CallsReturn'
  BY <1>16 DEF LeaveRun
<1>17. ASSUME NEW t \in Threads, WaitForWork(t) PROVE CallsReturn'
  BY <1>17 DEF WaitForWork
<1>18. ASSUME NEW t \in Threads, TakeTask(t) PROVE CallsReturn'
  BY <1>18 DEF TakeTask, UnlockAfterPop, UnlockAndSignalOne
<1>19. ASSUME NEW t \in Threads, TakeOp(t) PROVE CallsReturn'
  BY <1>19 DEF TakeOp, UnlockAfterPop, UnlockAndSignalOne
<1>20. ASSUME NEW t \in Threads, EpollReturns(t) PROVE CallsReturn'
  BY <1>20 DEF EpollReturns
<1>21. ASSUME NEW t \in Threads, EpollInterruptedBySignal(t) PROVE CallsReturn'
  BY <1>21 DEF EpollInterruptedBySignal
<1>22. ASSUME NEW t \in Threads, TaskCleanup(t) PROVE CallsReturn'
  BY <1>22 DEF TaskCleanup
<1>23. ASSUME NEW t \in Threads, HandlerReturns(t) PROVE CallsReturn'
  BY <1>23 DEF HandlerReturns
<1>24. ASSUME NEW t \in Threads, HandlerThrows(t) PROVE CallsReturn'
  BY <1>24 DEF HandlerThrows
<1>25. ASSUME NEW t \in Threads, CountPrivateWork(t) PROVE CallsReturn'
  BY <1>25 DEF CountPrivateWork
<1>26. ASSUME NEW t \in Threads, FinishOp(t) PROVE CallsReturn'
  BY <1>26 DEF FinishOp, WorkFinished
<1>27. ASSUME NEW t \in Threads, FlushPrivateQueue(t) PROVE CallsReturn'
  BY <1>27 DEF FlushPrivateQueue
<1>28. CASE UNCHANGED vars
  BY <1>28 DEF vars
<1> QED
  BY <1>1, <1>2, <1>3, <1>4, <1>5, <1>6, <1>7, <1>8, <1>9, <1>10, <1>11,
     <1>12, <1>13, <1>14, <1>15, <1>16, <1>17, <1>18, <1>19, <1>20, <1>21,
     <1>22, <1>23, <1>24, <1>25, <1>26, <1>27, <1>28 DEF Next, Continue, Call, Surprise

(* The mutex is held by the thread at the head of the loop, and no other.  *)
LEMMA MutexStep ==
  ASSUME TypeInv, [Next]_vars
  PROVE  MutexHeld'
<1>0. Typed /\ CallsReturn /\ MutexHeld
  BY DEF TypeInv
<1> USE <1>0, ConstantsAssumption
<1> USE DEF Typed, CallsReturn, MutexHeld, Goto, CallStep, CallSteps, ClientSteps, HomeSteps, ReturnSteps
<1>1. ASSUME NEW t \in Threads, NotifyOne(t) PROVE MutexHeld'
  BY <1>1 DEF NotifyOne
<1>2. ASSUME NEW t \in Threads, Wake(t) PROVE MutexHeld'
  BY <1>2 DEF Wake
<1>3. ASSUME NEW t \in Threads, SpuriousWake(t) PROVE MutexHeld'
  BY <1>3 DEF SpuriousWake
<1>4. ASSUME NEW t \in Threads, NEW op \in Ops, NEW c \in BOOLEAN, Post(t, op, c) PROVE MutexHeld'
  BY <1>4 DEF Post, MayCall
<1>5. ASSUME NEW t \in Threads, PostLocked(t) PROVE MutexHeld'
  BY <1>5 DEF PostLocked, WakeOneThreadAndUnlock, Interrupt
<1>6. ASSUME NEW t \in Threads, InitTask(t) PROVE MutexHeld'
  BY <1>6 DEF InitTask, WakeOneThreadAndUnlock, Interrupt, MayCall
<1>7. ASSUME NEW t \in Threads, Stop(t) PROVE MutexHeld'
  BY <1>7 DEF Stop, MayCall
<1>8. ASSUME NEW t \in Threads, StopAllThreads(t) PROVE MutexHeld'
  BY <1>8 DEF StopAllThreads, SignalAll, InterruptTaskOnStop, Interrupt
<1>9. ASSUME NEW t \in Threads, Restart(t) PROVE MutexHeld'
  BY <1>9 DEF Restart
<1>10. ASSUME NEW t \in Threads, Shutdown(t) PROVE MutexHeld'
  BY <1>10 DEF Shutdown, MayCall
<1>11. ASSUME NEW t \in Threads, NEW g \in Guards, GuardStart(t, g) PROVE MutexHeld'
  BY <1>11 DEF GuardStart
<1>12. ASSUME NEW t \in Threads, NEW g \in Guards, GuardFinish(t, g) PROVE MutexHeld'
  BY <1>12 DEF GuardFinish, WorkFinished, MayCall
<1>13. ASSUME NEW t \in Threads, NEW g \in Guards, GuardReset(t, g) PROVE MutexHeld'
  BY <1>13 DEF GuardReset, WorkFinished, MayCall
<1>14. ASSUME NEW t \in Threads, Run(t) PROVE MutexHeld'
  BY <1>14 DEF Run
<1>15. ASSUME NEW t \in Threads, Lock(t) PROVE MutexHeld'
  BY <1>15 DEF Lock
<1>16. ASSUME NEW t \in Threads, LeaveRun(t) PROVE MutexHeld'
  BY <1>16 DEF LeaveRun
<1>17. ASSUME NEW t \in Threads, WaitForWork(t) PROVE MutexHeld'
  BY <1>17 DEF WaitForWork
<1>18. ASSUME NEW t \in Threads, TakeTask(t) PROVE MutexHeld'
  BY <1>18 DEF TakeTask, UnlockAfterPop, UnlockAndSignalOne
<1>19. ASSUME NEW t \in Threads, TakeOp(t) PROVE MutexHeld'
  BY <1>19 DEF TakeOp, UnlockAfterPop, UnlockAndSignalOne
<1>20. ASSUME NEW t \in Threads, EpollReturns(t) PROVE MutexHeld'
  BY <1>20 DEF EpollReturns
<1>21. ASSUME NEW t \in Threads, EpollInterruptedBySignal(t) PROVE MutexHeld'
  BY <1>21 DEF EpollInterruptedBySignal
<1>22. ASSUME NEW t \in Threads, TaskCleanup(t) PROVE MutexHeld'
  BY <1>22 DEF TaskCleanup
<1>23. ASSUME NEW t \in Threads, HandlerReturns(t) PROVE MutexHeld'
  BY <1>23 DEF HandlerReturns
<1>24. ASSUME NEW t \in Threads, HandlerThrows(t) PROVE MutexHeld'
  BY <1>24 DEF HandlerThrows
<1>25. ASSUME NEW t \in Threads, CountPrivateWork(t) PROVE MutexHeld'
  BY <1>25 DEF CountPrivateWork
<1>26. ASSUME NEW t \in Threads, FinishOp(t) PROVE MutexHeld'
  BY <1>26 DEF FinishOp, WorkFinished
<1>27. ASSUME NEW t \in Threads, FlushPrivateQueue(t) PROVE MutexHeld'
  BY <1>27 DEF FlushPrivateQueue
<1>28. CASE UNCHANGED vars
  BY <1>28 DEF vars
<1> QED
  BY <1>1, <1>2, <1>3, <1>4, <1>5, <1>6, <1>7, <1>8, <1>9, <1>10, <1>11,
     <1>12, <1>13, <1>14, <1>15, <1>16, <1>17, <1>18, <1>19, <1>20, <1>21,
     <1>22, <1>23, <1>24, <1>25, <1>26, <1>27, <1>28 DEF Next, Continue, Call, Surprise

(* event::wait registers a waiter when it starts and when it ends.         *)
LEMMA WaitersStep ==
  ASSUME TypeInv, [Next]_vars
  PROVE  WaitersCounted'
<1>0. Typed /\ CallsReturn /\ WaitersCounted
  BY DEF TypeInv
<1>f. IsFiniteSet(Waiting)
  BY ConstantsAssumption, FS_Subset DEF Waiting
<1>r. \A x \in Waiting : Cardinality(Waiting \ {x}) = Cardinality(Waiting) - 1
  BY <1>f, FS_RemoveElement
<1> USE <1>0
<1> USE DEF Typed, CallsReturn, Waiting, Goto, CallStep, CallSteps, ClientSteps, HomeSteps,
        ReturnSteps, eventVars
<1>1. ASSUME NEW t \in Threads, NotifyOne(t) PROVE WaitersCounted'
  <2>1. Waiting' = Waiting /\ waiters' = waiters
    BY <1>1 DEF NotifyOne
  <2> QED BY <2>1 DEF WaitersCounted
<1>2. ASSUME NEW t \in Threads, Wake(t) PROVE WaitersCounted'
  <2>1. CASE signalled
    <3>1. Waiting' = Waiting \ {t} /\ t \in Waiting
      BY <1>2, <2>1 DEF Wake
    <3>2. Cardinality(Waiting') = Cardinality(Waiting) - 1
      BY <3>1, <1>r
    <3> QED BY <1>2, <2>1, <3>2 DEF Wake, WaitersCounted
  <2>2. CASE ~signalled
    <3>1. Waiting' = Waiting /\ waiters' = waiters
      BY <1>2, <2>2 DEF Wake
    <3> QED BY <3>1 DEF WaitersCounted
  <2> QED BY <2>1, <2>2
<1>3. ASSUME NEW t \in Threads, SpuriousWake(t) PROVE WaitersCounted'
  <2>1. Waiting' = Waiting /\ waiters' = waiters
    BY <1>3 DEF SpuriousWake
  <2> QED BY <2>1 DEF WaitersCounted
<1>4. ASSUME NEW t \in Threads, NEW op \in Ops, NEW c \in BOOLEAN, Post(t, op, c) PROVE WaitersCounted'
  <2>1. Waiting' = Waiting /\ waiters' = waiters
    BY <1>4 DEF Post, MayCall
  <2> QED BY <2>1 DEF WaitersCounted
<1>5. ASSUME NEW t \in Threads, PostLocked(t) PROVE WaitersCounted'
  <2>1. Waiting' = Waiting /\ waiters' = waiters
    BY <1>5 DEF PostLocked, WakeOneThreadAndUnlock, Interrupt
  <2> QED BY <2>1 DEF WaitersCounted
<1>6. ASSUME NEW t \in Threads, InitTask(t) PROVE WaitersCounted'
  <2>1. Waiting' = Waiting /\ waiters' = waiters
    BY <1>6 DEF InitTask, WakeOneThreadAndUnlock, Interrupt, MayCall
  <2> QED BY <2>1 DEF WaitersCounted
<1>7. ASSUME NEW t \in Threads, Stop(t) PROVE WaitersCounted'
  <2>1. Waiting' = Waiting /\ waiters' = waiters
    BY <1>7 DEF Stop, MayCall
  <2> QED BY <2>1 DEF WaitersCounted
<1>8. ASSUME NEW t \in Threads, StopAllThreads(t) PROVE WaitersCounted'
  <2>1. Waiting' = Waiting /\ waiters' = waiters
    BY <1>8 DEF StopAllThreads, SignalAll, InterruptTaskOnStop, Interrupt
  <2> QED BY <2>1 DEF WaitersCounted
<1>9. ASSUME NEW t \in Threads, Restart(t) PROVE WaitersCounted'
  <2>1. Waiting' = Waiting /\ waiters' = waiters
    BY <1>9 DEF Restart
  <2> QED BY <2>1 DEF WaitersCounted
<1>10. ASSUME NEW t \in Threads, Shutdown(t) PROVE WaitersCounted'
  <2>1. Waiting' = Waiting /\ waiters' = waiters
    BY <1>10 DEF Shutdown, MayCall
  <2> QED BY <2>1 DEF WaitersCounted
<1>11. ASSUME NEW t \in Threads, NEW g \in Guards, GuardStart(t, g) PROVE WaitersCounted'
  <2>1. Waiting' = Waiting /\ waiters' = waiters
    BY <1>11 DEF GuardStart
  <2> QED BY <2>1 DEF WaitersCounted
<1>12. ASSUME NEW t \in Threads, NEW g \in Guards, GuardFinish(t, g) PROVE WaitersCounted'
  <2>1. Waiting' = Waiting /\ waiters' = waiters
    BY <1>12 DEF GuardFinish, WorkFinished, MayCall
  <2> QED BY <2>1 DEF WaitersCounted
<1>13. ASSUME NEW t \in Threads, NEW g \in Guards, GuardReset(t, g) PROVE WaitersCounted'
  <2>1. Waiting' = Waiting /\ waiters' = waiters
    BY <1>13 DEF GuardReset, WorkFinished, MayCall
  <2> QED BY <2>1 DEF WaitersCounted
<1>14. ASSUME NEW t \in Threads, Run(t) PROVE WaitersCounted'
  <2>1. Waiting' = Waiting /\ waiters' = waiters
    BY <1>14 DEF Run
  <2> QED BY <2>1 DEF WaitersCounted
<1>15. ASSUME NEW t \in Threads, Lock(t) PROVE WaitersCounted'
  <2>1. Waiting' = Waiting /\ waiters' = waiters
    BY <1>15 DEF Lock
  <2> QED BY <2>1 DEF WaitersCounted
<1>16. ASSUME NEW t \in Threads, LeaveRun(t) PROVE WaitersCounted'
  <2>1. Waiting' = Waiting /\ waiters' = waiters
    BY <1>16 DEF LeaveRun
  <2> QED BY <2>1 DEF WaitersCounted
<1>17. ASSUME NEW t \in Threads, WaitForWork(t) PROVE WaitersCounted'
  <2>1. Waiting' = Waiting \cup {t} /\ t \notin Waiting
    BY <1>17 DEF WaitForWork
  <2>2. Cardinality(Waiting') = Cardinality(Waiting) + 1
    BY <2>1, <1>f, FS_AddElement
  <2> QED BY <1>17, <2>2 DEF WaitForWork, WaitersCounted
<1>18. ASSUME NEW t \in Threads, TakeTask(t) PROVE WaitersCounted'
  <2>1. Waiting' = Waiting /\ waiters' = waiters
    BY <1>18 DEF TakeTask, UnlockAfterPop, UnlockAndSignalOne
  <2> QED BY <2>1 DEF WaitersCounted
<1>19. ASSUME NEW t \in Threads, TakeOp(t) PROVE WaitersCounted'
  <2>1. Waiting' = Waiting /\ waiters' = waiters
    BY <1>19 DEF TakeOp, UnlockAfterPop, UnlockAndSignalOne
  <2> QED BY <2>1 DEF WaitersCounted
<1>20. ASSUME NEW t \in Threads, EpollReturns(t) PROVE WaitersCounted'
  <2>1. Waiting' = Waiting /\ waiters' = waiters
    BY <1>20 DEF EpollReturns
  <2> QED BY <2>1 DEF WaitersCounted
<1>21. ASSUME NEW t \in Threads, EpollInterruptedBySignal(t) PROVE WaitersCounted'
  <2>1. Waiting' = Waiting /\ waiters' = waiters
    BY <1>21 DEF EpollInterruptedBySignal
  <2> QED BY <2>1 DEF WaitersCounted
<1>22. ASSUME NEW t \in Threads, TaskCleanup(t) PROVE WaitersCounted'
  <2>1. Waiting' = Waiting /\ waiters' = waiters
    BY <1>22 DEF TaskCleanup
  <2> QED BY <2>1 DEF WaitersCounted
<1>23. ASSUME NEW t \in Threads, HandlerReturns(t) PROVE WaitersCounted'
  <2>1. Waiting' = Waiting /\ waiters' = waiters
    BY <1>23 DEF HandlerReturns
  <2> QED BY <2>1 DEF WaitersCounted
<1>24. ASSUME NEW t \in Threads, HandlerThrows(t) PROVE WaitersCounted'
  <2>1. Waiting' = Waiting /\ waiters' = waiters
    BY <1>24 DEF HandlerThrows
  <2> QED BY <2>1 DEF WaitersCounted
<1>25. ASSUME NEW t \in Threads, CountPrivateWork(t) PROVE WaitersCounted'
  <2>1. Waiting' = Waiting /\ waiters' = waiters
    BY <1>25 DEF CountPrivateWork
  <2> QED BY <2>1 DEF WaitersCounted
<1>26. ASSUME NEW t \in Threads, FinishOp(t) PROVE WaitersCounted'
  <2>1. Waiting' = Waiting /\ waiters' = waiters
    BY <1>26 DEF FinishOp, WorkFinished
  <2> QED BY <2>1 DEF WaitersCounted
<1>27. ASSUME NEW t \in Threads, FlushPrivateQueue(t) PROVE WaitersCounted'
  <2>1. Waiting' = Waiting /\ waiters' = waiters
    BY <1>27 DEF FlushPrivateQueue
  <2> QED BY <2>1 DEF WaitersCounted
<1>28. CASE UNCHANGED vars
  <2>1. Waiting' = Waiting /\ waiters' = waiters
    BY <1>28 DEF vars
  <2> QED BY <2>1 DEF WaitersCounted
<1> QED
  BY <1>1, <1>2, <1>3, <1>4, <1>5, <1>6, <1>7, <1>8, <1>9, <1>10, <1>11,
     <1>12, <1>13, <1>14, <1>15, <1>16, <1>17, <1>18, <1>19, <1>20, <1>21,
     <1>22, <1>23, <1>24, <1>25, <1>26, <1>27, <1>28 DEF Next, Continue, Call, Surprise

(* Types, return steps, the owner of mutex_ and event::state_ agree in     *)
(* every reachable state, for any number of threads and operations.        *)
THEOREM TypeInvariant == Spec => []TypeInv
<1>1. TypeInv /\ [Next]_vars => TypeInv'
  BY TypeStep, CallsReturnStep, MutexStep, WaitersStep DEF TypeInv
<1> QED BY <1>1, TypeInit, PTL DEF Spec

(* Every variable keeps its type, and event::state_ counts exactly the     *)
(* threads inside event::wait, whatever is called in whatever order.       *)
THEOREM TypeCorrect == Spec => []TypeOK
<1>1. TypeInv => TypeOK
  BY DEF TypeInv, TypeOK
<1> QED
  BY <1>1, TypeInvariant, PTL

-----------------------------------------------------------------------------
(* The task.                                                               *)

Positions(q) == {i \in DOMAIN q : q[i] = TaskOp}

(* Where the task is in a queue that grows at its end, or loses its head.  *)
LEMMA PositionsAppend ==
  ASSUME NEW q \in Seq(Ops \cup {TaskOp}), NEW x \in Ops \cup {TaskOp}
  PROVE  Positions(Append(q, x)) =
           Positions(q) \cup (IF x = TaskOp THEN {Len(q) + 1} ELSE {})
BY DEF Positions

(* op_queue::push of a queue of operations does not move the task.         *)
LEMMA PositionsConcat ==
  ASSUME NEW q \in Seq(Ops \cup {TaskOp}), NEW r \in Seq(Ops)
  PROVE  Positions(q \o r) = Positions(q)
<1>1. \A i \in DOMAIN r : r[i] # TaskOp
  BY ConstantsAssumption
<1> QED BY <1>1 DEF Positions

(* op_queue::pop removes the task exactly when it is at the front.         *)
LEMMA PositionsTail ==
  ASSUME NEW q \in Seq(Ops \cup {TaskOp}), q # <<>>
  PROVE  Positions(Tail(q)) = {i - 1 : i \in Positions(q) \ {1}}
BY DEF Positions

(* The task changes places, and is never duplicated or lost.               *)
LEMMA TaskPlacesStep ==
  ASSUME TypeInv, TaskPlaces, [Next]_vars
  PROVE  TaskPlaces'
<1>0. Typed /\ CallsReturn
  BY DEF TypeInv
<1>p. TaskPositions = Positions(op_queue_) /\ TaskPositions' = Positions(op_queue_')
  BY DEF TaskPositions, Positions
<1> USE <1>0, <1>p, TaskPlaces
<1> USE DEF Typed, CallsReturn, TaskCarriers, TaskSteps, Goto, CallStep, CallSteps,
        ClientSteps, HomeSteps, ReturnSteps
<1>1. ASSUME NEW t \in Threads, NotifyOne(t) PROVE TaskPlaces'
  <2>1. TaskCarriers' = TaskCarriers
    BY <1>1 DEF NotifyOne
  <2> QED BY <1>1, <2>1 DEF NotifyOne, TaskPlaces, TaskPositions
<1>2. ASSUME NEW t \in Threads, Wake(t) PROVE TaskPlaces'
  <2>1. TaskCarriers' = TaskCarriers
    BY <1>2 DEF Wake
  <2> QED BY <1>2, <2>1 DEF Wake, TaskPlaces, TaskPositions
<1>3. ASSUME NEW t \in Threads, SpuriousWake(t) PROVE TaskPlaces'
  <2>1. TaskCarriers' = TaskCarriers
    BY <1>3 DEF SpuriousWake
  <2> QED BY <1>3, <2>1 DEF SpuriousWake, TaskPlaces, TaskPositions
<1>4. ASSUME NEW t \in Threads, NEW op \in Ops, NEW c \in BOOLEAN, Post(t, op, c) PROVE TaskPlaces'
  <2>1. TaskCarriers' = TaskCarriers
    BY <1>4 DEF Post, MayCall
  <2> QED BY <1>4, <2>1 DEF Post, TaskPlaces, TaskPositions
<1>5. ASSUME NEW t \in Threads, PostLocked(t) PROVE TaskPlaces'
  <2>1. TaskCarriers' = TaskCarriers
    BY <1>5 DEF PostLocked, WakeOneThreadAndUnlock
  <2>2. posting[t] \in Ops
    BY <1>5 DEF PostLocked
  <2>3. TaskPositions' = TaskPositions
    BY <1>5, <2>2, PositionsAppend, ConstantsAssumption DEF PostLocked
  <2> QED BY <1>5, <2>1, <2>3 DEF PostLocked, TaskPlaces
<1>6. ASSUME NEW t \in Threads, InitTask(t) PROVE TaskPlaces'
  <2>1. TaskCarriers' = TaskCarriers
    BY <1>6 DEF InitTask, MayCall, WakeOneThreadAndUnlock
  <2>2. TaskPositions' = TaskPositions \cup {Len(op_queue_) + 1}
    BY <1>6, PositionsAppend DEF InitTask
  <2> QED BY <1>6, <2>1, <2>2 DEF InitTask, TaskPlaces
<1>7. ASSUME NEW t \in Threads, Stop(t) PROVE TaskPlaces'
  <2>1. TaskCarriers' = TaskCarriers
    BY <1>7 DEF Stop, MayCall
  <2> QED BY <1>7, <2>1 DEF Stop, TaskPlaces, TaskPositions
<1>8. ASSUME NEW t \in Threads, StopAllThreads(t) PROVE TaskPlaces'
  <2>1. TaskCarriers' = TaskCarriers
    BY <1>8 DEF StopAllThreads, SignalAll, InterruptTaskOnStop, Interrupt
  <2> QED BY <1>8, <2>1 DEF StopAllThreads, TaskPlaces, TaskPositions
<1>9. ASSUME NEW t \in Threads, Restart(t) PROVE TaskPlaces'
  <2>1. TaskCarriers' = TaskCarriers
    BY <1>9 DEF Restart
  <2> QED BY <1>9, <2>1 DEF Restart, TaskPlaces, TaskPositions
<1>10. ASSUME NEW t \in Threads, Shutdown(t) PROVE TaskPlaces'
  <2>1. TaskCarriers' = {}
    BY <1>10 DEF Shutdown
  <2>2. TaskPositions' = {}
    BY <1>10 DEF Shutdown, TaskPositions
  <2> QED BY <1>10, <2>1, <2>2 DEF Shutdown, TaskPlaces
<1>11. ASSUME NEW t \in Threads, NEW g \in Guards, GuardStart(t, g) PROVE TaskPlaces'
  <2>1. TaskCarriers' = TaskCarriers
    BY <1>11 DEF GuardStart
  <2> QED BY <1>11, <2>1 DEF GuardStart, TaskPlaces, TaskPositions
<1>12. ASSUME NEW t \in Threads, NEW g \in Guards, GuardFinish(t, g) PROVE TaskPlaces'
  <2>1. TaskCarriers' = TaskCarriers
    BY <1>12 DEF GuardFinish, WorkFinished, MayCall
  <2> QED BY <1>12, <2>1 DEF GuardFinish, TaskPlaces, TaskPositions
<1>13. ASSUME NEW t \in Threads, NEW g \in Guards, GuardReset(t, g) PROVE TaskPlaces'
  <2>1. TaskCarriers' = TaskCarriers
    BY <1>13 DEF GuardReset, WorkFinished, MayCall
  <2> QED BY <1>13, <2>1 DEF GuardReset, TaskPlaces, TaskPositions
<1>14. ASSUME NEW t \in Threads, Run(t) PROVE TaskPlaces'
  <2>1. TaskCarriers' = TaskCarriers
    BY <1>14 DEF Run
  <2> QED BY <1>14, <2>1 DEF Run, TaskPlaces, TaskPositions
<1>15. ASSUME NEW t \in Threads, Lock(t) PROVE TaskPlaces'
  <2>1. TaskCarriers' = TaskCarriers
    BY <1>15 DEF Lock
  <2> QED BY <1>15, <2>1 DEF Lock, TaskPlaces, TaskPositions
<1>16. ASSUME NEW t \in Threads, LeaveRun(t) PROVE TaskPlaces'
  <2>1. TaskCarriers' = TaskCarriers
    BY <1>16 DEF LeaveRun
  <2> QED BY <1>16, <2>1 DEF LeaveRun, TaskPlaces, TaskPositions
<1>17. ASSUME NEW t \in Threads, WaitForWork(t) PROVE TaskPlaces'
  <2>1. TaskCarriers' = TaskCarriers
    BY <1>17 DEF WaitForWork
  <2> QED BY <1>17, <2>1 DEF WaitForWork, TaskPlaces, TaskPositions
<1>18. ASSUME NEW t \in Threads, TakeTask(t) PROVE TaskPlaces'
  <2>1. 1 \in TaskPositions /\ task_
    BY <1>18 DEF TakeTask, TaskPositions, TaskPlaces
  <2>2. TaskPositions = {1} /\ TaskCarriers = {}
    BY <2>1 DEF TaskPlaces
  <2>3. TaskPositions' = {}
    <3>1. TaskPositions' = {i - 1 : i \in TaskPositions \ {1}}
      BY <1>18, PositionsTail DEF TakeTask
    <3> QED BY <3>1, <2>2
  <2>4. TaskCarriers' = TaskCarriers \cup {t}
    BY <1>18 DEF TakeTask, UnlockAfterPop, UnlockAndSignalOne
  <2> QED BY <1>18, <2>1, <2>2, <2>3, <2>4 DEF TakeTask, TaskPlaces
<1>19. ASSUME NEW t \in Threads, TakeOp(t) PROVE TaskPlaces'
  <2>1. TaskCarriers' = TaskCarriers
    BY <1>19 DEF TakeOp, UnlockAfterPop, UnlockAndSignalOne
  <2>2. 1 \notin TaskPositions
    BY <1>19 DEF TakeOp, TaskPositions
  <2>3. TaskPositions' = {i - 1 : i \in TaskPositions}
    <3>1. TaskPositions \ {1} = TaskPositions
      BY <2>2
    <3>2. TaskPositions' = {i - 1 : i \in TaskPositions \ {1}}
      BY <1>19, PositionsTail DEF TakeOp
    <3> QED BY <3>1, <3>2
  <2>4. task_' = task_
    BY <1>19 DEF TakeOp
  <2> HIDE DEF TaskCarriers
  <2> QED BY <2>1, <2>3, <2>4 DEF TaskPlaces
<1>20. ASSUME NEW t \in Threads, EpollReturns(t) PROVE TaskPlaces'
  <2>1. TaskCarriers' = TaskCarriers
    BY <1>20 DEF EpollReturns
  <2> QED BY <1>20, <2>1 DEF EpollReturns, TaskPlaces, TaskPositions
<1>21. ASSUME NEW t \in Threads, EpollInterruptedBySignal(t) PROVE TaskPlaces'
  <2>1. TaskCarriers' = TaskCarriers
    BY <1>21 DEF EpollInterruptedBySignal
  <2> QED BY <1>21, <2>1 DEF EpollInterruptedBySignal, TaskPlaces, TaskPositions
<1>22. ASSUME NEW t \in Threads, TaskCleanup(t) PROVE TaskPlaces'
  <2>1. t \in TaskCarriers /\ task_
    BY <1>22 DEF TaskCleanup, TaskPlaces
  <2>2. TaskCarriers = {t} /\ TaskPositions = {}
    BY <2>1 DEF TaskPlaces
  <2>3. TaskCarriers' = TaskCarriers \ {t}
    BY <1>22 DEF TaskCleanup
  <2>4. \E k : TaskPositions' = TaskPositions \cup {k}
    <3>1. /\ private_op_queue[t] \in Seq(Ops)
          /\ op_queue_ \o private_op_queue[t] \in Seq(Ops \cup {TaskOp})
      <4>1. private_op_queue[t] \in Seq(Ops \cup {TaskOp})
        OBVIOUS
      <4> QED BY <4>1
    <3>2. Positions(op_queue_ \o private_op_queue[t]) = Positions(op_queue_)
      BY <3>1, PositionsConcat
    <3>3. Positions(Append(op_queue_ \o private_op_queue[t], TaskOp))
            = Positions(op_queue_ \o private_op_queue[t])
              \cup {Len(op_queue_ \o private_op_queue[t]) + 1}
      BY <3>1, PositionsAppend
    <3> QED BY <1>22, <3>2, <3>3 DEF TaskCleanup
  <2> QED BY <1>22, <2>1, <2>2, <2>3, <2>4 DEF TaskCleanup, TaskPlaces
<1>23. ASSUME NEW t \in Threads, HandlerReturns(t) PROVE TaskPlaces'
  <2>1. TaskCarriers' = TaskCarriers
    BY <1>23 DEF HandlerReturns
  <2> QED BY <1>23, <2>1 DEF HandlerReturns, TaskPlaces, TaskPositions
<1>24. ASSUME NEW t \in Threads, HandlerThrows(t) PROVE TaskPlaces'
  <2>1. TaskCarriers' = TaskCarriers
    BY <1>24 DEF HandlerThrows
  <2> QED BY <1>24, <2>1 DEF HandlerThrows, TaskPlaces, TaskPositions
<1>25. ASSUME NEW t \in Threads, CountPrivateWork(t) PROVE TaskPlaces'
  <2>1. TaskCarriers' = TaskCarriers
    BY <1>25 DEF CountPrivateWork
  <2> QED BY <1>25, <2>1 DEF CountPrivateWork, TaskPlaces, TaskPositions
<1>26. ASSUME NEW t \in Threads, FinishOp(t) PROVE TaskPlaces'
  <2>1. TaskCarriers' = TaskCarriers
    BY <1>26 DEF FinishOp, WorkFinished
  <2> QED BY <1>26, <2>1 DEF FinishOp, TaskPlaces, TaskPositions
<1>27. ASSUME NEW t \in Threads, FlushPrivateQueue(t) PROVE TaskPlaces'
  <2>1. TaskCarriers' = TaskCarriers
    BY <1>27 DEF FlushPrivateQueue
  <2>2. TaskPositions' = TaskPositions
    BY <1>27, PositionsConcat DEF FlushPrivateQueue
  <2> QED BY <1>27, <2>1, <2>2 DEF FlushPrivateQueue, TaskPlaces
<1>28. CASE UNCHANGED vars
  BY <1>28 DEF vars, TaskPlaces, TaskPositions
<1> QED
  BY <1>1, <1>2, <1>3, <1>4, <1>5, <1>6, <1>7, <1>8, <1>9, <1>10, <1>11,
     <1>12, <1>13, <1>14, <1>15, <1>16, <1>17, <1>18, <1>19, <1>20, <1>21,
     <1>22, <1>23, <1>24, <1>25, <1>26, <1>27, <1>28 DEF Next, Continue, Call, Surprise

-----------------------------------------------------------------------------
(* Stopping.                                                               *)

(* No step blocks the task, or requests or consumes its interrupt, so that *)
(* a stop goes unnoticed.                                                  *)
LEMMA InterruptStep ==
  ASSUME TypeInv, TaskPlaces, InterruptPending, [Next]_vars
  PROVE  InterruptPending'
<1>0. Typed /\ CallsReturn
  BY DEF TypeInv
<1> USE <1>0, TaskPlaces
<1> USE DEF Typed, CallsReturn, InterruptPending, Goto, CallStep, CallSteps, ClientSteps,
        HomeSteps, ReturnSteps
<1>1. ASSUME NEW t \in Threads, NotifyOne(t) PROVE InterruptPending'
  BY <1>1 DEF NotifyOne
<1>2. ASSUME NEW t \in Threads, Wake(t) PROVE InterruptPending'
  BY <1>2 DEF Wake
<1>3. ASSUME NEW t \in Threads, SpuriousWake(t) PROVE InterruptPending'
  BY <1>3 DEF SpuriousWake
<1>4. ASSUME NEW t \in Threads, NEW op \in Ops, NEW c \in BOOLEAN, Post(t, op, c) PROVE InterruptPending'
  BY <1>4 DEF Post, MayCall
<1>5. ASSUME NEW t \in Threads, PostLocked(t) PROVE InterruptPending'
  BY <1>5 DEF PostLocked, WakeOneThreadAndUnlock, Interrupt
<1>6. ASSUME NEW t \in Threads, InitTask(t) PROVE InterruptPending'
  BY <1>6 DEF InitTask, WakeOneThreadAndUnlock, Interrupt, MayCall
<1>7. ASSUME NEW t \in Threads, Stop(t) PROVE InterruptPending'
  BY <1>7 DEF Stop, MayCall
<1>8. ASSUME NEW t \in Threads, StopAllThreads(t) PROVE InterruptPending'
  <2>1. \A s \in Threads : pc'[s] = "block" => pc[s] = "block"
    BY <1>8 DEF StopAllThreads, SignalAll
  <2>2. \A s \in Threads : pc[s] = "block" => task_
    BY DEF TaskPlaces, TaskCarriers, TaskSteps
  <2> QED BY <1>8, <2>1, <2>2 DEF StopAllThreads, InterruptTaskOnStop, Interrupt
<1>9. ASSUME NEW t \in Threads, Restart(t) PROVE InterruptPending'
  BY <1>9 DEF Restart
<1>10. ASSUME NEW t \in Threads, Shutdown(t) PROVE InterruptPending'
  BY <1>10 DEF Shutdown, MayCall
<1>11. ASSUME NEW t \in Threads, NEW g \in Guards, GuardStart(t, g) PROVE InterruptPending'
  BY <1>11 DEF GuardStart
<1>12. ASSUME NEW t \in Threads, NEW g \in Guards, GuardFinish(t, g) PROVE InterruptPending'
  BY <1>12 DEF GuardFinish, WorkFinished, MayCall
<1>13. ASSUME NEW t \in Threads, NEW g \in Guards, GuardReset(t, g) PROVE InterruptPending'
  BY <1>13 DEF GuardReset, WorkFinished, MayCall
<1>14. ASSUME NEW t \in Threads, Run(t) PROVE InterruptPending'
  BY <1>14 DEF Run
<1>15. ASSUME NEW t \in Threads, Lock(t) PROVE InterruptPending'
  BY <1>15 DEF Lock
<1>16. ASSUME NEW t \in Threads, LeaveRun(t) PROVE InterruptPending'
  BY <1>16 DEF LeaveRun
<1>17. ASSUME NEW t \in Threads, WaitForWork(t) PROVE InterruptPending'
  BY <1>17 DEF WaitForWork
<1>18. ASSUME NEW t \in Threads, TakeTask(t) PROVE InterruptPending'
  <2>1. 1 \in TaskPositions
    BY <1>18 DEF TakeTask, TaskPositions
  <2>2. TaskCarriers = {}
    BY <2>1 DEF TaskPlaces
  <2>3. \A s \in Threads : pc[s] # "block"
    BY <2>2 DEF TaskCarriers, TaskSteps
  <2> QED BY <1>18, <2>3 DEF TakeTask, UnlockAfterPop, UnlockAndSignalOne
<1>19. ASSUME NEW t \in Threads, TakeOp(t) PROVE InterruptPending'
  BY <1>19 DEF TakeOp, UnlockAfterPop, UnlockAndSignalOne
<1>20. ASSUME NEW t \in Threads, EpollReturns(t) PROVE InterruptPending'
  <2>1. t \in TaskCarriers
    BY <1>20 DEF EpollReturns, TaskCarriers, TaskSteps
  <2>2. \A s \in Threads : pc[s] = "block" => s = t
    BY <2>1 DEF TaskPlaces, TaskCarriers, TaskSteps
  <2> QED BY <1>20, <2>2 DEF EpollReturns
<1>21. ASSUME NEW t \in Threads, EpollInterruptedBySignal(t) PROVE InterruptPending'
  <2>1. t \in TaskCarriers
    BY <1>21 DEF EpollInterruptedBySignal, TaskCarriers, TaskSteps
  <2>2. \A s \in Threads : pc[s] = "block" => s = t
    BY <2>1 DEF TaskPlaces, TaskCarriers, TaskSteps
  <2> QED BY <1>21, <2>2 DEF EpollInterruptedBySignal
<1>22. ASSUME NEW t \in Threads, TaskCleanup(t) PROVE InterruptPending'
  <2>1. t \in TaskCarriers
    BY <1>22 DEF TaskCleanup, TaskCarriers, TaskSteps
  <2>2. \A s \in Threads : pc[s] = "block" => s = t
    BY <2>1 DEF TaskPlaces, TaskCarriers, TaskSteps
  <2> QED BY <1>22, <2>2 DEF TaskCleanup
<1>23. ASSUME NEW t \in Threads, HandlerReturns(t) PROVE InterruptPending'
  BY <1>23 DEF HandlerReturns
<1>24. ASSUME NEW t \in Threads, HandlerThrows(t) PROVE InterruptPending'
  BY <1>24 DEF HandlerThrows
<1>25. ASSUME NEW t \in Threads, CountPrivateWork(t) PROVE InterruptPending'
  BY <1>25 DEF CountPrivateWork
<1>26. ASSUME NEW t \in Threads, FinishOp(t) PROVE InterruptPending'
  BY <1>26 DEF FinishOp, WorkFinished
<1>27. ASSUME NEW t \in Threads, FlushPrivateQueue(t) PROVE InterruptPending'
  BY <1>27 DEF FlushPrivateQueue
<1>28. CASE UNCHANGED vars
  BY <1>28 DEF vars
<1> QED
  BY <1>1, <1>2, <1>3, <1>4, <1>5, <1>6, <1>7, <1>8, <1>9, <1>10, <1>11,
     <1>12, <1>13, <1>14, <1>15, <1>16, <1>17, <1>18, <1>19, <1>20, <1>21,
     <1>22, <1>23, <1>24, <1>25, <1>26, <1>27, <1>28 DEF Next, Continue, Call, Surprise

(* No step puts a thread to sleep past a stop.                             *)
LEMMA StopSignalledStep ==
  ASSUME TypeInv, StopSignalled, [Next]_vars
  PROVE  StopSignalled'
<1>0. Typed /\ CallsReturn
  BY DEF TypeInv
<1> USE <1>0
<1> USE DEF Typed, CallsReturn, StopSignalled, TaskCarriers, TaskSteps, Goto, CallStep, CallSteps, ClientSteps,
        HomeSteps, ReturnSteps, eventVars, historyVars
<1>1. ASSUME NEW t \in Threads, NotifyOne(t) PROVE StopSignalled'
  BY <1>1 DEF NotifyOne
<1>2. ASSUME NEW t \in Threads, Wake(t) PROVE StopSignalled'
  BY <1>2 DEF Wake
<1>3. ASSUME NEW t \in Threads, SpuriousWake(t) PROVE StopSignalled'
  BY <1>3 DEF SpuriousWake
<1>4. ASSUME NEW t \in Threads, NEW op \in Ops, NEW c \in BOOLEAN, Post(t, op, c) PROVE StopSignalled'
  BY <1>4 DEF Post, MayCall
<1>5. ASSUME NEW t \in Threads, PostLocked(t) PROVE StopSignalled'
  BY <1>5 DEF PostLocked, WakeOneThreadAndUnlock
<1>6. ASSUME NEW t \in Threads, InitTask(t) PROVE StopSignalled'
  BY <1>6 DEF InitTask, WakeOneThreadAndUnlock
<1>7. ASSUME NEW t \in Threads, Stop(t) PROVE StopSignalled'
  BY <1>7 DEF Stop, MayCall
<1>8. ASSUME NEW t \in Threads, StopAllThreads(t) PROVE StopSignalled'
  BY <1>8 DEF StopAllThreads, SignalAll, InterruptTaskOnStop, Interrupt
<1>9. ASSUME NEW t \in Threads, Restart(t) PROVE StopSignalled'
  BY <1>9 DEF Restart
<1>10. ASSUME NEW t \in Threads, Shutdown(t) PROVE StopSignalled'
  BY <1>10 DEF Shutdown, MayCall
<1>11. ASSUME NEW t \in Threads, NEW g \in Guards, GuardStart(t, g) PROVE StopSignalled'
  BY <1>11 DEF GuardStart
<1>12. ASSUME NEW t \in Threads, NEW g \in Guards, GuardFinish(t, g) PROVE StopSignalled'
  BY <1>12 DEF GuardFinish, WorkFinished, MayCall
<1>13. ASSUME NEW t \in Threads, NEW g \in Guards, GuardReset(t, g) PROVE StopSignalled'
  BY <1>13 DEF GuardReset, WorkFinished, MayCall
<1>14. ASSUME NEW t \in Threads, Run(t) PROVE StopSignalled'
  BY <1>14 DEF Run
<1>15. ASSUME NEW t \in Threads, Lock(t) PROVE StopSignalled'
  BY <1>15 DEF Lock
<1>16. ASSUME NEW t \in Threads, LeaveRun(t) PROVE StopSignalled'
  BY <1>16 DEF LeaveRun
<1>17. ASSUME NEW t \in Threads, WaitForWork(t) PROVE StopSignalled'
  BY <1>17 DEF WaitForWork
<1>18. ASSUME NEW t \in Threads, TakeTask(t) PROVE StopSignalled'
  BY <1>18 DEF TakeTask, UnlockAfterPop, UnlockAndSignalOne
<1>19. ASSUME NEW t \in Threads, TakeOp(t) PROVE StopSignalled'
  BY <1>19 DEF TakeOp, UnlockAfterPop, UnlockAndSignalOne
<1>20. ASSUME NEW t \in Threads, EpollReturns(t) PROVE StopSignalled'
  BY <1>20 DEF EpollReturns
<1>21. ASSUME NEW t \in Threads, EpollInterruptedBySignal(t) PROVE StopSignalled'
  BY <1>21 DEF EpollInterruptedBySignal
<1>22. ASSUME NEW t \in Threads, TaskCleanup(t) PROVE StopSignalled'
  BY <1>22 DEF TaskCleanup
<1>23. ASSUME NEW t \in Threads, HandlerReturns(t) PROVE StopSignalled'
  BY <1>23 DEF HandlerReturns
<1>24. ASSUME NEW t \in Threads, HandlerThrows(t) PROVE StopSignalled'
  BY <1>24 DEF HandlerThrows
<1>25. ASSUME NEW t \in Threads, CountPrivateWork(t) PROVE StopSignalled'
  BY <1>25 DEF CountPrivateWork
<1>26. ASSUME NEW t \in Threads, FinishOp(t) PROVE StopSignalled'
  BY <1>26 DEF FinishOp, WorkFinished
<1>27. ASSUME NEW t \in Threads, FlushPrivateQueue(t) PROVE StopSignalled'
  BY <1>27 DEF FlushPrivateQueue
<1>28. CASE UNCHANGED vars
  BY <1>28 DEF vars
<1> QED
  BY <1>1, <1>2, <1>3, <1>4, <1>5, <1>6, <1>7, <1>8, <1>9, <1>10, <1>11,
     <1>12, <1>13, <1>14, <1>15, <1>16, <1>17, <1>18, <1>19, <1>20, <1>21,
     <1>22, <1>23, <1>24, <1>25, <1>26, <1>27, <1>28 DEF Next, Continue, Call, Surprise

(* At first the scheduler has no task, and nobody waits.                   *)
LEMMA StopInit == Init => StopInv
<1> SUFFICES ASSUME Init PROVE StopInv
  OBVIOUS
<1>1. TaskCarriers = {} /\ TaskPositions = {} /\ task_ = FALSE
  BY DEF Init, TaskCarriers, TaskSteps, TaskPositions
<1>2. TaskPlaces
  BY <1>1 DEF TaskPlaces
<1>3. InterruptPending /\ StopSignalled
  BY <1>1 DEF Init, InterruptPending, StopSignalled
<1> QED BY <1>2, <1>3, TypeInit DEF StopInv

(* stop_all_threads, do_run_one and task_cleanup keep the invariant behind *)
(* a stop: one task, its interrupt pending, and bit 0 of the event set.    *)
THEOREM StopInvariant == Spec => []StopInv
<1>1. StopInv /\ [Next]_vars => StopInv'
  BY TypeStep, CallsReturnStep, MutexStep, WaitersStep, TaskPlacesStep, InterruptStep,
     StopSignalledStep DEF StopInv, TypeInv
<1> QED BY <1>1, StopInit, PTL DEF Spec

(* A thread that sleeps, or blocks without an interrupt, is not left out.  *)
LEMMA StopIsSeen == StopInv => StopReachesAll
BY DEF StopInv, StopReachesAll, StopSignalled, InterruptPending

(* stop_all_threads reaches every thread: none stays asleep on the event   *)
(* or blocked in epoll_wait without an interrupt.  stop() only finds       *)
(* task_interrupted_ set when an interrupt is pending already, since one   *)
(* thread at a time has the task.                                          *)
THEOREM StopReaches == Spec => []StopReachesAll
BY StopIsSeen, StopInvariant, PTL

(* init_task, do_run_one, task_cleanup: the task is in one place exactly,  *)
(* in the queue or with a thread, from init_task to shutdown.              *)
THEOREM TaskOnePlace == Spec => []TaskHasOnePlace
<1>1. StopInv => TaskHasOnePlace
  <2> SUFFICES ASSUME StopInv PROVE TaskHasOnePlace
    OBVIOUS
  <2>1. \A S : S = {} => Cardinality(S) = 0
    BY FS_EmptySet
  <2>2. \A S : S # {} /\ (\A x, y \in S : x = y) => Cardinality(S) = 1
    <3> SUFFICES ASSUME NEW S, S # {}, \A x, y \in S : x = y
                 PROVE  Cardinality(S) = 1
      OBVIOUS
    <3>1. PICK x \in S : S = {x}
      OBVIOUS
    <3> QED BY <3>1, FS_Singleton
  <2>3. TaskPlaces /\ task_ \in BOOLEAN
    BY DEF StopInv, TypeInv, Typed
  <2>4. CASE TaskCarriers # {}
    <3>1. TaskPositions = {} /\ task_
      BY <2>3, <2>4 DEF TaskPlaces
    <3>2. Cardinality(TaskCarriers) = 1 /\ Cardinality(TaskPositions) = 0
      BY <2>1, <2>2, <2>3, <2>4, <3>1 DEF TaskPlaces
    <3> QED BY <3>1, <3>2 DEF TaskHasOnePlace
  <2>5. CASE TaskCarriers = {} /\ TaskPositions # {}
    <3>1. task_
      BY <2>3, <2>5 DEF TaskPlaces
    <3>2. Cardinality(TaskCarriers) = 0 /\ Cardinality(TaskPositions) = 1
      BY <2>1, <2>2, <2>3, <2>5 DEF TaskPlaces
    <3> QED BY <3>1, <3>2 DEF TaskHasOnePlace
  <2>6. CASE TaskCarriers = {} /\ TaskPositions = {}
    <3>1. ~task_
      BY <2>3, <2>6 DEF TaskPlaces
    <3>2. Cardinality(TaskCarriers) = 0 /\ Cardinality(TaskPositions) = 0
      BY <2>1, <2>6
    <3> QED BY <3>1, <3>2 DEF TaskHasOnePlace
  <2> QED BY <2>4, <2>5, <2>6
<1> QED BY <1>1, StopInvariant, PTL

-----------------------------------------------------------------------------
(* Waking up.                                                              *)

(* Whatever queues an operation sets bit 0 or goes on to take one.         *)
LEMMA QueueSignalledStep ==
  ASSUME TypeInv, StopSignalled, QueueSignalled, [Next]_vars
  PROVE  QueueSignalled'
<1>0. Typed /\ CallsReturn /\ MutexHeld
  BY DEF TypeInv
<1> USE <1>0, ConstantsAssumption
<1> USE DEF Typed, CallsReturn, MutexHeld, StopSignalled, QueueSignalled, Goto, CallStep,
        CallSteps, ClientSteps, HomeSteps, ReturnSteps, eventVars, historyVars
<1>1. ASSUME NEW t \in Threads, NotifyOne(t) PROVE QueueSignalled'
  BY <1>1 DEF NotifyOne
<1>2. ASSUME NEW t \in Threads, Wake(t) PROVE QueueSignalled'
  BY <1>2 DEF Wake
<1>3. ASSUME NEW t \in Threads, SpuriousWake(t) PROVE QueueSignalled'
  BY <1>3 DEF SpuriousWake
<1>4. ASSUME NEW t \in Threads, NEW op \in Ops, NEW c \in BOOLEAN, Post(t, op, c) PROVE QueueSignalled'
  BY <1>4 DEF Post, MayCall
<1>5. ASSUME NEW t \in Threads, PostLocked(t) PROVE QueueSignalled'
  BY <1>5 DEF PostLocked, WakeOneThreadAndUnlock, Interrupt
<1>6. ASSUME NEW t \in Threads, InitTask(t) PROVE QueueSignalled'
  BY <1>6 DEF InitTask, WakeOneThreadAndUnlock, Interrupt, MayCall
<1>7. ASSUME NEW t \in Threads, Stop(t) PROVE QueueSignalled'
  BY <1>7 DEF Stop, MayCall
<1>8. ASSUME NEW t \in Threads, StopAllThreads(t) PROVE QueueSignalled'
  BY <1>8 DEF StopAllThreads, SignalAll, InterruptTaskOnStop, Interrupt
<1>9. ASSUME NEW t \in Threads, Restart(t) PROVE QueueSignalled'
  BY <1>9 DEF Restart
<1>10. ASSUME NEW t \in Threads, Shutdown(t) PROVE QueueSignalled'
  BY <1>10 DEF Shutdown, MayCall
<1>11. ASSUME NEW t \in Threads, NEW g \in Guards, GuardStart(t, g) PROVE QueueSignalled'
  BY <1>11 DEF GuardStart
<1>12. ASSUME NEW t \in Threads, NEW g \in Guards, GuardFinish(t, g) PROVE QueueSignalled'
  BY <1>12 DEF GuardFinish, WorkFinished, MayCall
<1>13. ASSUME NEW t \in Threads, NEW g \in Guards, GuardReset(t, g) PROVE QueueSignalled'
  BY <1>13 DEF GuardReset, WorkFinished, MayCall
<1>14. ASSUME NEW t \in Threads, Run(t) PROVE QueueSignalled'
  BY <1>14 DEF Run
<1>15. ASSUME NEW t \in Threads, Lock(t) PROVE QueueSignalled'
  BY <1>15 DEF Lock
<1>16. ASSUME NEW t \in Threads, LeaveRun(t) PROVE QueueSignalled'
  BY <1>16 DEF LeaveRun
<1>17. ASSUME NEW t \in Threads, WaitForWork(t) PROVE QueueSignalled'
  BY <1>17 DEF WaitForWork
<1>18. ASSUME NEW t \in Threads, TakeTask(t) PROVE QueueSignalled'
  BY <1>18 DEF TakeTask, UnlockAfterPop, UnlockAndSignalOne
<1>19. ASSUME NEW t \in Threads, TakeOp(t) PROVE QueueSignalled'
  BY <1>19 DEF TakeOp, UnlockAfterPop, UnlockAndSignalOne
<1>20. ASSUME NEW t \in Threads, EpollReturns(t) PROVE QueueSignalled'
  BY <1>20 DEF EpollReturns
<1>21. ASSUME NEW t \in Threads, EpollInterruptedBySignal(t) PROVE QueueSignalled'
  BY <1>21 DEF EpollInterruptedBySignal
<1>22. ASSUME NEW t \in Threads, TaskCleanup(t) PROVE QueueSignalled'
  BY <1>22 DEF TaskCleanup
<1>23. ASSUME NEW t \in Threads, HandlerReturns(t) PROVE QueueSignalled'
  BY <1>23 DEF HandlerReturns
<1>24. ASSUME NEW t \in Threads, HandlerThrows(t) PROVE QueueSignalled'
  BY <1>24 DEF HandlerThrows
<1>25. ASSUME NEW t \in Threads, CountPrivateWork(t) PROVE QueueSignalled'
  BY <1>25 DEF CountPrivateWork
<1>26. ASSUME NEW t \in Threads, FinishOp(t) PROVE QueueSignalled'
  BY <1>26 DEF FinishOp, WorkFinished
<1>27. ASSUME NEW t \in Threads, FlushPrivateQueue(t) PROVE QueueSignalled'
  BY <1>27 DEF FlushPrivateQueue
<1>28. CASE UNCHANGED vars
  BY <1>28 DEF vars
<1> QED
  BY <1>1, <1>2, <1>3, <1>4, <1>5, <1>6, <1>7, <1>8, <1>9, <1>10, <1>11,
     <1>12, <1>13, <1>14, <1>15, <1>16, <1>17, <1>18, <1>19, <1>20, <1>21,
     <1>22, <1>23, <1>24, <1>25, <1>26, <1>27, <1>28 DEF Next, Continue, Call, Surprise

(* Nobody falls asleep beside a queued operation, and whoever stops        *)
(* attending to the queue has passed the wake-up on.                       *)
LEMMA NoSleepStep ==
  ASSUME TypeInv, StopSignalled, QueueSignalled, NoSleepBesideWork, [Next]_vars
  PROVE  NoSleepBesideWork'
<1>0. Typed /\ CallsReturn /\ MutexHeld
  BY DEF TypeInv
<1> USE <1>0, ConstantsAssumption
<1> USE DEF Typed, CallsReturn, MutexHeld, StopSignalled, QueueSignalled, NoSleepBesideWork,
        Attending, Goto, CallStep, CallSteps, ClientSteps, HomeSteps, ReturnSteps,
        eventVars, historyVars
<1>1. ASSUME NEW t \in Threads, NotifyOne(t) PROVE NoSleepBesideWork'
  BY <1>1 DEF NotifyOne
<1>2. ASSUME NEW t \in Threads, Wake(t) PROVE NoSleepBesideWork'
  BY <1>2 DEF Wake
<1>3. ASSUME NEW t \in Threads, SpuriousWake(t) PROVE NoSleepBesideWork'
  BY <1>3 DEF SpuriousWake
<1>4. ASSUME NEW t \in Threads, NEW op \in Ops, NEW c \in BOOLEAN, Post(t, op, c) PROVE NoSleepBesideWork'
  BY <1>4 DEF Post, MayCall
<1>5. ASSUME NEW t \in Threads, PostLocked(t) PROVE NoSleepBesideWork'
  <2>1. waiters = 0 => \A s \in Threads : pc[s] # "asleep"
    BY WaitingPositive
  <2>2. CASE waiters > 0
    <3>1. pc' = [pc EXCEPT ![t] = "notify"]
      BY <1>5, <2>2 DEF PostLocked, WakeOneThreadAndUnlock
    <3> QED BY <3>1
  <2>3. CASE ~(waiters > 0)
    <3>1. pc' = [pc EXCEPT ![t] = ret[t]] /\ ret[t] # "asleep"
      BY <1>5, <2>3 DEF PostLocked, WakeOneThreadAndUnlock
    <3> QED BY <2>1, <2>3, <3>1
  <2> QED BY <2>2, <2>3
<1>6. ASSUME NEW t \in Threads, InitTask(t) PROVE NoSleepBesideWork'
  <2>1. waiters = 0 => \A s \in Threads : pc[s] # "asleep"
    BY WaitingPositive
  <2> QED BY <1>6, <2>1 DEF InitTask, WakeOneThreadAndUnlock, Interrupt, MayCall
<1>7. ASSUME NEW t \in Threads, Stop(t) PROVE NoSleepBesideWork'
  BY <1>7 DEF Stop, MayCall
<1>8. ASSUME NEW t \in Threads, StopAllThreads(t) PROVE NoSleepBesideWork'
  BY <1>8 DEF StopAllThreads, SignalAll, InterruptTaskOnStop, Interrupt
<1>9. ASSUME NEW t \in Threads, Restart(t) PROVE NoSleepBesideWork'
  BY <1>9 DEF Restart
<1>10. ASSUME NEW t \in Threads, Shutdown(t) PROVE NoSleepBesideWork'
  BY <1>10 DEF Shutdown, MayCall
<1>11. ASSUME NEW t \in Threads, NEW g \in Guards, GuardStart(t, g) PROVE NoSleepBesideWork'
  BY <1>11 DEF GuardStart
<1>12. ASSUME NEW t \in Threads, NEW g \in Guards, GuardFinish(t, g) PROVE NoSleepBesideWork'
  BY <1>12 DEF GuardFinish, WorkFinished, MayCall
<1>13. ASSUME NEW t \in Threads, NEW g \in Guards, GuardReset(t, g) PROVE NoSleepBesideWork'
  BY <1>13 DEF GuardReset, WorkFinished, MayCall
<1>14. ASSUME NEW t \in Threads, Run(t) PROVE NoSleepBesideWork'
  BY <1>14 DEF Run
<1>15. ASSUME NEW t \in Threads, Lock(t) PROVE NoSleepBesideWork'
  BY <1>15 DEF Lock
<1>16. ASSUME NEW t \in Threads, LeaveRun(t) PROVE NoSleepBesideWork'
  BY <1>16 DEF LeaveRun
<1>17. ASSUME NEW t \in Threads, WaitForWork(t) PROVE NoSleepBesideWork'
  BY <1>17 DEF WaitForWork
<1>18. ASSUME NEW t \in Threads, TakeTask(t) PROVE NoSleepBesideWork'
  <2>1. waiters = 0 => \A s \in Threads : pc[s] # "asleep"
    BY WaitingPositive
  <2> QED BY <1>18, <2>1 DEF TakeTask, UnlockAfterPop, UnlockAndSignalOne
<1>19. ASSUME NEW t \in Threads, TakeOp(t) PROVE NoSleepBesideWork'
  <2>1. waiters = 0 => \A s \in Threads : pc[s] # "asleep"
    BY WaitingPositive
  <2> QED BY <1>19, <2>1 DEF TakeOp, UnlockAfterPop, UnlockAndSignalOne
<1>20. ASSUME NEW t \in Threads, EpollReturns(t) PROVE NoSleepBesideWork'
  BY <1>20 DEF EpollReturns
<1>21. ASSUME NEW t \in Threads, EpollInterruptedBySignal(t) PROVE NoSleepBesideWork'
  BY <1>21 DEF EpollInterruptedBySignal
<1>22. ASSUME NEW t \in Threads, TaskCleanup(t) PROVE NoSleepBesideWork'
  BY <1>22 DEF TaskCleanup
<1>23. ASSUME NEW t \in Threads, HandlerReturns(t) PROVE NoSleepBesideWork'
  BY <1>23 DEF HandlerReturns
<1>24. ASSUME NEW t \in Threads, HandlerThrows(t) PROVE NoSleepBesideWork'
  BY <1>24 DEF HandlerThrows
<1>25. ASSUME NEW t \in Threads, CountPrivateWork(t) PROVE NoSleepBesideWork'
  BY <1>25 DEF CountPrivateWork
<1>26. ASSUME NEW t \in Threads, FinishOp(t) PROVE NoSleepBesideWork'
  BY <1>26 DEF FinishOp, WorkFinished
<1>27. ASSUME NEW t \in Threads, FlushPrivateQueue(t) PROVE NoSleepBesideWork'
  BY <1>27 DEF FlushPrivateQueue
<1>28. CASE UNCHANGED vars
  BY <1>28 DEF vars
<1> QED
  BY <1>1, <1>2, <1>3, <1>4, <1>5, <1>6, <1>7, <1>8, <1>9, <1>10, <1>11,
     <1>12, <1>13, <1>14, <1>15, <1>16, <1>17, <1>18, <1>19, <1>20, <1>21,
     <1>22, <1>23, <1>24, <1>25, <1>26, <1>27, <1>28 DEF Next, Continue, Call, Surprise

(* wake_one_thread_and_unlock, do_run_one and event::wait keep the         *)
(* invariant behind the wake-ups: bit 0 of the event covers the queue.     *)
THEOREM WakeInvariant == Spec => []WakeInv
<1>1. Init => QueueSignalled /\ NoSleepBesideWork
  BY DEF Init, QueueSignalled, NoSleepBesideWork
<1>2. WakeInv /\ [Next]_vars => QueueSignalled' /\ NoSleepBesideWork'
  BY QueueSignalledStep, NoSleepStep DEF WakeInv, StopInv
<1>3. StopInv /\ StopInv' /\ QueueSignalled' /\ NoSleepBesideWork' => WakeInv'
  BY DEF WakeInv
<1>4. StopInv /\ QueueSignalled /\ NoSleepBesideWork => WakeInv
  BY DEF WakeInv
<1> QED BY <1>1, <1>2, <1>3, <1>4, StopInvariant, PTL DEF Spec

(* do_run_one and wake_one_thread_and_unlock lose no wake-up: while the    *)
(* scheduler runs, no thread sleeps beside a queued operation that nobody  *)
(* is about to take or to wake someone for.                                *)
THEOREM NoLostWakeup == Spec => []NoSleepBesideWork
<1>1. WakeInv => NoSleepBesideWork
  BY DEF WakeInv
<1> QED BY <1>1, WakeInvariant, PTL

=============================================================================
