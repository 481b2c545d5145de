------------------------- MODULE SchedulerWorkProofs -------------------------
(***************************************************************************)
(* Proofs about the operations of Scheduler and the work that is counted   *)
(* for them, for any number of threads, operations and guards: that an     *)
(* operation is in one place, that the count is right and never below      *)
(* zero, that a scheduler stops drained, that it implements the contract   *)
(* of ExecutorContract, and that somebody comes back for what is queued.   *)
(***************************************************************************)
EXTENDS SchedulerProofs, SequenceTheorems

-----------------------------------------------------------------------------
(* What a thread holds, from where it is.                                  *)

(* A private queue that was posted to is not empty.                        *)
LEMMA HandlerQueueGrows ==
  ASSUME Typed, NEW t \in Threads, NEW op \in Ops
  PROVE  /\ Append(private_op_queue[t], op) # <<>>
         /\ Len(Append(private_op_queue[t], op)) = Len(private_op_queue[t]) + 1
<1>1. private_op_queue[t] \in Seq(Ops)
  BY DEF Typed
<1> HIDE DEF Typed
<1> QED BY <1>1, AppendProperties

(* Every step keeps what a thread holds to what its step says.             *)
LEMMA HoldsStep ==
  ASSUME TypeInv, HoldsByStep, [Next]_vars
  PROVE  HoldsByStep'
<1>0. Typed /\ CallsReturn
  BY DEF TypeInv
<1> USE <1>0, ConstantsAssumption
<1> USE DEF Typed, CallsReturn, HoldsByStep, InHandler, Completing, Flushing, Goto, CallStep, CallSteps,
        ClientSteps, HomeSteps, ReturnSteps, privateVars, historyVars
<1>1. ASSUME NEW t \in Threads, NotifyOne(t) PROVE HoldsByStep'
  <2>1. CASE pc' = [pc EXCEPT ![t] = ret[t]]
    BY <1>1, <2>1 DEF NotifyOne
  <2>2. ASSUME NEW s \in Threads, pc[s] = "asleep",
               pc' = [pc EXCEPT ![s] = "woken", ![t] = ret[t]]
        PROVE  HoldsByStep'
    BY <1>1, <2>2 DEF NotifyOne
  <2> QED BY <1>1, <2>1, <2>2 DEF NotifyOne
<1>2. ASSUME NEW t \in Threads, Wake(t) PROVE HoldsByStep'
  <2>1. pc[t] = "woken" /\ UNCHANGED <<ret, posting, running, privateVars>>
    BY <1>2 DEF Wake
  <2>2. CASE pc' = [pc EXCEPT ![t] = "loop"]
    BY <2>1, <2>2
  <2>3. CASE pc' = [pc EXCEPT ![t] = "asleep"]
    BY <2>1, <2>3
  <2> QED BY <1>2, <2>2, <2>3 DEF Wake
<1>3. ASSUME NEW t \in Threads, SpuriousWake(t) PROVE HoldsByStep'
  BY <1>3 DEF SpuriousWake
<1>4. ASSUME NEW t \in Threads, NEW op \in Ops, NEW c \in BOOLEAN, Post(t, op, c) PROVE HoldsByStep'
  <2>1. CASE InRun(t) /\ (OneThread \/ c)
    <3>1. /\ private_outstanding_work' =
               [private_outstanding_work EXCEPT ![t] = @ + 1]
          /\ private_op_queue' =
               [private_op_queue EXCEPT ![t] = Append(@, op)]
          /\ UNCHANGED <<pc, ret, posting, running>>
      BY <1>4, <2>1 DEF Post
    <3>2. pc[t] = "handler"
      BY <1>4, <2>1 DEF Post, MayCall, InRun
    <3>3. /\ Append(private_op_queue[t], op) # <<>>
          /\ Len(Append(private_op_queue[t], op)) = Len(private_op_queue[t]) + 1
      BY HandlerQueueGrows
    <3> QED BY <3>1, <3>2, <3>3
  <2>2. CASE ~(InRun(t) /\ (OneThread \/ c))
    <3>1. /\ posting' = [posting EXCEPT ![t] = op]
          /\ CallStep(t, "posting", pc[t])
          /\ UNCHANGED <<private_op_queue, private_outstanding_work, running>>
          /\ pc[t] \in HomeSteps
      BY <1>4, <2>2 DEF Post, MayCall
    <3> QED BY <3>1
  <2> QED BY <2>1, <2>2
<1>5. ASSUME NEW t \in Threads, PostLocked(t) PROVE HoldsByStep'
  <2>1. /\ posting' = [posting EXCEPT ![t] = NoOp]
        /\ UNCHANGED <<private_op_queue, private_outstanding_work, running>>
        /\ pc[t] = "posting" /\ ret[t] \in ReturnSteps \ {"none", "poll"}
    BY <1>5 DEF PostLocked
  <2>2. CASE CallStep(t, "notify", ret[t])
    BY <2>1, <2>2
  <2>3. CASE Goto(t, ret[t]) /\ ret' = [ret EXCEPT ![t] = "none"]
    BY <2>1, <2>3
  <2> QED BY <1>5, <2>2, <2>3 DEF PostLocked, WakeOneThreadAndUnlock
<1>6. ASSUME NEW t \in Threads, InitTask(t) PROVE HoldsByStep'
  BY <1>6 DEF InitTask, WakeOneThreadAndUnlock, Interrupt, MayCall
<1>7. ASSUME NEW t \in Threads, Stop(t) PROVE HoldsByStep'
  BY <1>7 DEF Stop, MayCall
<1>8. ASSUME NEW t \in Threads, StopAllThreads(t) PROVE HoldsByStep'
  BY <1>8 DEF StopAllThreads, SignalAll, InterruptTaskOnStop, Interrupt
<1>9. ASSUME NEW t \in Threads, Restart(t) PROVE HoldsByStep'
  BY <1>9 DEF Restart
<1>10. ASSUME NEW t \in Threads, Shutdown(t) PROVE HoldsByStep'
  BY <1>10 DEF Shutdown, MayCall
<1>11. ASSUME NEW t \in Threads, NEW g \in Guards, GuardStart(t, g) PROVE HoldsByStep'
  BY <1>11 DEF GuardStart
<1>12. ASSUME NEW t \in Threads, NEW g \in Guards, GuardFinish(t, g) PROVE HoldsByStep'
  BY <1>12 DEF GuardFinish, WorkFinished, MayCall
<1>13. ASSUME NEW t \in Threads, NEW g \in Guards, GuardReset(t, g) PROVE HoldsByStep'
  <2>1. CASE outstanding_work_' = 0
    BY <1>13, <2>1 DEF GuardReset, WorkFinished, MayCall
  <2>2. CASE ~(outstanding_work_' = 0)
    BY <1>13, <2>2 DEF GuardReset, WorkFinished, MayCall
  <2> QED BY <2>1, <2>2
<1>14. ASSUME NEW t \in Threads, Run(t) PROVE HoldsByStep'
  BY <1>14 DEF Run
<1>15. ASSUME NEW t \in Threads, Lock(t) PROVE HoldsByStep'
  BY <1>15 DEF Lock
<1>16. ASSUME NEW t \in Threads, LeaveRun(t) PROVE HoldsByStep'
  BY <1>16 DEF LeaveRun
<1>17. ASSUME NEW t \in Threads, WaitForWork(t) PROVE HoldsByStep'
  BY <1>17 DEF WaitForWork
<1>18. ASSUME NEW t \in Threads, TakeTask(t) PROVE HoldsByStep'
  <2>1. CASE op_queue_' # <<>> /\ ~OneThread
    BY <1>18, <2>1 DEF TakeTask, UnlockAfterPop, UnlockAndSignalOne
  <2>2. CASE ~(op_queue_' # <<>> /\ ~OneThread)
    BY <1>18, <2>2 DEF TakeTask, UnlockAfterPop, UnlockAndSignalOne
  <2> QED BY <2>1, <2>2
<1>19. ASSUME NEW t \in Threads, TakeOp(t) PROVE HoldsByStep'
  BY <1>19 DEF TakeOp, UnlockAfterPop, UnlockAndSignalOne
<1>20. ASSUME NEW t \in Threads, EpollReturns(t) PROVE HoldsByStep'
  BY <1>20 DEF EpollReturns
<1>21. ASSUME NEW t \in Threads, EpollInterruptedBySignal(t) PROVE HoldsByStep'
  BY <1>21 DEF EpollInterruptedBySignal
<1>22. ASSUME NEW t \in Threads, TaskCleanup(t) PROVE HoldsByStep'
  BY <1>22 DEF TaskCleanup
<1>23. ASSUME NEW t \in Threads, HandlerReturns(t) PROVE HoldsByStep'
  BY <1>23 DEF HandlerReturns
<1>24. ASSUME NEW t \in Threads, HandlerThrows(t) PROVE HoldsByStep'
  BY <1>24 DEF HandlerThrows
<1>25. ASSUME NEW t \in Threads, CountPrivateWork(t) PROVE HoldsByStep'
  BY <1>25 DEF CountPrivateWork
<1>26. ASSUME NEW t \in Threads, FinishOp(t) PROVE HoldsByStep'
  <2> DEFINE next == IF private_op_queue[t] # <<>> THEN "flush" ELSE ret[t]
  <2>1. /\ ret[t] \in ReturnSteps \ {"none", "poll", "handler", "flush"}
        /\ ret[t] \notin CallSteps
    BY <1>26 DEF FinishOp
  <2>2. CASE outstanding_work_' = 0
    BY <1>26, <2>1, <2>2 DEF FinishOp, WorkFinished
  <2>3. CASE outstanding_work_' # 0
    BY <1>26, <2>1, <2>3 DEF FinishOp, WorkFinished
  <2> QED BY <2>2, <2>3
<1>27. ASSUME NEW t \in Threads, FlushPrivateQueue(t) PROVE HoldsByStep'
  BY <1>27 DEF FlushPrivateQueue
<1>28. CASE UNCHANGED vars
  BY <1>28 DEF vars
<1> QED
  BY <1>1, <1>2, <1>3, <1>4, <1>5, <1>6, <1>7, <1>8, <1>9, <1>10, <1>11, <1>12,
     <1>13, <1>14, <1>15, <1>16, <1>17, <1>18, <1>19, <1>20, <1>21, <1>22, <1>23,
     <1>24, <1>25, <1>26, <1>27, <1>28
     DEF Next, Continue, Call, Surprise

-----------------------------------------------------------------------------
(* Queues of operations.                                                   *)

(* op_queue::push of one operation.                                        *)
LEMMA AppendQueue ==
  ASSUME NEW S, NEW q \in Seq(S), NEW x \in S
  PROVE  /\ Append(q, x) \in Seq(S)
         /\ Range(Append(q, x)) = Range(q) \cup {x}
         /\ Distinct(q) /\ (x = TaskOp \/ x \notin Range(q))
              => Distinct(Append(q, x))
<1> DEFINE r == Append(q, x)
<1>1. /\ r \in Seq(S) /\ Len(r) = Len(q) + 1 /\ Len(q) \in Nat
      /\ \A i \in 1 .. Len(q) : r[i] = q[i]
      /\ r[Len(q) + 1] = x
  BY AppendProperties, LenProperties
<1>2. DOMAIN q = 1 .. Len(q) /\ DOMAIN r = 1 .. Len(r)
  BY <1>1, LenProperties
<1> HIDE DEF r
<1>3. Range(r) = Range(q) \cup {x}
  BY <1>1, <1>2 DEF Range
<1>4. Distinct(q) /\ (x = TaskOp \/ x \notin Range(q)) => Distinct(r)
  BY <1>1, <1>2 DEF Range, Distinct
<1> QED BY <1>1, <1>3, <1>4 DEF r

(* op_queue::push of a queue.                                              *)
LEMMA ConcatQueue ==
  ASSUME NEW S, NEW q \in Seq(S), NEW u \in Seq(S)
  PROVE  /\ q \o u \in Seq(S)
         /\ Range(q \o u) = Range(q) \cup Range(u)
         /\ Distinct(q) /\ Distinct(u) /\ Range(q) \cap Range(u) = {}
              => Distinct(q \o u)
<1> DEFINE r == q \o u
<1>1. /\ r \in Seq(S) /\ Len(r) = Len(q) + Len(u)
      /\ Len(q) \in Nat /\ Len(u) \in Nat
      /\ \A i \in 1 .. Len(q) + Len(u) :
           r[i] = IF i <= Len(q) THEN q[i] ELSE u[i - Len(q)]
  BY ConcatProperties, LenProperties
<1>2. /\ DOMAIN q = 1 .. Len(q) /\ DOMAIN u = 1 .. Len(u)
      /\ DOMAIN r = 1 .. Len(q) + Len(u)
  BY <1>1, LenProperties
<1> HIDE DEF r
<1>3. /\ \A i \in DOMAIN q : i \in DOMAIN r /\ r[i] = q[i]
      /\ \A i \in DOMAIN u : Len(q) + i \in DOMAIN r /\ r[Len(q) + i] = u[i]
      /\ \A i \in DOMAIN r : \/ i \in DOMAIN q /\ r[i] = q[i]
                             \/ /\ i - Len(q) \in DOMAIN u
                                /\ r[i] = u[i - Len(q)]
  BY <1>1, <1>2
<1>4. Range(r) = Range(q) \cup Range(u)
  BY <1>3 DEF Range
<1>5. ASSUME Distinct(q), Distinct(u), Range(q) \cap Range(u) = {}
      PROVE  Distinct(r)
  <2> SUFFICES ASSUME NEW i \in DOMAIN r, NEW j \in DOMAIN r,
                      r[i] = r[j], r[i] # TaskOp
               PROVE  i = j
    BY DEF Distinct
  <2>1. CASE i \in DOMAIN q /\ r[i] = q[i] /\ j \in DOMAIN q /\ r[j] = q[j]
    BY <1>5, <2>1 DEF Distinct
  <2>2. CASE /\ i - Len(q) \in DOMAIN u /\ r[i] = u[i - Len(q)]
             /\ j - Len(q) \in DOMAIN u /\ r[j] = u[j - Len(q)]
    <3>1. i - Len(q) = j - Len(q)
      BY <1>5, <2>2 DEF Distinct
    <3> QED BY <1>1, <1>2, <3>1
  <2>3. \A a \in DOMAIN q, b \in DOMAIN u : q[a] # u[b]
    BY <1>5 DEF Range
  <2> QED BY <1>3, <2>1, <2>2, <2>3
<1> QED BY <1>1, <1>4, <1>5 DEF r

(* op_queue::pop.                                                          *)
LEMMA TailQueue ==
  ASSUME NEW S, NEW q \in Seq(S), q # <<>>
  PROVE  /\ Head(q) \in S /\ Tail(q) \in Seq(S)
         /\ Range(q) = {Head(q)} \cup Range(Tail(q))
         /\ Distinct(q) => /\ Distinct(Tail(q))
                           /\ Head(q) # TaskOp => Head(q) \notin Range(Tail(q))
<1> DEFINE r == Tail(q)
<1>1. /\ Head(q) \in S /\ r \in Seq(S) /\ Len(r) = Len(q) - 1
      /\ \A i \in 1 .. Len(r) : r[i] = q[i + 1]
  BY HeadTailProperties
<1>2. /\ Len(q) \in Nat /\ Len(q) # 0 /\ Head(q) = q[1]
  BY EmptySeq
<1>3. DOMAIN q = 1 .. Len(q) /\ DOMAIN r = 1 .. Len(r)
  BY <1>1, LenProperties
<1> HIDE DEF r
<1>4. /\ \A i \in DOMAIN r : i + 1 \in DOMAIN q /\ i + 1 # 1 /\ r[i] = q[i + 1]
      /\ \A i \in DOMAIN q : i # 1 => i - 1 \in DOMAIN r /\ r[i - 1] = q[i]
      /\ 1 \in DOMAIN q
  BY <1>1, <1>2, <1>3
<1>5. Range(q) = {Head(q)} \cup Range(r)
  BY <1>2, <1>4 DEF Range
<1>6. ASSUME Distinct(q) PROVE Distinct(r)
  <2> SUFFICES ASSUME NEW i \in DOMAIN r, NEW j \in DOMAIN r,
                      r[i] = r[j], r[i] # TaskOp
               PROVE  i = j
    BY DEF Distinct
  <2>1. i + 1 = j + 1
    BY <1>4, <1>6 DEF Distinct
  <2> QED BY <1>1, <1>3, <2>1
<1>7. Distinct(q) /\ Head(q) # TaskOp => Head(q) \notin Range(r)
  BY <1>2, <1>4 DEF Range, Distinct
<1> QED BY <1>1, <1>5, <1>6, <1>7 DEF r

(* An empty queue has nothing in it.                                       *)
LEMMA EmptyQueue == Range(<<>>) = {} /\ Distinct(<<>>)
BY DEF Range, Distinct

(* What the threads hold, when one of them takes something or lets it go.  *)
LEMMA HoldMore ==
  ASSUME NEW f \in [Threads -> Ops \cup {NoOp}], NEW t \in Threads,
         f[t] = NoOp, NEW x \in Ops
  PROVE  /\ Values([f EXCEPT ![t] = x]) = Values(f) \cup {x}
         /\ NoSharing(f) /\ x \notin Values(f) => NoSharing([f EXCEPT ![t] = x])
<1>1. x # NoOp
  BY ConstantsAssumption
<1> QED BY <1>1 DEF Values, NoSharing

(* A thread that lets go of an operation takes none from another.          *)
LEMMA HoldLess ==
  ASSUME NEW f \in [Threads -> Ops \cup {NoOp}], NEW t \in Threads, NoSharing(f)
  PROVE  /\ Values([f EXCEPT ![t] = NoOp]) = Values(f) \ {f[t]}
         /\ NoSharing([f EXCEPT ![t] = NoOp])
BY DEF Values, NoSharing

(* The private queues, when one of them grows or is emptied.               *)
LEMMA PrivateMore ==
  ASSUME NEW p \in [Threads -> Seq(Ops)], NEW t \in Threads, NEW x \in Ops,
         NoneShared(p), x \notin InAny(p)
  PROVE  LET r == [p EXCEPT ![t] = Append(@, x)]
         IN /\ r \in [Threads -> Seq(Ops)]
            /\ InAny(r) = InAny(p) \cup {x}
            /\ NoneShared(r)
            /\ (\A s \in Threads : Distinct(p[s])) =>
                 \A s \in Threads : Distinct(r[s])
<1> DEFINE q == Append(p[t], x)
           r == [p EXCEPT ![t] = q]
<1>1. q \in Seq(Ops) /\ Range(q) = Range(p[t]) \cup {x}
  BY AppendQueue
<1>2. Distinct(p[t]) => Distinct(q)
  BY AppendQueue DEF InAny
<1> HIDE DEF q
<1>3. /\ r \in [Threads -> Seq(Ops)] /\ r[t] = q
      /\ \A s \in Threads : s # t => r[s] = p[s]
  BY <1>1
<1> HIDE DEF r
<1>4. InAny(r) = InAny(p) \cup {x}
  BY <1>1, <1>3 DEF InAny
<1>5. NoneShared(r)
  <2>1. \A s \in Threads : x \notin Range(p[s])
    BY DEF InAny
  <2> SUFFICES ASSUME NEW a \in Threads, NEW b \in Threads, a # b
               PROVE  Range(r[a]) \cap Range(r[b]) = {}
    BY DEF NoneShared
  <2>2. Range(p[a]) \cap Range(p[b]) = {}
    BY DEF NoneShared
  <2>3. /\ Range(r[a]) \subseteq Range(p[a]) \cup (IF a = t THEN {x} ELSE {})
        /\ Range(r[b]) \subseteq Range(p[b]) \cup (IF b = t THEN {x} ELSE {})
    BY <1>1, <1>3
  <2> QED BY <2>1, <2>2, <2>3
<1>6. (\A s \in Threads : Distinct(p[s])) => \A s \in Threads : Distinct(r[s])
  BY <1>2, <1>3
<1> QED BY <1>3, <1>4, <1>5, <1>6 DEF r, q

(* A private queue that is emptied takes nothing from the others.          *)
LEMMA PrivateEmptied ==
  ASSUME NEW p \in [Threads -> Seq(Ops)], NEW t \in Threads, NoneShared(p)
  PROVE  LET r == [p EXCEPT ![t] = <<>>]
         IN /\ r \in [Threads -> Seq(Ops)]
            /\ InAny(r) = InAny(p) \ Range(p[t])
            /\ NoneShared(r)
            /\ (\A s \in Threads : Distinct(p[s])) =>
                 \A s \in Threads : Distinct(r[s])
<1> DEFINE r == [p EXCEPT ![t] = <<>>]
<1>1. /\ r \in [Threads -> Seq(Ops)] /\ r[t] = <<>>
      /\ \A s \in Threads : s # t => r[s] = p[s]
  OBVIOUS
<1> HIDE DEF r
<1>2. Range(r[t]) = {} /\ Distinct(r[t])
  BY <1>1, EmptyQueue
<1>3. InAny(r) = InAny(p) \ Range(p[t])
  BY <1>1, <1>2 DEF InAny, NoneShared
<1>4. NoneShared(r)
  BY <1>1, <1>2 DEF NoneShared
<1>5. (\A s \in Threads : Distinct(p[s])) => \A s \in Threads : Distinct(r[s])
  BY <1>1, <1>2
<1> QED BY <1>1, <1>3, <1>4, <1>5 DEF r


-----------------------------------------------------------------------------
(* The operations keep one place each.                                     *)

placeVars == <<op_queue_, private_op_queue, posting, running, posted, started,
               destroyed>>

(* A step that changes no list keeps every operation where it is.          *)
LEMMA PlacesQuiet ==
  ASSUME OpPlaces, UNCHANGED placeVars
  PROVE  OpPlaces'
BY DEF OpPlaces, placeVars, QueuedOps

(* The types of the lists.                                                 *)
LEMMA PlacesTypes ==
  ASSUME Typed
  PROVE  /\ op_queue_ \in Seq(Ops \cup {TaskOp})
         /\ private_op_queue \in [Threads -> Seq(Ops)]
         /\ posting \in [Threads -> Ops \cup {NoOp}]
         /\ running \in [Threads -> Ops \cup {NoOp}]
BY DEF Typed

(* A post puts its operation in a private queue or has it in hand ...      *)
LEMMA PlacesPost ==
  ASSUME Typed, HoldsByStep, OpPlaces,
         NEW t \in Threads, NEW op \in Ops, NEW c \in BOOLEAN, Post(t, op, c)
  PROVE  OpPlaces'
<1>1. /\ op \notin posted /\ posted' = posted \cup {op}
      /\ UNCHANGED <<op_queue_, running, started, destroyed>>
  BY DEF Post
<1>2. posting[t] = NoOp
  BY DEF Post, MayCall, HoldsByStep, ClientSteps
<1>3. /\ op \notin Values(posting) /\ op \notin InAny(private_op_queue)
      /\ QueuedOps' = QueuedOps
  BY <1>1 DEF OpPlaces, Apart, QueuedOps
<1>4. CASE InRun(t) /\ (OneThread \/ c)
  <2>1. /\ private_op_queue' = [private_op_queue EXCEPT ![t] = Append(@, op)]
        /\ posting' = posting
    BY <1>4 DEF Post
  <2>2. /\ InAny(private_op_queue') = InAny(private_op_queue) \cup {op}
        /\ NoneShared(private_op_queue')
        /\ \A s \in Threads : Distinct(private_op_queue'[s])
    BY <1>3, <2>1, PlacesTypes, PrivateMore DEF OpPlaces
  <2>3. Apart(QueuedOps, Values(posting), InAny(private_op_queue'), started,
              destroyed, posted')
    BY <1>1, <1>3, <2>2 DEF OpPlaces, Apart
  <2> QED BY <1>1, <1>3, <2>1, <2>2, <2>3 DEF OpPlaces
<1>5. CASE ~(InRun(t) /\ (OneThread \/ c))
  <2>1. /\ posting' = [posting EXCEPT ![t] = op]
        /\ private_op_queue' = private_op_queue
    BY <1>5 DEF Post, privateVars
  <2>2. Values(posting') = Values(posting) \cup {op} /\ NoSharing(posting')
    BY <1>2, <1>3, <2>1, PlacesTypes, HoldMore DEF OpPlaces
  <2>3. Apart(QueuedOps, Values(posting'), InAny(private_op_queue), started,
              destroyed, posted')
    BY <1>1, <1>3, <2>2 DEF OpPlaces, Apart
  <2> QED BY <1>1, <1>3, <2>1, <2>2, <2>3 DEF OpPlaces
<1> QED BY <1>4, <1>5

(* ... and from its hand it goes to the queue.                             *)
LEMMA PlacesPostLocked ==
  ASSUME Typed, CallsReturn, OpPlaces, NEW t \in Threads, PostLocked(t)
  PROVE  OpPlaces'
<1> DEFINE op == posting[t]
<1>1. /\ op_queue_' = Append(op_queue_, op)
      /\ posting' = [posting EXCEPT ![t] = NoOp]
      /\ UNCHANGED <<private_op_queue, running, posted, started, destroyed>>
  BY DEF PostLocked, privateVars, historyVars
<1>2. op \in Ops /\ op # TaskOp /\ op # NoOp /\ op \in Values(posting)
  BY ConstantsAssumption DEF PostLocked, CallsReturn, CallSteps, Values
<1>3. op \notin QueuedOps
  BY <1>2 DEF OpPlaces, Apart
<1> HIDE DEF op
<1>4. Range(op_queue_') = Range(op_queue_) \cup {op} /\ Distinct(op_queue_')
  BY <1>1, <1>2, <1>3, PlacesTypes, AppendQueue DEF OpPlaces, QueuedOps
<1>5. Values(posting') = Values(posting) \ {op} /\ NoSharing(posting')
  BY <1>1, PlacesTypes, HoldLess DEF OpPlaces, op
<1>6. QueuedOps' = QueuedOps \cup {op}
  BY <1>2, <1>4 DEF QueuedOps
<1>7. Apart(QueuedOps', Values(posting'), InAny(private_op_queue), started,
            destroyed, posted)
  BY <1>2, <1>5, <1>6 DEF OpPlaces, Apart
<1> QED BY <1>1, <1>4, <1>5, <1>7 DEF OpPlaces

(* The task takes no operation's place.                                    *)
LEMMA PlacesTask ==
  ASSUME Typed, HoldsByStep, OpPlaces, NEW t \in Threads,
         InitTask(t) \/ TakeTask(t) \/ TaskCleanup(t)
  PROVE  OpPlaces'
<1>1. CASE InitTask(t)
  <2>1. /\ op_queue_' = Append(op_queue_, TaskOp)
        /\ UNCHANGED <<private_op_queue, posting, running, posted, started,
                       destroyed>>
    BY <1>1 DEF InitTask, privateVars, historyVars
  <2>2. Range(op_queue_') = Range(op_queue_) \cup {TaskOp} /\ Distinct(op_queue_')
    BY <2>1, PlacesTypes, AppendQueue DEF OpPlaces
  <2>3. QueuedOps' = QueuedOps
    BY <2>2 DEF QueuedOps
  <2> QED BY <2>1, <2>2, <2>3 DEF OpPlaces
<1>2. CASE TakeTask(t)
  <2>1. /\ op_queue_' = Tail(op_queue_) /\ op_queue_ # <<>>
        /\ Head(op_queue_) = TaskOp
        /\ UNCHANGED <<private_op_queue, posting, running, posted, started,
                       destroyed>>
    BY <1>2 DEF TakeTask, privateVars, historyVars
  <2>2. Range(op_queue_) = {TaskOp} \cup Range(op_queue_') /\ Distinct(op_queue_')
    BY <2>1, PlacesTypes, TailQueue DEF OpPlaces
  <2>3. QueuedOps' = QueuedOps
    BY <2>2 DEF QueuedOps
  <2> QED BY <2>1, <2>2, <2>3 DEF OpPlaces
<1>3. CASE TaskCleanup(t)
  <2>1. /\ op_queue_' = Append(op_queue_ \o private_op_queue[t], TaskOp)
        /\ private_op_queue' = [private_op_queue EXCEPT ![t] = <<>>]
        /\ UNCHANGED <<posting, running, posted, started, destroyed>>
    BY <1>3 DEF TaskCleanup, historyVars
  <2>2. private_op_queue[t] = <<>>
    BY <1>3 DEF TaskCleanup, HoldsByStep, Completing, InHandler, Flushing, CallSteps
  <2>3. op_queue_' = Append(op_queue_, TaskOp) /\ private_op_queue' = private_op_queue
    BY <2>1, <2>2, PlacesTypes, ConcatEmptySeq
  <2>4. Range(op_queue_') = Range(op_queue_) \cup {TaskOp} /\ Distinct(op_queue_')
    BY <2>3, PlacesTypes, AppendQueue DEF OpPlaces
  <2>5. QueuedOps' = QueuedOps
    BY <2>4 DEF QueuedOps
  <2> QED BY <2>1, <2>3, <2>4, <2>5 DEF OpPlaces
<1> QED BY <1>1, <1>2, <1>3

(* An operation that is taken was not started.                             *)
LEMMA PlacesTakeOp ==
  ASSUME Typed, HoldsByStep, OpPlaces, NEW t \in Threads, TakeOp(t)
  PROVE  OpPlaces'
<1> DEFINE op == Head(op_queue_)
<1>1. /\ op_queue_' = Tail(op_queue_) /\ op_queue_ # <<>> /\ op # TaskOp
      /\ running' = [running EXCEPT ![t] = op]
      /\ started' = started \cup {op}
      /\ UNCHANGED <<private_op_queue, posting, posted, destroyed>>
  BY DEF TakeOp, privateVars
<1>2. running[t] = NoOp
  BY DEF TakeOp, HoldsByStep, Completing, InHandler, CallSteps
<1> HIDE DEF op
<1>3. /\ op \in Ops \cup {TaskOp}
      /\ Range(op_queue_) = {op} \cup Range(op_queue_')
      /\ Distinct(op_queue_') /\ op \notin Range(op_queue_')
  BY <1>1, PlacesTypes, TailQueue DEF OpPlaces, op
<1>4. op \in Ops /\ QueuedOps' = QueuedOps \ {op} /\ op \in QueuedOps
  BY <1>1, <1>3 DEF QueuedOps
<1>5. op \notin Values(running)
  BY <1>4 DEF OpPlaces, Apart
<1>6. Values(running') = Values(running) \cup {op} /\ NoSharing(running')
  BY <1>1, <1>2, <1>4, <1>5, PlacesTypes, HoldMore DEF OpPlaces
<1>7. Apart(QueuedOps', Values(posting), InAny(private_op_queue), started',
            destroyed, posted)
  BY <1>1, <1>4 DEF OpPlaces, Apart
<1> QED BY <1>1, <1>3, <1>6, <1>7 DEF OpPlaces

(* When a handler has returned its operation is no longer run.             *)
LEMMA PlacesFinishOp ==
  ASSUME Typed, OpPlaces, NEW t \in Threads, FinishOp(t)
  PROVE  OpPlaces'
<1>1. /\ running' = [running EXCEPT ![t] = NoOp]
      /\ UNCHANGED <<op_queue_, private_op_queue, posting, posted, started,
                     destroyed>>
  BY DEF FinishOp, privateVars, historyVars
<1>2. Values(running') = Values(running) \ {running[t]} /\ NoSharing(running')
  BY <1>1, PlacesTypes, HoldLess DEF OpPlaces
<1> QED BY <1>1, <1>2 DEF OpPlaces, QueuedOps

(* The splice of a private queue moves its operations.                     *)
LEMMA PlacesFlush ==
  ASSUME Typed, OpPlaces, NEW t \in Threads, FlushPrivateQueue(t)
  PROVE  OpPlaces'
<1> DEFINE u == private_op_queue[t]
<1>1. /\ op_queue_' = op_queue_ \o u
      /\ private_op_queue' = [private_op_queue EXCEPT ![t] = <<>>]
      /\ UNCHANGED <<posting, running, posted, started, destroyed>>
  BY DEF FlushPrivateQueue
<1>2. /\ u \in Seq(Ops) /\ u \in Seq(Ops \cup {TaskOp}) /\ Distinct(u)
  BY PlacesTypes DEF OpPlaces
<1>3. Range(u) \subseteq InAny(private_op_queue) /\ TaskOp \notin Range(u)
  <2>1. Range(u) \subseteq Ops
    BY <1>2 DEF Range
  <2> QED BY <2>1, ConstantsAssumption DEF InAny
<1> HIDE DEF u
<1>4. Range(op_queue_) \cap Range(u) = {}
  BY <1>3 DEF OpPlaces, Apart, QueuedOps
<1>5. Range(op_queue_') = Range(op_queue_) \cup Range(u) /\ Distinct(op_queue_')
  BY <1>1, <1>2, <1>4, PlacesTypes, ConcatQueue DEF OpPlaces
<1>6. /\ InAny(private_op_queue') = InAny(private_op_queue) \ Range(u)
      /\ NoneShared(private_op_queue')
      /\ \A s \in Threads : Distinct(private_op_queue'[s])
  BY <1>1, PlacesTypes, PrivateEmptied DEF OpPlaces, u
<1>7. QueuedOps' = QueuedOps \cup Range(u)
  BY <1>3, <1>5 DEF QueuedOps
<1>8. Apart(QueuedOps', Values(posting), InAny(private_op_queue'), started,
            destroyed, posted)
  BY <1>3, <1>6, <1>7 DEF OpPlaces, Apart
<1> QED BY <1>1, <1>5, <1>6, <1>8 DEF OpPlaces

(* ~io_context finds the operations in the queue only.                     *)
LEMMA NobodyHolds ==
  ASSUME Typed, HoldsByStep, \A s \in Threads : pc[s] \in ClientSteps
  PROVE  /\ Values(posting) = {} /\ Values(running) = {}
         /\ InAny(private_op_queue) = {}
<1>1. \A s \in Threads : /\ posting[s] = NoOp /\ running[s] = NoOp
                         /\ private_op_queue[s] = <<>>
  BY DEF HoldsByStep, Completing, InHandler, Flushing, ClientSteps, CallSteps
<1>2. \A s \in Threads : Range(private_op_queue[s]) = {}
  BY <1>1, EmptyQueue
<1> QED BY <1>1, <1>2 DEF Values, InAny

(* shutdown() destroys what is queued, and nothing else.                   *)
LEMMA PlacesShutdown ==
  ASSUME Typed, HoldsByStep, OpPlaces, NEW t \in Threads, Shutdown(t)
  PROVE  OpPlaces'
<1>1. /\ op_queue_' = <<>> /\ destroyed' = destroyed \cup QueuedOps
      /\ UNCHANGED <<private_op_queue, posting, running, posted, started>>
  BY DEF Shutdown, QueuedOps, privateVars
<1>2. Range(op_queue_') = {} /\ Distinct(op_queue_')
  BY <1>1, EmptyQueue
<1>3. QueuedOps' = {}
  BY <1>2 DEF QueuedOps
<1>4. Values(posting) = {} /\ InAny(private_op_queue) = {}
  BY NobodyHolds DEF Shutdown
<1>5. Apart(QueuedOps', Values(posting), InAny(private_op_queue), started,
            destroyed', posted)
  BY <1>1, <1>3, <1>4 DEF OpPlaces, Apart
<1> QED BY <1>1, <1>2, <1>5 DEF OpPlaces

(* The steps that move an operation.                                       *)
LEMMA ChangesPlace ==
  ASSUME [Next]_vars, ~UNCHANGED placeVars
  PROVE  \E t \in Threads :
           \/ \E op \in Ops, c \in BOOLEAN : Post(t, op, c)
           \/ PostLocked(t) \/ InitTask(t) \/ TakeTask(t) \/ TaskCleanup(t)
           \/ TakeOp(t) \/ FinishOp(t) \/ FlushPrivateQueue(t) \/ Shutdown(t)
<1> SUFFICES ASSUME NEW t \in Threads, Continue(t) \/ Call(t) \/ Surprise(t),
                    ~UNCHANGED placeVars
             PROVE  \/ \E op \in Ops, c \in BOOLEAN : Post(t, op, c)
                    \/ PostLocked(t) \/ InitTask(t) \/ TakeTask(t)
                    \/ TaskCleanup(t) \/ TakeOp(t) \/ FinishOp(t)
                    \/ FlushPrivateQueue(t) \/ Shutdown(t)
  BY DEF Next, vars, placeVars, privateVars, historyVars
<1> USE DEF placeVars, privateVars, historyVars
<1>1. NotifyOne(t) \/ Wake(t) \/ StopAllThreads(t) \/ Lock(t) \/ LeaveRun(t)
        \/ WaitForWork(t) \/ EpollReturns(t) \/ HandlerReturns(t)
        \/ CountPrivateWork(t) => UNCHANGED placeVars
  BY DEF NotifyOne, Wake, StopAllThreads, Lock, LeaveRun, WaitForWork, EpollReturns,
         HandlerReturns, CountPrivateWork
<1>2. Run(t) \/ Stop(t) \/ Restart(t) \/ SpuriousWake(t)
        \/ EpollInterruptedBySignal(t) \/ HandlerThrows(t) => UNCHANGED placeVars
  BY DEF Run, Stop, Restart, SpuriousWake, EpollInterruptedBySignal, HandlerThrows
<1>3. \A g \in Guards : GuardStart(t, g) \/ GuardFinish(t, g) \/ GuardReset(t, g)
        => UNCHANGED placeVars
  BY DEF GuardStart, GuardFinish, GuardReset
<1> HIDE DEF placeVars, privateVars, historyVars
<1> QED BY <1>1, <1>2, <1>3 DEF Continue, Call, Surprise

(* Every step keeps each operation in one place.                           *)
LEMMA PlacesStep ==
  ASSUME TypeInv, HoldsByStep, OpPlaces, [Next]_vars
  PROVE  OpPlaces'
<1> SUFFICES ASSUME ~UNCHANGED placeVars PROVE OpPlaces'
  BY PlacesQuiet
<1>1. Typed /\ CallsReturn
  BY DEF TypeInv
<1>2. \E t \in Threads :
        \/ \E op \in Ops, c \in BOOLEAN : Post(t, op, c)
        \/ PostLocked(t) \/ InitTask(t) \/ TakeTask(t) \/ TaskCleanup(t)
        \/ TakeOp(t) \/ FinishOp(t) \/ FlushPrivateQueue(t) \/ Shutdown(t)
  BY ChangesPlace
<1> QED BY <1>1, <1>2, PlacesPost, PlacesPostLocked, PlacesTask, PlacesTakeOp,
           PlacesFinishOp, PlacesFlush, PlacesShutdown

(* The initial state: nobody holds anything.                               *)
LEMMA PlaceInit == Init => HoldsByStep /\ OpPlaces
<1> SUFFICES ASSUME Init PROVE HoldsByStep /\ OpPlaces
  OBVIOUS
<1>1. HoldsByStep
  BY DEF Init, HoldsByStep, Completing, InHandler, Flushing, CallSteps
<1>2. Values(posting) = {} /\ Values(running) = {}
  BY DEF Init, Values
<1>3. \A s \in Threads : Range(private_op_queue[s]) = {} /\ Distinct(private_op_queue[s])
  BY EmptyQueue DEF Init
<1>4. InAny(private_op_queue) = {} /\ NoneShared(private_op_queue)
  BY <1>3 DEF InAny, NoneShared
<1>5. QueuedOps = {} /\ Distinct(op_queue_)
  BY EmptyQueue DEF Init, QueuedOps
<1>6. NoSharing(posting) /\ NoSharing(running)
  BY DEF Init, NoSharing
<1>7. Apart(QueuedOps, Values(posting), InAny(private_op_queue), started,
            destroyed, posted)
  BY <1>2, <1>4, <1>5 DEF Init, Apart
<1> QED BY <1>1, <1>2, <1>3, <1>4, <1>5, <1>6, <1>7 DEF OpPlaces

(* Every state of the scheduler keeps each operation in one place, and a   *)
(* thread holds what its step says.                                        *)
THEOREM PlaceInvariant == Spec => []PlaceInv
<1>1. Init => PlaceInv
  BY TypeInit, PlaceInit DEF PlaceInv
<1>2. PlaceInv /\ [Next]_vars => PlaceInv'
  BY TypeStep, CallsReturnStep, MutexStep, WaitersStep, HoldsStep, PlacesStep
     DEF PlaceInv, TypeInv
<1> QED BY <1>1, <1>2, PTL DEF Spec

-----------------------------------------------------------------------------
(* Counting.                                                               *)

(* A set whose elements are all the same has one, or none.                 *)
LEMMA AtMostOne ==
  ASSUME NEW S, \A x, y \in S : x = y
  PROVE  IsFiniteSet(S) /\ Cardinality(S) = IF S = {} THEN 0 ELSE 1
<1>1. CASE S = {}
  BY <1>1, FS_EmptySet
<1>2. CASE S # {}
  <2>1. PICK x \in S : S = {x}
    BY <1>2
  <2> QED BY <2>1, FS_Singleton
<1> QED BY <1>1, <1>2

(* A queue without repetitions is as long as it has members.               *)
LEMMA DistinctLength ==
  ASSUME NEW q \in Seq(Ops), Distinct(q)
  PROVE  /\ IsFiniteSet(Range(q)) /\ Cardinality(Range(q)) = Len(q)
         /\ Len(q) <= Cardinality(Ops)
<1>1. /\ Len(q) \in Nat /\ DOMAIN q = 1 .. Len(q) /\ q \in [1 .. Len(q) -> Ops]
  BY LenProperties
<1>2. \A i \in 1 .. Len(q) : q[i] # TaskOp
  BY <1>1, ConstantsAssumption
<1>3. q \in [1 .. Len(q) -> Range(q)]
  BY <1>1 DEF Range
<1>4. q \in Injection(1 .. Len(q), Range(q))
  <2>1. \A a, b \in 1 .. Len(q) : q[a] = q[b] => a = b
    BY <1>1, <1>2 DEF Distinct
  <2> QED BY <1>1, <1>3, <2>1 DEF Injection, IsInjective
<1>5. q \in Surjection(1 .. Len(q), Range(q))
  BY <1>1, <1>3 DEF Surjection, Range
<1>6. ExistsBijection(1 .. Len(q), Range(q))
  BY <1>4, <1>5 DEF Bijection, ExistsBijection
<1>7. Range(q) \in SUBSET Ops
  BY <1>1 DEF Range
<1>8. IsFiniteSet(Range(q)) /\ Cardinality(Range(q)) <= Cardinality(Ops)
  BY <1>7, ConstantsAssumption, FS_Subset
<1>9. Cardinality(Range(q)) = Len(q)
  BY <1>1, <1>6, FS_CountingElements
<1> QED BY <1>8, <1>9

(* What PlaceInv says without counting, EachOpInOnePlace says by counting. *)
LEMMA PlacesCounted == PlaceInv => EachOpInOnePlace
<1> SUFFICES ASSUME Typed, OpPlaces, NEW op \in Ops
             PROVE  Cardinality({i \in DOMAIN op_queue_ : op_queue_[i] = op})
                    + Cardinality({t \in Threads : posting[t] = op})
                    + Cardinality({p \in Threads \X (1 .. Cardinality(Ops)) :
                                     /\ p[2] \in DOMAIN private_op_queue[p[1]]
                                     /\ private_op_queue[p[1]][p[2]] = op})
                    + Cardinality({s \in {started, destroyed} : op \in s})
                    = IF op \in posted THEN 1 ELSE 0
  BY DEF PlaceInv, TypeInv, EachOpInOnePlace
<1> DEFINE inQueue == {i \in DOMAIN op_queue_ : op_queue_[i] = op}
           inPost == {t \in Threads : posting[t] = op}
           inPrivate == {p \in Threads \X (1 .. Cardinality(Ops)) :
                           /\ p[2] \in DOMAIN private_op_queue[p[1]]
                           /\ private_op_queue[p[1]][p[2]] = op}
           inSet == {s \in {started, destroyed} : op \in s}
<1>1. op # TaskOp /\ op # NoOp
  BY ConstantsAssumption
<1>2. Cardinality(inQueue) = IF op \in QueuedOps THEN 1 ELSE 0
  <2>1. \A i, j \in inQueue : i = j
    BY <1>1 DEF OpPlaces, Distinct
  <2>2. inQueue = {} <=> op \notin QueuedOps
    BY <1>1 DEF QueuedOps, Range
  <2> HIDE DEF inQueue
  <2> QED BY <2>1, <2>2, AtMostOne
<1>3. Cardinality(inPost) = IF op \in Values(posting) THEN 1 ELSE 0
  <2>1. \A s, t \in inPost : s = t
    BY <1>1 DEF OpPlaces, NoSharing
  <2>2. inPost = {} <=> op \notin Values(posting)
    BY <1>1 DEF Values
  <2> HIDE DEF inPost
  <2> QED BY <2>1, <2>2, AtMostOne
<1>4. Cardinality(inPrivate) = IF op \in InAny(private_op_queue) THEN 1 ELSE 0
  <2>1. ASSUME NEW p \in inPrivate, NEW r \in inPrivate PROVE p = r
    <3>1. /\ p = <<p[1], p[2]>> /\ r = <<r[1], r[2]>>
          /\ p[1] \in Threads /\ r[1] \in Threads
          /\ p[2] \in DOMAIN private_op_queue[p[1]]
          /\ r[2] \in DOMAIN private_op_queue[r[1]]
          /\ private_op_queue[p[1]][p[2]] = op
          /\ private_op_queue[r[1]][r[2]] = op
      OBVIOUS
    <3>2. op \in Range(private_op_queue[p[1]]) /\ op \in Range(private_op_queue[r[1]])
      BY <3>1 DEF Range
    <3>3. p[1] = r[1]
      BY <3>1, <3>2 DEF OpPlaces, NoneShared
    <3>4. p[2] = r[2]
      BY <1>1, <3>1, <3>3 DEF OpPlaces, Distinct
    <3> QED BY <3>1, <3>3, <3>4
  <2>2. op \in InAny(private_op_queue) => inPrivate # {}
    <3> SUFFICES ASSUME op \in InAny(private_op_queue) PROVE inPrivate # {}
      OBVIOUS
    <3>1. PICK t \in Threads : op \in Range(private_op_queue[t])
      BY DEF InAny
    <3> DEFINE q == private_op_queue[t]
    <3>2. PICK i \in DOMAIN q : q[i] = op
      BY <3>1 DEF Range
    <3>3. q \in Seq(Ops) /\ Distinct(q)
      BY PlacesTypes DEF OpPlaces
    <3> HIDE DEF q
    <3>4. /\ Len(q) <= Cardinality(Ops) /\ Len(q) \in Nat
          /\ Cardinality(Ops) \in Nat /\ DOMAIN q = 1 .. Len(q)
      BY <3>3, DistinctLength, LenProperties, ConstantsAssumption, FS_CardinalityType
    <3>5. i \in 1 .. Cardinality(Ops)
      BY <3>2, <3>4
    <3>6. <<t, i>> \in inPrivate
      BY <3>2, <3>5 DEF q
    <3> QED BY <3>6
  <2>3. inPrivate # {} => op \in InAny(private_op_queue)
    BY DEF InAny, Range
  <2> HIDE DEF inPrivate
  <2> QED BY <2>1, <2>2, <2>3, AtMostOne
<1>5. Cardinality(inSet) = IF op \in started \cup destroyed THEN 1 ELSE 0
  <2>1. \A s, u \in inSet : s = u
    BY DEF OpPlaces, Apart
  <2>2. inSet = {} <=> op \notin started \cup destroyed
    OBVIOUS
  <2> HIDE DEF inSet
  <2> QED BY <2>1, <2>2, AtMostOne
<1> HIDE DEF inQueue, inPost, inPrivate, inSet
<1>6. Cardinality(inQueue) + Cardinality(inPost) + Cardinality(inPrivate)
        + Cardinality(inSet) = IF op \in posted THEN 1 ELSE 0
  BY <1>2, <1>3, <1>4, <1>5 DEF OpPlaces, Apart
<1> QED BY <1>6 DEF inQueue, inPost, inPrivate, inSet

(* post_immediate_completion, do_run_one, work_cleanup, shutdown: from its *)
(* post on an operation is in one place - posted by a thread, in a queue,  *)
(* started or destroyed - and never in two.                                *)
THEOREM OneEach == Spec => []EachOpInOnePlace
BY PlacesCounted, PlaceInvariant, PTL

-----------------------------------------------------------------------------
(* The work that is counted.                                               *)

(* Operations of private queues that work_cleanup has counted.             *)
Flushed(p, w) == UNION {Range(p[t]) : t \in {s \in Threads : w[s] = 0}}

CountedOps ==
  QueuedOps \cup Values(posting) \cup Values(running)
    \cup Flushed(private_op_queue, private_outstanding_work) \cup destroyed
CountedWork == guards \cup CountedOps

countVars == <<placeVars, guards, outstanding_work_, private_outstanding_work>>

(* WorkCounted by the names of the sets it counts.                         *)
LEMMA CountedWorkIs ==
  WorkCounted <=> outstanding_work_ = HeapWork + Cardinality(CountedWork)
<1> DEFINE held == {posting[t] : t \in Threads} \cup {running[t] : t \in Threads}
           flushing == UNION {PrivateOps(t) : t \in
                                {s \in Threads : private_outstanding_work[s] = 0}}
<1>1. flushing = Flushed(private_op_queue, private_outstanding_work)
  BY DEF PrivateOps, Flushed
<1>2. held \ {NoOp} = Values(posting) \cup Values(running)
  BY DEF Values
<1> HIDE DEF held, flushing
<1>3. guards \cup QueuedOps \cup (held \ {NoOp}) \cup flushing \cup destroyed = CountedWork
  BY <1>1, <1>2 DEF CountedWork, CountedOps
<1> QED BY <1>3 DEF WorkCounted, held, flushing

(* The same in the next state.                                             *)
LEMMA CountedWorkIsNext ==
  WorkCounted' <=> outstanding_work_' = HeapWork + Cardinality(CountedWork')
<1>1. (WorkCounted <=> outstanding_work_ = HeapWork + Cardinality(CountedWork))'
  BY CountedWorkIs, PTL
<1> QED BY <1>1

(* What is counted is finite, and a guard is not an operation.             *)
LEMMA CountedFinite ==
  ASSUME Typed
  PROVE  /\ IsFiniteSet(CountedWork) /\ Cardinality(CountedWork) \in Nat
         /\ CountedOps \subseteq Ops
         /\ guards \cap Ops = {}
<1>1. QueuedOps \subseteq Ops
  <2>1. Range(op_queue_) \subseteq Ops \cup {TaskOp}
    BY PlacesTypes DEF Range
  <2> QED BY <2>1 DEF QueuedOps
<1>2. Values(posting) \subseteq Ops /\ Values(running) \subseteq Ops
  BY PlacesTypes DEF Values
<1>3. Flushed(private_op_queue, private_outstanding_work) \subseteq Ops
  <2>1. \A t \in Threads : Range(private_op_queue[t]) \subseteq Ops
    BY PlacesTypes DEF Range
  <2> QED BY <2>1 DEF Flushed
<1>4. guards \subseteq Guards /\ destroyed \subseteq Ops
  BY DEF Typed
<1>5. CountedWork \in SUBSET (Guards \cup Ops)
  BY <1>1, <1>2, <1>3, <1>4 DEF CountedWork, CountedOps
<1>6. IsFiniteSet(Guards \cup Ops) /\ Ops \cap Guards = {}
  BY ConstantsAssumption, FS_Union
<1>7. IsFiniteSet(CountedWork) /\ Cardinality(CountedWork) \in Nat
  BY <1>5, <1>6, FS_Subset, FS_CardinalityType
<1>8. CountedOps \subseteq Ops
  BY <1>1, <1>2, <1>3, <1>4 DEF CountedOps
<1> QED BY <1>4, <1>6, <1>7, <1>8

(* One unit of work more, one less, or as much in other places.            *)
LEMMA CountOneMore ==
  ASSUME Typed, WorkCounted, NEW x, x \notin CountedWork,
         CountedWork' = CountedWork \cup {x},
         outstanding_work_' = outstanding_work_ + 1
  PROVE  WorkCounted'
<1>1. Cardinality(CountedWork \cup {x}) = Cardinality(CountedWork) + 1
  BY CountedFinite, FS_AddElement
<1> QED BY <1>1, CountedWorkIs, CountedWorkIsNext, CountedFinite, ConstantsAssumption

(* One unit less is counted, and one is given back.                        *)
LEMMA CountOneLess ==
  ASSUME Typed, WorkCounted, NEW x \in CountedWork,
         CountedWork' = CountedWork \ {x},
         outstanding_work_' = outstanding_work_ - 1
  PROVE  WorkCounted'
<1>1. Cardinality(CountedWork \ {x}) = Cardinality(CountedWork) - 1
  BY CountedFinite, FS_RemoveElement
<1> QED BY <1>1, CountedWorkIs, CountedWorkIsNext, CountedFinite, ConstantsAssumption

(* The same units are counted, and none is given back.                     *)
LEMMA CountSame ==
  ASSUME WorkCounted, CountedWork' = CountedWork,
         outstanding_work_' = outstanding_work_
  PROVE  WorkCounted'
BY CountedWorkIs, CountedWorkIsNext

(* What changes of the private queues' counted part.                       *)
LEMMA FlushedSame ==
  ASSUME NEW p, NEW w, NEW r, NEW v, NEW t \in Threads,
         \A s \in Threads : s # t => r[s] = p[s] /\ v[s] = w[s],
         w[t] = 0 => Range(p[t]) = {}, v[t] = 0 => Range(r[t]) = {}
  PROVE  Flushed(r, v) = Flushed(p, w)
BY DEF Flushed

(* post_immediate_completion adds its unit, shared or private.             *)
LEMMA CountPost ==
  ASSUME PlaceInv, WorkCounted, NEW t \in Threads, NEW op \in Ops,
         NEW c \in BOOLEAN, Post(t, op, c)
  PROVE  WorkCounted'
<1>1. Typed /\ HoldsByStep /\ OpPlaces
  BY DEF PlaceInv, TypeInv
<1>2. /\ op \notin posted
      /\ UNCHANGED <<op_queue_, running, destroyed, guards>>
  BY DEF Post
<1>3. QueuedOps' = QueuedOps
  BY <1>2 DEF QueuedOps
<1>4. CASE InRun(t) /\ (OneThread \/ c)
  <2>1. /\ private_op_queue' = [private_op_queue EXCEPT ![t] = Append(@, op)]
        /\ private_outstanding_work' = [private_outstanding_work EXCEPT ![t] = @ + 1]
        /\ posting' = posting /\ outstanding_work_' = outstanding_work_
    BY <1>4 DEF Post
  <2>2. pc[t] = "handler"
    BY <1>4 DEF Post, MayCall, InRun
  <2>3. /\ private_outstanding_work[t] = Len(private_op_queue[t])
        /\ private_outstanding_work'[t] # 0
    BY <1>1, <2>1, <2>2 DEF HoldsByStep, InHandler, Typed
  <2>4. private_outstanding_work[t] = 0 => Range(private_op_queue[t]) = {}
    BY <1>1, <2>3, PlacesTypes, EmptySeq, EmptyQueue
  <2>5. \A s \in Threads : s # t =>
          /\ private_op_queue'[s] = private_op_queue[s]
          /\ private_outstanding_work'[s] = private_outstanding_work[s]
    BY <1>1, <2>1 DEF Typed
  <2>6. Flushed(private_op_queue', private_outstanding_work')
          = Flushed(private_op_queue, private_outstanding_work)
    <3> DEFINE r == private_op_queue'
               v == private_outstanding_work'
    <3>1. /\ \A s \in Threads : s # t =>
               r[s] = private_op_queue[s] /\ v[s] = private_outstanding_work[s]
          /\ v[t] # 0
      BY <2>3, <2>5
    <3> HIDE DEF r, v
    <3>2. Flushed(r, v) = Flushed(private_op_queue, private_outstanding_work)
      BY <2>4, <3>1, FlushedSame
    <3> QED BY <3>2 DEF r, v
  <2>7. CountedWork' = CountedWork
    BY <1>2, <1>3, <2>1, <2>6 DEF CountedWork, CountedOps
  <2> QED BY <2>1, <2>7, CountSame
<1>5. CASE ~(InRun(t) /\ (OneThread \/ c))
  <2>1. /\ posting' = [posting EXCEPT ![t] = op]
        /\ outstanding_work_' = outstanding_work_ + 1
        /\ UNCHANGED <<private_op_queue, private_outstanding_work>>
    BY <1>5 DEF Post, privateVars
  <2>2. posting[t] = NoOp
    BY <1>1 DEF Post, MayCall, HoldsByStep, ClientSteps
  <2>3. Values(posting') = Values(posting) \cup {op}
    BY <1>1, <2>1, <2>2, PlacesTypes, HoldMore
  <2>4. CountedWork' = CountedWork \cup {op}
    BY <1>2, <1>3, <2>1, <2>3 DEF CountedWork, CountedOps
  <2>5. CountedOps \subseteq posted
    <3>1. Flushed(private_op_queue, private_outstanding_work)
            \subseteq InAny(private_op_queue)
      BY DEF Flushed, InAny
    <3> QED BY <1>1, <3>1 DEF CountedOps, OpPlaces, Apart
  <2>6. op \notin CountedWork
    BY <1>1, <1>2, <2>5, CountedFinite DEF CountedWork
  <2> QED BY <1>1, <2>1, <2>4, <2>6, CountOneMore
<1> QED BY <1>4, <1>5

(* The post under the lock moves an operation whose unit is counted.       *)
LEMMA CountPostLocked ==
  ASSUME PlaceInv, WorkCounted, NEW t \in Threads, PostLocked(t)
  PROVE  WorkCounted'
<1> DEFINE op == posting[t]
<1>1. Typed /\ CallsReturn /\ OpPlaces
  BY DEF PlaceInv, TypeInv
<1>2. /\ op_queue_' = Append(op_queue_, op)
      /\ posting' = [posting EXCEPT ![t] = NoOp]
      /\ UNCHANGED <<private_op_queue, private_outstanding_work, running,
                     destroyed, guards, outstanding_work_>>
  BY DEF PostLocked, privateVars, historyVars
<1>3. op \in Ops /\ op # TaskOp /\ op # NoOp /\ op \in Values(posting)
  BY <1>1, ConstantsAssumption DEF PostLocked, CallsReturn, CallSteps, Values
<1> HIDE DEF op
<1>4. Range(op_queue_') = Range(op_queue_) \cup {op}
  BY <1>1, <1>2, <1>3, PlacesTypes, AppendQueue
<1>5. QueuedOps' = QueuedOps \cup {op}
  BY <1>3, <1>4 DEF QueuedOps
<1>6. Values(posting') = Values(posting) \ {op}
  BY <1>1, <1>2, PlacesTypes, HoldLess DEF OpPlaces, op
<1>7. CountedWork' = CountedWork
  BY <1>2, <1>3, <1>5, <1>6 DEF CountedWork, CountedOps
<1> QED BY <1>2, <1>7, CountSame

(* The task is no work.                                                    *)
LEMMA CountTask ==
  ASSUME PlaceInv, WorkCounted, NEW t \in Threads,
         InitTask(t) \/ TakeTask(t) \/ TaskCleanup(t)
  PROVE  WorkCounted'
<1>1. Typed /\ HoldsByStep /\ OpPlaces
  BY DEF PlaceInv, TypeInv
<1>2. UNCHANGED <<posting, running, destroyed, guards>>
  BY DEF InitTask, TakeTask, TaskCleanup, historyVars
<1>3. CASE InitTask(t)
  <2>1. /\ op_queue_' = Append(op_queue_, TaskOp)
        /\ UNCHANGED <<private_op_queue, private_outstanding_work, outstanding_work_>>
    BY <1>3 DEF InitTask, privateVars
  <2>2. Range(op_queue_') = Range(op_queue_) \cup {TaskOp}
    <3>1. op_queue_ \in Seq(Ops \cup {TaskOp}) /\ Distinct(op_queue_)
      BY <1>1, PlacesTypes DEF OpPlaces
    <3>2. Range(Append(op_queue_, TaskOp)) = Range(op_queue_) \cup {TaskOp}
      BY <3>1, AppendQueue
    <3> QED BY <2>1, <3>2
  <2>3. QueuedOps' = QueuedOps
    BY <2>2 DEF QueuedOps
  <2>4. CountedWork' = CountedWork
    BY <1>2, <2>1, <2>3 DEF CountedWork, CountedOps
  <2> QED BY <2>1, <2>4, CountSame
<1>4. CASE TakeTask(t)
  <2>1. /\ op_queue_' = Tail(op_queue_) /\ op_queue_ # <<>>
        /\ Head(op_queue_) = TaskOp
        /\ UNCHANGED <<private_op_queue, private_outstanding_work, outstanding_work_>>
    BY <1>4 DEF TakeTask, privateVars
  <2>2. Range(op_queue_) = {TaskOp} \cup Range(op_queue_')
    BY <1>1, <2>1, PlacesTypes, TailQueue DEF OpPlaces
  <2>3. QueuedOps' = QueuedOps
    BY <2>2 DEF QueuedOps
  <2>4. CountedWork' = CountedWork
    BY <1>2, <2>1, <2>3 DEF CountedWork, CountedOps
  <2> QED BY <2>1, <2>4, CountSame
<1>5. CASE TaskCleanup(t)
  <2>1. private_op_queue[t] = <<>> /\ private_outstanding_work[t] = 0
    BY <1>1, <1>5 DEF TaskCleanup, HoldsByStep, Completing, InHandler, Flushing, CallSteps
  <2>2. /\ op_queue_' = Append(op_queue_ \o private_op_queue[t], TaskOp)
        /\ private_op_queue' = [private_op_queue EXCEPT ![t] = <<>>]
        /\ private_outstanding_work' = [private_outstanding_work EXCEPT ![t] = 0]
        /\ outstanding_work_' = outstanding_work_ + private_outstanding_work[t]
    BY <1>5 DEF TaskCleanup
  <2>3. op_queue_' = Append(op_queue_, TaskOp) /\ private_op_queue' = private_op_queue
    BY <1>1, <2>1, <2>2, PlacesTypes, ConcatEmptySeq
  <2>4. /\ private_outstanding_work' = private_outstanding_work
        /\ outstanding_work_' = outstanding_work_
    BY <1>1, <2>1, <2>2 DEF Typed
  <2>5. Range(op_queue_') = Range(op_queue_) \cup {TaskOp}
    <3>1. op_queue_ \in Seq(Ops \cup {TaskOp}) /\ Distinct(op_queue_)
      BY <1>1, PlacesTypes DEF OpPlaces
    <3>2. Range(Append(op_queue_, TaskOp)) = Range(op_queue_) \cup {TaskOp}
      BY <3>1, AppendQueue
    <3> QED BY <2>3, <3>2
  <2>6. QueuedOps' = QueuedOps
    BY <2>5 DEF QueuedOps
  <2>7. CountedWork' = CountedWork
    BY <1>2, <2>3, <2>4, <2>6 DEF CountedWork, CountedOps
  <2> QED BY <2>4, <2>7, CountSame
<1> QED BY <1>3, <1>4, <1>5

(* do_run_one moves an operation from the queue to its thread.             *)
LEMMA CountTakeOp ==
  ASSUME PlaceInv, WorkCounted, NEW t \in Threads, TakeOp(t)
  PROVE  WorkCounted'
<1> DEFINE op == Head(op_queue_)
<1>1. Typed /\ HoldsByStep /\ OpPlaces
  BY DEF PlaceInv, TypeInv
<1>2. /\ op_queue_' = Tail(op_queue_) /\ op_queue_ # <<>> /\ op # TaskOp
      /\ running' = [running EXCEPT ![t] = op]
      /\ UNCHANGED <<private_op_queue, private_outstanding_work, posting,
                     destroyed, guards, outstanding_work_>>
  BY DEF TakeOp, privateVars
<1>3. running[t] = NoOp
  BY <1>1 DEF TakeOp, HoldsByStep, Completing, InHandler, CallSteps
<1> HIDE DEF op
<1>4. /\ op \in Ops \cup {TaskOp}
      /\ Range(op_queue_) = {op} \cup Range(op_queue_')
      /\ op \notin Range(op_queue_')
  BY <1>1, <1>2, PlacesTypes, TailQueue DEF OpPlaces, op
<1>5. op \in Ops /\ QueuedOps' = QueuedOps \ {op} /\ op \in QueuedOps
  BY <1>2, <1>4 DEF QueuedOps
<1>6. Values(running') = Values(running) \cup {op}
  BY <1>1, <1>2, <1>3, <1>5, PlacesTypes, HoldMore
<1>7. CountedWork' = CountedWork
  BY <1>2, <1>5, <1>6 DEF CountedWork, CountedOps
<1> QED BY <1>2, <1>7, CountSame

(* ~work_cleanup counts a private queue as a whole.                        *)
LEMMA CountPrivate ==
  ASSUME PlaceInv, WorkCounted, NEW t \in Threads, CountPrivateWork(t)
  PROVE  WorkCounted'
<1> DEFINE u == Range(private_op_queue[t])
           n == private_outstanding_work[t]
<1>1. Typed /\ HoldsByStep /\ OpPlaces
  BY DEF PlaceInv, TypeInv
<1>2. /\ outstanding_work_' = outstanding_work_ + n
      /\ private_outstanding_work' = [private_outstanding_work EXCEPT ![t] = 0]
      /\ UNCHANGED <<op_queue_, private_op_queue, running, posting, destroyed, guards>>
  BY DEF CountPrivateWork, historyVars
<1>3. n = Len(private_op_queue[t]) /\ n \in Nat
  BY <1>1 DEF CountPrivateWork, HoldsByStep, Typed
<1>4. IsFiniteSet(u) /\ Cardinality(u) = n
  <2>1. private_op_queue[t] \in Seq(Ops) /\ Distinct(private_op_queue[t])
    BY <1>1, PlacesTypes DEF OpPlaces
  <2> QED BY <1>3, <2>1, DistinctLength
<1>5. /\ private_outstanding_work'[t] = 0
      /\ \A s \in Threads : s # t =>
           private_outstanding_work'[s] = private_outstanding_work[s]
  BY <1>1, <1>2 DEF Typed
<1>6. QueuedOps' = QueuedOps
  BY <1>2 DEF QueuedOps
<1>7. CASE n = 0
  <2>1. private_outstanding_work' = private_outstanding_work
    BY <1>1, <1>2, <1>7 DEF Typed
  <2>2. CountedWork' = CountedWork
    BY <1>2, <1>6, <2>1 DEF CountedWork, CountedOps
  <2>3. outstanding_work_' = outstanding_work_
    BY <1>1, <1>2, <1>7 DEF Typed
  <2> QED BY <2>2, <2>3, CountSame
<1>8. CASE n # 0
  <2>1. Flushed(private_op_queue', private_outstanding_work')
          = Flushed(private_op_queue, private_outstanding_work) \cup u
    BY <1>2, <1>5 DEF Flushed
  <2>2. CountedWork' = CountedWork \cup u
    BY <1>2, <1>6, <2>1 DEF CountedWork, CountedOps
  <2>3. u \cap Flushed(private_op_queue, private_outstanding_work) = {}
    BY <1>1, <1>8 DEF Flushed, OpPlaces, NoneShared
  <2>4. u \subseteq InAny(private_op_queue) /\ u \subseteq Ops
    BY <1>1, PlacesTypes DEF InAny, Range
  <2>5. CountedWork \cap u = {}
    <3>1. Values(running) \cap u = {} /\ destroyed \cap u = {}
          /\ Values(posting) \cap u = {} /\ QueuedOps \cap u = {}
      BY <1>1, <2>4 DEF OpPlaces, Apart
    <3>2. guards \cap u = {}
      BY <1>1, <2>4, CountedFinite
    <3> QED BY <2>3, <3>1, <3>2 DEF CountedWork, CountedOps
  <2>6. Cardinality(CountedWork \cup u) = Cardinality(CountedWork) + n
    <3>1. /\ IsFiniteSet(CountedWork) /\ Cardinality(CountedWork) \in Nat
          /\ Cardinality({}) = 0
      BY <1>1, CountedFinite, FS_EmptySet
    <3>2. Cardinality(CountedWork \cup u) =
            Cardinality(CountedWork) + Cardinality(u) - Cardinality(CountedWork \cap u)
      BY <1>4, <3>1, FS_Union
    <3>3. Cardinality(CountedWork \cap u) = 0
      BY <2>5, <3>1
    <3> HIDE DEF u, n
    <3> QED BY <1>3, <1>4, <3>1, <3>2, <3>3
  <2>7. Cardinality(CountedWork) \in Nat /\ HeapWork \in Nat
    BY <1>1, CountedFinite, ConstantsAssumption
  <2> HIDE DEF u, n
  <2> QED BY <1>2, <1>3, <2>2, <2>6, <2>7, CountedWorkIs, CountedWorkIsNext
<1> QED BY <1>7, <1>8

(* ... and gives back the unit of the operation itself.                    *)
LEMMA CountFinishOp ==
  ASSUME PlaceInv, WorkCounted, NEW t \in Threads, FinishOp(t)
  PROVE  WorkCounted'
<1> DEFINE op == running[t]
<1>1. Typed /\ HoldsByStep /\ OpPlaces
  BY DEF PlaceInv, TypeInv
<1>2. /\ outstanding_work_' = outstanding_work_ - 1
      /\ running' = [running EXCEPT ![t] = NoOp]
      /\ UNCHANGED <<op_queue_, private_op_queue, private_outstanding_work,
                     posting, destroyed, guards>>
  BY DEF FinishOp, WorkFinished, privateVars, historyVars
<1>3. op \in Ops /\ op \in Values(running) /\ op \in started
  <2>1. op # NoOp
    BY <1>1 DEF FinishOp, HoldsByStep, Completing
  <2> QED BY <1>1, <2>1, PlacesTypes DEF Values, OpPlaces
<1>4. Values(running') = Values(running) \ {op}
  BY <1>1, <1>2, PlacesTypes, HoldLess DEF OpPlaces
<1> HIDE DEF op
<1>5. QueuedOps' = QueuedOps
  BY <1>2 DEF QueuedOps
<1>6. op \notin Flushed(private_op_queue, private_outstanding_work)
  <2>1. Flushed(private_op_queue, private_outstanding_work)
          \subseteq InAny(private_op_queue)
    BY DEF Flushed, InAny
  <2> QED BY <1>1, <1>3, <2>1 DEF OpPlaces, Apart
<1>7. op \notin guards
  BY <1>1, <1>3, CountedFinite
<1>8. CountedWork' = CountedWork \ {op}
  BY <1>1, <1>2, <1>3, <1>4, <1>5, <1>6, <1>7 DEF CountedWork, CountedOps, OpPlaces, Apart
<1>9. op \in CountedWork
  BY <1>3 DEF CountedWork, CountedOps
<1> QED BY <1>1, <1>2, <1>8, <1>9, CountOneLess

(* ~work_cleanup hands the private units and operations over together.     *)
LEMMA CountFlush ==
  ASSUME PlaceInv, WorkCounted, NEW t \in Threads, FlushPrivateQueue(t)
  PROVE  WorkCounted'
<1> DEFINE u == private_op_queue[t]
<1>1. Typed /\ HoldsByStep /\ OpPlaces
  BY DEF PlaceInv, TypeInv
<1>2. /\ op_queue_' = op_queue_ \o u
      /\ private_op_queue' = [private_op_queue EXCEPT ![t] = <<>>]
      /\ UNCHANGED <<private_outstanding_work, posting, running, destroyed,
                     guards, outstanding_work_>>
  BY DEF FlushPrivateQueue
<1>3. private_outstanding_work[t] = 0
  BY <1>1 DEF FlushPrivateQueue, HoldsByStep, InHandler, CallSteps
<1>4. u \in Seq(Ops) /\ u \in Seq(Ops \cup {TaskOp})
  BY <1>1, PlacesTypes
<1>5. TaskOp \notin Range(u)
  BY <1>4, ConstantsAssumption DEF Range
<1>6. Range(op_queue_') = Range(op_queue_) \cup Range(u)
  BY <1>1, <1>2, <1>4, PlacesTypes, ConcatQueue
<1>7. QueuedOps' = QueuedOps \cup Range(u)
  BY <1>5, <1>6 DEF QueuedOps
<1>8. /\ Range(private_op_queue'[t]) = {}
      /\ \A s \in Threads : s # t => private_op_queue'[s] = private_op_queue[s]
  BY <1>1, <1>2, EmptyQueue DEF Typed
<1>9. /\ Range(u) \subseteq Flushed(private_op_queue, private_outstanding_work)
      /\ Flushed(private_op_queue', private_outstanding_work)
           \subseteq Flushed(private_op_queue, private_outstanding_work)
      /\ Flushed(private_op_queue, private_outstanding_work) \subseteq
           Flushed(private_op_queue', private_outstanding_work) \cup Range(u)
  BY <1>3, <1>8 DEF Flushed
<1> HIDE DEF u
<1>10. CountedWork' = CountedWork
  BY <1>2, <1>7, <1>9 DEF CountedWork, CountedOps
<1> QED BY <1>2, <1>10, CountSame

(* shutdown() leaves the count, and what it destroys stays counted.        *)
LEMMA CountShutdown ==
  ASSUME PlaceInv, WorkCounted, NEW t \in Threads, Shutdown(t)
  PROVE  WorkCounted'
<1>1. /\ op_queue_' = <<>> /\ destroyed' = destroyed \cup QueuedOps
      /\ UNCHANGED <<private_op_queue, private_outstanding_work, posting,
                     running, guards, outstanding_work_>>
  BY DEF Shutdown, QueuedOps, privateVars
<1>2. QueuedOps' = {}
  BY <1>1, EmptyQueue DEF QueuedOps
<1>3. CountedWork' = CountedWork
  BY <1>1, <1>2 DEF CountedWork, CountedOps
<1> QED BY <1>1, <1>3, CountSame

(* A copied guard is one unit more, a destroyed one a unit less.           *)
LEMMA CountGuard ==
  ASSUME PlaceInv, WorkCounted, NEW t \in Threads, NEW g \in Guards,
         GuardStart(t, g) \/ GuardFinish(t, g)
  PROVE  WorkCounted'
<1>1. Typed
  BY DEF PlaceInv, TypeInv
<1>2. /\ UNCHANGED placeVars /\ UNCHANGED private_outstanding_work
      /\ QueuedOps' = QueuedOps
  BY DEF GuardStart, GuardFinish, placeVars, privateVars, QueuedOps
<1>3. g \notin Ops
  BY ConstantsAssumption
<1>4. g \in CountedWork <=> g \in guards
  BY <1>1, <1>3, CountedFinite DEF CountedWork
<1>5. CASE GuardStart(t, g)
  <2>1. /\ g \notin guards /\ guards' = guards \cup {g}
        /\ outstanding_work_' = outstanding_work_ + 1
    BY <1>5 DEF GuardStart
  <2>2. CountedWork' = CountedWork \cup {g}
    BY <1>2, <2>1 DEF CountedWork, CountedOps, placeVars
  <2> QED BY <1>1, <1>4, <2>1, <2>2, CountOneMore
<1>6. CASE GuardFinish(t, g)
  <2>1. /\ g \in guards /\ guards' = guards \ {g}
        /\ outstanding_work_' = outstanding_work_ - 1
    BY <1>6 DEF GuardFinish, WorkFinished
  <2>2. CountedOps' = CountedOps /\ g \notin CountedOps
    BY <1>1, <1>2, <1>3, CountedFinite DEF CountedOps, placeVars
  <2>3. CountedWork' = CountedWork \ {g}
    BY <2>1, <2>2 DEF CountedWork
  <2> QED BY <1>1, <1>4, <2>1, <2>3, CountOneLess
<1> QED BY <1>5, <1>6

(* The steps that count or move something.                                 *)
LEMMA CountStep ==
  ASSUME NoReset, PlaceInv, WorkCounted, [Next]_vars
  PROVE  WorkCounted'
<1>1. CASE UNCHANGED countVars
  <2>1. CountedWork' = CountedWork
    BY <1>1 DEF countVars, placeVars, CountedWork, CountedOps, QueuedOps
  <2> QED BY <1>1, <2>1, CountSame DEF countVars
<1>2. CASE ~UNCHANGED countVars
  <2> SUFFICES ASSUME NEW t \in Threads, Continue(t) \/ Call(t) \/ Surprise(t)
               PROVE  WorkCounted'
    BY <1>2 DEF Next, vars, countVars, placeVars, privateVars, historyVars
  <2> USE DEF countVars, placeVars, privateVars, historyVars
  <2>1. NotifyOne(t) \/ Wake(t) \/ StopAllThreads(t) \/ Lock(t) \/ LeaveRun(t)
          \/ WaitForWork(t) \/ EpollReturns(t) \/ HandlerReturns(t)
          => UNCHANGED countVars
    BY DEF NotifyOne, Wake, StopAllThreads, Lock, LeaveRun, WaitForWork, EpollReturns,
           HandlerReturns
  <2>2. Run(t) \/ Stop(t) \/ Restart(t) \/ SpuriousWake(t)
          \/ EpollInterruptedBySignal(t) \/ HandlerThrows(t) => UNCHANGED countVars
    BY DEF Run, Stop, Restart, SpuriousWake, EpollInterruptedBySignal, HandlerThrows
  <2>3. \A g \in Guards : ~GuardReset(t, g)
    BY DEF GuardReset, MayCall, NoReset
  <2> HIDE DEF countVars, placeVars, privateVars, historyVars
  <2> QED BY <1>2, <2>1, <2>2, <2>3, CountPost, CountPostLocked, CountTask,
             CountTakeOp, CountPrivate, CountFinishOp, CountFlush,
             CountShutdown, CountGuard DEF Continue, Call, Surprise
<1> QED BY <1>1, <1>2

(* The initial count is that of the guards.                                *)
LEMMA CountInit == Init => WorkCounted
<1> SUFFICES ASSUME Init PROVE WorkCounted
  OBVIOUS
<1>1. Values(posting) = {} /\ Values(running) = {}
  BY DEF Init, Values
<1>2. QueuedOps = {}
  BY EmptyQueue DEF Init, QueuedOps
<1>3. Flushed(private_op_queue, private_outstanding_work) = {}
  BY EmptyQueue DEF Init, Flushed
<1>4. CountedWork = Guards
  BY <1>1, <1>2, <1>3 DEF Init, CountedWork, CountedOps
<1> QED BY <1>4, CountedWorkIs DEF Init

(* Without executor_work_guard::reset, whose defect a run shows, the work  *)
(* is counted in every state.                                              *)
THEOREM WorkInvariant == ASSUME NoReset PROVE Spec => []WorkInv
<1>1. Init => WorkInv
  BY TypeInit, PlaceInit, CountInit DEF WorkInv, PlaceInv
<1>2. WorkInv /\ [Next]_vars => WorkInv'
  BY TypeStep, CallsReturnStep, MutexStep, WaitersStep, HoldsStep, PlacesStep, CountStep
     DEF WorkInv, PlaceInv, TypeInv
<1> QED BY <1>1, <1>2, PTL DEF Spec

(* outstanding_work_ is the work guards and the operations between their   *)
(* post and the return of their handler, wherever those are.               *)
THEOREM WorkIsCounted == ASSUME NoReset PROVE Spec => []WorkCounted
BY WorkInvariant, PTL DEF WorkInv

(* So work_finished never takes it below what nobody initialised.          *)
THEOREM WorkNeverBelow == ASSUME NoReset PROVE Spec => [](outstanding_work_ >= HeapWork)
<1>1. WorkInv => outstanding_work_ >= HeapWork
  BY CountedWorkIs, CountedFinite, ConstantsAssumption DEF WorkInv, PlaceInv, TypeInv
<1> QED BY <1>1, WorkInvariant, PTL

-----------------------------------------------------------------------------
(* Stopping only when the work is finished.                                *)

(* Some thread is about to stop the scheduler, or has.                     *)
StopNear == stopped_ \/ \E s \in Threads : pc[s] = "stopping"

(* Nobody decides to stop but work_finished and run() without work, when   *)
(* nobody calls stop().                                                    *)
LEMMA StopsByCount ==
  ASSUME Typed, CallsReturn, "stop" \notin ClientCalls \cup HandlerCalls,
         ~StopNear, [Next]_vars
  PROVE  StopNear' => outstanding_work_' = 0
<1> DEFINE goal == StopNear' => outstanding_work_' = 0
<1> USE DEF Typed, CallsReturn, StopNear, Goto, CallStep, CallSteps, ClientSteps,
        HomeSteps, ReturnSteps
<1>1. ASSUME NEW t \in Threads, NotifyOne(t) PROVE goal
  <2>1. ret[t] # "stopping" /\ stopped_' = stopped_
    BY <1>1 DEF NotifyOne
  <2> QED BY <1>1, <2>1 DEF NotifyOne
<1>2. ASSUME NEW t \in Threads, Wake(t) PROVE goal
  BY <1>2 DEF Wake
<1>3. ASSUME NEW t \in Threads, SpuriousWake(t) PROVE goal
  BY <1>3 DEF SpuriousWake
<1>4. ASSUME NEW t \in Threads, NEW op \in Ops, NEW c \in BOOLEAN, Post(t, op, c) PROVE goal
  BY <1>4 DEF Post, MayCall
<1>5. ASSUME NEW t \in Threads, PostLocked(t) PROVE goal
  BY <1>5 DEF PostLocked, WakeOneThreadAndUnlock, Interrupt
<1>6. ASSUME NEW t \in Threads, InitTask(t) PROVE goal
  BY <1>6 DEF InitTask, WakeOneThreadAndUnlock, Interrupt, MayCall
<1>7. ASSUME NEW t \in Threads, Stop(t) PROVE goal
  BY <1>7 DEF Stop, MayCall
<1>8. ASSUME NEW t \in Threads, StopAllThreads(t) PROVE goal
  BY <1>8 DEF StopAllThreads, SignalAll, InterruptTaskOnStop, Interrupt
<1>9. ASSUME NEW t \in Threads, Restart(t) PROVE goal
  BY <1>9 DEF Restart
<1>10. ASSUME NEW t \in Threads, Shutdown(t) PROVE goal
  BY <1>10 DEF Shutdown, MayCall
<1>11. ASSUME NEW t \in Threads, NEW g \in Guards, GuardStart(t, g) PROVE goal
  BY <1>11 DEF GuardStart
<1>12. ASSUME NEW t \in Threads, NEW g \in Guards, GuardFinish(t, g) PROVE goal
  BY <1>12 DEF GuardFinish, WorkFinished, MayCall
<1>13. ASSUME NEW t \in Threads, NEW g \in Guards, GuardReset(t, g) PROVE goal
  BY <1>13 DEF GuardReset, WorkFinished, MayCall
<1>14. ASSUME NEW t \in Threads, Run(t) PROVE goal
  BY <1>14 DEF Run
<1>15. ASSUME NEW t \in Threads, Lock(t) PROVE goal
  BY <1>15 DEF Lock
<1>16. ASSUME NEW t \in Threads, LeaveRun(t) PROVE goal
  BY <1>16 DEF LeaveRun
<1>17. ASSUME NEW t \in Threads, WaitForWork(t) PROVE goal
  BY <1>17 DEF WaitForWork
<1>18. ASSUME NEW t \in Threads, TakeTask(t) PROVE goal
  BY <1>18 DEF TakeTask, UnlockAfterPop, UnlockAndSignalOne
<1>19. ASSUME NEW t \in Threads, TakeOp(t) PROVE goal
  BY <1>19 DEF TakeOp, UnlockAfterPop, UnlockAndSignalOne
<1>20. ASSUME NEW t \in Threads, EpollReturns(t) PROVE goal
  BY <1>20 DEF EpollReturns
<1>21. ASSUME NEW t \in Threads, EpollInterruptedBySignal(t) PROVE goal
  BY <1>21 DEF EpollInterruptedBySignal
<1>22. ASSUME NEW t \in Threads, TaskCleanup(t) PROVE goal
  BY <1>22 DEF TaskCleanup
<1>23. ASSUME NEW t \in Threads, HandlerReturns(t) PROVE goal
  BY <1>23 DEF HandlerReturns
<1>24. ASSUME NEW t \in Threads, HandlerThrows(t) PROVE goal
  BY <1>24 DEF HandlerThrows
<1>25. ASSUME NEW t \in Threads, CountPrivateWork(t) PROVE goal
  BY <1>25 DEF CountPrivateWork
<1>26. ASSUME NEW t \in Threads, FinishOp(t) PROVE goal
  BY <1>26 DEF FinishOp, WorkFinished
<1>27. ASSUME NEW t \in Threads, FlushPrivateQueue(t) PROVE goal
  BY <1>27 DEF FlushPrivateQueue
<1>28. CASE UNCHANGED vars
  BY <1>28 DEF vars
<1> QED
  BY <1>1, <1>2, <1>3, <1>4, <1>5, <1>6, <1>7, <1>8, <1>9, <1>10, <1>11, <1>12,
     <1>13, <1>14, <1>15, <1>16, <1>17, <1>18, <1>19, <1>20, <1>21, <1>22, <1>23,
     <1>24, <1>25, <1>26, <1>27, <1>28
     DEF Next, Continue, Call, Surprise

(* Without work nothing is queued, posted or run, nobody has a guard left, *)
(* and no private queue is left to be counted.                             *)
LEMMA NoWorkLeft ==
  ASSUME WorkInv, HeapWork = 0, outstanding_work_ = 0
  PROVE  /\ guards = {} /\ CountedOps = {}
         /\ \A t \in Threads : /\ ~Completing(t) /\ pc[t] # "posting"
                               /\ private_outstanding_work[t] = 0
                               /\ private_op_queue[t] = <<>>
<1>1. Typed /\ HoldsByStep /\ WorkCounted
  BY DEF WorkInv, PlaceInv, TypeInv
<1>2. IsFiniteSet(CountedWork) /\ Cardinality(CountedWork) = 0
  BY <1>1, CountedFinite, CountedWorkIs
<1>3. CountedWork = {}
  BY <1>2, FS_EmptySet
<1>4. guards = {} /\ CountedOps = {}
  BY <1>3 DEF CountedWork
<1>5. Values(posting) = {} /\ Values(running) = {}
      /\ Flushed(private_op_queue, private_outstanding_work) = {}
  BY <1>4 DEF CountedOps
<1>6. ASSUME NEW t \in Threads
      PROVE  /\ ~Completing(t) /\ pc[t] # "posting"
             /\ private_outstanding_work[t] = 0 /\ private_op_queue[t] = <<>>
  <2>1. posting[t] = NoOp /\ running[t] = NoOp
    BY <1>5 DEF Values
  <2>2. ~Completing(t) /\ pc[t] # "posting"
    BY <1>1, <2>1 DEF HoldsByStep
  <2>3. private_outstanding_work[t] = 0
    BY <1>1, <2>2 DEF HoldsByStep, Completing
  <2>4. Range(private_op_queue[t]) = {}
    BY <1>5, <2>3 DEF Flushed
  <2>5. private_op_queue[t] \in Seq(Ops)
    BY <1>1, PlacesTypes
  <2>6. private_op_queue[t] = <<>>
    <3>1. 1 \notin DOMAIN private_op_queue[t]
      BY <2>4 DEF Range
    <3>2. Len(private_op_queue[t]) = 0
      BY <2>5, <3>1, LenProperties
    <3> QED BY <2>5, <3>2, EmptySeq
  <2> QED BY <2>2, <2>3, <2>6
<1> QED BY <1>4, <1>6

(* ... and nobody may start new work.                                      *)
LEMMA NoWorkStays ==
  ASSUME WorkInv, OnlyGuardedCalls, outstanding_work_ = 0, [Next]_vars
  PROVE  outstanding_work_' = 0
<1>1. /\ guards = {}
      /\ \A t \in Threads : ~Completing(t) /\ private_outstanding_work[t] = 0
  BY NoWorkLeft DEF OnlyGuardedCalls
<1>2. CASE outstanding_work_' = outstanding_work_
  BY <1>2
<1>3. CASE outstanding_work_' # outstanding_work_
  <2> SUFFICES ASSUME NEW t \in Threads, Continue(t) \/ Call(t) \/ Surprise(t)
               PROVE  FALSE
    BY <1>3 DEF Next, vars
  <2> USE DEF historyVars, privateVars, Completing, InHandler
  <2>1. NotifyOne(t) \/ Wake(t) \/ PostLocked(t) \/ StopAllThreads(t) \/ Lock(t)
          \/ LeaveRun(t) \/ WaitForWork(t) \/ TakeTask(t) \/ TakeOp(t)
          \/ EpollReturns(t) \/ HandlerReturns(t) \/ FlushPrivateQueue(t)
          => outstanding_work_' = outstanding_work_
    BY DEF NotifyOne, Wake, PostLocked, StopAllThreads, Lock, LeaveRun, WaitForWork,
           TakeTask, TakeOp, EpollReturns, HandlerReturns, FlushPrivateQueue
  <2>2. InitTask(t) \/ Run(t) \/ Stop(t) \/ Restart(t) \/ Shutdown(t)
          \/ SpuriousWake(t) \/ EpollInterruptedBySignal(t) \/ HandlerThrows(t)
          => outstanding_work_' = outstanding_work_
    BY DEF InitTask, Run, Stop, Restart, Shutdown, SpuriousWake,
           EpollInterruptedBySignal, HandlerThrows
  <2>3. ~CountPrivateWork(t) /\ ~FinishOp(t)
    BY <1>1 DEF CountPrivateWork, FinishOp
  <2>4. TaskCleanup(t) => outstanding_work_' = outstanding_work_
    BY <1>1 DEF TaskCleanup
  <2>5. \A op \in Ops, c \in BOOLEAN : ~Post(t, op, c)
    BY <1>1 DEF Post, MayCall, Covered, OnlyGuardedCalls
  <2>6. \A g \in Guards : ~GuardStart(t, g) /\ ~GuardFinish(t, g) /\ ~GuardReset(t, g)
    BY <1>1 DEF GuardStart, GuardFinish, GuardReset, MayCall, Covered, OnlyGuardedCalls
  <2> HIDE DEF historyVars, privateVars, Completing, InHandler
  <2> QED BY <1>3, <2>1, <2>2, <2>3, <2>4, <2>5, <2>6 DEF Continue, Call, Surprise
<1> QED BY <1>2, <1>3

(* Without a call of shutdown() nothing is destroyed.                      *)
LEMMA DestroyedStep ==
  ASSUME "shutdown" \notin ClientCalls \cup HandlerCalls, [Next]_vars
  PROVE  destroyed' = destroyed
<1> SUFFICES ASSUME NEW t \in Threads, Continue(t) \/ Call(t) \/ Surprise(t)
             PROVE  destroyed' = destroyed
  BY DEF Next, vars, historyVars
<1> USE DEF historyVars
<1>1. NotifyOne(t) \/ Wake(t) \/ PostLocked(t) \/ StopAllThreads(t) \/ Lock(t)
        \/ LeaveRun(t) \/ WaitForWork(t) \/ TakeTask(t) \/ TakeOp(t)
        \/ EpollReturns(t) \/ TaskCleanup(t) \/ HandlerReturns(t)
        \/ CountPrivateWork(t) \/ FinishOp(t) \/ FlushPrivateQueue(t)
        => destroyed' = destroyed
  BY DEF NotifyOne, Wake, PostLocked, StopAllThreads, Lock, LeaveRun, WaitForWork,
         TakeTask, TakeOp, EpollReturns, TaskCleanup, HandlerReturns, CountPrivateWork,
         FinishOp, FlushPrivateQueue
<1>2. InitTask(t) \/ Run(t) \/ Stop(t) \/ Restart(t) \/ SpuriousWake(t)
        \/ EpollInterruptedBySignal(t) \/ HandlerThrows(t)
        => destroyed' = destroyed
  BY DEF InitTask, Run, Stop, Restart, SpuriousWake, EpollInterruptedBySignal,
         HandlerThrows
<1>3. ~Shutdown(t)
  BY DEF Shutdown, MayCall
<1>4. \A op \in Ops, c \in BOOLEAN : Post(t, op, c) => destroyed' = destroyed
  BY DEF Post
<1>5. \A g \in Guards : GuardStart(t, g) \/ GuardFinish(t, g) \/ GuardReset(t, g)
                          => destroyed' = destroyed
  BY DEF GuardStart, GuardFinish, GuardReset
<1> HIDE DEF historyVars
<1> QED BY <1>1, <1>2, <1>3, <1>4, <1>5 DEF Continue, Call, Surprise

(* With the discipline of main.cc, work_finished decides once, and nobody  *)
(* adds work between the decision and the stop.                            *)
THEOREM DrainInvariant == ASSUME OnlyGuardedCalls PROVE Spec => []DrainInv
<1>1. NoReset /\ {"stop", "shutdown"} \cap (ClientCalls \cup HandlerCalls) = {}
      /\ HeapWork = 0 /\ HeapBools = {FALSE}
  BY DEF OnlyGuardedCalls, NoReset
<1>2. Init => StopsWithoutWork
  BY <1>1 DEF Init, StopsWithoutWork
<1>3. WorkInv /\ StopsWithoutWork /\ [Next]_vars => StopsWithoutWork'
  <2> SUFFICES ASSUME WorkInv, StopsWithoutWork, [Next]_vars PROVE StopsWithoutWork'
    OBVIOUS
  <2>1. Typed /\ CallsReturn
    BY DEF WorkInv, PlaceInv, TypeInv
  <2>2. destroyed' = {}
    BY <1>1, DestroyedStep DEF StopsWithoutWork
  <2>3. StopNear => outstanding_work_' = 0
    BY NoWorkStays DEF StopsWithoutWork, StopNear
  <2>4. ~StopNear => (StopNear' => outstanding_work_' = 0)
    BY <1>1, <2>1, StopsByCount
  <2> QED BY <2>2, <2>3, <2>4 DEF StopsWithoutWork, StopNear
<1> QED BY <1>1, <1>2, <1>3, WorkInvariant, PTL DEF Spec, DrainInv

(* So the scheduler stops by itself only when every guard is gone, every   *)
(* operation has been run and every handler has returned.                  *)
THEOREM StopsDrained == ASSUME OnlyGuardedCalls PROVE Spec => []StopsOnlyWhenDrained
<1>1. DrainInv => StopsOnlyWhenDrained
  <2> SUFFICES ASSUME DrainInv, stopped_
               PROVE  /\ guards = {} /\ posted = started
                      /\ \A t \in Threads : running[t] = NoOp
    BY DEF StopsOnlyWhenDrained
  <2>1. WorkInv /\ outstanding_work_ = 0 /\ destroyed = {}
    BY DEF DrainInv, StopsWithoutWork
  <2>2. /\ guards = {} /\ CountedOps = {}
        /\ \A t \in Threads : ~Completing(t) /\ private_op_queue[t] = <<>>
    BY <2>1, NoWorkLeft DEF OnlyGuardedCalls
  <2>3. QueuedOps = {} /\ Values(posting) = {}
    BY <2>2 DEF CountedOps
  <2>4. InAny(private_op_queue) = {}
    BY <2>2, EmptyQueue DEF InAny
  <2>5. posted = started
    BY <2>1, <2>3, <2>4 DEF WorkInv, PlaceInv, OpPlaces, Apart
  <2>6. \A t \in Threads : running[t] = NoOp
    BY <2>1, <2>2 DEF WorkInv, PlaceInv, HoldsByStep
  <2> QED BY <2>2, <2>5, <2>6
<1> QED BY <1>1, DrainInvariant, PTL

-----------------------------------------------------------------------------
(* The promise to the caller of post.                                      *)

statusVars == <<posted, started, destroyed, running>>

(* The state of an operation in the contract, by the sets of this module.  *)
LEMMA StatusIs ==
  \A op \in Ops :
    Status[op] = IF op \in destroyed THEN "destroyed"
                 ELSE IF op \notin posted THEN "new"
                 ELSE IF op \notin started THEN "pending"
                 ELSE IF op \in Values(running) THEN "running" ELSE "done"
BY ConstantsAssumption DEF Status, Values

(* The same in the next state.                                             *)
LEMMA StatusIsNext ==
  \A op \in Ops :
    Status'[op] = IF op \in destroyed' THEN "destroyed"
                  ELSE IF op \notin posted' THEN "new"
                  ELSE IF op \notin started' THEN "pending"
                  ELSE IF op \in Values(running') THEN "running" ELSE "done"
<1>1. (\A op \in Ops :
         Status[op] = IF op \in destroyed THEN "destroyed"
                      ELSE IF op \notin posted THEN "new"
                      ELSE IF op \notin started THEN "pending"
                      ELSE IF op \in Values(running) THEN "running" ELSE "done")'
  BY StatusIs, PTL
<1> QED BY <1>1 DEF Values

(* Status is a function on the operations.                                 *)
LEMMA StatusFunction == Status = [op \in Ops |-> Status[op]]
BY DEF Status

(* A step whose effect on every status is that of f changes Status to f.   *)
LEMMA StatusBecomes ==
  ASSUME NEW f, f = [op \in Ops |-> f[op]], \A op \in Ops : Status'[op] = f[op]
  PROVE  Status' = f
<1>1. (Status = [op \in Ops |-> Status[op]])'
  BY StatusFunction, PTL
<1> QED BY <1>1

(* The status of one operation moves on.                                   *)
LEMMA StatusMoves ==
  ASSUME NEW op \in Ops, NEW to, Status'[op] = to,
         \A o \in Ops : o # op => Status'[o] = Status[o]
  PROVE  Status' = [Status EXCEPT ![op] = to]
<1> DEFINE f == [Status EXCEPT ![op] = to]
<1>1. f = [o \in Ops |-> f[o]] /\ \A o \in Ops : Status'[o] = f[o]
  BY StatusFunction
<1> HIDE DEF f
<1> QED BY <1>1, StatusBecomes DEF f

(* executor_type::post and defer submit an operation.                      *)
LEMMA PostSubmits ==
  ASSUME PlaceInv, NEW t \in Threads, NEW op \in Ops, NEW c \in BOOLEAN, Post(t, op, c)
  PROVE  Contract!Submit(op)
<1>1. /\ op \notin posted /\ posted' = posted \cup {op}
      /\ UNCHANGED <<started, destroyed, running, stopped_>>
  BY DEF Post
<1>2. op \notin started /\ op \notin destroyed
  BY <1>1 DEF PlaceInv, OpPlaces, Apart
<1>3. Status[op] = "new" /\ Status'[op] = "pending"
  BY <1>1, <1>2, StatusIs, StatusIsNext
<1>4. \A o \in Ops : o # op => Status'[o] = Status[o]
  BY <1>1, StatusIs, StatusIsNext
<1>5. Status' = [Status EXCEPT ![op] = "pending"]
  BY <1>3, <1>4, StatusMoves
<1> QED BY <1>1, <1>3, <1>5 DEF Contract!Submit, Contract!Move

(* do_run_one starts an operation that is pending, in a scheduler that is  *)
(* not stopped.                                                            *)
LEMMA TakeOpStarts ==
  ASSUME PlaceInv, NEW t \in Threads, TakeOp(t)
  PROVE  Contract!Start(Head(op_queue_))
<1> DEFINE op == Head(op_queue_)
<1>1. Typed /\ HoldsByStep /\ OpPlaces
  BY DEF PlaceInv, TypeInv
<1>2. /\ op_queue_' = Tail(op_queue_) /\ op_queue_ # <<>> /\ op # TaskOp
      /\ running' = [running EXCEPT ![t] = op] /\ started' = started \cup {op}
      /\ ~stopped_ /\ UNCHANGED <<posted, destroyed, stopped_>>
  BY DEF TakeOp
<1>3. running[t] = NoOp
  BY <1>1 DEF TakeOp, HoldsByStep, Completing, InHandler, CallSteps
<1> HIDE DEF op
<1>4. /\ op \in Ops \cup {TaskOp}
      /\ Range(op_queue_) = {op} \cup Range(op_queue_')
      /\ op \notin Range(op_queue_')
  BY <1>1, <1>2, PlacesTypes, TailQueue DEF OpPlaces, op
<1>5. op \in Ops /\ op \in QueuedOps
  BY <1>2, <1>4 DEF QueuedOps
<1>6. Values(running') = Values(running) \cup {op}
  BY <1>1, <1>2, <1>3, <1>5, PlacesTypes, HoldMore
<1>7. op \in posted /\ op \notin started /\ op \notin destroyed
  BY <1>1, <1>5 DEF OpPlaces, Apart
<1>8. Status[op] = "pending" /\ Status'[op] = "running"
  BY <1>2, <1>5, <1>6, <1>7, StatusIs, StatusIsNext
<1>9. \A o \in Ops : o # op => Status'[o] = Status[o]
  BY <1>2, <1>6, StatusIs, StatusIsNext
<1>10. Status' = [Status EXCEPT ![op] = "running"]
  BY <1>5, <1>8, <1>9, StatusMoves
<1> QED BY <1>2, <1>8, <1>10 DEF op, Contract!Start, Contract!Move

(* ~work_cleanup ends the one that its thread has been calling.            *)
LEMMA FinishOpFinishes ==
  ASSUME PlaceInv, NEW t \in Threads, FinishOp(t)
  PROVE  running[t] \in Ops /\ Contract!Finish(running[t])
<1> DEFINE op == running[t]
<1>1. Typed /\ HoldsByStep /\ OpPlaces
  BY DEF PlaceInv, TypeInv
<1>2. /\ running' = [running EXCEPT ![t] = NoOp]
      /\ UNCHANGED <<posted, started, destroyed, stopped_>>
  BY DEF FinishOp, historyVars
<1>3. op \in Ops /\ op \in Values(running)
  <2>1. op # NoOp
    BY <1>1 DEF FinishOp, HoldsByStep, Completing
  <2> QED BY <1>1, <2>1, PlacesTypes DEF Values
<1>4. Values(running') = Values(running) \ {op}
  BY <1>1, <1>2, PlacesTypes, HoldLess DEF OpPlaces
<1> HIDE DEF op
<1>5. op \in started /\ op \notin destroyed /\ op \in posted
  BY <1>1, <1>3 DEF OpPlaces, Apart
<1>6. Status[op] = "running" /\ Status'[op] = "done"
  BY <1>2, <1>3, <1>4, <1>5, StatusIs, StatusIsNext
<1>7. \A o \in Ops : o # op => Status'[o] = Status[o]
  BY <1>2, <1>4, StatusIs, StatusIsNext
<1>8. Status' = [Status EXCEPT ![op] = "done"]
  BY <1>3, <1>6, <1>7, StatusMoves
<1> QED BY <1>2, <1>3, <1>6, <1>8 DEF op, Contract!Finish, Contract!Move

(* ~io_context destroys exactly what is pending, since all of that is in   *)
(* the queue when no thread uses the scheduler any more.                   *)
LEMMA ShutdownDestroys ==
  ASSUME PlaceInv, NEW t \in Threads, Shutdown(t)
  PROVE  Contract!Destroy
<1> DEFINE f == [op \in Ops |-> IF Status[op] = "pending" THEN "destroyed"
                                ELSE Status[op]]
<1>1. Typed /\ HoldsByStep /\ OpPlaces
  BY DEF PlaceInv, TypeInv
<1>2. /\ destroyed' = destroyed \cup QueuedOps
      /\ UNCHANGED <<posted, started, running, stopped_>>
  BY DEF Shutdown, QueuedOps
<1>3. Values(posting) = {} /\ Values(running) = {} /\ InAny(private_op_queue) = {}
  BY <1>1, NobodyHolds DEF Shutdown
<1>4. posted = QueuedOps \cup started \cup destroyed /\ QueuedOps \cap started = {}
  BY <1>1, <1>3 DEF OpPlaces, Apart
<1>5. \A op \in Ops : Status[op] # "running"
  BY <1>3, StatusIs
<1>6. \A op \in Ops : Status'[op] = f[op]
  BY <1>2, <1>3, <1>4, StatusIs, StatusIsNext
<1>7. f = [op \in Ops |-> f[op]]
  OBVIOUS
<1> HIDE DEF f
<1>8. Status' = f
  BY <1>6, <1>7, StatusBecomes
<1> QED BY <1>2, <1>5, <1>8 DEF f, Contract!Destroy

(* Every other step leaves the statuses alone.                             *)
LEMMA StatusStays ==
  ASSUME [Next]_vars, ~UNCHANGED statusVars
  PROVE  \E t \in Threads :
           \/ \E op \in Ops, c \in BOOLEAN : Post(t, op, c)
           \/ TakeOp(t) \/ FinishOp(t) \/ Shutdown(t)
<1> SUFFICES ASSUME NEW t \in Threads, Continue(t) \/ Call(t) \/ Surprise(t),
                    ~UNCHANGED statusVars
             PROVE  \/ \E op \in Ops, c \in BOOLEAN : Post(t, op, c)
                    \/ TakeOp(t) \/ FinishOp(t) \/ Shutdown(t)
  BY DEF Next, vars, statusVars, historyVars
<1> USE DEF statusVars, historyVars
<1>1. NotifyOne(t) \/ Wake(t) \/ PostLocked(t) \/ StopAllThreads(t) \/ Lock(t)
        \/ LeaveRun(t) \/ WaitForWork(t) \/ TakeTask(t) \/ EpollReturns(t)
        \/ TaskCleanup(t) \/ HandlerReturns(t) \/ CountPrivateWork(t)
        \/ FlushPrivateQueue(t) => UNCHANGED statusVars
  BY DEF NotifyOne, Wake, PostLocked, StopAllThreads, Lock, LeaveRun, WaitForWork,
         TakeTask, EpollReturns, TaskCleanup, HandlerReturns, CountPrivateWork,
         FlushPrivateQueue
<1>2. InitTask(t) \/ Run(t) \/ Stop(t) \/ Restart(t) \/ SpuriousWake(t)
        \/ EpollInterruptedBySignal(t) \/ HandlerThrows(t) => UNCHANGED statusVars
  BY DEF InitTask, Run, Stop, Restart, SpuriousWake, EpollInterruptedBySignal,
         HandlerThrows
<1>3. \A g \in Guards : GuardStart(t, g) \/ GuardFinish(t, g) \/ GuardReset(t, g)
                          => UNCHANGED statusVars
  BY DEF GuardStart, GuardFinish, GuardReset
<1> HIDE DEF statusVars, historyVars
<1> QED BY <1>1, <1>2, <1>3 DEF Continue, Call, Surprise

(* ... and stop, restart and run() are stops, restarts or nothing.         *)
LEMMA StoppedStep ==
  ASSUME PlaceInv', Status' = Status
  PROVE  [Contract!Next]_(Contract!vars)
<1>0. stopped_' \in BOOLEAN
  BY DEF PlaceInv, TypeInv, Typed
<1>1. CASE stopped_' = TRUE
  BY <1>1 DEF Contract!Next, Contract!Stop
<1>2. CASE stopped_' = FALSE
  BY <1>2 DEF Contract!Next, Contract!Restart
<1> QED BY <1>0, <1>1, <1>2

(* A step that leaves the operations alone is a stop or a restart, or none.*)
LEMMA ContractQuiet ==
  PlaceInv' /\ UNCHANGED statusVars => [Contract!Next]_(Contract!vars)
<1> SUFFICES ASSUME PlaceInv', UNCHANGED statusVars
             PROVE  [Contract!Next]_(Contract!vars)
  OBVIOUS
<1>1. \A op \in Ops : Status'[op] = Status[op]
  BY StatusIs, StatusIsNext DEF statusVars
<1>2. Status' = Status
  BY <1>1, StatusFunction, StatusBecomes
<1> QED BY <1>2, StoppedStep

(* Nothing has been posted at first.                                       *)
LEMMA ContractInit == Init => Contract!Init
<1> SUFFICES ASSUME Init PROVE Contract!Init
  OBVIOUS
<1>1. \A op \in Ops : Status[op] = "new"
  BY StatusIs DEF Init
<1>2. Status = [op \in Ops |-> "new"]
  BY <1>1, StatusFunction
<1>3. stopped_ \in BOOLEAN
  BY ConstantsAssumption DEF Init
<1> QED BY <1>2, <1>3 DEF Contract!Init

(* A step is one of the contract, or none.                                 *)
LEMMA ContractStep ==
  PlaceInv /\ PlaceInv' /\ [Next]_vars => [Contract!Next]_(Contract!vars)
<1> SUFFICES ASSUME PlaceInv, PlaceInv', [Next]_vars
             PROVE  [Contract!Next]_(Contract!vars)
  OBVIOUS
<1>1. CASE UNCHANGED statusVars
  BY <1>1, ContractQuiet
<1>2. CASE ~UNCHANGED statusVars
  <2>1. PICK t \in Threads :
          \/ \E op \in Ops, c \in BOOLEAN : Post(t, op, c)
          \/ TakeOp(t) \/ FinishOp(t) \/ Shutdown(t)
    BY <1>2, StatusStays
  <2>2. ASSUME NEW op \in Ops, NEW c \in BOOLEAN, Post(t, op, c) PROVE Contract!Next
    BY <2>2, PostSubmits DEF Contract!Next
  <2>3. CASE TakeOp(t)
    <3>1. Head(op_queue_) \in Ops
      <4>1. Head(op_queue_) \in Ops \cup {TaskOp}
        BY <2>3, PlacesTypes, HeadTailProperties DEF TakeOp, PlaceInv, TypeInv
      <4> QED BY <2>3, <4>1 DEF TakeOp
    <3> QED BY <2>3, <3>1, TakeOpStarts DEF Contract!Next
  <2>4. CASE FinishOp(t)
    BY <2>4, FinishOpFinishes DEF Contract!Next
  <2>5. CASE Shutdown(t)
    BY <2>5, ShutdownDestroys DEF Contract!Next
  <2> QED BY <2>1, <2>2, <2>3, <2>4, <2>5
<1> QED BY <1>1, <1>2

(* post, do_run_one, work_cleanup, stop, restart and ~io_context keep the  *)
(* promise of ExecutorContract: every operation is called at most once, to *)
(* its end and not while the scheduler is stopped, or destroyed unstarted. *)
THEOREM KeepsContract == Spec => ImplementsContract
BY ContractInit, ContractStep, PlaceInvariant, PTL DEF Spec, ImplementsContract, Contract!Spec

-----------------------------------------------------------------------------
(* Coming back to the queue.                                               *)

(* Only an exception returns from run() through the completion of an       *)
(* operation.                                                              *)
LEMMA ReturnsStep ==
  ASSUME TypeInv, ReturnsUnwound, [Next]_vars
  PROVE  ReturnsUnwound'
<1>0. Typed /\ CallsReturn
  BY DEF TypeInv
<1> USE <1>0
<1> USE DEF Typed, CallsReturn, ReturnsUnwound, Goto, CallStep, CallSteps,
        ClientSteps, HomeSteps, ReturnSteps, eventVars, historyVars
<1>1. ASSUME NEW t \in Threads, NotifyOne(t) PROVE ReturnsUnwound'
  BY <1>1 DEF NotifyOne
<1>2. ASSUME NEW t \in Threads, Wake(t) PROVE ReturnsUnwound'
  BY <1>2 DEF Wake
<1>3. ASSUME NEW t \in Threads, SpuriousWake(t) PROVE ReturnsUnwound'
  BY <1>3 DEF SpuriousWake
<1>4. ASSUME NEW t \in Threads, NEW op \in Ops, NEW c \in BOOLEAN, Post(t, op, c) PROVE ReturnsUnwound'
  BY <1>4 DEF Post, MayCall
<1>5. ASSUME NEW t \in Threads, PostLocked(t) PROVE ReturnsUnwound'
  BY <1>5 DEF PostLocked, WakeOneThreadAndUnlock, Interrupt
<1>6. ASSUME NEW t \in Threads, InitTask(t) PROVE ReturnsUnwound'
  BY <1>6 DEF InitTask, WakeOneThreadAndUnlock, Interrupt, MayCall
<1>7. ASSUME NEW t \in Threads, Stop(t) PROVE ReturnsUnwound'
  BY <1>7 DEF Stop, MayCall
<1>8. ASSUME NEW t \in Threads, StopAllThreads(t) PROVE ReturnsUnwound'
  BY <1>8 DEF StopAllThreads, SignalAll, InterruptTaskOnStop, Interrupt
<1>9. ASSUME NEW t \in Threads, Restart(t) PROVE ReturnsUnwound'
  BY <1>9 DEF Restart
<1>10. ASSUME NEW t \in Threads, Shutdown(t) PROVE ReturnsUnwound'
  BY <1>10 DEF Shutdown, MayCall
<1>11. ASSUME NEW t \in Threads, NEW g \in Guards, GuardStart(t, g) PROVE ReturnsUnwound'
  BY <1>11 DEF GuardStart
<1>12. ASSUME NEW t \in Threads, NEW g \in Guards, GuardFinish(t, g) PROVE ReturnsUnwound'
  BY <1>12 DEF GuardFinish, WorkFinished, MayCall
<1>13. ASSUME NEW t \in Threads, NEW g \in Guards, GuardReset(t, g) PROVE ReturnsUnwound'
  BY <1>13 DEF GuardReset, WorkFinished, MayCall
<1>14. ASSUME NEW t \in Threads, Run(t) PROVE ReturnsUnwound'
  BY <1>14 DEF Run
<1>15. ASSUME NEW t \in Threads, Lock(t) PROVE ReturnsUnwound'
  BY <1>15 DEF Lock
<1>16. ASSUME NEW t \in Threads, LeaveRun(t) PROVE ReturnsUnwound'
  BY <1>16 DEF LeaveRun
<1>17. ASSUME NEW t \in Threads, WaitForWork(t) PROVE ReturnsUnwound'
  BY <1>17 DEF WaitForWork
<1>18. ASSUME NEW t \in Threads, TakeTask(t) PROVE ReturnsUnwound'
  BY <1>18 DEF TakeTask, UnlockAfterPop, UnlockAndSignalOne
<1>19. ASSUME NEW t \in Threads, TakeOp(t) PROVE ReturnsUnwound'
  BY <1>19 DEF TakeOp, UnlockAfterPop, UnlockAndSignalOne
<1>20. ASSUME NEW t \in Threads, EpollReturns(t) PROVE ReturnsUnwound'
  BY <1>20 DEF EpollReturns
<1>21. ASSUME NEW t \in Threads, EpollInterruptedBySignal(t) PROVE ReturnsUnwound'
  BY <1>21 DEF EpollInterruptedBySignal
<1>22. ASSUME NEW t \in Threads, TaskCleanup(t) PROVE ReturnsUnwound'
  BY <1>22 DEF TaskCleanup
<1>23. ASSUME NEW t \in Threads, HandlerReturns(t) PROVE ReturnsUnwound'
  BY <1>23 DEF HandlerReturns
<1>24. ASSUME NEW t \in Threads, HandlerThrows(t) PROVE ReturnsUnwound'
  BY <1>24 DEF HandlerThrows
<1>25. ASSUME NEW t \in Threads, CountPrivateWork(t) PROVE ReturnsUnwound'
  BY <1>25 DEF CountPrivateWork
<1>26. ASSUME NEW t \in Threads, FinishOp(t) PROVE ReturnsUnwound'
  BY <1>26 DEF FinishOp, WorkFinished
<1>27. ASSUME NEW t \in Threads, FlushPrivateQueue(t) PROVE ReturnsUnwound'
  BY <1>27 DEF FlushPrivateQueue
<1>28. CASE UNCHANGED vars
  BY <1>28 DEF vars
<1> QED
  BY <1>1, <1>2, <1>3, <1>4, <1>5, <1>6, <1>7, <1>8, <1>9, <1>10, <1>11, <1>12,
     <1>13, <1>14, <1>15, <1>16, <1>17, <1>18, <1>19, <1>20, <1>21, <1>22, <1>23,
     <1>24, <1>25, <1>26, <1>27, <1>28
     DEF Next, Continue, Call, Surprise

(* Attends and InRun, of a thread at a step that it will return from.      *)
Inside(step, back) == /\ step \notin ClientSteps \cup {"gone"}
                      /\ step \in CallSteps => back \notin ClientSteps
Heeds(step, back, interrupted) ==
  /\ Inside(step, back) /\ step \notin {"asleep", "woken"}
  /\ step = "block" => interrupted

(* A thread attends by its step, its return step and the edge.             *)
LEMMA AttendsIs ==
  \A t \in Threads : /\ InRun(t) <=> Inside(pc[t], ret[t])
                     /\ Attends(t) <=> Heeds(pc[t], ret[t], edge)
BY DEF InRun, Attends, Inside, Heeds

(* The queue is attended to, by the same.                                  *)
LEMMA AttendedIs ==
  /\ QueueAttended <=>
       ((op_queue_ # <<>> /\ ~stopped_ /\ ~unwound)
          => signalled \/ \E t \in Threads : Heeds(pc[t], ret[t], edge))
  /\ QueueNoticed <=>
       ((op_queue_ # <<>> /\ ~stopped_ /\ ~unwound /\ \E t \in Threads : Inside(pc[t], ret[t]))
          => \/ \E t \in Threads : Heeds(pc[t], ret[t], edge) \/ pc[t] = "woken"
             \/ /\ \E t \in Threads : pc[t] = "notify"
                /\ \E t \in Threads : pc[t] = "asleep")
BY AttendsIs DEF QueueAttended, QueueNoticed

(* The same in the next state.                                             *)
LEMMA AttendedIsNext ==
  /\ QueueAttended' <=>
       ((op_queue_' # <<>> /\ ~stopped_' /\ ~unwound')
          => signalled' \/ \E t \in Threads : Heeds(pc'[t], ret'[t], edge'))
  /\ QueueNoticed' <=>
       ((op_queue_' # <<>> /\ ~stopped_' /\ ~unwound' /\ \E t \in Threads : Inside(pc'[t], ret'[t]))
          => \/ \E t \in Threads : Heeds(pc'[t], ret'[t], edge') \/ pc'[t] = "woken"
             \/ /\ \E t \in Threads : pc'[t] = "notify"
                /\ \E t \in Threads : pc'[t] = "asleep")
<1>1. (/\ QueueAttended <=>
            ((op_queue_ # <<>> /\ ~stopped_ /\ ~unwound)
               => signalled \/ \E t \in Threads : Heeds(pc[t], ret[t], edge))
       /\ QueueNoticed <=>
            ((op_queue_ # <<>> /\ ~stopped_ /\ ~unwound /\ \E t \in Threads : Inside(pc[t], ret[t]))
               => \/ \E t \in Threads : Heeds(pc[t], ret[t], edge) \/ pc[t] = "woken"
                  \/ /\ \E t \in Threads : pc[t] = "notify"
                     /\ \E t \in Threads : pc[t] = "asleep"))'
  BY AttendedIs, PTL
<1> QED BY <1>1 DEF Heeds, Inside

(* A thread moves to step x, to return to r, and goes on attending.        *)
LEMMA AttendMove ==
  ASSUME Typed, QueueAttended, QueueNoticed, NEW t \in Threads, NEW x, NEW r,
         pc' = [pc EXCEPT ![t] = x], ret' = [ret EXCEPT ![t] = r], edge => edge',
         op_queue_' # <<>> => op_queue_ # <<>>, stopped_ => stopped_',
         unwound => unwound', signalled => signalled',
         Heeds(pc[t], ret[t], edge) => Heeds(x, r, edge'),
         Inside(x, r) => Inside(pc[t], ret[t]) \/ Heeds(x, r, edge'),
         pc[t] \notin {"asleep", "woken"},
         pc[t] = "notify" => \A s \in Threads : pc[s] # "asleep"
  PROVE  QueueAttended' /\ QueueNoticed'
<1>1. /\ pc'[t] = x /\ ret'[t] = r
      /\ \A s \in Threads : s # t => pc'[s] = pc[s] /\ ret'[s] = ret[s]
  BY DEF Typed
<1>2. \A s \in Threads : Heeds(pc[s], ret[s], edge) => Heeds(pc'[s], ret'[s], edge')
  BY <1>1 DEF Heeds
<1>3. \A s \in Threads : Inside(pc'[s], ret'[s]) =>
        Inside(pc[s], ret[s]) \/ Heeds(pc'[s], ret'[s], edge')
  BY <1>1
<1>4. \A s \in Threads : /\ pc[s] = "woken" => pc'[s] = "woken"
                         /\ pc[s] = "asleep" => pc'[s] = "asleep"
  BY <1>1
<1>5. (\E s \in Threads : pc[s] = "notify") /\ (\E s \in Threads : pc[s] = "asleep")
        => \E s \in Threads : pc'[s] = "notify"
  BY <1>1
<1>6. QueueAttended'
  BY <1>2, AttendedIs, AttendedIsNext
<1>7. QueueNoticed'
  BY <1>2, <1>3, <1>4, <1>5, AttendedIs, AttendedIsNext
<1> QED BY <1>6, <1>7

(* A step that queues something sets bit 0, and wakes or interrupts.       *)
LEMMA AttendWake ==
  ASSUME StopInv, NEW t \in Threads, NEW hasTask \in BOOLEAN,
         NEW r \in HomeSteps \cup {"flush", "lock"}, WakeOneThreadAndUnlock(t, hasTask, r),
         task_ => hasTask, pc[t] \notin {"asleep", "woken"}
  PROVE  QueueAttended' /\ QueueNoticed'
<1>1. Typed /\ WaitersCounted /\ TaskPlaces
  BY DEF StopInv, TypeInv
<1>2. signalled' = TRUE
  BY DEF WakeOneThreadAndUnlock
<1>3. CASE waiters > 0
  <2>1. /\ pc' = [pc EXCEPT ![t] = "notify"] /\ ret' = [ret EXCEPT ![t] = r]
    BY <1>3 DEF WakeOneThreadAndUnlock, CallStep, Goto
  <2>2. pc'[t] = "notify" /\ \A s \in Threads : s # t => pc'[s] = pc[s]
    BY <1>1, <2>1 DEF Typed
  <2>3. PICK s \in Threads : pc[s] \in {"asleep", "woken"}
    <3>1. Waiting # {}
      BY <1>1, <1>3, FS_EmptySet DEF WaitersCounted
    <3> QED BY <3>1 DEF Waiting
  <2>4. pc'[s] \in {"asleep", "woken"}
    BY <2>2, <2>3
  <2> QED BY <1>2, <2>2, <2>4, AttendedIsNext
<1>4. CASE ~(waiters > 0)
  <2>1. /\ pc' = [pc EXCEPT ![t] = r] /\ ret' = [ret EXCEPT ![t] = "none"]
        /\ hasTask => edge'
    BY <1>4 DEF WakeOneThreadAndUnlock, Goto, Interrupt
  <2>2. /\ pc'[t] = r /\ ret'[t] = "none"
        /\ \A s \in Threads : s # t => pc'[s] = pc[s] /\ ret'[s] = ret[s]
    BY <1>1, <2>1 DEF Typed
  <2>3. \A s \in Threads : pc[s] \notin {"asleep", "woken"}
    BY <1>4, WaitingPositive DEF StopInv
  <2>4. ASSUME NEW s \in Threads, pc[s] = "block" PROVE edge'
    BY <1>1, <2>1, <2>4 DEF TaskPlaces, TaskCarriers, TaskSteps
  <2>5. ASSUME NEW s \in Threads, Inside(pc'[s], ret'[s])
        PROVE  Heeds(pc'[s], ret'[s], edge')
    BY <2>2, <2>3, <2>4, <2>5 DEF Inside, Heeds, HomeSteps, ClientSteps
  <2> QED BY <1>2, <2>5, AttendedIsNext
<1> QED BY <1>3, <1>4

(* work_finished goes on to stop the scheduler, or to where it was called. *)
LEMMA AttendFinish ==
  ASSUME Typed, QueueAttended, QueueNoticed, NEW t \in Threads,
         pc[t] \in HomeSteps \cup {"finish"}, NEW next \in HomeSteps \cup {"flush", "lock"},
         pc[t] \in HomeSteps => next = pc[t],
         pc[t] = "finish" => next \in {"flush", "lock"},
         WorkFinished(t, next),
         UNCHANGED <<edge, op_queue_, stopped_, unwound, signalled>>
  PROVE  QueueAttended' /\ QueueNoticed'
<1> USE DEF Heeds, Inside, HomeSteps, ClientSteps, CallSteps
<1>1. CASE outstanding_work_' = 0
  <2>1. pc' = [pc EXCEPT ![t] = "stopping"] /\ ret' = [ret EXCEPT ![t] = next]
    BY <1>1 DEF WorkFinished, CallStep, Goto
  <2>2. /\ Heeds(pc[t], ret[t], edge) => Heeds("stopping", next, edge')
        /\ Inside("stopping", next) => Inside(pc[t], ret[t]) \/ Heeds("stopping", next, edge')
        /\ pc[t] \notin {"asleep", "woken", "notify"}
    OBVIOUS
  <2> HIDE DEF Heeds, Inside, HomeSteps, ClientSteps, CallSteps
  <2> QED BY <2>1, <2>2, AttendMove
<1>2. CASE outstanding_work_' # 0
  <2>1. pc' = [pc EXCEPT ![t] = next] /\ ret' = [ret EXCEPT ![t] = "none"]
    BY <1>2 DEF WorkFinished, CallStep, Goto
  <2>2. /\ Heeds(pc[t], ret[t], edge) => Heeds(next, "none", edge')
        /\ Inside(next, "none") => Inside(pc[t], ret[t]) \/ Heeds(next, "none", edge')
        /\ pc[t] \notin {"asleep", "woken", "notify"}
    OBVIOUS
  <2> HIDE DEF Heeds, Inside, HomeSteps, ClientSteps, CallSteps
  <2> QED BY <2>1, <2>2, AttendMove
<1> QED BY <1>1, <1>2

(* Whatever a thread does next, the queue is attended to.                  *)
LEMMA AttendStep ==
  ASSUME StopInv, ReturnsUnwound, QueueAttended, QueueNoticed, [Next]_vars
  PROVE  QueueAttended' /\ QueueNoticed'
<1> DEFINE goal == QueueAttended' /\ QueueNoticed'
<1>0. Typed /\ CallsReturn /\ StopSignalled /\ InterruptPending
  BY DEF StopInv, TypeInv
<1> USE <1>0
<1> USE DEF Typed, CallsReturn, ReturnsUnwound, Goto, CallStep, CallSteps,
        ClientSteps, HomeSteps, ReturnSteps, eventVars, historyVars
<1>1. ASSUME NEW t \in Threads, NotifyOne(t) PROVE goal
  <2>1. /\ pc[t] = "notify" /\ ret' = [ret EXCEPT ![t] = "none"]
        /\ UNCHANGED <<edge, op_queue_, stopped_, unwound, signalled>>
    BY <1>1 DEF NotifyOne
  <2>2. Heeds("notify", ret[t], edge) => Heeds(ret[t], "none", edge)
    BY <2>1 DEF Heeds, Inside
  <2>3. Inside(ret[t], "none") => Inside("notify", ret[t])
    BY <2>1 DEF Inside
  <2>4. CASE pc' = [pc EXCEPT ![t] = ret[t]] /\ \A s \in Threads : pc[s] # "asleep"
    BY <2>1, <2>2, <2>3, <2>4, AttendMove
  <2>5. ASSUME NEW s \in Threads, pc[s] = "asleep",
               pc' = [pc EXCEPT ![s] = "woken", ![t] = ret[t]]
        PROVE  goal
    <3>1. /\ s # t /\ pc'[s] = "woken" /\ pc'[t] = ret[t] /\ ret'[t] = "none"
          /\ \A u \in Threads : /\ u # s /\ u # t => pc'[u] = pc[u]
                                /\ u # t => ret'[u] = ret[u]
      BY <2>1, <2>5
    <3>2. \A u \in Threads : Heeds(pc[u], ret[u], edge) => Heeds(pc'[u], ret'[u], edge')
      <4>1. ~Heeds(pc[s], ret[s], edge)
        BY <2>5 DEF Heeds
      <4> QED BY <2>1, <2>2, <3>1, <4>1
    <3> QED BY <2>1, <3>1, <3>2, AttendedIs, AttendedIsNext
  <2> QED BY <1>1, <2>4, <2>5 DEF NotifyOne
<1>2. ASSUME NEW t \in Threads, Wake(t) PROVE goal
  <2>1. /\ pc[t] = "woken" /\ ret' = ret
        /\ UNCHANGED <<edge, op_queue_, stopped_, unwound, signalled>>
    BY <1>2 DEF Wake
  <2>2. CASE signalled
    <3>1. pc'[t] = "loop" /\ Heeds("loop", ret'[t], edge')
      BY <1>2, <2>2 DEF Wake, Heeds, Inside
    <3> QED BY <3>1, AttendedIsNext
  <2>3. CASE ~signalled
    <3>1. /\ pc'[t] = "asleep"
          /\ \A s \in Threads : s # t => pc'[s] = pc[s]
      BY <1>2, <2>3 DEF Wake
    <3>2. \A s \in Threads : Heeds(pc[s], ret[s], edge) => Heeds(pc'[s], ret'[s], edge')
      BY <2>1, <3>1 DEF Heeds
    <3> QED BY <2>1, <2>3, <3>2, AttendedIs, AttendedIsNext
  <2> QED BY <2>2, <2>3
<1>3. ASSUME NEW t \in Threads, SpuriousWake(t) PROVE goal
  <2>1. /\ pc[t] = "asleep" /\ pc'[t] = "woken"
        /\ \A s \in Threads : s # t => pc'[s] = pc[s]
        /\ UNCHANGED <<ret, edge, op_queue_, stopped_, unwound, signalled>>
    BY <1>3 DEF SpuriousWake
  <2>2. \A s \in Threads : Heeds(pc[s], ret[s], edge) => Heeds(pc'[s], ret'[s], edge')
    BY <2>1 DEF Heeds
  <2> QED BY <2>1, <2>2, AttendedIs, AttendedIsNext
<1>4. ASSUME NEW t \in Threads, NEW op \in Ops, NEW c \in BOOLEAN, Post(t, op, c) PROVE goal
  <2>1. pc[t] \in HomeSteps
    BY <1>4 DEF Post, MayCall
  <2>2. CASE UNCHANGED <<pc, ret>>
    <3>1. UNCHANGED <<edge, op_queue_, stopped_, unwound, signalled>>
      BY <1>4 DEF Post
    <3> QED BY <2>2, <3>1, AttendedIs, AttendedIsNext
  <2>3. CASE CallStep(t, "posting", pc[t])
    <3>1. UNCHANGED <<edge, op_queue_, stopped_, unwound, signalled>>
      BY <1>4 DEF Post
    <3>2. /\ Heeds(pc[t], ret[t], edge) => Heeds("posting", pc[t], edge')
          /\ Inside("posting", pc[t]) => Inside(pc[t], ret[t])
      BY <2>1, <3>1 DEF Heeds, Inside
    <3> QED BY <2>1, <2>3, <3>1, <3>2, AttendMove
  <2> QED BY <1>4, <2>2, <2>3 DEF Post
<1>5. ASSUME NEW t \in Threads, PostLocked(t) PROVE goal
  <2>1. /\ WakeOneThreadAndUnlock(t, task_, ret[t]) /\ pc[t] = "posting"
        /\ ret[t] \in HomeSteps \cup {"flush", "lock"}
    BY <1>5 DEF PostLocked
  <2> QED BY <2>1, AttendWake
<1>6. ASSUME NEW t \in Threads, InitTask(t) PROVE goal
  <2>1. WakeOneThreadAndUnlock(t, TRUE, pc[t]) /\ pc[t] \in HomeSteps
    BY <1>6 DEF InitTask, MayCall
  <2> QED BY <2>1, AttendWake
<1>7. ASSUME NEW t \in Threads, Stop(t) PROVE goal
  <2>1. /\ pc[t] \in HomeSteps
        /\ pc' = [pc EXCEPT ![t] = "stopping"] /\ ret' = [ret EXCEPT ![t] = pc[t]]
        /\ op_queue_' # <<>> => op_queue_ # <<>>
        /\ edge' = edge /\ stopped_' = stopped_ /\ signalled' = signalled
        /\ unwound => unwound'
    BY <1>7 DEF Stop, MayCall
  <2>2. /\ Heeds(pc[t], ret[t], edge) => Heeds("stopping", pc[t], edge')
        /\ Inside("stopping", pc[t]) => Inside(pc[t], ret[t]) \/ Heeds("stopping", pc[t], edge')
    BY <2>1 DEF Heeds, Inside
  <2> QED BY <2>1, <2>2, AttendMove
<1>8. ASSUME NEW t \in Threads, StopAllThreads(t) PROVE goal
  <2>1. stopped_' = TRUE
    BY <1>8 DEF StopAllThreads
  <2> QED BY <2>1, AttendedIsNext
<1>9. ASSUME NEW t \in Threads, Restart(t) PROVE goal
  <2>1. stopped_ /\ UNCHANGED <<pc, ret, edge, op_queue_, signalled, unwound>>
    BY <1>9 DEF Restart
  <2>2. \A s \in Threads : pc[s] # "asleep" /\ (pc[s] = "block" => edge)
    BY <2>1 DEF StopSignalled, InterruptPending
  <2>3. op_queue_ # <<>> /\ ~unwound => signalled
    BY <2>1 DEF StopSignalled
  <2>4. \A s \in Threads : Inside(pc'[s], ret'[s]) =>
          pc'[s] = "woken" \/ Heeds(pc'[s], ret'[s], edge')
    BY <2>1, <2>2 DEF Heeds
  <2> QED BY <2>1, <2>3, <2>4, AttendedIsNext
<1>10. ASSUME NEW t \in Threads, Shutdown(t) PROVE goal
  <2>1. op_queue_' = <<>>
    BY <1>10 DEF Shutdown
  <2> QED BY <2>1, AttendedIsNext
<1>11. ASSUME NEW t \in Threads, NEW g \in Guards, GuardStart(t, g) PROVE goal
  <2>1. UNCHANGED <<pc, ret, edge, op_queue_, stopped_, unwound, signalled>>
    BY <1>11 DEF GuardStart
  <2> QED BY <2>1, AttendedIs, AttendedIsNext
<1>12. ASSUME NEW t \in Threads, NEW g \in Guards, GuardFinish(t, g) PROVE goal
  <2>1. /\ pc[t] \in HomeSteps /\ WorkFinished(t, pc[t])
        /\ UNCHANGED <<edge, op_queue_, stopped_, unwound, signalled>>
    BY <1>12 DEF GuardFinish, MayCall
  <2> QED BY <2>1, AttendFinish
<1>13. ASSUME NEW t \in Threads, NEW g \in Guards, GuardReset(t, g) PROVE goal
  <2>1. /\ pc[t] \in HomeSteps /\ WorkFinished(t, pc[t])
        /\ UNCHANGED <<edge, op_queue_, stopped_, unwound, signalled>>
    BY <1>13 DEF GuardReset, MayCall
  <2> QED BY <2>1, AttendFinish
<1>14. ASSUME NEW t \in Threads, Run(t) PROVE goal
  <2>1. /\ pc[t] \in ClientSteps
        /\ UNCHANGED <<edge, op_queue_, stopped_, unwound, signalled>>
    BY <1>14 DEF Run
  <2>2. ~Heeds(pc[t], ret[t], edge)
    BY <2>1 DEF Heeds, Inside
  <2>3. CASE outstanding_work_ = 0
    <3>1. CallStep(t, "stopping", "returned")
      BY <1>14, <2>3 DEF Run
    <3>2. ~Inside("stopping", "returned")
      BY DEF Inside
    <3> QED BY <2>1, <2>2, <3>1, <3>2, AttendMove
  <2>4. CASE outstanding_work_ # 0
    <3>1. pc' = [pc EXCEPT ![t] = "lock"] /\ ret' = [ret EXCEPT ![t] = ret[t]]
      BY <1>14, <2>4 DEF Run
    <3>2. Heeds("lock", ret[t], edge')
      BY DEF Heeds, Inside
    <3> QED BY <2>1, <2>2, <3>1, <3>2, AttendMove
  <2> QED BY <2>3, <2>4
<1>15. ASSUME NEW t \in Threads, Lock(t) PROVE goal
  <2>1. /\ pc[t] = "lock"
        /\ pc' = [pc EXCEPT ![t] = "loop"] /\ ret' = [ret EXCEPT ![t] = ret[t]]
        /\ op_queue_' # <<>> => op_queue_ # <<>>
        /\ edge' = edge /\ stopped_' = stopped_ /\ signalled' = signalled
        /\ unwound => unwound'
    BY <1>15 DEF Lock
  <2>2. /\ Heeds(pc[t], ret[t], edge) => Heeds("loop", ret[t], edge')
        /\ Inside("loop", ret[t]) => Inside(pc[t], ret[t]) \/ Heeds("loop", ret[t], edge')
    BY <2>1 DEF Heeds, Inside
  <2> QED BY <2>1, <2>2, AttendMove
<1>16. ASSUME NEW t \in Threads, LeaveRun(t) PROVE goal
  <2>1. stopped_'
    BY <1>16 DEF LeaveRun
  <2> QED BY <2>1, AttendedIsNext
<1>17. ASSUME NEW t \in Threads, WaitForWork(t) PROVE goal
  <2>1. op_queue_' = <<>>
    BY <1>17 DEF WaitForWork
  <2> QED BY <2>1, AttendedIsNext
<1>18. ASSUME NEW t \in Threads, TakeTask(t) PROVE goal
  <2>1. CASE op_queue_' = <<>>
    BY <2>1, AttendedIsNext
  <2>2. CASE op_queue_' # <<>>
    <3>1. \/ pc'[t] = "poll"
          \/ pc'[t] = "notify" /\ ret'[t] = "poll"
      BY <1>18, <2>2 DEF TakeTask, UnlockAfterPop, UnlockAndSignalOne
    <3>2. Heeds(pc'[t], ret'[t], edge')
      BY <3>1 DEF Heeds, Inside
    <3> QED BY <3>2, AttendedIsNext
  <2> QED BY <2>1, <2>2
<1>19. ASSUME NEW t \in Threads, TakeOp(t) PROVE goal
  <2>1. CASE op_queue_' = <<>>
    BY <2>1, AttendedIsNext
  <2>2. CASE op_queue_' # <<>>
    <3>1. \/ pc'[t] = "handler"
          \/ pc'[t] = "notify" /\ ret'[t] = "handler"
      BY <1>19, <2>2 DEF TakeOp, UnlockAfterPop, UnlockAndSignalOne
    <3>2. Heeds(pc'[t], ret'[t], edge')
      BY <3>1 DEF Heeds, Inside
    <3> QED BY <3>2, AttendedIsNext
  <2> QED BY <2>1, <2>2
<1>20. ASSUME NEW t \in Threads, EpollReturns(t) PROVE goal
  <2>1. /\ pc'[t] = "task_done" /\ Heeds("task_done", ret'[t], edge')
    BY <1>20 DEF EpollReturns, Heeds, Inside
  <2> QED BY <2>1, AttendedIsNext
<1>21. ASSUME NEW t \in Threads, EpollInterruptedBySignal(t) PROVE goal
  <2>1. /\ pc'[t] = "task_done" /\ Heeds("task_done", ret'[t], edge')
    BY <1>21 DEF EpollInterruptedBySignal, Heeds, Inside
  <2> QED BY <2>1, AttendedIsNext
<1>22. ASSUME NEW t \in Threads, TaskCleanup(t) PROVE goal
  <2>1. /\ pc'[t] = "loop" /\ Heeds("loop", ret'[t], edge')
    BY <1>22 DEF TaskCleanup, Heeds, Inside
  <2> QED BY <2>1, AttendedIsNext
<1>23. ASSUME NEW t \in Threads, HandlerReturns(t) PROVE goal
  <2>1. /\ pc[t] = "handler"
        /\ pc' = [pc EXCEPT ![t] = "cleanup"] /\ ret' = [ret EXCEPT ![t] = "lock"]
        /\ op_queue_' # <<>> => op_queue_ # <<>>
        /\ edge' = edge /\ stopped_' = stopped_ /\ signalled' = signalled
        /\ unwound => unwound'
    BY <1>23 DEF HandlerReturns, MayCall
  <2>2. /\ Heeds(pc[t], ret[t], edge) => Heeds("cleanup", "lock", edge')
        /\ Inside("cleanup", "lock") => Inside(pc[t], ret[t]) \/ Heeds("cleanup", "lock", edge')
    BY <2>1 DEF Heeds, Inside
  <2> QED BY <2>1, <2>2, AttendMove
<1>24. ASSUME NEW t \in Threads, HandlerThrows(t) PROVE goal
  <2>1. unwound'
    BY <1>24 DEF HandlerThrows
  <2> QED BY <2>1, AttendedIsNext
<1>25. ASSUME NEW t \in Threads, CountPrivateWork(t) PROVE goal
  <2>1. /\ pc[t] = "cleanup"
        /\ pc' = [pc EXCEPT ![t] = "finish"] /\ ret' = [ret EXCEPT ![t] = ret[t]]
        /\ op_queue_' # <<>> => op_queue_ # <<>>
        /\ edge' = edge /\ stopped_' = stopped_ /\ signalled' = signalled
        /\ unwound => unwound'
    BY <1>25 DEF CountPrivateWork, MayCall
  <2>2. /\ Heeds(pc[t], ret[t], edge) => Heeds("finish", ret[t], edge')
        /\ Inside("finish", ret[t]) => Inside(pc[t], ret[t]) \/ Heeds("finish", ret[t], edge')
    BY <2>1 DEF Heeds, Inside
  <2> QED BY <2>1, <2>2, AttendMove
<1>26. ASSUME NEW t \in Threads, FinishOp(t) PROVE goal
  <2> DEFINE next == IF private_op_queue[t] # <<>> THEN "flush" ELSE ret[t]
  <2>1. /\ pc[t] = "finish" /\ WorkFinished(t, next)
        /\ UNCHANGED <<edge, op_queue_, stopped_, unwound, signalled>>
    BY <1>26 DEF FinishOp
  <2>2. next \in {"flush", "lock"} \/ unwound
    BY <2>1
  <2> HIDE DEF next
  <2>3. CASE next \in {"flush", "lock"}
    BY <2>1, <2>3, AttendFinish
  <2>4. CASE unwound
    BY <2>1, <2>4, AttendedIsNext
  <2> QED BY <2>2, <2>3, <2>4
<1>27. ASSUME NEW t \in Threads, FlushPrivateQueue(t) PROVE goal
  <2>1. unwound'
    BY <1>27 DEF FlushPrivateQueue
  <2> QED BY <2>1, AttendedIsNext
<1>28. CASE UNCHANGED vars
  BY <1>28, AttendedIs, AttendedIsNext DEF vars
<1> QED
  BY <1>1, <1>2, <1>3, <1>4, <1>5, <1>6, <1>7, <1>8, <1>9, <1>10, <1>11, <1>12,
     <1>13, <1>14, <1>15, <1>16, <1>17, <1>18, <1>19, <1>20, <1>21, <1>22, <1>23,
     <1>24, <1>25, <1>26, <1>27, <1>28
     DEF Next, Continue, Call, Surprise

(* At first nothing is queued.                                             *)
LEMMA AttendInit == Init => ReturnsUnwound /\ QueueAttended /\ QueueNoticed
BY DEF Init, ReturnsUnwound, QueueAttended, QueueNoticed

(* Wherever the operations are queued, a thread attends to them or is      *)
(* going to be woken for them.                                             *)
THEOREM AttendInvariant == Spec => []AttendInv
<1>2. StopInv /\ ReturnsUnwound /\ QueueAttended /\ QueueNoticed /\ [Next]_vars
        => ReturnsUnwound' /\ QueueAttended' /\ QueueNoticed'
  BY ReturnsStep, AttendStep DEF StopInv
<1> QED BY <1>2, AttendInit, StopInvariant, PTL DEF Spec, AttendInv

(* A queue that is noticed is come back to.                                *)
LEMMA AttendedComesBack == AttendInv => SomeoneComesBack
BY DEF AttendInv, QueueNoticed, SomeoneComesBack, Attends, InRun, CallSteps,
       ClientSteps

(* wake_one_thread_and_unlock: while an operation is queued and a thread   *)
(* is inside run(), one comes back to the queue or is about to be woken,   *)
(* with one_thread_ set or not.                                            *)
THEOREM ComesBack == Spec => []SomeoneComesBack
BY AttendedComesBack, AttendInvariant, PTL

=============================================================================
