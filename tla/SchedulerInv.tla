---------------------------- MODULE SchedulerInv -----------------------------
(***************************************************************************)
(* The invariants behind the properties of Scheduler, as conjunctions of   *)
(* named parts that are inductive together.                                *)
(***************************************************************************)
EXTENDS Scheduler

(* A call in progress knows where it returns to, and a post in progress    *)
(* what it queues; only the notification of do_run_one returns to the task.*)
CallsReturn ==
  \A t \in Threads :
    /\ pc[t] \in CallSteps \cup {"cleanup", "finish"} => ret[t] # "none"
    /\ ret[t] = "poll" => pc[t] = "notify"
    /\ pc[t] = "posting" => posting[t] \in Ops

(* mutex_ is owned by the thread at the head of do_run_one's loop.         *)
MutexHeld == \A t \in Threads : (mutex_ = t) <=> (pc[t] = "loop")

TypeInv == Typed /\ CallsReturn /\ MutexHeld /\ WaitersCounted

-----------------------------------------------------------------------------
(* The places of the task, without counting them.                          *)
TaskPlaces ==
  /\ \A s, t \in TaskCarriers : s = t
  /\ \A i, j \in TaskPositions : i = j
  /\ TaskCarriers = {} \/ TaskPositions = {}
  /\ task_ <=> (TaskCarriers # {} \/ TaskPositions # {})

(* An interrupt requested while the task blocks is pending in the reactor, *)
(* and stop() does not find task_interrupted_ set without one.             *)
InterruptPending ==
  \A t \in Threads :
    (pc[t] = "block" /\ (task_interrupted_ \/ stopped_)) => edge

(* Bit 0 stays set for the threads a stop has woken.  It is only clear in  *)
(* a scheduler whose uninitialised stopped_ was set from the start.        *)
StopSignalled ==
  stopped_ =>
    /\ \A t \in Threads : pc[t] # "asleep"
    /\ \/ signalled
       \/ /\ \A t \in Threads : pc[t] # "woken"
          /\ TaskCarriers = {} /\ (op_queue_ = <<>> \/ unwound)

StopInv == TypeInv /\ TaskPlaces /\ InterruptPending /\ StopSignalled

-----------------------------------------------------------------------------
(* An operation is only queued with bit 0 set, or by the thread that is    *)
(* about to take it.                                                       *)
QueueSignalled ==
  (~OneThread /\ op_queue_ # <<>> /\ ~unwound)
    => signalled \/ \E t \in Threads : pc[t] = "loop"

WakeInv == StopInv /\ QueueSignalled /\ NoSleepBesideWork

-----------------------------------------------------------------------------
(* A thread is in a handler, or in a call made from it; it completes an    *)
(* operation until work_finished; and it splices its private queue last.   *)
InHandler(t)  == pc[t] = "handler" \/ (pc[t] \in CallSteps /\ ret[t] = "handler")
Completing(t) == InHandler(t) \/ pc[t] \in {"cleanup", "finish"}
Flushing(t)   == pc[t] = "flush" \/ (pc[t] \in CallSteps /\ ret[t] = "flush")

(* What a thread holds follows from where it is: an operation to post, one *)
(* to complete, a private queue and the work not yet counted for it.       *)
HoldsByStep ==
  \A t \in Threads :
    /\ pc[t] \in {"cleanup", "finish"} => ret[t] \in {"lock", "returned"}
    /\ posting[t] # NoOp <=> pc[t] = "posting"
    /\ running[t] # NoOp <=> Completing(t)
    /\ private_op_queue[t] # <<>> => Completing(t) \/ Flushing(t)
    /\ private_outstanding_work[t] =
         IF InHandler(t) \/ pc[t] = "cleanup" THEN Len(private_op_queue[t]) ELSE 0

(* The places of the operations, without counting them: a queue holds no   *)
(* operation twice, two threads hold no operation both, and the queue, the *)
(* posts in progress, the private queues, started and destroyed operations *)
(* are apart and together what was posted.                                 *)
Distinct(q) == \A i, j \in DOMAIN q : q[i] = q[j] /\ q[i] # TaskOp => i = j

Values(f) == {f[t] : t \in Threads} \ {NoOp}
NoSharing(f) == \A s, t \in Threads : f[s] = f[t] /\ f[s] # NoOp => s = t

InAny(p) == UNION {Range(p[t]) : t \in Threads}
NoneShared(p) ==
  \A s, t \in Threads : s # t => Range(p[s]) \cap Range(p[t]) = {}

Apart(queued, held, private, begun, gone, all) ==
  /\ queued \cap held = {} /\ queued \cap private = {} /\ held \cap private = {}
  /\ (queued \cup held \cup private) \cap (begun \cup gone) = {}
  /\ begun \cap gone = {}
  /\ all = queued \cup held \cup private \cup begun \cup gone

OpPlaces ==
  /\ Distinct(op_queue_)
  /\ \A t \in Threads : Distinct(private_op_queue[t])
  /\ NoneShared(private_op_queue)
  /\ NoSharing(posting) /\ NoSharing(running)
  /\ Values(running) \subseteq started
  /\ Apart(QueuedOps, Values(posting), InAny(private_op_queue), started,
           destroyed, posted)

PlaceInv == TypeInv /\ HoldsByStep /\ OpPlaces

(* Without executor_work_guard::reset the work is counted as well.         *)
NoReset == "reset" \notin ClientCalls \cup HandlerCalls
WorkInv == PlaceInv /\ WorkCounted

(* With nothing but the discipline of main.cc the scheduler only stops, or *)
(* is about to, with all its work finished.                                *)
OnlyGuardedCalls ==
  /\ Guarded /\ HeapBools = {FALSE} /\ HeapWork = 0
  /\ {"stop", "restart", "reset", "shutdown"} \cap (ClientCalls \cup HandlerCalls) = {}
StopsWithoutWork ==
  /\ destroyed = {}
  /\ stopped_ \/ (\E t \in Threads : pc[t] = "stopping") => outstanding_work_ = 0

DrainInv == WorkInv /\ StopsWithoutWork

-----------------------------------------------------------------------------
(* A thread that will come back to the queue by itself.                    *)
Attends(t) == InRun(t) /\ pc[t] \notin {"asleep", "woken"} /\ (pc[t] = "block" => edge)

(* Only an exception lets a thread leave run() from a completion.          *)
ReturnsUnwound ==
  \A t \in Threads :
    pc[t] \in {"cleanup", "finish"} => ret[t] = "lock" \/ (ret[t] = "returned" /\ unwound)

(* An operation is queued with bit 0 set, or beside a thread that attends; *)
(* and a notification that is due finds someone asleep, or someone awake.  *)
QueueAttended ==
  (op_queue_ # <<>> /\ ~stopped_ /\ ~unwound)
    => signalled \/ \E t \in Threads : Attends(t)
QueueNoticed ==
  (op_queue_ # <<>> /\ ~stopped_ /\ ~unwound /\ \E t \in Threads : InRun(t))
    => \/ \E t \in Threads : Attends(t) \/ pc[t] = "woken"
       \/ /\ \E t \in Threads : pc[t] = "notify"
          /\ \E t \in Threads : pc[t] = "asleep"

AttendInv == StopInv /\ ReturnsUnwound /\ QueueAttended /\ QueueNoticed
=============================================================================
