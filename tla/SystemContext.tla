---------------------------- MODULE SystemContext -----------------------------
(***************************************************************************)
(* boost::asio::system_context (system_context.cpp): the context behind    *)
(* system_executor, made on demand by detail::global (global.hpp) under    *)
(* std::call_once, with a pool of threads (thread_group.hpp) inside the    *)
(* run() of a scheduler of its own.                                        *)
(*                                                                         *)
(* The scheduler is module Scheduler: its threads are those of the pool    *)
(* and the users who post to it, its one guard is the unit of work the     *)
(* context holds from its constructor on, and one_thread_ is set, since    *)
(* use_service makes it with the default concurrency_hint of 1.  Nobody    *)
(* sees it before the first thread of the pool is created, so its initial  *)
(* state stands for the one after scheduler_.work_started(); and as long   *)
(* as no thread was created, a constructor that starts afresh finds it so. *)
(***************************************************************************)
EXTENDS Scheduler

CONSTANTS
  Pool,          (* the threads create_threads makes                         *)
  StartFails     (* std::thread may throw                                    *)

Users == Threads \ Pool

ASSUME ContextAssumption ==
  /\ Pool \subseteq Threads /\ Pool # {}
  /\ Cardinality(Guards) = 1 /\ OneThread
  /\ StartFails \in BOOLEAN

VARIABLES
  once,        (* init_once_: "unset", "running" or "done"                   *)
  use,         (* of a user: what it does with global<system_context>()      *)
  created,     (* threads in threads_                                        *)
  joined,      (* history: operations posted before join(), which was called *)
  stopCalled,  (* history: stop() has been called                            *)
  fate         (* of the program                                             *)

userVars == <<once, use, created, joined, stopCalled, fate>>
allVars == <<vars, userVars>>

(* One type invariant of the variables added to Scheduler.                 *)
ContextTypeOK ==
  /\ once \in {"unset", "running", "done"}
  /\ use \in [Users -> {"idle", "once", "create", "threw", "have"}]
  /\ created \subseteq Pool
  /\ joined \subseteq Ops /\ stopCalled \in BOOLEAN
  /\ fate \in {"running", "finishing", "stopping", "ended", "terminated"}

Now(u, step) == use' = [use EXCEPT ![u] = step]

-----------------------------------------------------------------------------
(* global<system_context>().                                               *)

(* A user that got the constructor's exception does not ask again: that    *)
(* bounds the attempts by the number of users.                             *)
CallGlobal(u) ==
  /\ use[u] = "idle"
  /\ Now(u, "once")
  /\ UNCHANGED <<vars, once, created, joined, stopCalled, fate>>

(* call_once: one caller runs do_init, the others wait for it.             *)
EnterOnce(u) ==
  /\ use[u] = "once" /\ once = "unset"
  /\ once' = "running"
  /\ Now(u, "create")
  /\ UNCHANGED <<vars, created, joined, stopCalled, fate>>

PassOnce(u) ==
  /\ use[u] = "once" /\ once = "done"
  /\ Now(u, "have")
  /\ UNCHANGED <<vars, once, created, joined, stopCalled, fate>>

(* Variant: an empty slot is counted as a thread.                          *)
CreateEmpty(u) ==
  /\ use[u] = "create"
  /\ \E t \in (Pool \cup {NoThread}) \ created : created' = created \cup {t}
  /\ UNCHANGED <<vars, once, use, joined, stopCalled, fate>>

(* thread_group::create_threads; the thread runs from here on.             *)
CreateThread(u) ==
  /\ use[u] = "create"
  /\ \E t \in Pool \ created : created' = created \cup {t}
  /\ UNCHANGED <<vars, once, use, joined, stopCalled, fate>>

(* Variant: the once_flag stays taken when the constructor has thrown.     *)
CreateThrowsForGood(u) ==
  /\ StartFails
  /\ use[u] = "create" /\ created # Pool
  /\ IF created = {} THEN Now(u, "threw") /\ UNCHANGED fate
                     ELSE fate' = "terminated" /\ UNCHANGED use
  /\ UNCHANGED <<vars, once, created, joined, stopCalled>>

(* std::thread throws.  Unwinding destroys threads_: ~thread_group does    *)
(* not join, and ~thread of one that is joinable terminates the program.   *)
(* Before the first thread the exception leaves call_once, which is open   *)
(* again.                                                                  *)
CreateThrows(u) ==
  /\ StartFails
  /\ use[u] = "create" /\ created # Pool
  /\ IF created = {}
       THEN once' = "unset" /\ Now(u, "threw") /\ UNCHANGED fate
       ELSE fate' = "terminated" /\ UNCHANGED <<once, use>>
  /\ UNCHANGED <<vars, created, joined, stopCalled>>

(* The constructor returns, and with it do_init and call_once.             *)
Constructed(u) ==
  /\ use[u] = "create" /\ created = Pool
  /\ once' = "done"
  /\ Now(u, "have")
  /\ UNCHANGED <<vars, created, joined, stopCalled, fate>>

-----------------------------------------------------------------------------
(* The users of the context, and the handlers in its pool.                 *)

HasContext(t) == IF t \in Users THEN use[t] = "have" ELSE pc[t] = "handler"

(* system_executor::post and defer.                                        *)
PostToContext(t) ==
  /\ HasContext(t)
  /\ \E op \in Ops, is_continuation \in BOOLEAN : Post(t, op, is_continuation)
  /\ UNCHANGED userVars

StopContext(t) ==
  /\ HasContext(t)
  /\ Stop(t)
  /\ stopCalled' = TRUE
  /\ UNCHANGED <<once, use, created, joined, fate>>

(* Variant: join() stops the scheduler, as the destructor does.            *)
JoinByStop(u) ==
  /\ u \in Users /\ HasContext(u) /\ pc[u] \in ClientSteps
  /\ guards # {}
  /\ guards' = {} /\ outstanding_work_' = outstanding_work_ - 1
  /\ CallStep(u, "stopping", pc[u])
  /\ joined' = posted
  /\ UNCHANGED <<mutex_, task_, task_interrupted_, op_queue_, stopped_,
                 shutdown_, eventVars, edge, privateVars, posting, running,
                 posted, started, destroyed, unwound, once, use, created,
                 stopCalled, fate>>

(* join(), called once: it gives the context's work back and waits for     *)
(* nobody, since thread_group::join asks joinable() a second time where it *)
(* should call join().                                                     *)
Join(u) ==
  /\ u \in Users /\ HasContext(u)
  /\ \E unit \in guards : GuardFinish(u, unit)
  /\ joined' = posted
  /\ UNCHANGED <<once, use, created, stopCalled, fate>>

-----------------------------------------------------------------------------
(* The pool.                                                               *)

(* thread_function calls run(), once.                                      *)
StartThread(t) ==
  /\ t \in created /\ pc[t] = "outside"
  /\ Run(t)
  /\ UNCHANGED userVars

(* A thread goes on: in run(), or in a call of the scheduler.  Nothing     *)
(* catches an exception that leaves run() in the pool: a handler that has  *)
(* posted, which with one_thread_ always fills the private queue, brings   *)
(* the program down (see FlushPrivateQueue).                               *)
Advance(t) ==
  /\ Continue(t)
  /\ fate' = IF unwound' /\ ~unwound THEN "terminated" ELSE fate
  /\ UNCHANGED <<once, use, created, joined, stopCalled>>

(* Nor one of a handler.                                                   *)
ThrowInPool(t) ==
  /\ pc[t] = "handler" /\ MayCall(t, "throw")
  /\ fate' = "terminated"
  /\ UNCHANGED <<vars, once, use, created, joined, stopCalled>>

Interfere(t) == SpuriousWake(t) /\ UNCHANGED userVars

-----------------------------------------------------------------------------
(* The end of the program: ~global_impl, when no user is in a call.  The   *)
(* pool runs on during it, and its handlers may still post and stop.       *)

Quiet == \A u \in Users : /\ use[u] \in {"idle", "threw", "have"}
                          /\ pc[u] \in ClientSteps

(* Without a context there is nothing to delete; otherwise ~system_context *)
(* gives the work back, be it for a second time, ...                       *)
Exit(u) ==
  /\ fate = "running" /\ Quiet
  /\ IF once = "done"
       THEN /\ fate' = "finishing"
            /\ guards' = {}
            /\ WorkFinished(u, pc[u])
       ELSE /\ fate' = "ended"
            /\ UNCHANGED <<guards, outstanding_work_, pc, ret>>
  /\ UNCHANGED <<mutex_, task_, task_interrupted_, op_queue_, stopped_,
                 shutdown_, eventVars, edge, privateVars, posting, running,
                 posted, started, destroyed, unwound, once, use, created,
                 joined, stopCalled>>

(* ... stops the scheduler ...                                             *)
ExitStops(u) ==
  /\ fate = "finishing" /\ Quiet
  /\ fate' = "stopping"
  /\ CallStep(u, "stopping", pc[u])
  /\ stopCalled' = TRUE
  /\ UNCHANGED <<mutex_, task_, task_interrupted_, outstanding_work_,
                 op_queue_, stopped_, shutdown_, eventVars, edge, privateVars,
                 posting, running, historyVars, once, use, created, joined>>

(* ... and destroys threads_, all of them joinable, finished or not.       *)
ExitDestroysThreads ==
  /\ fate = "stopping" /\ Quiet
  /\ fate' = "terminated"
  /\ UNCHANGED <<vars, once, use, created, joined, stopCalled>>

-----------------------------------------------------------------------------
ContextInit ==
  /\ Init
  /\ once = "unset"
  /\ use = [u \in Users |-> "idle"]
  /\ created = {} /\ joined = {} /\ stopCalled = FALSE
  /\ fate = "running"

(* What goes on by itself while the program lives.                         *)
Construct(u) ==
  EnterOnce(u) \/ PassOnce(u) \/ CreateThread(u) \/ Constructed(u)

Proceed(t) ==
  \/ t \in Users /\ fate = "running" /\ Construct(t)
  \/ StartThread(t)
  \/ Advance(t)

(* Users make no more calls once the program exits; handlers in the pool,   *)
(* which nobody has waited for, go on posting and stopping.                *)
Demand(t) ==
  /\ t \in Users => fate = "running"
  /\ \/ t \in Users /\ (CallGlobal(t) \/ CreateThrows(t) \/ Join(t))
     \/ PostToContext(t) \/ StopContext(t)

ContextNext ==
  /\ fate \notin {"ended", "terminated"}
  /\ \/ \E t \in Threads : Proceed(t) \/ Demand(t) \/ Interfere(t)
                           \/ ThrowInPool(t)
     \/ \E u \in Users : Exit(u) \/ ExitStops(u)
     \/ ExitDestroysThreads

ContextSpec == ContextInit /\ [][ContextNext]_allVars

(* Threads of the pool start and run, and a call that was made goes on.    *)
ContextFairSpec ==
  /\ ContextSpec
  /\ \A t \in Threads :
       WF_allVars(fate \notin {"ended", "terminated"} /\ Proceed(t))

-----------------------------------------------------------------------------
(* Properties.                                                             *)

(* join() lets the pool finish: unless somebody calls stop() or the        *)
(* program exits, every function posted before the join is run, to its     *)
(* end, before the scheduler stops - although join() waits for nothing.    *)
JoinDrains ==
  fate = "running" /\ stopped_ /\ ~stopCalled =>
    /\ guards = {}
    /\ joined \subseteq started
    /\ \A t \in Threads : running[t] \notin joined

Over == fate # "running"

(* A function posted to the pool is run, although one_thread_ suppresses   *)
(* the wake-ups between its threads, unless the scheduler is stopped.      *)
PoolRunsPosted ==
  \A op \in Ops : op \in posted ~> op \in started \/ stopped_ \/ Over

(* stop(), whoever calls it and whatever the threads of the pool are at,   *)
(* asleep or not yet started, brings each of them out of its run() for     *)
(* good.                                                                   *)
StopEndsPool ==
  stopped_ ~> (\A t \in created : pc[t] = "returned") \/ Over

(* Whoever calls global() gets the context or the exception of its         *)
(* constructor: after a throw one of those who wait takes over.            *)
CallersGetContext ==
  \A u \in Users : use[u] = "once" ~> use[u] \in {"have", "threw"} \/ Over

(* The comment of global.hpp: when the thread that initialises throws, one *)
(* of those who wait is chosen and starts again.                           *)
ThrowPassesOn ==
  [][\A u \in Users : CreateThrows(u) => once' = "unset" /\ ~Over']_allVars
==============================================================================
