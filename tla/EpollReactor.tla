---------------------------- MODULE EpollReactor ----------------------------
(***************************************************************************)
(* boost::asio::detail::epoll_reactor (epoll_reactor.cc) with descriptors: *)
(* the descriptor states, the operations that wait in them, the kernel's   *)
(* epoll set, and the threads of the pool that run what becomes ready.     *)
(*                                                                         *)
(* A descriptor_state is itself an operation: epoll_reactor::run puts it   *)
(* in the scheduler's queue, and the thread that pops it performs the      *)
(* operations that wait in it.  Of the scheduler this module keeps the     *)
(* queue, the work count and the stop.  Sleeping and waking threads is the *)
(* matter of module Scheduler: here a thread that is free takes what is    *)
(* queued.  post_immediate_completion is one step, and so are the parts of *)
(* ~work_cleanup.                                                          *)
(*                                                                         *)
(* A step is otherwise one critical section of a descriptor's mutex or of  *)
(* the scheduler's, or one system call.                                    *)
(***************************************************************************)
EXTENDS Integers, Sequences, FiniteSets, Functions, SequencesExt

CONSTANTS
  Threads,       (* threads inside run()                                     *)
  Clients,       (* threads outside run() that use descriptors               *)
  Descriptors,   (* descriptor states, one for each registration             *)
  Ops,           (* reactor operations; each one is started once             *)
  TaskOp,        (* &task_operation_                                         *)
  NoOp,          (* the null operation pointer                               *)
  Desc,          (* the descriptor each operation is started on ...          *)
  Kind,          (* ... its op_type ...                                      *)
  Speculative,   (* ... the allow_speculative it is started with ...         *)
  Continuation,  (* ... and the is_continuation                              *)
  Stream,        (* stream sockets: an operation may be done_and_exhausted,  *)
                 (* and users start one of a kind at a time                  *)
  Raised,        (* conditions the kernel raises on a descriptor             *)
  Failures,      (* calls of epoll_ctl that may fail: "EPERM", "ADD", "MOD"  *)
  OneThread,     (* one_thread_: concurrency_hint == 1                       *)
  MaxEvents      (* events that epoll_wait may return at once: 128           *)

Kinds == {"read", "write", "except"}
Flag == [read |-> "in", write |-> "out", except |-> "pri"]
Conditions == {"in", "out", "pri", "hup"}     (* EPOLLERR is taken for "hup" *)
EventBits == {"in", "out", "pri", "et"}       (* EPOLLERR, EPOLLHUP: implied *)
Callers == Threads \cup Clients

ASSUME ReactorAssumption ==
  /\ IsFiniteSet(Callers) /\ IsFiniteSet(Descriptors) /\ IsFiniteSet(Ops)
  /\ Threads \cap Clients = {} /\ Descriptors \cap Ops = {}
  /\ {TaskOp, NoOp} \cap (Descriptors \cup Ops) = {} /\ TaskOp # NoOp
  /\ Desc \in [Ops -> Descriptors] /\ Kind \in [Ops -> Kinds]
  /\ Speculative \in [Ops -> BOOLEAN] /\ Continuation \in [Ops -> BOOLEAN]
  /\ Stream \in BOOLEAN /\ OneThread \in BOOLEAN /\ MaxEvents \in Nat \ {0}
  /\ Raised \subseteq Conditions /\ Failures \subseteq {"EPERM", "ADD", "MOD"}

VARIABLES
  desc,      (* descriptor_state: its members, and the user's pointer to it  *)
  kern,      (* the kernel's side: what is ready, and its epoll item; and a  *)
             (* history: the kinds of operations a hangup has completed      *)
  th,        (* the threads inside run(), with their thread_info             *)
  posting,   (* completions a caller has yet to hand to the scheduler        *)
  op_queue_, outstanding_work_, stopped_,    (* the scheduler's              *)
  guard,     (* an executor_work_guard is alive                              *)
  status,    (* of an operation: "idle", "started" or "done"                 *)
  fate       (* of the program                                               *)

sched == <<op_queue_, outstanding_work_, stopped_>>
vars == <<desc, kern, th, posting, op_queue_, outstanding_work_, stopped_,
          guard, status, fate>>

(* One type invariant: what each variable may hold.                        *)
TypeOK ==
  /\ desc \in [Descriptors ->
       [handle : BOOLEAN, state : {"none", "live", "shut"},
        registered : SUBSET EventBits, pending : [Kinds -> Seq(Ops)],
        speculative : [Kinds -> BOOLEAN], result : SUBSET Conditions]]
  /\ kern \in [Descriptors ->
       [ready : SUBSET Conditions, interest : SUBSET EventBits,
        armed : BOOLEAN, told : SUBSET Kinds]]
  /\ th \in [Threads ->
       [pc : {"loop", "task", "cleanup", "popped", "perform", "handler",
              "finish", "gone"},
        base : Descriptors \cup {NoOp}, events : SUBSET Conditions,
        work : Nat, queue : Seq(Descriptors \cup Ops)]]
  /\ posting \in [Callers ->
       [how : {"none", "immediate", "deferred"}, ops : Seq(Ops)]]
  /\ op_queue_ \in Seq(Descriptors \cup Ops \cup {TaskOp})
  /\ outstanding_work_ \in Nat
  /\ stopped_ \in BOOLEAN /\ guard \in BOOLEAN
  /\ status \in [Ops -> {"idle", "started", "done"}]
  /\ fate \in {"running", "aborted", "hung", "destroyed"}

-----------------------------------------------------------------------------
(***************************************************************************)
(* The kernel.                                                             *)
(***************************************************************************)

(* EPOLLHUP and EPOLLERR are reported whatever was asked for.              *)
Mask(k) == k.ready \cap (k.interest \cup {"hup"})

(* epoll_wait returns the item: an edge if it is edge-triggered, a level   *)
(* otherwise.                                                              *)
Deliverable(k) ==
  /\ k.interest # {} /\ Mask(k) # {}
  /\ "et" \in k.interest => k.armed

(* EPOLL_CTL_ADD and EPOLL_CTL_MOD look at what is ready now.              *)
Watch(k, bits) ==
  [k EXCEPT !.interest = bits,
            !.armed = k.ready \cap (bits \cup {"hup"}) # {}]

(* A condition holds, or something more of it arrives.                     *)
BecomesReady(d, c) ==
  /\ kern' = [kern EXCEPT
       ![d].ready = @ \cup {c},
       ![d].armed = @ \/ (/\ kern[d].interest # {}
                          /\ c \in kern[d].interest \cup {"hup"})]
  /\ UNCHANGED <<desc, th, posting, sched, guard, status, fate>>

(* The user closes a descriptor it has deregistered with closing = true.   *)
CloseDescriptor(d) ==
  /\ desc[d].state = "shut" /\ kern[d].interest # {}
  /\ kern' = [kern EXCEPT ![d].interest = {}, ![d].armed = FALSE]
  /\ UNCHANGED <<desc, th, posting, sched, guard, status, fate>>

(***************************************************************************)
(* What perform() of the first operations of a kind may come to when count *)
(* of them wait: how many are done, whether the last was                   *)
(* done_and_exhausted, and what is ready afterwards.  A short transfer     *)
(* means that the socket's buffer is full.  An error is "done" with        *)
(* nothing transferred, which counts as short on a stream.                 *)
(***************************************************************************)
Outcomes(d, kind, count) ==
  LET ready == kern[d].ready
      drained == ready \ {Flag[kind]}
  IN IF count = 0 \/ ready \cap {Flag[kind], "hup"} = {}
       THEN {[done |-> 0, exhausted |-> FALSE, left |-> ready]}
     ELSE IF "hup" \in ready
       THEN {[done |-> IF Stream THEN 1 ELSE count,
              exhausted |-> Stream, left |-> ready]}
     ELSE {o \in [done : 1..count, exhausted : BOOLEAN,
                  left : {ready, drained}] :
             /\ o.exhausted => Stream
             /\ o.exhausted \/ o.done < count => o.left = drained}

(* The kinds that learn of a hangup when operations of them are done, and  *)
(* are done_and_exhausted.                                                 *)
Told(d, kinds) == IF Stream /\ "hup" \in kern[d].ready THEN kinds ELSE {}

-----------------------------------------------------------------------------
(***************************************************************************)
(* Users of descriptors.  A handler may call the reactor, and so may a     *)
(* client as long as a work guard is alive.                                *)
(***************************************************************************)
MayCall(c) ==
  /\ posting[c].how = "none"
  /\ IF c \in Threads THEN th[c].pc = "handler" ELSE guard

Idle == [how |-> "none", ops |-> <<>>]

PostBy(c, how, ops) ==
  posting' = [posting EXCEPT ![c] = [how |-> how, ops |-> ops]]

(* register_descriptor.  With EPERM the descriptor stays usable for        *)
(* speculative operations; on another error the user drops its pointer.    *)
Register(c, d, error) ==
  LET bits == {"in", "pri", "et"}
  IN /\ MayCall(c) /\ desc[d].state = "none"
     /\ error \in (Failures \cap {"EPERM", "ADD"}) \cup {"none"}
     /\ desc' = [desc EXCEPT ![d] =
          [handle |-> error # "ADD", state |-> "live",
           registered |-> IF error = "EPERM" THEN {} ELSE bits,
           pending |-> [k \in Kinds |-> <<>>],
           speculative |-> [k \in Kinds |-> TRUE], result |-> {}]]
     /\ kern' = IF error = "none"
                  THEN [kern EXCEPT ![d] = Watch(@, bits)] ELSE kern
     /\ UNCHANGED <<th, posting, sched, guard, status, fate>>

(* The user's side of starting an operation: it has the pointer it got     *)
(* from register_descriptor, be it null by now.                            *)
MayStart(c, op) ==
  /\ MayCall(c) /\ status[op] = "idle" /\ desc[Desc[op]].state # "none"
  /\ Stream => ~\E o \in Ops : /\ Desc[o] = Desc[op] /\ Kind[o] = Kind[op]
                               /\ status[o] = "started"

(* The first test of start_op on a queue that is empty.                    *)
MaySpeculate(op) ==
  /\ Speculative[op]
  /\ Kind[op] = "read" => desc[Desc[op]].pending["except"] = <<>>

(* op->perform() is called, and the operation is done.                     *)
Succeeds(op) ==
  /\ MaySpeculate(op) /\ desc[Desc[op]].speculative[Kind[op]]
  /\ kern[Desc[op]].ready \cap {Flag[Kind[op]], "hup"} # {}

(* Variant: shutdown_ is not tested.                                       *)
OpenUnchecked(s) == s.handle

(* Neither of the first two returns of start_op is taken.                  *)
Open(s) == s.handle /\ s.state = "live"

(* The operation is posted at once: the pointer is null, the descriptor is *)
(* shut down, or nothing can be waited for.                                *)
StartRefused(c, op) ==
  LET s == desc[Desc[op]]
  IN /\ MayStart(c, op)
     /\ \/ ~Open(s)
        \/ /\ s.registered = {} /\ s.pending[Kind[op]] = <<>>
           /\ ~Succeeds(op)
     /\ PostBy(c, "immediate", <<op>>)
     /\ status' = [status EXCEPT ![op] = "started"]
     /\ UNCHANGED <<desc, kern, th, sched, guard, fate>>

StartPerformed(c, op) ==
  LET d == Desc[op] IN
  /\ MayStart(c, op) /\ Open(desc[d])
  /\ desc[d].pending[Kind[op]] = <<>> /\ Succeeds(op)
  /\ \E o \in Outcomes(d, Kind[op], 1) :
       /\ kern' = [kern EXCEPT ![d].ready = o.left,
                               ![d].told = @ \cup Told(d, {Kind[op]})]
       /\ desc' = [desc EXCEPT ![d].speculative[Kind[op]] =
                     ~(o.exhausted /\ desc[d].registered # {})]
  /\ PostBy(c, "immediate", <<op>>)
  /\ status' = [status EXCEPT ![op] = "started"]
  /\ UNCHANGED <<th, sched, guard, fate>>

(* What start_op asks the kernel for before the operation waits, as        *)
(* <<registered_events_, the events of the epoll item>>.  Without          *)
(* speculation registered_events_ &= EPOLLOUT drops everything else.       *)
NewInterest(op) ==
  LET s == desc[Desc[op]]
      i == kern[Desc[op]].interest
  IN IF MaySpeculate(op)
       THEN IF Kind[op] = "write" /\ "out" \notin s.registered
              THEN <<s.registered \cup {"out"}, s.registered \cup {"out"}>>
              ELSE <<s.registered, i>>
       ELSE LET kept == IF Kind[op] = "write" THEN s.registered \cap {"out"}
                                              ELSE s.registered
            IN <<kept, kept \cup {"out"}>>

(* epoll_ctl is called, with EPOLL_CTL_MOD.                                *)
Modifies(op) ==
  \/ ~MaySpeculate(op)
  \/ Kind[op] = "write" /\ "out" \notin desc[Desc[op]].registered

(* The operation joins its queue and is counted.  work_started() is the    *)
(* only step of this critical section another thread can see.              *)
StartWaits(c, op) ==
  LET d == Desc[op]
      s == desc[d]
      empty == s.pending[Kind[op]] = <<>>
      modifies == empty /\ Modifies(op)
  IN /\ MayStart(c, op) /\ Open(s)
     /\ empty => s.registered # {} /\ ~Succeeds(op)
     /\ \E fails \in BOOLEAN :
          /\ fails => modifies /\ ~MaySpeculate(op) /\ "MOD" \in Failures
          /\ desc' = [desc EXCEPT
               ![d].registered = IF modifies THEN NewInterest(op)[1] ELSE @,
               ![d].pending[Kind[op]] = Append(@, op)]
          /\ kern' = IF modifies /\ ~fails
                       THEN [kern EXCEPT ![d] = Watch(@, NewInterest(op)[2])]
                       ELSE kern
     /\ status' = [status EXCEPT ![op] = "started"]
     /\ outstanding_work_' = outstanding_work_ + 1
     /\ UNCHANGED <<th, posting, op_queue_, stopped_, guard, fate>>

(* EPOLLOUT cannot be added: the operation is posted with the error.       *)
StartModFails(c, op) ==
  LET s == desc[Desc[op]]
  IN /\ MayStart(c, op) /\ Open(s)
     /\ "MOD" \in Failures /\ s.pending[Kind[op]] = <<>>
     /\ MaySpeculate(op) /\ ~Succeeds(op)
     /\ s.registered # {} /\ Modifies(op)
     /\ PostBy(c, "immediate", <<op>>)
     /\ status' = [status EXCEPT ![op] = "started"]
     /\ UNCHANGED <<desc, kern, th, sched, guard, fate>>

StartOp(c, op) ==
  \/ StartRefused(c, op)  \/ StartPerformed(c, op)
  \/ StartWaits(c, op)    \/ StartModFails(c, op)

(* The operations that wait in a descriptor, in the order they are taken.  *)
Waiting(s) == s.pending["read"] \o s.pending["write"] \o s.pending["except"]

NonePending == [k \in Kinds |-> <<>>]

(* Variant: the cancelled operations stay in the descriptor as well.       *)
CancelCopies(c, d) ==
  /\ MayCall(c) /\ desc[d].state # "none" /\ desc[d].handle
  /\ PostBy(c, "deferred", Waiting(desc[d]))
  /\ UNCHANGED <<desc, kern, th, sched, guard, status, fate>>

(* Called on a descriptor that waits for nothing it still posts.           *)
CancelOps(c, d) ==
  /\ MayCall(c) /\ desc[d].state # "none" /\ desc[d].handle
  /\ desc' = [desc EXCEPT ![d].pending = NonePending]
  /\ PostBy(c, "deferred", Waiting(desc[d]))
  /\ UNCHANGED <<kern, th, sched, guard, status, fate>>

(* With closing the epoll item stays until the descriptor is closed.       *)
Deregister(c, d, closing) ==
  /\ MayCall(c) /\ desc[d].state = "live" /\ desc[d].handle
  /\ desc' = [desc EXCEPT ![d].state = "shut", ![d].pending = NonePending]
  /\ kern' = IF closing \/ desc[d].registered = {} THEN kern
             ELSE [kern EXCEPT ![d].interest = {}, ![d].armed = FALSE]
  /\ PostBy(c, "deferred", Waiting(desc[d]))
  /\ UNCHANGED <<th, sched, guard, status, fate>>

(* The second call finds the descriptor shut down and nulls the pointer.   *)
DropHandle(c, d) ==
  /\ MayCall(c) /\ desc[d].state = "shut" /\ desc[d].handle
  /\ desc' = [desc EXCEPT ![d].handle = FALSE]
  /\ UNCHANGED <<kern, th, posting, sched, guard, status, fate>>

-----------------------------------------------------------------------------
(***************************************************************************)
(* Handing completions to the scheduler, after the descriptor's mutex has  *)
(* been released.  (Some refusals post while they hold it; nothing the     *)
(* post touches depends on that mutex.)                                    *)
(***************************************************************************)

(* post_immediate_completion looks at is_continuation, the deferred posts  *)
(* do not.                                                                 *)
UsesPrivateQueue(c) ==
  /\ c \in Threads
  /\ OneThread \/ /\ posting[c].how = "immediate"
                  /\ Continuation[Head(posting[c].ops)]

PostImmediate(c) ==
  /\ posting[c].how = "immediate"
  /\ IF UsesPrivateQueue(c)
       THEN /\ th' = [th EXCEPT ![c].work = @ + 1,
                                ![c].queue = @ \o posting[c].ops]
            /\ UNCHANGED sched
       ELSE /\ outstanding_work_' = outstanding_work_ + 1
            /\ op_queue_' = op_queue_ \o posting[c].ops
            /\ UNCHANGED <<th, stopped_>>
  /\ posting' = [posting EXCEPT ![c] = Idle]
  /\ UNCHANGED <<desc, kern, guard, status, fate>>

(* Variant: the completions are counted as if they were new work.          *)
PostDeferredCounted(c) ==
  /\ posting[c].how = "deferred"
  /\ op_queue_' = op_queue_ \o posting[c].ops
  /\ outstanding_work_' = outstanding_work_ + Len(posting[c].ops)
  /\ posting' = [posting EXCEPT ![c] = Idle]
  /\ UNCHANGED <<desc, kern, th, stopped_, guard, status, fate>>

(* With one_thread_ the splice at scheduler.cc:219 goes the wrong way: the *)
(* private queue joins the list of completions, and both are dropped.      *)
PostDeferred(c) ==
  /\ posting[c].how = "deferred"
  /\ IF UsesPrivateQueue(c)
       THEN th' = [th EXCEPT ![c].queue = <<>>] /\ UNCHANGED op_queue_
       ELSE op_queue_' = op_queue_ \o posting[c].ops /\ UNCHANGED th
  /\ posting' = [posting EXCEPT ![c] = Idle]
  /\ UNCHANGED <<desc, kern, outstanding_work_, stopped_, guard, status, fate>>

(* ~executor_work_guard by a client that has nothing left to post.         *)
ReleaseGuard ==
  /\ guard /\ \A c \in Clients : posting[c].how = "none"
  /\ guard' = FALSE
  /\ outstanding_work_' = outstanding_work_ - 1
  /\ stopped_' = (stopped_ \/ outstanding_work_ = 1)
  /\ UNCHANGED <<desc, kern, th, posting, op_queue_, status, fate>>

-----------------------------------------------------------------------------
(***************************************************************************)
(* Threads inside run().                                                   *)
(***************************************************************************)
At(t, pc) == th[t].pc = pc /\ posting[t].how = "none"

(* do_run_one pops the front of the queue.                                 *)
Take(t) ==
  /\ At(t, "loop") /\ ~stopped_ /\ op_queue_ # <<>>
  /\ LET o == Head(op_queue_)
     IN /\ th' = [th EXCEPT
             ![t].pc = IF o = TaskOp THEN "task"
                       ELSE IF o \in Ops THEN "handler" ELSE "popped",
             ![t].base = IF o \in Descriptors THEN o ELSE NoOp]
        /\ status' = IF o \in Ops THEN [status EXCEPT ![o] = "done"]
                                  ELSE status
  /\ op_queue_' = Tail(op_queue_)
  /\ UNCHANGED <<desc, kern, posting, outstanding_work_, stopped_, guard, fate>>

(* epoll_wait returns what it has, as far as there is room; one event may  *)
(* be the interrupter's.                                                   *)
Reports(reported) ==
  LET deliverable == {d \in Descriptors : Deliverable(kern[d])}
  IN /\ reported \subseteq deliverable /\ Cardinality(reported) <= MaxEvents
     /\ reported = deliverable \/ Cardinality(reported) >= MaxEvents - 1

(* epoll_reactor::run notes the events and fills the private queue.        *)
(* epoll_wait reports an item once, so none is enqueued twice here.        *)
(* The loop after the system call is part of the step: what becomes ready  *)
(* in between arms the item again.                                         *)
TaskRuns(t) ==
  /\ At(t, "task")
  /\ \E reported \in SUBSET Descriptors :
        /\ Reports(reported)
        /\ desc' = [d \in Descriptors |->
             IF d \in reported THEN [desc[d] EXCEPT !.result = Mask(kern[d])]
                               ELSE desc[d]]
        /\ kern' = [d \in Descriptors |->
             IF d \in reported THEN [kern[d] EXCEPT !.armed = FALSE]
                               ELSE kern[d]]
        /\ \E order \in SetToSeqs(reported) :
             th' = [th EXCEPT ![t].pc = "cleanup", ![t].queue = order]
  /\ UNCHANGED <<posting, sched, guard, status, fate>>

(* Variant: the task goes in front of the private queue.                   *)
TaskCleanupTaskFirst(t) ==
  /\ At(t, "cleanup")
  /\ op_queue_' = op_queue_ \o <<TaskOp>> \o th[t].queue
  /\ th' = [th EXCEPT ![t].pc = "loop", ![t].queue = <<>>]
  /\ UNCHANGED <<desc, kern, posting, outstanding_work_, stopped_, guard,
                 status, fate>>

(* The private queue goes in front of the task.                            *)
TaskCleanup(t) ==
  /\ At(t, "cleanup")
  /\ op_queue_' = op_queue_ \o th[t].queue \o <<TaskOp>>
  /\ th' = [th EXCEPT ![t].pc = "loop", ![t].queue = <<>>]
  /\ UNCHANGED <<desc, kern, posting, outstanding_work_, stopped_, guard,
                 status, fate>>

(* task_result_ is read after the scheduler's mutex has been released,     *)
(* when epoll_reactor::run of another thread may have set it again.        *)
ReadResult(t) ==
  /\ At(t, "popped")
  /\ th' = [th EXCEPT ![t].pc = "perform",
                      ![t].events = desc[th[t].base].result]
  /\ UNCHANGED <<desc, kern, posting, sched, guard, status, fate>>

(* Variant: EPOLLERR and EPOLLHUP are not looked at.                       *)
DueByFlag(events) == {k \in Kinds : Flag[k] \in events}

(* The kinds perform_io looks at.                                          *)
Due(events) == {k \in Kinds : events \cap {Flag[k], "hup"} # {}}

(* perform() of the operations of one kind, as far as they are due.        *)
Performed(d, events, k) ==
  Outcomes(d, k, IF k \in Due(events) THEN Len(desc[d].pending[k]) ELSE 0)

(* Variant: compensating_work_started() is not called.                     *)
NothingDoneUncompensated(t) ==
  /\ th' = [th EXCEPT ![t].pc = "finish", ![t].base = NoOp,
                      ![t].events = {}]
  /\ fate' \in {"running", "aborted"}
  /\ UNCHANGED <<posting, status>>

(* How perform_io ends when no operation is done.  io_cleanup.ops_.pop()   *)
(* on an empty list frees a node that was never allocated, and the program *)
(* may abort; if it does not, the work that do_run_one is about to give    *)
(* back is compensated.                                                    *)
NothingDone(t) ==
  /\ th' = [th EXCEPT ![t].pc = "finish", ![t].base = NoOp,
                      ![t].events = {}, ![t].work = @ + 1]
  /\ fate' \in {"running", "aborted"}
  /\ UNCHANGED <<posting, status>>

(* This thread completes the first operation that is done and posts the    *)
(* rest.                                                                   *)
SomeDone(t, done) ==
  /\ th' = [th EXCEPT ![t].pc = "handler", ![t].base = NoOp,
                      ![t].events = {}]
  /\ status' = [status EXCEPT ![Head(done)] = "done"]
  /\ IF Tail(done) = <<>> THEN UNCHANGED posting
                          ELSE PostBy(t, "deferred", Tail(done))
  /\ UNCHANGED fate

(* descriptor_state::do_complete: perform_io under the descriptor's mutex, *)
(* and what follows its release.                                           *)
PerformIo(t) ==
  LET d == th[t].base
      events == th[t].events
  IN /\ At(t, "perform")
     /\ \E r \in Performed(d, events, "read"),
           w \in Performed(d, events, "write"),
           x \in Performed(d, events, "except") :
          LET of == [read |-> r, write |-> w, except |-> x]
              Some(k) == SubSeq(desc[d].pending[k], 1, of[k].done)
              done == Some("except") \o Some("write") \o Some("read")
          IN /\ desc' = [desc EXCEPT
                  ![d].pending = [k \in Kinds |->
                     SubSeq(@[k], of[k].done + 1, Len(@[k]))],
                  ![d].speculative = [k \in Kinds |->
                     IF k \in Due(events) THEN ~of[k].exhausted ELSE @[k]]]
             /\ kern' = [kern EXCEPT
                  ![d].ready = r.left \cap w.left \cap x.left,
                  ![d].told = @ \cup Told(d, {k \in Kinds : of[k].done > 0})]
             /\ IF done = <<>> THEN NothingDone(t) ELSE SomeDone(t, done)
     /\ UNCHANGED <<sched, guard>>


(* ~work_cleanup.  When there is a private queue to splice the mutex stays *)
(* locked, and the exception of the next lock() takes the thread out of    *)
(* run() (see FlushPrivateQueue of module Scheduler).                      *)
Finish(t) ==
  /\ At(t, "handler") \/ At(t, "finish")
  /\ outstanding_work_' = outstanding_work_ + th[t].work - 1
  /\ stopped_' = (stopped_ \/ outstanding_work_' = 0)
  /\ op_queue_' = op_queue_ \o th[t].queue
  /\ th' = [th EXCEPT ![t].pc = IF th[t].queue = <<>> THEN "loop" ELSE "gone",
                      ![t].work = 0, ![t].queue = <<>>]
  /\ UNCHANGED <<desc, kern, posting, guard, status, fate>>

(* The context is destroyed when run() has returned everywhere.  Moving a  *)
(* queue of reactor_op into one of operation never removes its front       *)
(* (op_queue.hpp:18-24): with an operation waiting, shutdown() does not    *)
(* return.                                                                 *)
Shutdown ==
  /\ stopped_ /\ ~guard
  /\ \A t \in Threads : th[t].pc \in {"loop", "gone"}
  /\ fate' = IF \E d \in Descriptors : Waiting(desc[d]) # <<>>
               THEN "hung" ELSE "destroyed"
  /\ UNCHANGED <<desc, kern, th, posting, sched, guard, status>>

-----------------------------------------------------------------------------
(* The reactor is running as the scheduler's task, and a client has made a *)
(* work guard.                                                             *)
Init ==
  /\ desc = [d \in Descriptors |->
       [handle |-> FALSE, state |-> "none", registered |-> {},
        pending |-> NonePending, speculative |-> [k \in Kinds |-> FALSE],
        result |-> {}]]
  /\ kern = [d \in Descriptors |->
       [ready |-> {}, interest |-> {}, armed |-> FALSE, told |-> {}]]
  /\ th = [t \in Threads |->
       [pc |-> "loop", base |-> NoOp, events |-> {}, work |-> 0,
        queue |-> <<>>]]
  /\ posting = [c \in Callers |-> Idle]
  /\ op_queue_ = <<TaskOp>> /\ outstanding_work_ = 1 /\ stopped_ = FALSE
  /\ guard = TRUE
  /\ status = [o \in Ops |-> "idle"]
  /\ fate = "running"

Call(c) ==
  \/ \E op \in Ops : StartOp(c, op)
  \/ \E d \in Descriptors :
       \/ \E error \in {"none", "EPERM", "ADD"} : Register(c, d, error)
       \/ CancelOps(c, d)
       \/ \E closing \in BOOLEAN : Deregister(c, d, closing)
       \/ DropHandle(c, d)

PostStep(c) == PostImmediate(c) \/ PostDeferred(c)

ThreadStep(t) ==
  \/ Take(t) \/ TaskRuns(t) \/ TaskCleanup(t)
  \/ ReadResult(t) \/ PerformIo(t) \/ Finish(t)

Environment ==
  \/ \E d \in Descriptors :
       \/ \E c \in Raised : BecomesReady(d, c)
       \/ CloseDescriptor(d)
  \/ ReleaseGuard \/ Shutdown

Next ==
  /\ fate = "running"
  /\ \/ \E c \in Callers : Call(c) \/ PostStep(c)
     \/ \E t \in Threads : ThreadStep(t)
     \/ Environment

Spec == Init /\ [][Next]_vars

(* A thread inside run() keeps running: epoll_wait returns when it has     *)
(* something to report or, interrupted or with a timeout of 0, when        *)
(* something is queued, and a handler returns, however many calls it makes *)
(* before.  Whoever has a completion to post posts it.                     *)
Scheduled(t) ==
  /\ th[t].pc = "task" => \/ op_queue_ # <<>>
                          \/ \E d \in Descriptors : Deliverable(kern[d])
  /\ ThreadStep(t) \/ PostStep(t)

Fairness ==
  /\ \A t \in Threads : WF_vars(fate = "running" /\ Scheduled(t))
  /\ \A t \in Threads : SF_vars(fate = "running" /\ Finish(t))
  /\ \A c \in Clients : WF_vars(fate = "running" /\ PostStep(c))

FairSpec == Spec /\ Fairness

-----------------------------------------------------------------------------
(***************************************************************************)
(* Properties.                                                             *)
(***************************************************************************)

(* Where an operation is: the list it is in, and its position there.       *)
Lists ==
  {<<"pending", desc[d].pending[k], d, k>> : d \in Descriptors, k \in Kinds}
  \cup {<<"op_queue_", op_queue_>>}
  \cup {<<"private", th[t].queue, t>> : t \in Threads}
  \cup {<<"posting", posting[c].ops, c>> : c \in Callers}

Places(o) ==
  UNION {{<<l, i>> : i \in {j \in DOMAIN l[2] : l[2][j] = o}} : l \in Lists}

(* A started operation is in one list, be it cancelled, performed, posted  *)
(* or waiting, until its handler is run: none is completed twice, and none *)
(* is lost between two lists.                                              *)
EachOpInOnePlace ==
  \A o \in Ops : Cardinality(Places(o)) = IF status[o] = "started" THEN 1 ELSE 0

(* An epoll_wait never reports a descriptor that is still queued from an   *)
(* earlier one: set_ready_events would overwrite events nobody has read.   *)
DescriptorQueuedOnce ==
  \A d \in Descriptors : Cardinality(Places(d)) <= 1

(* No operation waits in a descriptor that has been shut down, where       *)
(* nothing would ever complete it.                                         *)
NothingWaitsInShutDescriptor ==
  \A d \in Descriptors : desc[d].state = "shut" => Waiting(desc[d]) = <<>>

(* The units of work threads hold privately.                               *)
PrivateWork == UNION {{t} \X (1 .. th[t].work) : t \in Threads}

(* The work count, with what threads hold privately, is one for the guard, *)
(* one for each started operation, and one for each thread that is about   *)
(* to give a unit back; an operation still to be posted is not counted.    *)
WorkCounted ==
  LET uncounted == {o \in Ops : \E c \in Callers :
                      /\ posting[c].how = "immediate"
                      /\ o \in ToSet(posting[c].ops)}
      owing == {t \in Threads : th[t].pc \in {"handler", "finish"}}
  IN outstanding_work_ + Cardinality(PrivateWork)
       = (IF guard THEN 1 ELSE 0)
         + Cardinality({o \in Ops : status[o] = "started"} \ uncounted)
         + Cardinality(owing)

(* run() returns when the work is done: the scheduler stops with no        *)
(* operation waiting for its descriptor or for a thread.                   *)
StopsOnlyWhenDone ==
  stopped_ => \A o \in Ops : status[o] # "started"

(* What a thread will look at, or epoll_wait will report, of a descriptor. *)
Attended(d, conditions) ==
  \/ Deliverable(kern[d]) /\ Mask(kern[d]) \cap conditions # {}
  \/ /\ desc[d].result \cap conditions # {}
     /\ \/ Places(d) # {}
        \/ \E t \in Threads : th[t].pc = "popped" /\ th[t].base = d
  \/ \E t \in Threads : /\ th[t].pc = "perform" /\ th[t].base = d
                        /\ th[t].events \cap conditions # {}

(* An operation that could be performed is not left waiting for an edge    *)
(* that has been used up: epoll will report its descriptor, or someone is  *)
(* on the way to perform_io with the events that make it look there.       *)
(* Except after a hangup has completed an operation of its kind: that one  *)
(* is done_and_exhausted, start_op does not try the next, and no edge is   *)
(* left for it.                                                            *)
ReadyOpsAttended ==
  \A d \in Descriptors, k \in Kinds :
    LET enabling == kern[d].ready \cap {Flag[k], "hup"}
    IN desc[d].pending[k] # <<>> /\ enabling # {} /\ k \notin kern[d].told
         => Attended(d, enabling)

(* The scheduler stops, or nobody is left inside run(): a handler that     *)
(* starts a continuation, or posts with one_thread_, takes its thread out  *)
(* (see Finish), and what is queued waits for somebody to call run().      *)
Over == \/ stopped_ \/ fate # "running"
        \/ \A t \in Threads : th[t].pc = "gone"


=============================================================================
