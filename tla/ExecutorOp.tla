----------------------------- MODULE ExecutorOp ------------------------------
(***************************************************************************)
(* The memory and the work of a posted handler: executor_op and its ptr    *)
(* (executor_op.hpp), the block of memory in the thread_info of a run()    *)
(* that recycling_allocator hands out (thread_info_base.hpp), the stack of *)
(* those thread_infos (call_stack.hpp), and the work guard that post(ctx,  *)
(* token) wraps around the handler (work_dispatcher.hpp).                  *)
(*                                                                         *)
(* A frame is a call of run() with the thread_info on its stack.  What     *)
(* makes run() return, and the order of the queue, are the matter of       *)
(* Scheduler: here run() may return whenever no handler runs in it, and    *)
(* takes any queued operation.                                             *)
(***************************************************************************)
EXTENDS Integers, Sequences, FiniteSets, Functions

CONSTANTS
  Threads,       (* threads that post and run                                *)
  Frames,        (* calls of run(), each with a thread_info                  *)
  Ops,           (* operations; each one is posted once                      *)
  Recycled,      (* those below 1024 bytes made with a recycling_allocator   *)
  Dispatched,    (* those posted by post(ctx, token) with a handler whose    *)
                 (* executor belongs to the same io_context                  *)
  Throwing,      (* those whose handler may throw, when copied or called,    *)
                 (* and whose push may fail                                  *)
  Heap,          (* a block from operator new                                *)
  Lost,          (* a block in a thread_info that is gone                    *)
  NoOp,
  NoFrame

ASSUME OpAssumption ==
  /\ IsFiniteSet(Threads) /\ IsFiniteSet(Frames) /\ IsFiniteSet(Ops)
  /\ Recycled \subseteq Ops /\ Dispatched \subseteq Ops /\ Throwing \subseteq Ops
  /\ NoOp \notin Ops /\ NoFrame \notin Frames
  /\ Heap \notin Frames \cup {NoFrame} /\ Lost \notin Frames \cup {NoFrame}
  /\ Heap # Lost

VARIABLES
  stack,         (* call_stack::top_ of each thread, the innermost run first *)
  in_use,        (* frames whose in_use_ is set                              *)
  op,            (* where each operation is                                  *)
  block,         (* the memory of each operation that has any                *)
  making,        (* what each thread holds in the ptr of a post              *)
  job,           (* what each frame completes                                *)
  work,          (* outstanding_work_, with what threads count privately     *)
  undefined,     (* memory was used or freed that must not be                *)
  (* history *)
  strayed,       (* an operation left the run() in whose frame it lives      *)
  overdrawn,     (* operations whose dispatcher gave its work back twice     *)
  leaked         (* operations whose own unit of work is never given back    *)

historyVars == <<strayed, overdrawn, leaked>>
vars == <<stack, in_use, op, block, making, job, work, undefined, historyVars>>

(* "raw" has memory and is being constructed, "made" is constructed and    *)
(* still the poster's; "taken" is popped, not yet copied and freed.        *)
OpSteps == {"new", "raw", "made", "queued", "taken", "gone", "destroyed"}

(* "copy" is the beginning of do_complete, "call" the upcall.              *)
Idle == [op |-> NoOp, step |-> "idle"]

TypeOK ==
  /\ stack \in [Threads -> Seq(Frames)]
  /\ in_use \subseteq Frames
  /\ op \in [Ops -> OpSteps]
  /\ block \in [Ops -> Frames \cup {Heap, Lost}]
  /\ making \in [Threads -> Ops \cup {NoOp}]
  /\ job \in [Frames -> [op : Ops \cup {NoOp}, step : {"idle", "copy", "call"}]]
  /\ work \in Int
  /\ undefined \in BOOLEAN /\ strayed \in BOOLEAN
  /\ overdrawn \subseteq Ops /\ leaked \subseteq Ops

-----------------------------------------------------------------------------
(* thread_call_stack::top(), of whichever scheduler the innermost run is.  *)
Top(t) == IF stack[t] = <<>> THEN NoFrame ELSE Head(stack[t])

(* The thread runs user code: outside run(), or in the innermost handler.  *)
AtHome(t) == /\ making[t] = NoOp
             /\ stack[t] # <<>> => job[Top(t)].step = "call"

(* The context is being destroyed: nobody may use it any more.             *)
Closed == \E o \in Ops : op[o] = "destroyed"

(* An operation whose memory is allocated.                                 *)
Live(o) == op[o] \in {"raw", "made", "queued", "taken"}

(* The executor's units of work that a dispatcher's guard holds.           *)
Unit(o) == IF o \in Dispatched THEN 1 ELSE 0

-----------------------------------------------------------------------------
(* Memory.                                                                 *)

(* Variant: in_use_ is not looked at.                                      *)
BlockForAnyway(t, o) ==
  IF o \in Recycled /\ Top(t) # NoFrame THEN Top(t) ELSE Heap

(* recycling_allocator::allocate: the storage_ of the innermost run(), or  *)
(* operator new when there is none or it is taken.                         *)
BlockFor(t, o) ==
  IF o \in Recycled /\ Top(t) # NoFrame /\ Top(t) \notin in_use
  THEN Top(t) ELSE Heap

(* Variant: the pointer is not compared with storage_.                     *)
FreeAnyway(t, o) ==
  /\ in_use' = in_use \ {Top(t)}
  /\ undefined' = (Top(t) = NoFrame /\ block[o] # Heap)

(* recycling_allocator::deallocate.  Whatever is not the storage_ of the   *)
(* innermost run() goes to operator delete, which only knows the heap.     *)
Free(t, o) ==
  IF block[o] = Top(t)
  THEN in_use' = in_use \ {Top(t)} /\ UNCHANGED undefined
  ELSE undefined' = (block[o] # Heap) /\ UNCHANGED in_use

-----------------------------------------------------------------------------
(* Posting.                                                                *)

(* post begins: a temporary dispatcher holds a unit, and ptr::allocate     *)
(* gets the memory.                                                        *)
Allocate(t, o) ==
  /\ AtHome(t) /\ op[o] = "new" /\ ~Closed
  /\ op' = [op EXCEPT ![o] = "raw"]
  /\ block' = [block EXCEPT ![o] = BlockFor(t, o)]
  /\ in_use' = in_use \cup ({BlockFor(t, o)} \cap Frames)
  /\ making' = [making EXCEPT ![t] = o]
  /\ work' = work + Unit(o)
  /\ UNCHANGED <<stack, job, undefined, historyVars>>

(* The operation is constructed with a copy of the handler.                *)
Construct(t) ==
  /\ making[t] # NoOp /\ op[making[t]] = "raw"
  /\ op' = [op EXCEPT ![making[t]] = "made"]
  /\ work' = work + Unit(making[t])
  /\ UNCHANGED <<stack, in_use, block, making, job, undefined, historyVars>>

(* The operation goes to a queue, with a unit of work of its own, and the  *)
(* temporary dispatcher is destroyed.                                      *)
Push(t) ==
  /\ making[t] # NoOp /\ op[making[t]] = "made"
  /\ op' = [op EXCEPT ![making[t]] = "queued"]
  /\ making' = [making EXCEPT ![t] = NoOp]
  /\ work' = work + 1 - Unit(making[t])
  /\ UNCHANGED <<stack, in_use, block, job, undefined, historyVars>>

(* Variant: ~ptr destroys the operation and keeps the memory.              *)
AbandonLeaking(t, o, units) ==
  /\ op' = [op EXCEPT ![o] = "gone"]
  /\ making' = [making EXCEPT ![t] = NoOp]
  /\ work' = work - units
  /\ UNCHANGED <<stack, in_use, undefined, block, job, strayed, overdrawn>>

(* An exception during a post: ~ptr destroys and frees the operation, and  *)
(* the temporary dispatcher goes.                                          *)
Abandon(t, o, units) ==
  /\ op' = [op EXCEPT ![o] = "gone"]
  /\ Free(t, o)
  /\ making' = [making EXCEPT ![t] = NoOp]
  /\ work' = work - units
  /\ UNCHANGED <<stack, block, job, strayed, overdrawn>>

(* The copy of the handler into the operation throws.                      *)
ConstructThrows(t) ==
  /\ making[t] \in Throwing /\ op[making[t]] = "raw"
  /\ Abandon(t, making[t], Unit(making[t]))
  /\ UNCHANGED leaked

(* op_queue_.push throws bad_alloc, after work_started().                  *)
PushThrows(t) ==
  /\ making[t] \in Throwing /\ op[making[t]] = "made"
  /\ Abandon(t, making[t], 2 * Unit(making[t]) - 1)
  /\ leaked' = leaked \cup {making[t]}

-----------------------------------------------------------------------------
(* Running.                                                                *)

(* run(): a new thread_info, in_use_ FALSE, on top of the call stack.      *)
Enter(t, f) ==
  /\ AtHome(t) /\ ~Closed
  /\ \A s \in Threads : f \notin Range(stack[s])
  /\ stack' = [stack EXCEPT ![t] = <<f>> \o @]
  /\ in_use' = in_use \ {f}
  /\ UNCHANGED <<op, block, making, job, work, undefined, historyVars>>

(* The innermost run() of t ends, and its thread_info with what lives in   *)
(* it but the operation that was just freed.                               *)
Unwind(t, freed) ==
  LET inside == {o \in Ops \ {freed} : Live(o) /\ block[o] = Top(t)}
  IN /\ stack' = [stack EXCEPT ![t] = Tail(@)]
     /\ block' = [o \in Ops |-> IF o \in inside THEN Lost ELSE block[o]]
     /\ strayed' = (strayed \/ inside # {})

Leave(t) ==
  /\ stack[t] # <<>> /\ job[Top(t)] = Idle
  /\ Unwind(t, NoOp)
  /\ UNCHANGED <<in_use, op, making, job, work, undefined, overdrawn, leaked>>

(* do_run_one pops an operation and do_complete begins.                    *)
Take(t, o) ==
  /\ stack[t] # <<>> /\ job[Top(t)] = Idle
  /\ op[o] = "queued"
  /\ op' = [op EXCEPT ![o] = "taken"]
  /\ job' = [job EXCEPT ![Top(t)] = [op |-> o, step |-> "copy"]]
  /\ undefined' = (block[o] = Lost)
  /\ strayed' = (strayed \/ block[o] \notin {Heap, Top(t)})
  /\ UNCHANGED <<stack, in_use, block, making, work, overdrawn, leaked>>

Doing(t, step) == stack[t] # <<>> /\ job[Top(t)].step = step
Current(t) == job[Top(t)].op

(* do_complete copies the handler, with its guard, and destroys and frees  *)
(* the operation before the upcall.                                        *)
CopyHandler(t) ==
  /\ Doing(t, "copy")
  /\ op' = [op EXCEPT ![Current(t)] = "gone"]
  /\ Free(t, Current(t))
  /\ job' = [job EXCEPT ![Top(t)].step = "call"]
  /\ UNCHANGED <<stack, block, making, work, historyVars>>

(* The copy throws: ~ptr frees the operation, ~work_cleanup gives its work *)
(* back and the exception leaves run().                                    *)
CopyThrows(t) ==
  /\ Doing(t, "copy") /\ Current(t) \in Throwing
  /\ op' = [op EXCEPT ![Current(t)] = "gone"]
  /\ Free(t, Current(t))
  /\ work' = work - Unit(Current(t)) - 1
  /\ job' = [job EXCEPT ![Top(t)] = Idle]
  /\ Unwind(t, Current(t))
  /\ UNCHANGED <<making, overdrawn, leaked>>

(* The handler returns.  A dispatcher calls reset(), which leaves owns_    *)
(* set, and its destructor gives the unit back once more.                  *)
Return(t) ==
  /\ Doing(t, "call") /\ AtHome(t)
  /\ work' = work - 2 * Unit(Current(t)) - 1
  /\ overdrawn' = overdrawn \cup ({Current(t)} \cap Dispatched)
  /\ job' = [job EXCEPT ![Top(t)] = Idle]
  /\ UNCHANGED <<stack, in_use, op, block, making, undefined, strayed, leaked>>

(* Variant: the unit of the dispatcher is not given back.                  *)
HandlerThrowsKeeping(t) ==
  /\ Doing(t, "call") /\ AtHome(t) /\ Current(t) \in Throwing
  /\ work' = work - 1
  /\ job' = [job EXCEPT ![Top(t)] = Idle]
  /\ Unwind(t, NoOp)
  /\ UNCHANGED <<in_use, op, making, undefined, overdrawn, leaked>>

(* The handler throws, out of run(): a dispatcher is destroyed without     *)
(* reset().  An outer handler of the thread may catch it.                  *)
HandlerThrows(t) ==
  /\ Doing(t, "call") /\ AtHome(t) /\ Current(t) \in Throwing
  /\ work' = work - Unit(Current(t)) - 1
  /\ job' = [job EXCEPT ![Top(t)] = Idle]
  /\ Unwind(t, NoOp)
  /\ UNCHANGED <<in_use, op, making, undefined, overdrawn, leaked>>

(* scheduler::shutdown, when no thread is inside run(): destroy() is       *)
(* do_complete without an owner, which frees and does not call.            *)
Destroy(t, o) ==
  /\ \A s \in Threads : stack[s] = <<>> /\ making[s] = NoOp
  /\ op[o] = "queued"
  /\ op' = [op EXCEPT ![o] = "destroyed"]
  /\ Free(t, o)
  /\ work' = work - Unit(o)
  /\ UNCHANGED <<stack, block, making, job, strayed, overdrawn>>
  /\ leaked' = leaked \cup {o}

-----------------------------------------------------------------------------
Init ==
  /\ stack = [t \in Threads |-> <<>>]
  /\ in_use = {}
  /\ op = [o \in Ops |-> "new"]
  /\ block = [o \in Ops |-> Heap]
  /\ making = [t \in Threads |-> NoOp]
  /\ job = [f \in Frames |-> Idle]
  /\ work = 0
  /\ undefined = FALSE
  /\ strayed = FALSE /\ overdrawn = {} /\ leaked = {}

(* Nothing can be said of the program after undefined behaviour.           *)
Next ==
  /\ ~undefined
  /\ \E t \in Threads :
       \/ Construct(t) \/ ConstructThrows(t) \/ Push(t) \/ PushThrows(t)
       \/ CopyHandler(t) \/ CopyThrows(t) \/ Return(t) \/ HandlerThrows(t)
       \/ Leave(t)
       \/ \E f \in Frames : Enter(t, f)
       \/ \E o \in Ops : Allocate(t, o) \/ Take(t, o) \/ Destroy(t, o)

Spec == Init /\ [][Next]_vars

-----------------------------------------------------------------------------
(* Properties.                                                             *)

(* in_use_ of a thread_info is set exactly while one operation lives in    *)
(* its storage_, and never do two: whatever is thrown during a post or a   *)
(* completion, nested calls of run() and blocks from elsewhere included.   *)
InUseExact ==
  \A t \in Threads : \A f \in Range(stack[t]) :
    LET tenants == {o \in Ops : Live(o) /\ block[o] = f}
    IN Cardinality(tenants) = IF f \in in_use THEN 1 ELSE 0

(* A recycled block does no harm as long as no operation leaves the run()  *)
(* it was posted in: it is completed by that same call of run(), and does  *)
(* not wait in the queue when the call returns.                            *)
HarmlessAtHome == undefined => strayed

BlocksAccounted == (undefined \/ InUseExact) /\ HarmlessAtHome

(* outstanding_work_ counts the operations that wait or run and the guards *)
(* of their dispatchers, but one unit too few for each dispatcher that has *)
(* returned - run() may then end with operations waiting - and one too     *)
(* many for each operation that could not be queued, which leaves run()    *)
(* without an end.                                                         *)
WorkAccounted ==
  LET at(step) == {o \in Ops : op[o] = step}
      called == {job[f].op : f \in {g \in Frames : job[g].step = "call"}}
      pending == at("queued") \cup at("taken") \cup called
      units(S) == Cardinality(S \cap Dispatched)
  IN work = Cardinality(pending) + units(pending)
            + units(at("raw")) + 2 * units(at("made"))
            + Cardinality(leaked) - Cardinality(overdrawn)
==============================================================================
