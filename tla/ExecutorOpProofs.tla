-------------------------- MODULE ExecutorOpProofs ---------------------------
(***************************************************************************)
(* That the block of a thread_info has one operation in it exactly while   *)
(* in_use_ says so, does no harm to operations that stay in the run() they *)
(* were posted in, and that the work count accounts for every operation    *)
(* and every unit an exception leaked, for any number of threads, nested   *)
(* calls of run() and operations.                                          *)
(***************************************************************************)
EXTENDS ExecutorOp, FiniteSetTheorems, TLAPS

(* The calls of run() there are, and the operations that have memory.      *)
Running == {f \in Frames : \E t \in Threads : f \in Range(stack[t])}
Alive == {o \in Ops : Live(o)}

NoRepeat(s) == \A i, j \in 1 .. Len(s) : s[i] = s[j] => i = j

(* A frame is one call of run(), of one thread.                            *)
FramesOnce ==
  /\ \A t \in Threads : NoRepeat(stack[t])
  /\ \A s, t \in Threads :
       \A f \in Range(stack[s]) \cap Range(stack[t]) : s = t

(* A thread posts one operation at a time, from the code that it runs.     *)
PostsOwn ==
  /\ \A t \in Threads : making[t] # NoOp =>
       /\ op[making[t]] \in {"raw", "made"}
       /\ stack[t] # <<>> => job[Top(t)].step = "call"
  /\ \A s, t \in Threads : making[s] = making[t] /\ making[t] # NoOp => s = t

(* An operation that has been popped is completed by one frame.            *)
TakesOwn ==
  /\ \A f \in Frames : job[f].step # "idle" => job[f].op \in Ops
  /\ \A f \in Frames : job[f].step = "copy" => op[job[f].op] = "taken"
  /\ \A f, g \in Frames :
       job[f].step = "copy" /\ job[g].step = "copy" /\ job[f].op = job[g].op
         => f = g

(* Of the calls of run() in on, those in used have their storage_ lent to  *)
(* one of the operations in live.                                          *)
Lent(on, used, live, mem) ==
  /\ on \subseteq Frames
  /\ \A o \in live : mem[o] \in Frames => mem[o] \in on \cap used
  /\ \A o, p \in live : mem[o] = mem[p] /\ mem[o] \in Frames => o = p
  /\ \A f \in on \cap used : \E o \in live : mem[o] = f

BlocksLent == Lent(Running, in_use, Alive, block)

(* Where the operations are that are about to be freed, until one strays.  *)
Home ==
  ~strayed =>
    /\ \A o \in Ops : Live(o) => block[o] # Lost
    /\ \A t \in Threads : making[t] # NoOp => block[making[t]] \in {Heap, Top(t)}
    /\ \A f \in Frames : job[f].step = "copy" => block[job[f].op] \in {Heap, f}

OpInv ==
  /\ TypeOK
  /\ HarmlessAtHome
  /\ ~undefined => FramesOnce /\ PostsOwn /\ TakesOwn /\ BlocksLent /\ Home

USE OpAssumption

-----------------------------------------------------------------------------
(* The call stack.                                                         *)

LEMMA PushFrame ==
  ASSUME NEW s \in Seq(Frames), NEW f \in Frames
  PROVE  /\ <<f>> \o s \in Seq(Frames) /\ <<f>> \o s # <<>>
         /\ Head(<<f>> \o s) = f
         /\ Range(<<f>> \o s) = {f} \cup Range(s)
         /\ NoRepeat(s) /\ f \notin Range(s) => NoRepeat(<<f>> \o s)
<1> DEFINE r == <<f>> \o s
<1>1. /\ r \in Seq(Frames) /\ Len(r) = Len(s) + 1 /\ r # <<>>
      /\ r[1] = f /\ \A i \in 1 .. Len(s) : r[i + 1] = s[i]
  OBVIOUS
<1>2. \A i \in 1 .. Len(r) : i = 1 \/ (i - 1 \in 1 .. Len(s) /\ r[i] = s[i - 1])
  BY <1>1
<1>3. Head(r) = f
  BY <1>1
<1> HIDE DEF r
<1>4. Range(r) = {f} \cup Range(s)
  <2>1. Range(r) \subseteq {f} \cup Range(s)
    BY <1>1, <1>2 DEF Range
  <2>2. f \in Range(r)
    BY <1>1 DEF Range
  <2>3. ASSUME NEW i \in 1 .. Len(s)
        PROVE  s[i] \in Range(r)
    <3>1. i + 1 \in DOMAIN r
      BY <1>1
    <3> QED
      BY <1>1, <3>1 DEF Range
  <2>4. \A x \in Range(s) : x \in Range(r)
    BY <2>3 DEF Range
  <2> QED
    BY <2>1, <2>2, <2>4
<1>5. ASSUME NoRepeat(s), f \notin Range(s)
      PROVE  NoRepeat(r)
  <2>1. \A i \in 1 .. Len(s) : s[i] # f
    BY <1>5 DEF Range
  <2> SUFFICES ASSUME NEW i \in 1 .. Len(r), NEW j \in 1 .. Len(r), r[i] = r[j]
               PROVE  i = j
    BY DEF NoRepeat
  <2>2. CASE i = 1 \/ j = 1
    BY <1>1, <1>2, <2>1, <2>2
  <2>3. CASE i # 1 /\ j # 1
    <3>1. i - 1 = j - 1
      BY <1>2, <1>5, <2>3 DEF NoRepeat
    <3> QED
      BY <3>1, <1>1
  <2> QED
    BY <2>2, <2>3
<1> QED
  BY <1>1, <1>3, <1>4, <1>5 DEF r

LEMMA PopFrame ==
  ASSUME NEW s \in Seq(Frames), s # <<>>, NoRepeat(s)
  PROVE  /\ Tail(s) \in Seq(Frames) /\ NoRepeat(Tail(s))
         /\ Head(s) \in Range(s)
         /\ Range(Tail(s)) = Range(s) \ {Head(s)}
<1> DEFINE r == Tail(s)
<1>1. /\ r \in Seq(Frames) /\ Len(r) = Len(s) - 1 /\ Len(s) \in Nat \ {0}
      /\ Head(s) = s[1] /\ \A i \in 1 .. Len(r) : r[i] = s[i + 1]
  OBVIOUS
<1>2. NoRepeat(r)
  BY <1>1 DEF NoRepeat
<1>3. Head(s) \in Range(s)
  BY <1>1 DEF Range
<1>4. Range(r) \subseteq Range(s) \ {Head(s)}
  BY <1>1 DEF Range, NoRepeat
<1>5. ASSUME NEW i \in 1 .. Len(s), s[i] # Head(s)
      PROVE  s[i] \in Range(r)
  <2>1. i - 1 \in DOMAIN r /\ r[i - 1] = s[i]
    BY <1>1, <1>5
  <2> QED
    BY <2>1 DEF Range
<1>6. Range(s) \ {Head(s)} \subseteq Range(r)
  BY <1>5 DEF Range
<1> QED
  BY <1>1, <1>2, <1>3, <1>4, <1>6

(* The frame on top is one of the frames of the thread.                    *)
LEMMA TopRuns ==
  ASSUME TypeOK, NEW t \in Threads
  PROVE  /\ stack[t] # <<>> => Top(t) \in Frames /\ Top(t) \in Range(stack[t])
         /\ stack[t] = <<>> => Top(t) = NoFrame
         /\ Range(stack[t]) \subseteq Frames
<1>1. stack[t] \in Seq(Frames)
  BY DEF TypeOK
<1>2. stack[t] # <<>> => Head(stack[t]) = stack[t][1] /\ 1 \in DOMAIN stack[t]
  BY <1>1
<1> QED
  BY <1>1, <1>2 DEF Top, Range

(* No two threads have the same frame on top.                              *)
LEMMA TopsDiffer ==
  ASSUME TypeOK, FramesOnce, NEW s \in Threads, NEW t \in Threads,
         Top(s) = Top(t), Top(t) # NoFrame
  PROVE  s = t
<1>1. stack[s] # <<>> /\ stack[t] # <<>>
  BY TopRuns
<1> QED
  BY <1>1, TopRuns DEF FramesOnce

-----------------------------------------------------------------------------
(* The blocks.                                                             *)

(* recycling_allocator::deallocate in the frame that lent the block ...    *)
LEMMA GiveBack ==
  ASSUME NEW on, NEW used, NEW live, NEW mem, Lent(on, used, live, mem),
         NEW o \in live, mem[o] \in Frames
  PROVE  Lent(on, used \ {mem[o]}, live \ {o}, mem)
BY DEF Lent

(* ... and of memory from the heap.                                        *)
LEMMA DeleteHeap ==
  ASSUME NEW on, NEW used, NEW live, NEW mem, Lent(on, used, live, mem),
         NEW o \in live, mem[o] \notin Frames
  PROVE  Lent(on, used, live \ {o}, mem)
BY DEF Lent

(* A thread_info goes.                                                     *)
LEMMA DropFrame ==
  ASSUME NEW on, NEW used, NEW live, NEW mem, Lent(on, used, live, mem),
         NEW f, NEW rest,
         \A o \in live : rest[o] = IF mem[o] = f THEN Lost ELSE mem[o]
  PROVE  Lent(on \ {f}, used, live, rest)
BY DEF Lent

-----------------------------------------------------------------------------
(* The actions.                                                            *)

LEMMA InitHolds == Init => OpInv
<1> SUFFICES ASSUME Init
             PROVE  OpInv
  OBVIOUS
<1>1. TypeOK /\ HarmlessAtHome
  <2>1. stack \in [Threads -> Seq(Frames)]
    BY DEF Init
  <2>2. job \in [Frames -> [op : Ops \cup {NoOp}, step : {"idle", "copy", "call"}]]
    BY DEF Init, Idle
  <2>3. /\ op \in [Ops -> OpSteps] /\ block \in [Ops -> Frames \cup {Heap, Lost}]
        /\ making \in [Threads -> Ops \cup {NoOp}] /\ in_use \subseteq Frames
        /\ work \in Int /\ overdrawn \subseteq Ops /\ leaked \subseteq Ops
    BY DEF Init, OpSteps
  <2>4. undefined = FALSE /\ strayed = FALSE
    BY DEF Init
  <2> QED
    BY <2>1, <2>2, <2>3, <2>4 DEF TypeOK, HarmlessAtHome
<1>2. FramesOnce /\ Running = {} /\ Alive = {}
  BY DEF Init, FramesOnce, NoRepeat, Running, Alive, Live, Range
<1>3. PostsOwn /\ TakesOwn
  BY DEF Init, PostsOwn, TakesOwn, Idle
<1>4. BlocksLent /\ Home
  BY <1>2 DEF Init, BlocksLent, Lent, Home, Live, Idle
<1> QED
  BY <1>1, <1>2, <1>3, <1>4 DEF OpInv

(* The block of the innermost run() is free when it is given out.          *)
LEMMA AllocateKeeps ==
  ASSUME OpInv, ~undefined, NEW t \in Threads, NEW o \in Ops, Allocate(t, o)
  PROVE  OpInv'
<1> DEFINE b == BlockFor(t, o)
<1>1. /\ op[o] = "new" /\ op' = [op EXCEPT ![o] = "raw"]
      /\ block' = [block EXCEPT ![o] = b]
      /\ in_use' = in_use \cup ({b} \cap Frames)
      /\ making' = [making EXCEPT ![t] = o] /\ making[t] = NoOp
      /\ stack[t] # <<>> => job[Top(t)].step = "call"
      /\ work' = work + Unit(o)
      /\ UNCHANGED <<stack, job, undefined, strayed, overdrawn, leaked>>
  BY DEF Allocate, AtHome, historyVars
<1>2. TypeOK /\ FramesOnce /\ PostsOwn /\ TakesOwn /\ BlocksLent /\ Home
  BY DEF OpInv
<1>3. b = Heap \/ (b \in Frames \ in_use /\ b = Top(t) /\ b \in Running)
  BY <1>2, TopRuns DEF BlockFor, Running
<1> HIDE DEF b
<1>4. TypeOK'
  <2>1. Unit(o) \in Int
    BY DEF Unit
  <2> QED
    BY <1>1, <1>2, <1>3, <2>1 DEF TypeOK, OpSteps
<1>5. FramesOnce' /\ HarmlessAtHome'
  BY <1>1, <1>2 DEF FramesOnce, HarmlessAtHome, OpInv
<1>6. PostsOwn' /\ TakesOwn'
  BY <1>1, <1>2 DEF PostsOwn, TakesOwn, TypeOK, Top
<1>7. BlocksLent'
  <2>1. Running' = Running /\ Alive' = Alive \cup {o} /\ o \notin Alive
    BY <1>1, <1>2 DEF Running, Alive, Live, TypeOK
  <2>2. \A p \in Alive : block'[p] = block[p]
    BY <1>1, <1>2, <2>1 DEF Alive, TypeOK
  <2>3. block'[o] = b
    BY <1>1, <1>2 DEF TypeOK
  <2> QED
    BY <1>1, <1>2, <1>3, <2>1, <2>2, <2>3 DEF BlocksLent, Lent
<1>8. Home'
  BY <1>1, <1>2, <1>3 DEF Home, Live, TypeOK, Top, TakesOwn, PostsOwn
<1> QED
  BY <1>4, <1>5, <1>6, <1>7, <1>8 DEF OpInv

LEMMA ConstructKeeps ==
  ASSUME OpInv, ~undefined, NEW t \in Threads, Construct(t) \/ Push(t)
  PROVE  OpInv'
<1> DEFINE o == making[t]
<1>1. PICK step \in {"made", "queued"} :
        /\ o # NoOp /\ op[o] \in {"raw", "made"}
        /\ op' = [op EXCEPT ![o] = step]
        /\ step = "made" => making' = making
        /\ step = "queued" => making' = [making EXCEPT ![t] = NoOp]
        /\ UNCHANGED <<stack, in_use, block, job, undefined, strayed, overdrawn, leaked>>
  BY DEF Construct, Push, historyVars, Live
<1>2. TypeOK /\ FramesOnce /\ PostsOwn /\ TakesOwn /\ BlocksLent /\ Home /\ o \in Ops
  BY <1>1 DEF OpInv, TypeOK
<1>3. TypeOK'
  <2>1. Unit(o) \in Int
    BY DEF Unit
  <2>2. work' \in Int
    BY <1>2, <2>1 DEF TypeOK, Construct, Push
  <2> QED
    BY <1>1, <1>2, <2>2 DEF TypeOK, OpSteps
<1>4. FramesOnce' /\ HarmlessAtHome'
  BY <1>1, <1>2 DEF FramesOnce, HarmlessAtHome, OpInv
<1>5. PostsOwn' /\ TakesOwn'
  <2>1. \A s \in Threads : Top(s)' = Top(s)
    BY <1>1 DEF Top
  <2>2. CASE step = "made"
    BY <1>1, <1>2, <2>1, <2>2 DEF PostsOwn, TakesOwn, TypeOK
  <2>3. CASE step = "queued"
    <3>1. \A s \in Threads : making'[s] = IF s = t THEN NoOp ELSE making[s]
      BY <1>1, <1>2, <2>3 DEF TypeOK
    <3>2. \A p \in Ops \ {o} : op'[p] = op[p]
      BY <1>1, <1>2 DEF TypeOK
    <3>3. PostsOwn'
      BY <1>1, <1>2, <2>1, <3>1, <3>2 DEF PostsOwn, TypeOK
    <3>4. TakesOwn'
      BY <1>1, <1>2, <3>2 DEF TakesOwn
    <3> QED
      BY <3>3, <3>4
  <2> QED
    BY <2>2, <2>3
<1>6. BlocksLent'
  <2>1. Running' = Running /\ Alive' = Alive
    BY <1>1, <1>2 DEF Running, Alive, Live, TypeOK
  <2> QED
    BY <1>1, <1>2, <2>1 DEF BlocksLent
<1>7. Home'
  BY <1>1, <1>2 DEF Home, Live, TypeOK, Top
<1> QED
  BY <1>3, <1>4, <1>5, <1>6, <1>7 DEF OpInv

(* A free that is defined takes the operation out of the frame it lives in.*)
LEMMA FreeKeeps ==
  ASSUME OpInv, ~undefined, NEW t \in Threads, NEW o \in Alive,
         Free(t, o), ~undefined'
  PROVE  Lent(Running, in_use', Alive \ {o}, block)
<1>1. Lent(Running, in_use, Alive, block) /\ TypeOK
  BY DEF OpInv, BlocksLent
<1>2. CASE block[o] = Top(t)
  <2>1. block[o] \in Frames \cup {Heap, Lost}
    BY <1>1 DEF TypeOK, Alive
  <2>2. block[o] \in Frames
    BY <1>1, <1>2, <2>1, TopRuns
  <2>3. in_use' = in_use \ {block[o]}
    BY <1>2 DEF Free
  <2> QED
    BY <1>1, <2>2, <2>3, GiveBack
<1>3. CASE block[o] # Top(t)
  <2>1. in_use' = in_use /\ block[o] = Heap
    BY <1>3 DEF Free
  <2> QED
    BY <1>1, <2>1, DeleteHeap
<1> QED
  BY <1>2, <1>3

(* What may be freed at home is freed without harm.                        *)
LEMMA FreeAtHome ==
  ASSUME OpInv, ~undefined, NEW t \in Threads, NEW o \in Alive, Free(t, o)
  PROVE  /\ undefined' \in BOOLEAN /\ in_use' \subseteq in_use
         /\ block[o] \in {Heap, Top(t)} => ~undefined'
BY DEF Free, OpInv, TypeOK

(* ~ptr after an exception in post.                                        *)
LEMMA AbandonKeeps ==
  ASSUME OpInv, ~undefined, NEW t \in Threads, NEW units \in Int,
         making[t] # NoOp, Abandon(t, making[t], units),
         leaked' \subseteq Ops
  PROVE  OpInv'
<1> DEFINE o == making[t]
<1>1. /\ op' = [op EXCEPT ![o] = "gone"] /\ Free(t, o)
      /\ making' = [making EXCEPT ![t] = NoOp] /\ work' = work - units
      /\ UNCHANGED <<stack, block, job, strayed, overdrawn>>
  BY DEF Abandon
<1>2. TypeOK /\ FramesOnce /\ PostsOwn /\ TakesOwn /\ BlocksLent /\ Home
  BY DEF OpInv
<1>3. o \in Ops /\ o \in Alive /\ op[o] \in {"raw", "made"}
  BY <1>2 DEF TypeOK, PostsOwn, Alive, Live
<1>4. TypeOK'
  BY <1>1, <1>2, <1>3, FreeAtHome DEF TypeOK, OpSteps
<1>5. HarmlessAtHome'
  BY <1>1, <1>2, <1>3, FreeAtHome DEF HarmlessAtHome, Home
<1>6. FramesOnce' /\ PostsOwn' /\ TakesOwn'
  <2>1. FramesOnce'
    BY <1>1, <1>2 DEF FramesOnce
  <2> QED
    BY <1>1, <1>2, <1>3, <2>1 DEF PostsOwn, TakesOwn, TypeOK, Top
<1>7. ASSUME ~undefined'
      PROVE  BlocksLent'
  <2>1. Running' = Running /\ Alive' = Alive \ {o}
    BY <1>1, <1>2, <1>3 DEF Running, Alive, Live, TypeOK
  <2> QED
    BY <1>1, <1>3, <1>7, <2>1, FreeKeeps DEF BlocksLent
<1>8. Home'
  BY <1>1, <1>2, <1>3 DEF Home, Live, TypeOK, Top
<1> QED
  BY <1>4, <1>5, <1>6, <1>7, <1>8 DEF OpInv

(* run() begins: the new thread_info has lent nothing.                     *)
LEMMA EnterKeeps ==
  ASSUME OpInv, ~undefined, NEW t \in Threads, NEW f \in Frames, Enter(t, f)
  PROVE  OpInv'
<1>1. /\ making[t] = NoOp /\ \A s \in Threads : f \notin Range(stack[s])
      /\ stack' = [stack EXCEPT ![t] = <<f>> \o @]
      /\ in_use' = in_use \ {f}
      /\ UNCHANGED <<op, block, making, job, work, undefined, strayed, overdrawn, leaked>>
  BY DEF Enter, AtHome, historyVars
<1>2. TypeOK /\ FramesOnce /\ PostsOwn /\ TakesOwn /\ BlocksLent /\ Home
  BY DEF OpInv
<1>3. /\ stack[t] \in Seq(Frames) /\ NoRepeat(stack[t])
      /\ stack'[t] = <<f>> \o stack[t]
      /\ \A s \in Threads \ {t} : stack'[s] = stack[s]
  BY <1>1, <1>2 DEF TypeOK, FramesOnce
<1>4. /\ stack'[t] \in Seq(Frames) /\ NoRepeat(stack'[t])
      /\ Range(stack'[t]) = {f} \cup Range(stack[t])
  BY <1>1, <1>3, PushFrame
<1>5. TypeOK'
  BY <1>1, <1>2, <1>4 DEF TypeOK
<1>6. FramesOnce' /\ HarmlessAtHome'
  <2>1. \A s \in Threads : NoRepeat(stack'[s])
    BY <1>2, <1>3, <1>4 DEF FramesOnce
  <2>2. \A s \in Threads : \A g \in Range(stack'[s]) :
          (s = t /\ g = f) \/ g \in Range(stack[s])
    BY <1>3, <1>4
  <2>3. ASSUME NEW r \in Threads, NEW s \in Threads,
               NEW g \in Range(stack'[r]) \cap Range(stack'[s])
        PROVE  r = s
    <3>1. CASE g = f
      BY <1>1, <2>2, <2>3, <3>1
    <3>2. CASE g # f
      BY <1>2, <2>2, <2>3, <3>2 DEF FramesOnce
    <3> QED
      BY <3>1, <3>2
  <2>4. HarmlessAtHome'
    BY <1>1 DEF HarmlessAtHome, OpInv
  <2> QED
    BY <2>1, <2>3, <2>4 DEF FramesOnce
<1>7. \A s \in Threads \ {t} : stack'[s] = stack[s] /\ Top(s)' = Top(s)
  BY <1>3 DEF Top
<1>8. PostsOwn' /\ TakesOwn'
  BY <1>1, <1>2, <1>7 DEF PostsOwn, TakesOwn
<1>9. BlocksLent'
  <2>1. Running' = Running \cup {f} /\ f \notin Running
    <3>1. \A s \in Threads : \A g :
            g \in Range(stack'[s]) <=> (s = t /\ g = f) \/ g \in Range(stack[s])
      BY <1>3, <1>4
    <3> QED
      BY <1>1, <3>1 DEF Running
  <2>2. Alive' = Alive
    BY <1>1 DEF Alive, Live
  <2> QED
    BY <1>1, <1>2, <2>1, <2>2 DEF BlocksLent, Lent
<1>10. Home'
  BY <1>1, <1>2, <1>7 DEF Home, Live
<1> QED
  BY <1>5, <1>6, <1>8, <1>9, <1>10 DEF OpInv

(* run() ends: the thread is back in the frame below.                      *)
LEMMA UnwindStack ==
  ASSUME TypeOK, FramesOnce, NEW t \in Threads, NEW freed, Unwind(t, freed),
         stack[t] # <<>>
  PROVE  /\ stack' \in [Threads -> Seq(Frames)] /\ FramesOnce'
         /\ Running' = Running \ {Top(t)} /\ Top(t) \in Frames
         /\ \A s \in Threads \ {t} :
              stack'[s] = stack[s] /\ Top(s)' = Top(s) /\ Top(s) # Top(t)
<1>1. /\ stack[t] \in Seq(Frames) /\ NoRepeat(stack[t])
      /\ stack' = [stack EXCEPT ![t] = Tail(@)]
  BY DEF Unwind, TypeOK, FramesOnce
<1>2. /\ stack'[t] = Tail(stack[t])
      /\ \A s \in Threads \ {t} : stack'[s] = stack[s]
  BY <1>1 DEF TypeOK
<1>3. /\ stack'[t] \in Seq(Frames) /\ NoRepeat(stack'[t])
      /\ Range(stack'[t]) = Range(stack[t]) \ {Top(t)}
      /\ Top(t) \in Range(stack[t])
  BY <1>1, <1>2, PopFrame DEF Top
<1>4. stack' \in [Threads -> Seq(Frames)]
  BY <1>1, <1>3 DEF TypeOK
<1>5. FramesOnce'
  BY <1>2, <1>3 DEF FramesOnce
<1>6. \A s \in Threads \ {t} : Top(t) \notin Range(stack[s])
  BY <1>3 DEF FramesOnce
<1>7. Running' = Running \ {Top(t)}
  <2>1. \A s \in Threads : Range(stack'[s]) = Range(stack[s]) \ {Top(t)}
    BY <1>2, <1>3, <1>6
  <2> QED
    BY <2>1 DEF Running
<1>8. ASSUME NEW s \in Threads \ {t}
      PROVE  stack'[s] = stack[s] /\ Top(s)' = Top(s) /\ Top(s) # Top(t)
  <2>1. stack'[s] = stack[s] /\ Top(s)' = Top(s)
    BY <1>2 DEF Top
  <2>2. Top(t) \in Frames
    BY TopRuns
  <2>3. Top(s) # Top(t)
    BY <1>6, <2>2, TopRuns
  <2> QED
    BY <2>1, <2>3
<1> QED
  BY <1>4, <1>5, <1>7, <1>8, TopRuns

LEMMA UnwindBlocks ==
  ASSUME TypeOK, NEW t \in Threads, NEW freed, Unwind(t, freed),
         NEW used, Lent(Running, used, Alive \ {freed}, block),
         Running' = Running \ {Top(t)}
  PROVE  /\ block' \in [Ops -> Frames \cup {Heap, Lost}]
         /\ Lent(Running', used, Alive \ {freed}, block')
         /\ strayed' \in BOOLEAN
         /\ strayed => strayed'
         /\ ~strayed' => block' = block
<1> DEFINE inside == {o \in Alive \ {freed} : block[o] = Top(t)}
<1>1. {o \in Ops \ {freed} : Live(o) /\ block[o] = Top(t)} = inside
  BY DEF Alive
<1>2. /\ block' = [o \in Ops |-> IF o \in inside THEN Lost ELSE block[o]]
      /\ strayed' = (strayed \/ inside # {})
  BY <1>1 DEF Unwind
<1>3. Lent(Running', used, Alive \ {freed}, block')
  <2>1. \A o \in Alive \ {freed} :
          block'[o] = IF block[o] = Top(t) THEN Lost ELSE block[o]
    BY <1>2 DEF Alive
  <2> QED
    BY <2>1, DropFrame
<1>4. inside = {} => block' = block
  BY <1>2 DEF TypeOK
<1> QED
  BY <1>2, <1>3, <1>4 DEF TypeOK

(* run() ends by itself or by an exception of the handler.                 *)
LEMMA PopKeeps ==
  ASSUME OpInv, ~undefined, NEW t \in Threads, stack[t] # <<>>,
         making[t] = NoOp, Unwind(t, NoOp), job[Top(t)].step # "copy",
         job' = [job EXCEPT ![Top(t)] = Idle], work' \in Int,
         UNCHANGED <<in_use, op, making, undefined, overdrawn, leaked>>
  PROVE  OpInv'
<1>1. TypeOK /\ FramesOnce /\ PostsOwn /\ TakesOwn /\ BlocksLent /\ Home
  BY DEF OpInv
<1>2. /\ stack' \in [Threads -> Seq(Frames)] /\ FramesOnce'
      /\ Running' = Running \ {Top(t)} /\ Top(t) \in Frames
      /\ \A s \in Threads \ {t} :
           stack'[s] = stack[s] /\ Top(s)' = Top(s) /\ Top(s) # Top(t)
  BY <1>1, UnwindStack
<1>3. Alive' = Alive /\ Alive \ {NoOp} = Alive
  BY DEF Alive, Live
<1>4. /\ block' \in [Ops -> Frames \cup {Heap, Lost}]
      /\ Lent(Running', in_use, Alive, block')
      /\ strayed' \in BOOLEAN
      /\ strayed => strayed'
      /\ ~strayed' => block' = block
  <2>1. Lent(Running, in_use, Alive \ {NoOp}, block)
    BY <1>1, <1>3 DEF BlocksLent
  <2>2. /\ block' \in [Ops -> Frames \cup {Heap, Lost}]
        /\ Lent(Running', in_use, Alive \ {NoOp}, block')
        /\ strayed' \in BOOLEAN
        /\ strayed => strayed'
        /\ ~strayed' => block' = block
    BY <1>1, <1>2, <2>1, UnwindBlocks
  <2> QED
    BY <1>3, <2>2
<1>5. TypeOK'
  BY <1>1, <1>2, <1>4 DEF TypeOK, Idle
<1>6. HarmlessAtHome' /\ BlocksLent'
  BY <1>3, <1>4 DEF HarmlessAtHome, BlocksLent
<1>7. \A f \in Frames : job'[f] = IF f = Top(t) THEN Idle ELSE job[f]
  BY <1>1, <1>2 DEF TypeOK
<1>8. TakesOwn'
  BY <1>1, <1>7 DEF TakesOwn, Idle
<1>9. PostsOwn'
  <2>1. \A s \in Threads \ {t} : stack[s] # <<>> => job'[Top(s)'] = job[Top(s)]
    BY <1>1, <1>2, <1>7, TopRuns
  <2> QED
    BY <1>1, <1>2, <2>1 DEF PostsOwn
<1>10. Home'
  BY <1>1, <1>2, <1>4, <1>7 DEF Home, Live, Idle
<1> QED
  BY <1>2, <1>5, <1>6, <1>8, <1>9, <1>10 DEF OpInv

LEMMA LeaveKeeps ==
  ASSUME OpInv, ~undefined, NEW t \in Threads, Leave(t)
  PROVE  OpInv'
<1>1. /\ stack[t] # <<>> /\ job[Top(t)] = Idle /\ Unwind(t, NoOp)
      /\ UNCHANGED <<in_use, op, making, job, work, undefined, overdrawn, leaked>>
  BY DEF Leave
<1>2. TypeOK /\ PostsOwn
  BY DEF OpInv
<1>3. making[t] = NoOp
  BY <1>1, <1>2 DEF PostsOwn, Idle
<1>4. job' = [job EXCEPT ![Top(t)] = Idle] /\ work' \in Int
  BY <1>1, <1>2 DEF TypeOK
<1>5. job[Top(t)].step # "copy"
  BY <1>1 DEF Idle
<1> QED
  BY <1>1, <1>3, <1>4, <1>5, PopKeeps

LEMMA HandlerThrowsKeeps ==
  ASSUME OpInv, ~undefined, NEW t \in Threads, HandlerThrows(t)
  PROVE  OpInv'
<1>1. /\ stack[t] # <<>> /\ job[Top(t)].step = "call" /\ making[t] = NoOp
      /\ Unwind(t, NoOp) /\ job' = [job EXCEPT ![Top(t)] = Idle]
      /\ UNCHANGED <<in_use, op, making, undefined, overdrawn, leaked>>
  BY DEF HandlerThrows, Doing, AtHome
<1>2. work' \in Int
  <2>1. Unit(Current(t)) \in Int /\ work \in Int
    BY DEF Unit, OpInv, TypeOK
  <2> QED
    BY <2>1 DEF HandlerThrows
<1> QED
  BY <1>1, <1>2, PopKeeps

LEMMA ReturnKeeps ==
  ASSUME OpInv, ~undefined, NEW t \in Threads, Return(t)
  PROVE  OpInv'
<1>1. /\ stack[t] # <<>> /\ job[Top(t)].step = "call" /\ making[t] = NoOp
      /\ job' = [job EXCEPT ![Top(t)] = Idle]
      /\ UNCHANGED <<stack, in_use, op, block, making, undefined, strayed, leaked>>
  BY DEF Return, Doing, AtHome
<1>2. TypeOK /\ FramesOnce /\ PostsOwn /\ TakesOwn /\ BlocksLent /\ Home
  BY DEF OpInv
<1>3. work' \in Int /\ overdrawn' \subseteq Ops
  <2>1. Unit(Current(t)) \in Int /\ work \in Int /\ Dispatched \subseteq Ops
    BY <1>2 DEF Unit, TypeOK
  <2>2. work' \in Int
    BY <2>1 DEF Return
  <2> QED
    BY <1>2, <2>1, <2>2 DEF Return, TypeOK
<1>4. TypeOK' /\ HarmlessAtHome'
  BY <1>1, <1>2, <1>3 DEF TypeOK, Idle, HarmlessAtHome, OpInv
<1>5. Top(t) \in Frames /\ \A f \in Frames :
        job'[f] = IF f = Top(t) THEN Idle ELSE job[f]
  BY <1>1, <1>2, TopRuns DEF TypeOK
<1>6. FramesOnce' /\ BlocksLent'
  BY <1>1, <1>2 DEF FramesOnce, BlocksLent, Running, Alive, Live
<1>7. TakesOwn'
  BY <1>1, <1>2, <1>5 DEF TakesOwn, Idle
<1>8. PostsOwn'
  <2>1. ASSUME NEW s \in Threads, making[s] # NoOp, stack[s] # <<>>
        PROVE  Top(s)' = Top(s) /\ job'[Top(s)] = job[Top(s)]
    <3>1. Top(s) \in Frames /\ Top(s) # Top(t)
      BY <1>1, <1>2, <2>1, TopRuns, TopsDiffer
    <3> QED
      BY <1>1, <1>5, <3>1 DEF Top
  <2> QED
    BY <1>1, <1>2, <2>1 DEF PostsOwn
<1>9. Home'
  BY <1>1, <1>2, <1>5 DEF Home, Live, Idle, Top
<1> QED
  BY <1>4, <1>6, <1>7, <1>8, <1>9 DEF OpInv

(* A popped operation belongs to one frame, and has strayed if it is not   *)
(* the one that lent the block.                                            *)
LEMMA TakeKeeps ==
  ASSUME OpInv, ~undefined, NEW t \in Threads, NEW o \in Ops, Take(t, o)
  PROVE  OpInv'
<1>1. /\ stack[t] # <<>> /\ job[Top(t)] = Idle /\ op[o] = "queued"
      /\ op' = [op EXCEPT ![o] = "taken"]
      /\ job' = [job EXCEPT ![Top(t)] = [op |-> o, step |-> "copy"]]
      /\ undefined' = (block[o] = Lost)
      /\ strayed' = (strayed \/ block[o] \notin {Heap, Top(t)})
      /\ UNCHANGED <<stack, in_use, block, making, work, overdrawn, leaked>>
  BY DEF Take
<1>2. TypeOK /\ FramesOnce /\ PostsOwn /\ TakesOwn /\ BlocksLent /\ Home
  BY DEF OpInv
<1>3. Top(t) \in Frames /\ making[t] = NoOp
  BY <1>1, <1>2, TopRuns DEF PostsOwn, Idle
<1>4. \A f \in Frames : job'[f] =
        IF f = Top(t) THEN [op |-> o, step |-> "copy"] ELSE job[f]
  BY <1>1, <1>2, <1>3 DEF TypeOK
<1>5. \A p \in Ops : op'[p] = IF p = o THEN "taken" ELSE op[p]
  BY <1>1, <1>2 DEF TypeOK
<1>6. TypeOK'
  <2>1. [op |-> o, step |-> "copy"] \in
          [op : Ops \cup {NoOp}, step : {"idle", "copy", "call"}]
    OBVIOUS
  <2>2. undefined' \in BOOLEAN /\ strayed' \in BOOLEAN
    BY <1>1
  <2> QED
    BY <1>1, <1>2, <2>1, <2>2 DEF TypeOK, OpSteps
<1>7. HarmlessAtHome'
  <2>1. Lost \notin {Heap, Top(t)}
    BY <1>3
  <2> QED
    BY <1>1, <2>1 DEF HarmlessAtHome
<1>8. FramesOnce' /\ BlocksLent'
  <2>1. Alive' = Alive /\ Running' = Running
    BY <1>1, <1>5 DEF Alive, Live, Running
  <2> QED
    BY <1>1, <1>2, <2>1 DEF FramesOnce, BlocksLent
<1>9. TakesOwn'
  BY <1>1, <1>2, <1>4, <1>5 DEF TakesOwn
<1>10. PostsOwn'
  <2>1. ASSUME NEW s \in Threads, making[s] # NoOp
        PROVE  /\ making[s] # o /\ making[s] \in Ops
               /\ stack[s] # <<>> =>
                    Top(s)' = Top(s) /\ job'[Top(s)] = job[Top(s)]
    <3>1. making[s] # o /\ making[s] \in Ops
      BY <1>1, <1>2, <2>1 DEF PostsOwn, TypeOK
    <3>2. stack[s] # <<>> => Top(s) \in Frames /\ Top(s) # Top(t)
      BY <1>2, <1>3, <2>1, TopRuns, TopsDiffer
    <3>3. Top(s)' = Top(s)
      BY <1>1 DEF Top
    <3> QED
      BY <1>4, <3>1, <3>2, <3>3
  <2> QED
    BY <1>1, <1>2, <1>5, <2>1 DEF PostsOwn
<1>11. Home'
  <2> SUFFICES ASSUME ~strayed'
               PROVE  Home'
    BY DEF Home
  <2>1. ~strayed /\ block[o] \in {Heap, Top(t)}
    BY <1>1
  <2>2. \A p \in Ops : Live(p)' => block'[p] # Lost
    BY <1>1, <1>2, <1>5, <2>1 DEF Home, Live
  <2>3. \A s \in Threads : making'[s] # NoOp => block'[making'[s]] \in {Heap, Top(s)'}
    BY <1>1, <1>2, <2>1 DEF Home, Top
  <2>4. \A f \in Frames : job'[f].step = "copy" => block'[job'[f].op] \in {Heap, f}
    BY <1>1, <1>2, <1>4, <2>1 DEF Home
  <2> QED
    BY <2>2, <2>3, <2>4 DEF Home
<1> QED
  BY <1>6, <1>7, <1>8, <1>9, <1>10, <1>11 DEF OpInv

(* The operation of a frame is still there to be copied and freed.         *)
LEMMA CopyFacts ==
  ASSUME TypeOK, PostsOwn, TakesOwn, Home, NEW t \in Threads, Doing(t, "copy")
  PROVE  /\ Top(t) \in Frames /\ stack[t] # <<>> /\ making[t] = NoOp
         /\ Current(t) \in Alive /\ op[Current(t)] = "taken"
         /\ ~strayed => block[Current(t)] \in {Heap, Top(t)}
<1>1. stack[t] # <<>> /\ job[Top(t)].step = "copy" /\ Top(t) \in Frames
  BY TopRuns DEF Doing
<1>2. job[Top(t)].op \in Ops /\ op[job[Top(t)].op] = "taken"
  BY <1>1 DEF TakesOwn
<1> QED
  BY <1>1, <1>2 DEF PostsOwn, Home, Current, Alive, Live

LEMMA CopyHandlerKeeps ==
  ASSUME OpInv, ~undefined, NEW t \in Threads, CopyHandler(t)
  PROVE  OpInv'
<1> DEFINE o == Current(t)
<1>1. /\ Doing(t, "copy") /\ op' = [op EXCEPT ![o] = "gone"] /\ Free(t, o)
      /\ job' = [job EXCEPT ![Top(t)].step = "call"]
      /\ UNCHANGED <<stack, block, making, work, strayed, overdrawn, leaked>>
  BY DEF CopyHandler, historyVars
<1>2. TypeOK /\ FramesOnce /\ PostsOwn /\ TakesOwn /\ BlocksLent /\ Home
  BY DEF OpInv
<1>3. /\ Top(t) \in Frames /\ stack[t] # <<>> /\ making[t] = NoOp
      /\ o \in Alive /\ o \in Ops /\ op[o] = "taken"
      /\ ~strayed => block[o] \in {Heap, Top(t)}
  BY <1>1, <1>2, CopyFacts DEF Alive
<1>4. job[Top(t)].op = o /\ job[Top(t)].step = "copy"
  BY <1>1 DEF Current, Doing
<1> HIDE DEF o
<1>5. /\ job'[Top(t)] = [op |-> o, step |-> "call"]
      /\ \A f \in Frames \ {Top(t)} : job'[f] = job[f]
  BY <1>1, <1>2, <1>3, <1>4 DEF TypeOK
<1>6. \A p \in Ops : op'[p] = IF p = o THEN "gone" ELSE op[p]
  BY <1>1, <1>2 DEF TypeOK
<1>7. TypeOK'
  <2>1. job' \in [Frames -> [op : Ops \cup {NoOp}, step : {"idle", "copy", "call"}]]
    BY <1>1, <1>2 DEF TypeOK
  <2>2. undefined' \in BOOLEAN /\ in_use' \subseteq Frames
    BY <1>1, <1>2, <1>3, FreeAtHome DEF TypeOK
  <2> QED
    BY <1>1, <1>2, <2>1, <2>2 DEF TypeOK, OpSteps
<1>8. HarmlessAtHome'
  BY <1>1, <1>2, <1>3, FreeAtHome DEF HarmlessAtHome
<1>9. FramesOnce'
  BY <1>1, <1>2 DEF FramesOnce
<1>10. TakesOwn'
  BY <1>2, <1>3, <1>4, <1>5, <1>6 DEF TakesOwn
<1>11. PostsOwn'
  <2>1. ASSUME NEW s \in Threads, making[s] # NoOp
        PROVE  /\ making[s] # o /\ making[s] \in Ops
               /\ stack[s] # <<>> =>
                    Top(s)' = Top(s) /\ job'[Top(s)] = job[Top(s)]
    <3>1. making[s] # o /\ making[s] \in Ops
      BY <1>2, <1>3, <2>1 DEF PostsOwn, TypeOK
    <3>2. stack[s] # <<>> => Top(s) \in Frames /\ Top(s) # Top(t)
      BY <1>2, <1>3, <2>1, TopRuns, TopsDiffer
    <3>3. Top(s)' = Top(s)
      BY <1>1 DEF Top
    <3> QED
      BY <1>5, <3>1, <3>2, <3>3
  <2> QED
    BY <1>1, <1>2, <1>6, <2>1 DEF PostsOwn
<1>12. ASSUME ~undefined'
       PROVE  BlocksLent'
  <2>1. Running' = Running /\ Alive' = Alive \ {o}
    BY <1>1, <1>3, <1>6 DEF Running, Alive, Live
  <2> QED
    BY <1>1, <1>3, <1>12, <2>1, FreeKeeps DEF BlocksLent
<1>13. Home'
  <2> SUFFICES ASSUME ~strayed
               PROVE  Home'
    BY <1>1 DEF Home
  <2>1. \A p \in Ops : Live(p)' => block'[p] # Lost
    BY <1>1, <1>2, <1>6 DEF Home, Live
  <2>2. \A s \in Threads : making'[s] # NoOp => block'[making'[s]] \in {Heap, Top(s)'}
    BY <1>1, <1>2 DEF Home, Top
  <2>3. \A f \in Frames : job'[f].step = "copy" => block'[job'[f].op] \in {Heap, f}
    BY <1>1, <1>2, <1>5 DEF Home
  <2> QED
    BY <2>1, <2>2, <2>3 DEF Home
<1> QED
  BY <1>7, <1>8, <1>9, <1>10, <1>11, <1>12, <1>13 DEF OpInv

(* The same with the end of the run() in one step.                         *)
LEMMA CopyThrowsKeeps ==
  ASSUME OpInv, ~undefined, NEW t \in Threads, CopyThrows(t)
  PROVE  OpInv'
<1> DEFINE o == Current(t)
<1>1. /\ Doing(t, "copy") /\ op' = [op EXCEPT ![o] = "gone"] /\ Free(t, o)
      /\ work' = work - Unit(o) - 1
      /\ job' = [job EXCEPT ![Top(t)] = Idle] /\ Unwind(t, o)
      /\ UNCHANGED <<making, overdrawn, leaked>>
  BY DEF CopyThrows
<1>2. TypeOK /\ FramesOnce /\ PostsOwn /\ TakesOwn /\ BlocksLent /\ Home
  BY DEF OpInv
<1>3. /\ Top(t) \in Frames /\ stack[t] # <<>> /\ making[t] = NoOp
      /\ o \in Alive /\ o \in Ops /\ op[o] = "taken"
      /\ ~strayed => block[o] \in {Heap, Top(t)}
  BY <1>1, <1>2, CopyFacts DEF Alive
<1>4. job[Top(t)].op = o /\ job[Top(t)].step = "copy"
  BY <1>1 DEF Current, Doing
<1> HIDE DEF o
<1>5. /\ stack' \in [Threads -> Seq(Frames)] /\ FramesOnce'
      /\ Running' = Running \ {Top(t)}
      /\ \A s \in Threads \ {t} :
           stack'[s] = stack[s] /\ Top(s)' = Top(s) /\ Top(s) # Top(t)
  BY <1>1, <1>2, <1>3, UnwindStack
<1>6. \A f \in Frames : job'[f] = IF f = Top(t) THEN Idle ELSE job[f]
  BY <1>1, <1>2 DEF TypeOK
<1>7. \A p \in Ops : op'[p] = IF p = o THEN "gone" ELSE op[p]
  BY <1>1, <1>2 DEF TypeOK
<1>8. /\ block' \in [Ops -> Frames \cup {Heap, Lost}]
      /\ strayed' \in BOOLEAN
      /\ strayed => strayed'
      /\ ~strayed' => block' = block
  <2> DEFINE inside == {p \in Ops \ {o} : Live(p) /\ block[p] = Top(t)}
  <2>1. /\ block' = [p \in Ops |-> IF p \in inside THEN Lost ELSE block[p]]
        /\ strayed' = (strayed \/ inside # {})
    BY <1>1 DEF Unwind
  <2>2. inside = {} => block' = block
    BY <1>2, <2>1 DEF TypeOK
  <2> QED
    BY <1>2, <2>1, <2>2 DEF TypeOK
<1>9. TypeOK'
  <2>1. undefined' \in BOOLEAN /\ in_use' \subseteq Frames
    BY <1>1, <1>2, <1>3, FreeAtHome DEF TypeOK
  <2>2. work' \in Int
    BY <1>1, <1>2 DEF TypeOK, Unit
  <2> QED
    BY <1>1, <1>2, <1>5, <1>8, <2>1, <2>2 DEF TypeOK, OpSteps, Idle
<1>10. HarmlessAtHome'
  BY <1>1, <1>3, <1>8, FreeAtHome DEF HarmlessAtHome
<1>11. TakesOwn'
  BY <1>2, <1>3, <1>4, <1>6, <1>7 DEF TakesOwn, Idle
<1>12. PostsOwn'
  <2>1. ASSUME NEW s \in Threads, making[s] # NoOp
        PROVE  /\ making[s] # o /\ making[s] \in Ops /\ s # t
               /\ stack[s] # <<>> => job'[Top(s)'] = job[Top(s)]
    <3>1. making[s] # o /\ making[s] \in Ops /\ s # t
      BY <1>2, <1>3, <2>1 DEF PostsOwn, TypeOK
    <3> QED
      BY <1>2, <1>5, <1>6, <3>1, TopRuns
  <2> QED
    BY <1>1, <1>2, <1>5, <1>7, <2>1 DEF PostsOwn
<1>13. ASSUME ~undefined'
       PROVE  BlocksLent'
  <2>1. Alive' = Alive \ {o}
    BY <1>3, <1>7 DEF Alive, Live
  <2>2. Lent(Running, in_use', Alive \ {o}, block)
    BY <1>1, <1>3, <1>13, FreeKeeps
  <2>3. Lent(Running', in_use', Alive \ {o}, block')
    BY <1>1, <1>2, <1>5, <2>2, UnwindBlocks
  <2> QED
    BY <2>1, <2>3 DEF BlocksLent
<1>14. Home'
  <2> SUFFICES ASSUME ~strayed'
               PROVE  Home'
    BY DEF Home
  <2>1. ~strayed /\ block' = block
    BY <1>8
  <2>2. \A p \in Ops : Live(p)' => block'[p] # Lost
    BY <1>2, <1>7, <2>1 DEF Home, Live
  <2>3. \A s \in Threads : making'[s] # NoOp => block'[making'[s]] \in {Heap, Top(s)'}
    BY <1>1, <1>2, <1>3, <1>5, <2>1 DEF Home
  <2>4. \A f \in Frames : job'[f].step = "copy" => block'[job'[f].op] \in {Heap, f}
    BY <1>2, <1>6, <2>1 DEF Home, Idle
  <2> QED
    BY <2>2, <2>3, <2>4 DEF Home
<1> QED
  BY <1>5, <1>9, <1>10, <1>11, <1>12, <1>13, <1>14 DEF OpInv

(* shutdown, with no run() left: a block that is not of the heap strayed.  *)
LEMMA DestroyKeeps ==
  ASSUME OpInv, ~undefined, NEW t \in Threads, NEW o \in Ops, Destroy(t, o)
  PROVE  OpInv'
<1>1. /\ \A s \in Threads : stack[s] = <<>> /\ making[s] = NoOp
      /\ op[o] = "queued" /\ op' = [op EXCEPT ![o] = "destroyed"] /\ Free(t, o)
      /\ work' = work - Unit(o) /\ leaked' = leaked \cup {o}
      /\ UNCHANGED <<stack, block, making, job, strayed, overdrawn>>
  BY DEF Destroy
<1>2. TypeOK /\ FramesOnce /\ PostsOwn /\ TakesOwn /\ BlocksLent /\ Home
  BY DEF OpInv
<1>3. o \in Alive
  BY <1>1 DEF Alive, Live
<1>4. \A p \in Ops : op'[p] = IF p = o THEN "destroyed" ELSE op[p]
  BY <1>1, <1>2 DEF TypeOK
<1>5. TypeOK'
  <2>1. undefined' \in BOOLEAN /\ in_use' \subseteq Frames
    BY <1>1, <1>2, <1>3, FreeAtHome DEF TypeOK
  <2>2. work' \in Int
    BY <1>1, <1>2 DEF TypeOK, Unit
  <2> QED
    BY <1>1, <1>2, <2>1, <2>2 DEF TypeOK, OpSteps
<1>6. HarmlessAtHome'
  <2>1. Running = {}
    <3>1. \A s \in Threads : Range(stack[s]) = {}
      BY <1>1 DEF Range
    <3> QED
      BY <3>1 DEF Running
  <2>2. block[o] \notin Frames
    BY <1>2, <1>3, <2>1 DEF BlocksLent, Lent
  <2>3. ~strayed => block[o] = Heap
    BY <1>2, <1>3, <2>2 DEF Home, Alive, TypeOK
  <2> QED
    BY <1>1, <1>3, <2>3, FreeAtHome DEF HarmlessAtHome
<1>7. FramesOnce' /\ PostsOwn'
  BY <1>1, <1>2 DEF FramesOnce, PostsOwn
<1>8. TakesOwn'
  BY <1>1, <1>2, <1>4 DEF TakesOwn
<1>9. ASSUME ~undefined'
      PROVE  BlocksLent'
  <2>1. Running' = Running /\ Alive' = Alive \ {o}
    BY <1>1, <1>3, <1>4 DEF Running, Alive, Live
  <2> QED
    BY <1>1, <1>3, <1>9, <2>1, FreeKeeps DEF BlocksLent
<1>10. Home'
  BY <1>1, <1>2, <1>4 DEF Home, Live, Top
<1> QED
  BY <1>5, <1>6, <1>7, <1>8, <1>9, <1>10 DEF OpInv

LEMMA NextKeeps == OpInv /\ [Next]_vars => OpInv'
<1> SUFFICES ASSUME OpInv, [Next]_vars
             PROVE  OpInv'
  OBVIOUS
<1>1. CASE UNCHANGED vars
  BY <1>1 DEF vars, historyVars, OpInv, TypeOK, HarmlessAtHome, FramesOnce, PostsOwn,
     TakesOwn, BlocksLent, Home, Running, Alive, Live, Top
<1>2. ASSUME ~undefined, NEW t \in Threads,
             ConstructThrows(t) \/ PushThrows(t)
      PROVE  OpInv'
  <2>1. making[t] # NoOp /\ making[t] \in Ops /\ leaked \subseteq Ops
    BY <1>2 DEF ConstructThrows, PushThrows, OpInv, TypeOK
  <2>2. PICK units \in Int : Abandon(t, making[t], units)
    <3>1. Unit(making[t]) \in Int
      BY DEF Unit
    <3> QED
      BY <1>2, <3>1 DEF ConstructThrows, PushThrows
  <2>3. leaked' \subseteq Ops
    BY <1>2, <2>1 DEF ConstructThrows, PushThrows
  <2> QED
    BY <1>2, <2>1, <2>2, <2>3, AbandonKeeps
<1>3. CASE Next
  <2>1. ~undefined
    BY <1>3 DEF Next
  <2> QED
    BY <1>2, <1>3, <2>1, ConstructKeeps, CopyHandlerKeeps, CopyThrowsKeeps,
       ReturnKeeps, HandlerThrowsKeeps, LeaveKeeps, EnterKeeps, AllocateKeeps,
       TakeKeeps, DestroyKeeps DEF Next
<1> QED
  BY <1>1, <1>3

-----------------------------------------------------------------------------
(* The theorems.                                                           *)

(* ExecutorOp keeps its inductive invariant.                               *)
THEOREM OpInvariant == Spec => []OpInv
BY InitHolds, NextKeeps, PTL DEF Spec

(* Every variable of ExecutorOp has its type, undefined behaviour or not:  *)
(* in particular what a frame completes is an operation.                   *)
THEOREM OpsTyped == Spec => []TypeOK
<1>1. OpInv => TypeOK
  BY DEF OpInv
<1> QED
  BY OpInvariant, <1>1, PTL

(* recycling_allocator: in_use_ is set exactly while one operation lives   *)
(* in the block, through every exception and nested run(), and the block   *)
(* does harm only to an operation that left the run() it was posted in.    *)
THEOREM BlocksStayAccounted == Spec => []BlocksAccounted
<1>1. OpInv => BlocksAccounted
  <2> SUFFICES ASSUME OpInv, ~undefined, NEW t \in Threads, NEW f \in Range(stack[t])
               PROVE  Cardinality({o \in Ops : Live(o) /\ block[o] = f})
                        = IF f \in in_use THEN 1 ELSE 0
    BY DEF OpInv, BlocksAccounted, InUseExact
  <2> DEFINE tenants == {o \in Ops : Live(o) /\ block[o] = f}
  <2>1. f \in Frames /\ f \in Running /\ Lent(Running, in_use, Alive, block)
    BY TopRuns DEF OpInv, BlocksLent, Running
  <2>2. CASE f \in in_use
    <3>1. PICK o \in Alive : block[o] = f
      BY <2>1, <2>2 DEF Lent
    <3>2. tenants = {o}
      BY <2>1, <3>1 DEF Lent, Alive
    <3> QED
      BY <2>2, <3>2, FS_Singleton
  <2>3. CASE f \notin in_use
    <3>1. tenants = {}
      BY <2>1, <2>3 DEF Lent, Alive
    <3> QED
      BY <2>3, <3>1, FS_EmptySet
  <2> QED
    BY <2>2, <2>3
<1> QED
  BY OpInvariant, <1>1, PTL

-----------------------------------------------------------------------------
(* The work.                                                               *)

Raw == {o \in Ops : op[o] = "raw"}
Made == {o \in Ops : op[o] = "made"}
Waiting == {o \in Ops : op[o] \in {"queued", "taken"}}
Called == {job[f].op : f \in {g \in Frames : job[g].step = "call"}}
Pending == Waiting \cup Called

(* A handler is called by one frame, after its operation is gone; what it  *)
(* gave back twice, or will never give back, is known only of those.       *)
CallsOwn ==
  /\ \A f \in Frames : job[f].step = "call" =>
       /\ job[f].op \in Ops /\ op[job[f].op] = "gone" /\ job[f].op \notin overdrawn
  /\ \A f, g \in Frames :
       job[f].step = "call" /\ job[g].step = "call" /\ job[f].op = job[g].op
         => f = g
  /\ \A o \in overdrawn : op[o] = "gone"
  /\ \A o \in leaked : op[o] \in {"gone", "destroyed"}

UnitsInv == CallsOwn /\ WorkAccounted

(* Units of work: of the operations in S themselves, and of the guards of  *)
(* their dispatchers.                                                      *)
Size(S) == Cardinality(S)
Units(S) == Cardinality(S \cap Dispatched)
Sum(pending, raw, made, unpaid, twice) ==
  Size(pending) + Units(pending) + Units(raw) + 2 * Units(made)
    + Size(unpaid) - Size(twice)

(* WorkAccounted by the names of the sets it counts.                       *)
LEMMA WorkIs ==
  WorkAccounted <=> work = Sum(Pending, Raw, Made, leaked, overdrawn)
<1>1. {o \in Ops : op[o] = "queued"} \cup {o \in Ops : op[o] = "taken"} \cup Called
        = Pending
  BY DEF Pending, Waiting
<1> QED BY <1>1 DEF WorkAccounted, Sum, Size, Units, Raw, Made, Called

(* The same in the next state.                                             *)
LEMMA WorkIsNext ==
  WorkAccounted' <=> work' = Sum(Pending', Raw', Made', leaked', overdrawn')
<1>1. (WorkAccounted <=> work = Sum(Pending, Raw, Made, leaked, overdrawn))'
  BY WorkIs, PTL
<1> QED BY <1>1 DEF Sum, Size, Units

(* One operation more in a set, or one less.                               *)
LEMMA OneIn ==
  ASSUME NEW S \in SUBSET Ops, NEW o \in Ops, o \notin S
  PROVE  /\ Size(S) \in Nat /\ Units(S) \in Nat /\ Unit(o) \in {0, 1}
         /\ Size(S \cup {o}) = Size(S) + 1
         /\ Units(S \cup {o}) = Units(S) + Unit(o)
<1>1. IsFiniteSet(S) /\ IsFiniteSet(S \cap Dispatched)
  BY FS_Subset
<1>2. Size(S) \in Nat /\ Units(S) \in Nat /\ Unit(o) \in {0, 1}
  BY <1>1, FS_CardinalityType DEF Size, Units, Unit
<1>3. Size(S \cup {o}) = Size(S) + 1
  BY <1>1, FS_AddElement DEF Size
<1>4. CASE o \in Dispatched
  <2>1. (S \cup {o}) \cap Dispatched = (S \cap Dispatched) \cup {o}
    BY <1>4
  <2>2. Cardinality((S \cap Dispatched) \cup {o}) = Cardinality(S \cap Dispatched) + 1
    BY <1>1, FS_AddElement
  <2> QED BY <1>2, <1>3, <1>4, <2>1, <2>2 DEF Units, Unit
<1>5. CASE o \notin Dispatched
  <2>1. (S \cup {o}) \cap Dispatched = S \cap Dispatched
    BY <1>5
  <2>2. Units(S \cup {o}) = Units(S) /\ Unit(o) = 0
    BY <1>5, <2>1 DEF Units, Unit
  <2> QED BY <1>2, <1>3, <2>2
<1> QED BY <1>4, <1>5

(* One operation less in a set.                                            *)
LEMMA OneOut ==
  ASSUME NEW S \in SUBSET Ops, NEW o \in S
  PROVE  /\ Size(S) \in Nat /\ Units(S) \in Nat /\ Unit(o) \in {0, 1}
         /\ Size(S \ {o}) = Size(S) - 1
         /\ Units(S \ {o}) = Units(S) - Unit(o)
<1> DEFINE rest == S \ {o}
<1>1. rest \in SUBSET Ops /\ o \in Ops /\ o \notin rest /\ S = rest \cup {o}
  OBVIOUS
<1> HIDE DEF rest
<1>2. /\ Size(rest) \in Nat /\ Units(rest) \in Nat /\ Unit(o) \in {0, 1}
      /\ Size(S) = Size(rest) + 1 /\ Units(S) = Units(rest) + Unit(o)
  BY <1>1, OneIn
<1> QED BY <1>2 DEF rest

(* Sizes are numbers.                                                      *)
LEMMA SizeType ==
  ASSUME NEW S \in SUBSET Ops
  PROVE  Size(S) \in Nat /\ Units(S) \in Nat
BY FS_Subset, FS_CardinalityType DEF Size, Units

(* The sets that are counted.                                              *)
LEMMA CountedTypes ==
  ASSUME TypeOK, CallsOwn
  PROVE  /\ Pending \in SUBSET Ops /\ Raw \in SUBSET Ops /\ Made \in SUBSET Ops
         /\ leaked \in SUBSET Ops /\ overdrawn \in SUBSET Ops
         /\ \A o \in Called : op[o] = "gone" /\ o \notin overdrawn
<1>1. Called \in SUBSET Ops /\ \A o \in Called : op[o] = "gone" /\ o \notin overdrawn
  BY DEF CallsOwn, Called
<1> QED BY <1>1 DEF TypeOK, Pending, Raw, Made, Waiting

(* The sizes and the units are numbers.                                    *)
LEMMA CountedSizes ==
  ASSUME TypeOK, CallsOwn
  PROVE  /\ Size(Pending) \in Nat /\ Units(Pending) \in Nat /\ Units(Raw) \in Nat
         /\ Units(Made) \in Nat /\ Size(leaked) \in Nat /\ Size(overdrawn) \in Nat
BY CountedTypes, SizeType

(* An operation moves on.                                                  *)
LEMMA OpMoves ==
  ASSUME TypeOK, NEW o \in Ops, NEW s, op' = [op EXCEPT ![o] = s]
  PROVE  /\ Raw' = IF s = "raw" THEN Raw \cup {o} ELSE Raw \ {o}
         /\ Made' = IF s = "made" THEN Made \cup {o} ELSE Made \ {o}
         /\ Waiting' = IF s \in {"queued", "taken"} THEN Waiting \cup {o}
                       ELSE Waiting \ {o}
<1>1. op'[o] = s /\ \A p \in Ops : p # o => op'[p] = op[p]
  BY DEF TypeOK
<1>2. Raw' = IF s = "raw" THEN Raw \cup {o} ELSE Raw \ {o}
  BY <1>1 DEF Raw
<1>3. Made' = IF s = "made" THEN Made \cup {o} ELSE Made \ {o}
  BY <1>1 DEF Made
<1>4. CASE s \in {"queued", "taken"}
  <2>1. Waiting' = Waiting \cup {o}
    BY <1>1, <1>4 DEF Waiting
  <2> QED BY <1>2, <1>3, <1>4, <2>1
<1>5. CASE s \notin {"queued", "taken"}
  <2>1. Waiting' = Waiting \ {o}
    BY <1>1, <1>5 DEF Waiting
  <2> QED BY <1>2, <1>3, <1>5, <2>1
<1> QED BY <1>4, <1>5

(* ... out of the sets that are counted.                                   *)
LEMMA OpLeaves ==
  ASSUME TypeOK, NEW o \in Ops, NEW s \in {"gone", "destroyed"},
         op' = [op EXCEPT ![o] = s]
  PROVE  Raw' = Raw \ {o} /\ Made' = Made \ {o} /\ Waiting' = Waiting \ {o}
<1>1. op'[o] = s /\ \A p \in Ops : p # o => op'[p] = op[p]
  BY DEF TypeOK
<1>2. Raw' = Raw \ {o}
  BY <1>1 DEF Raw
<1>3. Made' = Made \ {o}
  BY <1>1 DEF Made
<1>4. Waiting' = Waiting \ {o}
  BY <1>1 DEF Waiting
<1> QED BY <1>2, <1>3, <1>4

(* A step that calls no handler leaves the operations that are called.     *)
LEMMA CalledSame ==
  ASSUME TypeOK, NEW f \in Frames, NEW j, job' = [job EXCEPT ![f] = j],
         job[f].step # "call", j.step # "call"
  PROVE  Called' = Called
<1>1. /\ job'[f] = j
      /\ \A g \in Frames : g # f => job'[g] = job[g]
  BY DEF TypeOK
<1> QED BY <1>1 DEF Called

(* A handler is called.                                                    *)
LEMMA CalledMore ==
  ASSUME TypeOK, NEW f \in Frames, job' = [job EXCEPT ![f].step = "call"],
         job[f].step = "copy"
  PROVE  Called' = Called \cup {job[f].op}
<1>1. /\ job'[f].step = "call" /\ job'[f].op = job[f].op
      /\ \A g \in Frames : g # f => job'[g] = job[g]
  BY DEF TypeOK
<1> QED BY <1>1 DEF Called

(* A handler has returned, or thrown.                                      *)
LEMMA CalledLess ==
  ASSUME TypeOK, CallsOwn, NEW f \in Frames, job' = [job EXCEPT ![f] = Idle],
         job[f].step = "call"
  PROVE  Called' = Called \ {job[f].op}
<1>1. /\ job'[f] = Idle /\ Idle.step # "call"
      /\ \A g \in Frames : g # f => job'[g] = job[g]
  BY DEF TypeOK, Idle
<1>2. \A g \in Frames : g # f /\ job[g].step = "call" => job[g].op # job[f].op
  BY DEF CallsOwn
<1> QED BY <1>1, <1>2 DEF Called

(* Nothing of the call stack and the blocks matters here.                  *)
LEMMA UnitsSame ==
  ASSUME UnitsInv, op' = op, job' = job, work' = work,
         overdrawn' = overdrawn, leaked' = leaked
  PROVE  UnitsInv'
BY DEF UnitsInv, CallsOwn, WorkAccounted


(* A post, whether it succeeds or throws.                                  *)
LEMMA PostUnits ==
  ASSUME TypeOK, UnitsInv, NEW t \in Threads,
         \/ \E o \in Ops : Allocate(t, o)
         \/ Construct(t) \/ Push(t) \/ ConstructThrows(t) \/ PushThrows(t)
  PROVE  UnitsInv'
<1>0. CallsOwn /\ work = Sum(Pending, Raw, Made, leaked, overdrawn)
  BY WorkIs DEF UnitsInv
<1>1. PICK o \in Ops, s \in OpSteps :
        /\ op[o] \in {"new", "raw", "made"} /\ s \in {"raw", "made", "queued", "gone"}
        /\ op' = [op EXCEPT ![o] = s]
        /\ UNCHANGED <<job, overdrawn>>
        /\ \/ op[o] = "new" /\ s = "raw" /\ work' = work + Unit(o) /\ leaked' = leaked
           \/ op[o] = "raw" /\ s = "made" /\ work' = work + Unit(o) /\ leaked' = leaked
           \/ op[o] = "made" /\ s = "queued" /\ work' = work + 1 - Unit(o)
              /\ leaked' = leaked
           \/ op[o] = "raw" /\ s = "gone" /\ work' = work - Unit(o) /\ leaked' = leaked
           \/ op[o] = "made" /\ s = "gone" /\ work' = work - (2 * Unit(o) - 1)
              /\ leaked' = leaked \cup {o}
  <2>1. ASSUME NEW o \in Ops, Allocate(t, o)
        PROVE  /\ op[o] = "new" /\ op' = [op EXCEPT ![o] = "raw"]
               /\ work' = work + Unit(o) /\ UNCHANGED <<job, overdrawn, leaked>>
    BY <2>1 DEF Allocate, historyVars
  <2>2. making[t] \in Ops \cup {NoOp}
    BY DEF TypeOK
  <2>3. CASE Construct(t)
    <3>1. making[t] \in Ops
      BY <2>2, <2>3 DEF Construct
    <3> QED BY <2>3, <3>1 DEF Construct, historyVars, OpSteps
  <2>4. CASE Push(t)
    <3>1. making[t] \in Ops
      BY <2>2, <2>4 DEF Push
    <3> QED BY <2>4, <3>1 DEF Push, historyVars, OpSteps
  <2>5. CASE ConstructThrows(t)
    <3>1. making[t] \in Ops
      BY <2>5 DEF ConstructThrows
    <3> QED BY <2>5, <3>1 DEF ConstructThrows, Abandon, OpSteps
  <2>6. CASE PushThrows(t)
    <3>1. making[t] \in Ops
      BY <2>6 DEF PushThrows
    <3> QED BY <2>6, <3>1 DEF PushThrows, Abandon, OpSteps
  <2> QED BY <2>1, <2>3, <2>4, <2>5, <2>6 DEF OpSteps
<1>2. /\ Raw' = IF s = "raw" THEN Raw \cup {o} ELSE Raw \ {o}
      /\ Made' = IF s = "made" THEN Made \cup {o} ELSE Made \ {o}
      /\ Waiting' = IF s \in {"queued", "taken"} THEN Waiting \cup {o}
                    ELSE Waiting \ {o}
      /\ Called' = Called
  <2>1. Called' = Called
    BY <1>1 DEF Called
  <2>2. op' = [op EXCEPT ![o] = s]
    BY <1>1
  <2> QED BY <2>1, <2>2, OpMoves
<1>3. /\ o \in Raw <=> op[o] = "raw"
      /\ o \in Made <=> op[o] = "made"
      /\ o \notin Waiting /\ o \notin Called /\ o \notin leaked /\ o \notin Pending
  BY <1>0, <1>1, CountedTypes DEF Raw, Made, Waiting, Pending, CallsOwn
<1>4. Pending' = IF s = "queued" THEN Pending \cup {o} ELSE Pending
  BY <1>1, <1>2, <1>3 DEF Pending
<1>5. CallsOwn'
  <2>1. op'[o] = s /\ \A p \in Ops : p # o => op'[p] = op[p]
    BY <1>1 DEF TypeOK
  <2>2. overdrawn \subseteq Ops /\ leaked \subseteq Ops
    BY DEF TypeOK
  <2> QED BY <1>0, <1>1, <2>1, <2>2 DEF CallsOwn
<1>6. /\ Pending \in SUBSET Ops /\ Raw \in SUBSET Ops /\ Made \in SUBSET Ops
      /\ leaked \in SUBSET Ops
      /\ Size(Pending) \in Nat /\ Units(Pending) \in Nat /\ Units(Raw) \in Nat
      /\ Units(Made) \in Nat /\ Size(leaked) \in Nat /\ Size(overdrawn) \in Nat
  BY <1>0, CountedTypes, CountedSizes
<1>7. Unit(o) \in {0, 1}
  BY DEF Unit
<1>8. /\ o \notin Raw => Units(Raw \cup {o}) = Units(Raw) + Unit(o) /\ Raw \ {o} = Raw
      /\ o \in Raw => Units(Raw \ {o}) = Units(Raw) - Unit(o)
  BY <1>6, OneIn, OneOut
<1>9. /\ o \notin Made => Units(Made \cup {o}) = Units(Made) + Unit(o) /\ Made \ {o} = Made
      /\ o \in Made => Units(Made \ {o}) = Units(Made) - Unit(o)
  BY <1>6, OneIn, OneOut
<1>10. /\ Units(Pending \cup {o}) = Units(Pending) + Unit(o)
       /\ Size(Pending \cup {o}) = Size(Pending) + 1
       /\ Size(leaked \cup {o}) = Size(leaked) + 1
  BY <1>3, <1>6, OneIn
<1>11. work' = Sum(Pending', Raw', Made', leaked', overdrawn')
  <2>0. overdrawn' = overdrawn
    BY <1>1
  <2>1. CASE op[o] = "new" /\ s = "raw"
    <3>1. /\ Raw' = Raw \cup {o} /\ Made' = Made /\ Pending' = Pending
          /\ leaked' = leaked /\ work' = work + Unit(o)
          /\ Units(Raw \cup {o}) = Units(Raw) + Unit(o)
      BY <1>1, <1>2, <1>3, <1>4, <1>8, <1>9, <2>1
    <3> QED BY <1>0, <1>6, <1>7, <2>0, <3>1 DEF Sum
  <2>2. CASE op[o] = "raw" /\ s = "made"
    <3>1. /\ Raw' = Raw \ {o} /\ Made' = Made \cup {o} /\ Pending' = Pending
          /\ leaked' = leaked /\ work' = work + Unit(o)
          /\ Units(Raw \ {o}) = Units(Raw) - Unit(o)
          /\ Units(Made \cup {o}) = Units(Made) + Unit(o)
      BY <1>1, <1>2, <1>3, <1>4, <1>8, <1>9, <2>2
    <3> QED BY <1>0, <1>6, <1>7, <2>0, <3>1 DEF Sum
  <2>3. CASE op[o] = "made" /\ s = "queued"
    <3>1. /\ Raw' = Raw /\ Made' = Made \ {o} /\ Pending' = Pending \cup {o}
          /\ leaked' = leaked /\ work' = work + 1 - Unit(o)
          /\ Units(Made \ {o}) = Units(Made) - Unit(o)
      BY <1>1, <1>2, <1>3, <1>4, <1>8, <1>9, <2>3
    <3> QED BY <1>0, <1>6, <1>7, <1>10, <2>0, <3>1 DEF Sum
  <2>4. CASE op[o] = "raw" /\ s = "gone"
    <3>1. /\ Raw' = Raw \ {o} /\ Made' = Made /\ Pending' = Pending
          /\ leaked' = leaked /\ work' = work - Unit(o)
          /\ Units(Raw \ {o}) = Units(Raw) - Unit(o)
      BY <1>1, <1>2, <1>3, <1>4, <1>8, <1>9, <2>4
    <3> QED BY <1>0, <1>6, <1>7, <2>0, <3>1 DEF Sum
  <2>5. CASE op[o] = "made" /\ s = "gone"
    <3>1. /\ Raw' = Raw /\ Made' = Made \ {o} /\ Pending' = Pending
          /\ leaked' = leaked \cup {o} /\ work' = work - (2 * Unit(o) - 1)
          /\ Units(Made \ {o}) = Units(Made) - Unit(o)
      BY <1>1, <1>2, <1>3, <1>4, <1>8, <1>9, <2>5
    <3> QED BY <1>0, <1>6, <1>7, <1>10, <2>0, <3>1 DEF Sum
  <2> QED BY <1>1, <2>1, <2>2, <2>3, <2>4, <2>5
<1> QED BY <1>5, <1>11, WorkIsNext DEF UnitsInv

(* From the queue to the handler the work stays with the operation.        *)
LEMMA TakeUnits ==
  ASSUME TypeOK, TakesOwn, UnitsInv, NEW t \in Threads,
         CopyHandler(t) \/ \E o \in Ops : Take(t, o)
  PROVE  UnitsInv'
<1> DEFINE f == Top(t)
<1>0. CallsOwn /\ work = Sum(Pending, Raw, Made, leaked, overdrawn)
  BY WorkIs DEF UnitsInv
<1>1. f \in Frames
  BY TopRuns DEF Take, CopyHandler, Doing
<1>2. UNCHANGED <<work, overdrawn, leaked>> /\ overdrawn \subseteq Ops /\ leaked \subseteq Ops
  BY DEF TypeOK, Take, CopyHandler, historyVars
<1>3. CASE CopyHandler(t)
  <2>0. PICK o \in Ops : o = job[f].op
    BY <1>1, <1>3 DEF CopyHandler, Doing, TakesOwn
  <2>1. /\ job[f].step = "copy" /\ o \in Ops /\ op[o] = "taken"
        /\ op' = [op EXCEPT ![o] = "gone"]
        /\ job' = [job EXCEPT ![f].step = "call"]
    BY <1>1, <1>3, <2>0 DEF CopyHandler, Doing, Current, TakesOwn
  <2>2. Called' = Called \cup {o}
    BY <1>1, <2>0, <2>1, CalledMore
  <2>3. /\ op'[o] = "gone" /\ \A p \in Ops : p # o => op'[p] = op[p]
        /\ job'[f].step = "call" /\ job'[f].op = o
        /\ \A g \in Frames : g # f => job'[g] = job[g]
    BY <1>1, <2>0, <2>1 DEF TypeOK
  <2>4. CallsOwn'
    BY <1>0, <1>2, <2>1, <2>3 DEF CallsOwn
  <2>5. Raw' = Raw \ {o} /\ Made' = Made \ {o} /\ Waiting' = Waiting \ {o}
    <3>1. o \in Ops /\ op' = [op EXCEPT ![o] = "gone"]
      BY <2>1
    <3> QED BY <3>1, OpLeaves
  <2>6. Raw' = Raw /\ Made' = Made /\ Pending' = Pending
    BY <2>1, <2>2, <2>5 DEF Raw, Made, Pending, Waiting
  <2> QED BY <1>0, <1>2, <2>4, <2>6, WorkIsNext DEF UnitsInv
<1>4. ASSUME NEW o \in Ops, Take(t, o) PROVE UnitsInv'
  <2>1. /\ job[f] = Idle /\ op[o] = "queued"
        /\ op' = [op EXCEPT ![o] = "taken"]
        /\ job' = [job EXCEPT ![f] = [op |-> o, step |-> "copy"]]
    BY <1>4 DEF Take
  <2>2. Called' = Called
    <3> DEFINE j == [op |-> o, step |-> "copy"]
    <3>1. job[f].step # "call" /\ j.step # "call"
      BY <2>1 DEF Idle
    <3>2. job' = [job EXCEPT ![f] = j]
      BY <2>1
    <3> HIDE DEF j
    <3> QED BY <1>1, <3>1, <3>2, CalledSame
  <2>3. /\ op'[o] = "taken" /\ \A p \in Ops : p # o => op'[p] = op[p]
        /\ job'[f].step = "copy"
        /\ \A g \in Frames : g # f => job'[g] = job[g]
    BY <1>1, <2>1 DEF TypeOK
  <2>4. CallsOwn'
    BY <1>0, <1>2, <2>1, <2>3 DEF CallsOwn
  <2>5. Raw' = Raw \ {o} /\ Made' = Made \ {o} /\ Waiting' = Waiting \cup {o}
    BY <2>1, OpMoves
  <2>6. Raw' = Raw /\ Made' = Made /\ Pending' = Pending
    BY <2>1, <2>2, <2>5 DEF Raw, Made, Pending, Waiting
  <2> QED BY <1>0, <1>2, <2>4, <2>6, WorkIsNext DEF UnitsInv
<1> QED BY <1>3, <1>4

(* An operation that is pending is no more, and its work is given back.    *)
LEMMA GivenBack ==
  ASSUME TypeOK, UnitsInv, NEW o \in Pending, Pending' = Pending \ {o},
         Raw' = Raw, Made' = Made, CallsOwn',
         \/ UNCHANGED <<leaked, overdrawn>> /\ work' = work - Unit(o) - 1
         \/ /\ leaked' = leaked \cup {o} /\ o \notin leaked
            /\ overdrawn' = overdrawn /\ work' = work - Unit(o)
         \/ /\ overdrawn' = overdrawn \cup ({o} \cap Dispatched) /\ o \notin overdrawn
            /\ leaked' = leaked /\ work' = work - 2 * Unit(o) - 1
  PROVE  UnitsInv'
<1>0. CallsOwn /\ work = Sum(Pending, Raw, Made, leaked, overdrawn)
  BY WorkIs DEF UnitsInv
<1>1. /\ Pending \in SUBSET Ops /\ leaked \in SUBSET Ops /\ overdrawn \in SUBSET Ops
      /\ Size(Pending) \in Nat /\ Units(Pending) \in Nat /\ Units(Raw) \in Nat
      /\ Units(Made) \in Nat /\ Size(leaked) \in Nat /\ Size(overdrawn) \in Nat
      /\ o \in Ops
  BY <1>0, CountedTypes, CountedSizes
<1>2. /\ Unit(o) \in {0, 1}
      /\ Size(Pending \ {o}) = Size(Pending) - 1
      /\ Units(Pending \ {o}) = Units(Pending) - Unit(o)
  BY <1>1, OneOut
<1>3. o \notin leaked => Size(leaked \cup {o}) = Size(leaked) + 1
  BY <1>1, OneIn
<1>4. o \notin overdrawn =>
        Size(overdrawn \cup ({o} \cap Dispatched)) = Size(overdrawn) + Unit(o)
  <2> SUFFICES ASSUME o \notin overdrawn
               PROVE  Size(overdrawn \cup ({o} \cap Dispatched)) = Size(overdrawn) + Unit(o)
    OBVIOUS
  <2>1. CASE o \in Dispatched
    <3>1. {o} \cap Dispatched = {o} /\ Unit(o) = 1
      BY <2>1 DEF Unit
    <3> QED BY <1>1, <3>1, OneIn
  <2>2. CASE o \notin Dispatched
    <3>1. overdrawn \cup ({o} \cap Dispatched) = overdrawn /\ Unit(o) = 0
      BY <2>2 DEF Unit
    <3>2. Size(overdrawn \cup ({o} \cap Dispatched)) = Size(overdrawn)
      BY <3>1
    <3> QED BY <1>1, <3>1, <3>2
  <2> QED BY <2>1, <2>2
<1>5. work' = Sum(Pending', Raw', Made', leaked', overdrawn')
  <2>1. /\ Raw' = Raw /\ Made' = Made
        /\ Size(Pending') = Size(Pending) - 1
        /\ Units(Pending') = Units(Pending) - Unit(o)
    BY <1>2
  <2>2. CASE UNCHANGED <<leaked, overdrawn>> /\ work' = work - Unit(o) - 1
    BY <1>0, <1>1, <1>2, <2>1, <2>2 DEF Sum
  <2>3. CASE /\ leaked' = leaked \cup {o} /\ o \notin leaked
             /\ overdrawn' = overdrawn /\ work' = work - Unit(o)
    <3>1. Size(leaked') = Size(leaked) + 1
      BY <1>3, <2>3
    <3> QED BY <1>0, <1>1, <1>2, <2>1, <2>3, <3>1 DEF Sum
  <2>4. CASE /\ overdrawn' = overdrawn \cup ({o} \cap Dispatched) /\ o \notin overdrawn
             /\ leaked' = leaked /\ work' = work - 2 * Unit(o) - 1
    <3>1. Size(overdrawn') = Size(overdrawn) + Unit(o)
      BY <1>4, <2>4
    <3> QED BY <1>0, <1>1, <1>2, <2>1, <2>4, <3>1 DEF Sum
  <2> QED BY <2>2, <2>3, <2>4
<1> QED BY <1>5, WorkIsNext DEF UnitsInv

(* do_complete ends by an exception of the copy, before the upcall.        *)
LEMMA CopyThrowsUnits ==
  ASSUME TypeOK, TakesOwn, UnitsInv, NEW t \in Threads, CopyThrows(t)
  PROVE  UnitsInv'
<1> DEFINE f == Top(t)
<1>0. CallsOwn
  BY DEF UnitsInv
<1>1. f \in Frames
  BY TopRuns DEF CopyThrows, Doing
<1>a. PICK o \in Ops : o = job[f].op
  BY <1>1 DEF CopyThrows, Doing, TakesOwn
<1>2. /\ job[f].step = "copy" /\ o \in Ops /\ op[o] = "taken"
      /\ op' = [op EXCEPT ![o] = "gone"]
      /\ job' = [job EXCEPT ![f] = Idle]
      /\ work' = work - Unit(o) - 1
      /\ UNCHANGED <<overdrawn, leaked>>
  BY <1>1, <1>a DEF CopyThrows, Doing, Current, TakesOwn
<1>3. Called' = Called
  <2>1. job[f].step # "call" /\ Idle.step # "call"
    BY <1>2 DEF Idle
  <2> QED BY <1>1, <1>2, <2>1, CalledSame
<1>4. /\ op'[o] = "gone" /\ \A p \in Ops : p # o => op'[p] = op[p]
      /\ job'[f] = Idle /\ Idle.step # "call"
      /\ \A g \in Frames : g # f => job'[g] = job[g]
  BY <1>1, <1>2 DEF TypeOK, Idle
<1>5. overdrawn \subseteq Ops /\ leaked \subseteq Ops
  BY DEF TypeOK
<1>6. CallsOwn'
  BY <1>0, <1>2, <1>4, <1>5 DEF CallsOwn
<1>7. Raw' = Raw \ {o} /\ Made' = Made \ {o} /\ Waiting' = Waiting \ {o}
  <2>1. o \in Ops /\ op' = [op EXCEPT ![o] = "gone"]
    BY <1>2
  <2> QED BY <2>1, OpLeaves
<1>8. o \notin Called
  BY <1>0, <1>2, CountedTypes
<1>9. Raw' = Raw /\ Made' = Made /\ Pending' = Pending \ {o} /\ o \in Pending
  BY <1>2, <1>3, <1>7, <1>8 DEF Raw, Made, Pending, Waiting
<1> QED BY <1>2, <1>6, <1>9, GivenBack

(* The handler returns, or throws.                                         *)
LEMMA CallUnits ==
  ASSUME TypeOK, UnitsInv, NEW t \in Threads, Return(t) \/ HandlerThrows(t)
  PROVE  UnitsInv'
<1> DEFINE f == Top(t)
<1>0. CallsOwn
  BY DEF UnitsInv
<1>1. f \in Frames
  BY TopRuns DEF Return, HandlerThrows, Doing
<1>a. PICK o \in Ops : o = job[f].op
  BY <1>0, <1>1 DEF Return, HandlerThrows, Doing, CallsOwn
<1>2. /\ job[f].step = "call" /\ o \in Ops /\ op[o] = "gone" /\ o \notin overdrawn
      /\ job' = [job EXCEPT ![f] = Idle] /\ op' = op /\ leaked' = leaked
  BY <1>0, <1>1, <1>a DEF Return, HandlerThrows, Doing, CallsOwn
<1>3. \/ overdrawn' = overdrawn /\ work' = work - Unit(o) - 1
      \/ /\ overdrawn' = overdrawn \cup ({o} \cap Dispatched)
         /\ work' = work - 2 * Unit(o) - 1
  BY <1>a DEF Return, HandlerThrows, Current
<1>4. Called' = Called \ {o}
  BY <1>0, <1>1, <1>2, <1>a, CalledLess
<1>5. /\ job'[f] = Idle /\ Idle.step # "call"
      /\ \A g \in Frames : g # f => job'[g] = job[g]
  BY <1>1, <1>2 DEF TypeOK, Idle
<1>6. o \in Called
  BY <1>1, <1>2, <1>a DEF Called
<1>7. CallsOwn'
  <2>1. \A g \in Frames : job'[g].step = "call" =>
          g # f /\ job'[g] = job[g] /\ job[g].op # o
    BY <1>0, <1>1, <1>2, <1>5, <1>a DEF CallsOwn
  <2>2. \A p \in overdrawn' : p \in overdrawn \/ p = o
    BY <1>3
  <2> HIDE DEF f
  <2> QED BY <1>0, <1>2, <2>1, <2>2 DEF CallsOwn
<1> HIDE DEF f
<1>8. Raw' = Raw /\ Made' = Made /\ Waiting' = Waiting
  BY <1>2 DEF Raw, Made, Waiting
<1>9. Pending' = Pending \ {o} /\ o \in Pending
  BY <1>2, <1>4, <1>6, <1>8 DEF Pending, Waiting
<1> QED BY <1>2, <1>3, <1>7, <1>8, <1>9, GivenBack

(* shutdown() destroys a queued operation: its own unit is never given     *)
(* back.                                                                   *)
LEMMA DestroyUnits ==
  ASSUME TypeOK, UnitsInv, NEW t \in Threads, NEW o \in Ops, Destroy(t, o)
  PROVE  UnitsInv'
<1>0. CallsOwn
  BY DEF UnitsInv
<1>1. /\ op[o] = "queued" /\ op' = [op EXCEPT ![o] = "destroyed"]
      /\ work' = work - Unit(o) /\ leaked' = leaked \cup {o}
      /\ UNCHANGED <<job, overdrawn>>
  BY DEF Destroy
<1>2. /\ op'[o] = "destroyed" /\ \A p \in Ops : p # o => op'[p] = op[p]
      /\ overdrawn \subseteq Ops /\ leaked \subseteq Ops
  BY <1>1 DEF TypeOK
<1>3. CallsOwn' /\ o \notin leaked
  <2>1. o \notin leaked /\ o \notin overdrawn
    BY <1>0, <1>1 DEF CallsOwn
  <2>2. \A p \in leaked' : op'[p] \in {"gone", "destroyed"}
    BY <1>0, <1>1, <1>2 DEF CallsOwn
  <2>3. \A p \in Ops : op[p] = "gone" => op'[p] = "gone"
    BY <1>1, <1>2
  <2>4. \A f \in Frames : job'[f].step = "call" =>
          /\ job'[f].op \in Ops /\ op'[job'[f].op] = "gone"
          /\ job'[f].op \notin overdrawn'
    BY <1>0, <1>1, <2>3 DEF CallsOwn
  <2>5. \A p \in overdrawn' : op'[p] = "gone"
    BY <1>0, <1>1, <1>2, <2>3 DEF CallsOwn
  <2>6. \A f, g \in Frames :
          job'[f].step = "call" /\ job'[g].step = "call" /\ job'[f].op = job'[g].op
            => f = g
    BY <1>0, <1>1 DEF CallsOwn
  <2>7. CallsOwn'
    BY <2>2, <2>4, <2>5, <2>6 DEF CallsOwn
  <2> QED BY <2>1, <2>7
<1>4. Raw' = Raw \ {o} /\ Made' = Made \ {o} /\ Waiting' = Waiting \ {o}
  BY <1>1, OpLeaves
<1>5. Called' = Called /\ o \notin Called
  BY <1>0, <1>1, CountedTypes DEF Called
<1>6. Raw' = Raw /\ Made' = Made /\ Pending' = Pending \ {o} /\ o \in Pending
  BY <1>1, <1>4, <1>5 DEF Raw, Made, Pending, Waiting
<1> QED BY <1>1, <1>3, <1>6, GivenBack

(* Every step keeps the account.                                           *)
LEMMA UnitsStep ==
  ASSUME OpInv, UnitsInv, [Next]_vars
  PROVE  UnitsInv'
<1>1. CASE UNCHANGED vars
  BY <1>1, UnitsSame DEF vars, historyVars
<1>2. CASE Next
  <2>1. TypeOK /\ TakesOwn
    BY <1>2 DEF OpInv, Next
  <2>2. PICK t \in Threads :
          \/ Construct(t) \/ ConstructThrows(t) \/ Push(t) \/ PushThrows(t)
          \/ CopyHandler(t) \/ CopyThrows(t) \/ Return(t) \/ HandlerThrows(t)
          \/ Leave(t)
          \/ \E f \in Frames : Enter(t, f)
          \/ \E o \in Ops : Allocate(t, o) \/ Take(t, o) \/ Destroy(t, o)
    BY <1>2 DEF Next
  <2>3. CASE Leave(t) \/ \E f \in Frames : Enter(t, f)
    BY <2>3, UnitsSame DEF Leave, Enter, historyVars
  <2> QED BY <2>1, <2>2, <2>3, PostUnits, TakeUnits, CopyThrowsUnits, CallUnits,
             DestroyUnits
<1> QED BY <1>1, <1>2

(* No work and no operation.                                               *)
LEMMA UnitsInit == Init => UnitsInv
<1> SUFFICES ASSUME Init PROVE UnitsInv
  OBVIOUS
<1>1. Pending = {} /\ Raw = {} /\ Made = {} /\ leaked = {} /\ overdrawn = {} /\ work = 0
  BY DEF Init, Pending, Raw, Made, Waiting, Called, Idle
<1>2. Size({}) = 0 /\ Units({}) = 0
  BY FS_EmptySet DEF Size, Units
<1>3. work = Sum(Pending, Raw, Made, leaked, overdrawn)
  BY <1>1, <1>2 DEF Sum
<1>4. CallsOwn
  BY DEF Init, CallsOwn, Idle
<1> QED BY <1>3, <1>4, WorkIs DEF UnitsInv

(* executor_op, work_dispatcher and executor_work_guard: outstanding_work_ *)
(* is what waits or runs and the guards of its dispatchers, short by one   *)
(* for each dispatcher that returned and over by one for each operation    *)
(* that could not be queued or was destroyed in the queue, whatever throws.*)
THEOREM WorkIsAccounted == Spec => []WorkAccounted
<1>1. Init => OpInv /\ UnitsInv
  BY InitHolds, UnitsInit
<1>2. OpInv /\ UnitsInv /\ [Next]_vars => OpInv' /\ UnitsInv'
  BY NextKeeps, UnitsStep
<1>3. UnitsInv => WorkAccounted
  BY DEF UnitsInv
<1> QED BY <1>1, <1>2, <1>3, PTL DEF Spec
=============================================================================
