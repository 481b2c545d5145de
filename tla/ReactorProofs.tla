---------------------------- MODULE ReactorProofs ----------------------------
(***************************************************************************)
(* Proofs about EpollReactor, for any finite sets of threads, clients,     *)
(* descriptors and operations, and any way the operations are laid out on  *)
(* the descriptors.                                                        *)
(*                                                                         *)
(* The invariant has three parts.  PlaceInv says which operations and      *)
(* descriptors are in which list: that no list has one twice, and that no  *)
(* two lists share one.  WorkCounted and EnoughWork relate the work count  *)
(* to the lists: the shared count plus what threads hold privately is      *)
(* exactly what there is to do, and the shared count alone is enough for   *)
(* everything that is not held privately, so that it never falls below     *)
(* zero and is zero only when nothing is left.  StopInv says what is left  *)
(* then.  First come lemmas about lists, then the types, then what each    *)
(* action moves from list to list (ListsBecome); all that is about work    *)
(* follows from that and from the sizes of the lists.  Last comes EdgeInv, *)
(* about the edges epoll reports once, which rests on the types and on     *)
(* PlaceInv.                                                               *)
(***************************************************************************)
EXTENDS EpollReactor, SequenceTheorems, FiniteSetTheorems, TLAPS

-----------------------------------------------------------------------------
(***************************************************************************)
(* The lists operations are in.                                            *)
(***************************************************************************)

(* No operation is in the list q twice.                                    *)
NoneTwice(q) == \A i, j \in DOMAIN q : q[i] = q[j] => i = j

(* The operations that wait in descriptors, and those that callers hold or *)
(* threads have in their private queues.                                   *)
InDesc(ds)     == {o \in Ops : o \in Range(ds[Desc[o]].pending[Kind[o]])}
InPosting(p)   == UNION {Range(p[c].ops) : c \in Callers}
InPrivate(h)   == UNION {Range(h[t].queue) : t \in Threads}
StartedOps(s)  == {o \in Ops : s[o] = "started"}

(* An operation waits in the queue of its descriptor and kind, once; only  *)
(* a descriptor in use has operations that wait.                           *)
DescOK(ds) ==
  \A d \in Descriptors, k \in Kinds :
    /\ NoneTwice(ds[d].pending[k])
    /\ \A o \in Range(ds[d].pending[k]) : Desc[o] = d /\ Kind[o] = k
    /\ ds[d].state # "live" => ds[d].pending[k] = <<>>

(* A caller posts from a handler, or while a guard is alive, and at once   *)
(* one operation only.                                                     *)
PostingOK(p, h, g) ==
  \A c \in Callers :
    /\ NoneTwice(p[c].ops)
    /\ p[c].how = "none" => p[c].ops = <<>>
    /\ p[c].how = "immediate" => \E o \in Ops : p[c].ops = <<o>>
    /\ p[c].how # "none" => IF c \in Threads THEN h[c].pc = "handler" ELSE g
    /\ \A e \in Callers : c # e => Range(p[c].ops) \cap Range(p[e].ops) = {}

(* What a thread has at each step: descriptors when it returns from        *)
(* epoll_wait, operations only in a handler, and units of work for no      *)
(* fewer than its operations.                                              *)
ThreadOK(x) ==
  /\ NoneTwice(x.queue)
  /\ x.pc \notin {"handler", "cleanup"} => x.queue = <<>>
  /\ x.pc = "cleanup" => Range(x.queue) \subseteq Descriptors
  /\ x.pc = "handler" => Range(x.queue) \subseteq Ops
  /\ x.pc = "handler" => Len(x.queue) <= x.work
  /\ x.pc = "finish" => x.work = 1
  /\ x.pc \notin {"handler", "finish"} => x.work = 0
  /\ x.pc \in {"popped", "perform"} => x.base \in Descriptors

ThreadsOK(h) ==
  \A t \in Threads :
    /\ ThreadOK(h[t])
    /\ \A u \in Threads : t # u => Range(h[t].queue) \cap Range(h[u].queue) = {}

(* The task is in the queue or run by one thread, and the descriptors of   *)
(* the last epoll_wait come before it.                                     *)
RunsTask(h, t) == h[t].pc \in {"task", "cleanup"}
TaskOK(q, h) ==
  /\ \A i, j \in DOMAIN q : i < j /\ q[i] = TaskOp => q[j] \notin Descriptors
  /\ \A t \in Threads : RunsTask(h, t) =>
       /\ \A u \in Threads : RunsTask(h, u) => t = u
       /\ \A i \in DOMAIN q : q[i] # TaskOp /\ q[i] \notin Descriptors

(* Every list has started operations only, and no two have the same one.   *)
Apart(D, Q, P, V, S) ==
  /\ D \cup (Q \cap Ops) \cup P \cup (V \cap Ops) \subseteq S
  /\ D \cap Q = {} /\ D \cap P = {} /\ D \cap V = {}
  /\ Q \cap P = {} /\ Q \cap V = {} /\ P \cap V = {}

Spread(ds, q, p, h, s) ==
  Apart(InDesc(ds), Range(q), InPosting(p), InPrivate(h), StartedOps(s))

(* Without one_thread_ every started operation is in one.                  *)
NoneLost ==
  ~OneThread => StartedOps(status) \subseteq
    InDesc(desc) \cup Range(op_queue_) \cup InPosting(posting) \cup InPrivate(th)

PlaceInv ==
  /\ DescOK(desc) /\ PostingOK(posting, th, guard) /\ ThreadsOK(th)
  /\ NoneTwice(op_queue_) /\ TaskOK(op_queue_, th)
  /\ Spread(desc, op_queue_, posting, th, status)

(***************************************************************************)
(* Work.                                                                   *)
(***************************************************************************)

Refused(p) == {o \in Ops : \E c \in Callers :
                 p[c].how = "immediate" /\ o \in Range(p[c].ops)}
Owing(h)   == {t \in Threads : h[t].pc \in {"handler", "finish"}}
Handling(h) == {t \in Threads : h[t].pc = "handler"}

(* The operations whose units threads do not hold privately.               *)
Shared(ds, q, p) ==
  InDesc(ds) \cup (Range(q) \cap Ops) \cup (InPosting(p) \ Refused(p))

(* The shared count alone is enough for the guard, the handlers and the    *)
(* operations that no thread holds privately.                              *)
EnoughWork ==
  outstanding_work_ >= (IF guard THEN 1 ELSE 0) + Cardinality(Handling(th))
                         + Cardinality(Shared(desc, op_queue_, posting))

-----------------------------------------------------------------------------
(* Lists of operations.                                                    *)

(* An empty list has nothing in it.                                        *)
LEMMA EmptyList == Range(<<>>) = {} /\ NoneTwice(<<>>)
BY DEF Range, NoneTwice

(* A list of one.                                                          *)
LEMMA OneList ==
  ASSUME NEW S, NEW x \in S
  PROVE  <<x>> \in Seq(S) /\ Range(<<x>>) = {x} /\ NoneTwice(<<x>>)
BY DEF Range, NoneTwice

(* A list that grows at its end.                                           *)
LEMMA AppendList ==
  ASSUME NEW S, NEW q \in Seq(S), NEW x \in S
  PROVE  /\ Append(q, x) \in Seq(S)
         /\ Range(Append(q, x)) = Range(q) \cup {x}
         /\ NoneTwice(q) /\ x \notin Range(q) => NoneTwice(Append(q, x))
<1> DEFINE r == Append(q, x)
<1>1. /\ r \in Seq(S) /\ Len(r) = Len(q) + 1 /\ Len(q) \in Nat
      /\ \A i \in 1 .. Len(q) : r[i] = q[i]
      /\ r[Len(q) + 1] = x
  BY AppendProperties, LenProperties
<1>2. DOMAIN q = 1 .. Len(q) /\ DOMAIN r = 1 .. Len(r)
  BY <1>1, LenProperties
<1> HIDE DEF r
<1>3. Range(r) = Range(q) \cup {x}
  BY <1>1, <1>2 DEF Range
<1>4. NoneTwice(q) /\ x \notin Range(q) => NoneTwice(r)
  BY <1>1, <1>2 DEF Range, NoneTwice
<1> QED BY <1>1, <1>3, <1>4 DEF r

(* Two lists together: what is in them, and when nothing is in it twice.   *)
LEMMA ConcatList ==
  ASSUME NEW S, NEW q \in Seq(S), NEW u \in Seq(S)
  PROVE  /\ q \o u \in Seq(S)
         /\ Range(q \o u) = Range(q) \cup Range(u)
         /\ NoneTwice(q) /\ NoneTwice(u) /\ Range(q) \cap Range(u) = {}
              => NoneTwice(q \o u)
<1> DEFINE r == q \o u
<1>1. /\ r \in Seq(S) /\ Len(r) = Len(q) + Len(u)
      /\ Len(q) \in Nat /\ Len(u) \in Nat
      /\ \A i \in 1 .. Len(q) + Len(u) :
           r[i] = IF i <= Len(q) THEN q[i] ELSE u[i - Len(q)]
  BY ConcatProperties, LenProperties
<1>2. /\ DOMAIN q = 1 .. Len(q) /\ DOMAIN u = 1 .. Len(u)
      /\ DOMAIN r = 1 .. Len(q) + Len(u)
  BY <1>1, LenProperties
<1> HIDE DEF r
<1>3. /\ \A i \in DOMAIN q : i \in DOMAIN r /\ r[i] = q[i]
      /\ \A i \in DOMAIN u : Len(q) + i \in DOMAIN r /\ r[Len(q) + i] = u[i]
      /\ \A i \in DOMAIN r : \/ i \in DOMAIN q /\ r[i] = q[i]
                             \/ /\ i - Len(q) \in DOMAIN u
                                /\ r[i] = u[i - Len(q)]
  BY <1>1, <1>2
<1>4. Range(r) = Range(q) \cup Range(u)
  BY <1>3 DEF Range
<1>5. ASSUME NoneTwice(q), NoneTwice(u), Range(q) \cap Range(u) = {}
      PROVE  NoneTwice(r)
  <2> SUFFICES ASSUME NEW i \in DOMAIN r, NEW j \in DOMAIN r, r[i] = r[j]
               PROVE  i = j
    BY DEF NoneTwice
  <2>1. CASE i \in DOMAIN q /\ r[i] = q[i] /\ j \in DOMAIN q /\ r[j] = q[j]
    BY <1>5, <2>1 DEF NoneTwice
  <2>2. CASE /\ i - Len(q) \in DOMAIN u /\ r[i] = u[i - Len(q)]
             /\ j - Len(q) \in DOMAIN u /\ r[j] = u[j - Len(q)]
    <3>1. i - Len(q) = j - Len(q)
      BY <1>5, <2>2 DEF NoneTwice
    <3> QED BY <1>1, <1>2, <3>1
  <2>3. \A a \in DOMAIN q, b \in DOMAIN u : q[a] # u[b]
    BY <1>5 DEF Range
  <2> QED BY <1>3, <2>1, <2>2, <2>3
<1> QED BY <1>1, <1>4, <1>5 DEF r

(* A list without its front.                                               *)
LEMMA TailList ==
  ASSUME NEW S, NEW q \in Seq(S), q # <<>>
  PROVE  /\ Head(q) \in S /\ Tail(q) \in Seq(S)
         /\ Range(q) = {Head(q)} \cup Range(Tail(q))
         /\ NoneTwice(q) => NoneTwice(Tail(q)) /\ Head(q) \notin Range(Tail(q))
         /\ Len(Tail(q)) = Len(q) - 1 /\ Len(q) \in Nat \ {0} /\ Head(q) = q[1]
         /\ \A i \in DOMAIN Tail(q) : i + 1 \in DOMAIN q /\ Tail(q)[i] = q[i + 1]
<1> DEFINE r == Tail(q)
<1>1. /\ Head(q) \in S /\ r \in Seq(S) /\ Len(r) = Len(q) - 1
      /\ \A i \in 1 .. Len(r) : r[i] = q[i + 1]
  BY HeadTailProperties
<1>2. /\ Len(q) \in Nat /\ Len(q) # 0 /\ Head(q) = q[1]
  BY EmptySeq
<1>3. DOMAIN q = 1 .. Len(q) /\ DOMAIN r = 1 .. Len(r)
  BY <1>1, LenProperties
<1> HIDE DEF r
<1>4. /\ \A i \in DOMAIN r : i + 1 \in DOMAIN q /\ i + 1 # 1 /\ r[i] = q[i + 1]
      /\ \A i \in DOMAIN q : i # 1 => i - 1 \in DOMAIN r /\ r[i - 1] = q[i]
      /\ 1 \in DOMAIN q
  BY <1>1, <1>2, <1>3
<1>5. Range(q) = {Head(q)} \cup Range(r)
  BY <1>2, <1>4 DEF Range
<1>6. ASSUME NoneTwice(q) PROVE NoneTwice(r)
  <2> SUFFICES ASSUME NEW i \in DOMAIN r, NEW j \in DOMAIN r, r[i] = r[j]
               PROVE  i = j
    BY DEF NoneTwice
  <2>1. i + 1 = j + 1
    BY <1>4, <1>6 DEF NoneTwice
  <2> QED BY <1>1, <1>3, <2>1
<1>7. NoneTwice(q) => Head(q) \notin Range(r)
  BY <1>2, <1>4 DEF Range, NoneTwice
<1> QED BY <1>1, <1>2, <1>4, <1>5, <1>6, <1>7 DEF r

(* The first n of a list, and the others.                                  *)
LEMMA SplitList ==
  ASSUME NEW S, NEW q \in Seq(S), NEW n \in 0 .. Len(q)
  PROVE  /\ SubSeq(q, 1, n) \in Seq(S) /\ SubSeq(q, n + 1, Len(q)) \in Seq(S)
         /\ Len(SubSeq(q, 1, n)) = n
         /\ Range(q) = Range(SubSeq(q, 1, n)) \cup Range(SubSeq(q, n + 1, Len(q)))
         /\ NoneTwice(q) =>
              /\ NoneTwice(SubSeq(q, 1, n)) /\ NoneTwice(SubSeq(q, n + 1, Len(q)))
              /\ Range(SubSeq(q, 1, n)) \cap Range(SubSeq(q, n + 1, Len(q))) = {}
<1> DEFINE a == SubSeq(q, 1, n)  b == SubSeq(q, n + 1, Len(q))
<1>0. Len(q) \in Nat /\ n \in Nat /\ DOMAIN q = 1 .. Len(q)
  BY LenProperties
<1>1. /\ a \in Seq(S) /\ Len(a) = n /\ \A i \in 1 .. n : a[i] = q[i]
  <2>1. \A i \in 1 .. n : i \in 1 .. Len(q)
    BY <1>0
  <2> QED BY <1>0, <2>1
<1>2. /\ b \in Seq(S) /\ Len(b) = Len(q) - n
      /\ \A i \in 1 .. Len(q) - n : b[i] = q[i + n]
  <2> DEFINE m == n + 1
  <2>1. /\ m \in 1 .. Len(q) + 1 /\ Len(q) \in m - 1 .. Len(q)
        /\ m \in Nat /\ m - 1 = n
    BY <1>0
  <2> HIDE DEF m
  <2>2. /\ SubSeq(q, m, Len(q)) \in Seq(S)
        /\ Len(SubSeq(q, m, Len(q))) = Len(q) - m + 1
        /\ \A i \in 1 .. Len(q) - m + 1 : SubSeq(q, m, Len(q))[i] = q[m + i - 1]
    BY <2>1, SubSeqProperties
  <2>3. Len(q) - m + 1 = Len(q) - n /\ \A i \in Nat : m + i - 1 = i + n
    BY <1>0, <2>1
  <2> DEFINE r == SubSeq(q, m, Len(q))
  <2> HIDE DEF r
  <2>4. r \in Seq(S) /\ Len(r) = Len(q) - m + 1
        /\ \A i \in 1 .. Len(q) - m + 1 : r[i] = q[m + i - 1]
    BY <2>2 DEF r
  <2>5. r \in Seq(S) /\ Len(r) = Len(q) - n
        /\ \A i \in 1 .. Len(q) - n : r[i] = q[i + n]
    BY <1>0, <2>3, <2>4
  <2> QED BY <2>5 DEF r, m
<1>3. DOMAIN a = 1 .. n /\ DOMAIN b = 1 .. Len(q) - n
  BY <1>1, <1>2, LenProperties
<1> HIDE DEF a, b
<1>4. /\ \A i \in DOMAIN a : i \in DOMAIN q /\ a[i] = q[i] /\ i <= n
      /\ \A i \in DOMAIN b : i + n \in DOMAIN q /\ b[i] = q[i + n] /\ i + n > n
      /\ \A i \in DOMAIN q : \/ i \in DOMAIN a /\ a[i] = q[i]
                             \/ i - n \in DOMAIN b /\ b[i - n] = q[i]
  BY <1>0, <1>1, <1>2, <1>3
<1>5. Range(q) = Range(a) \cup Range(b)
  BY <1>4 DEF Range
<1>6. ASSUME NoneTwice(q)
      PROVE  NoneTwice(a) /\ NoneTwice(b) /\ Range(a) \cap Range(b) = {}
  <2>1. NoneTwice(a)
    BY <1>4, <1>6 DEF NoneTwice
  <2>2. NoneTwice(b)
    <3> SUFFICES ASSUME NEW i \in DOMAIN b, NEW j \in DOMAIN b, b[i] = b[j]
                 PROVE  i = j
      BY DEF NoneTwice
    <3>1. i + n = j + n
      BY <1>4, <1>6 DEF NoneTwice
    <3> QED BY <1>0, <1>3, <3>1
  <2>3. ASSUME NEW i \in DOMAIN a, NEW j \in DOMAIN b, a[i] = b[j] PROVE FALSE
    <3>1. i = j + n
      BY <1>4, <1>6, <2>3 DEF NoneTwice
    <3> QED BY <1>0, <1>3, <1>4, <3>1
  <2> QED BY <2>1, <2>2, <2>3 DEF Range
<1> QED BY <1>1, <1>2, <1>5, <1>6 DEF a, b

-----------------------------------------------------------------------------
(* Types.                                                                  *)

DescType == [handle : BOOLEAN, state : {"none", "live", "shut"},
             registered : SUBSET EventBits, pending : [Kinds -> Seq(Ops)],
             speculative : [Kinds -> BOOLEAN], result : SUBSET Conditions]
KernType == [ready : SUBSET Conditions, interest : SUBSET EventBits,
             armed : BOOLEAN, told : SUBSET Kinds]
ThType   == [pc : {"loop", "task", "cleanup", "popped", "perform", "handler",
                   "finish", "gone"},
             base : Descriptors \cup {NoOp}, events : SUBSET Conditions,
             work : Nat, queue : Seq(Descriptors \cup Ops)]
PostType == [how : {"none", "immediate", "deferred"}, ops : Seq(Ops)]

(* Watch returns the state of an epoll item.                               *)
LEMMA WatchType ==
  ASSUME NEW k \in KernType, NEW bits \in SUBSET EventBits
  PROVE  Watch(k, bits) \in KernType
BY DEF Watch, KernType

(* Mask returns conditions.                                                *)
LEMMA MaskType ==
  ASSUME NEW k \in KernType
  PROVE  Mask(k) \in SUBSET Conditions
BY DEF Mask, KernType, Conditions

(* What a caller notes to post is of the type of posting.                  *)
LEMMA PostType1 ==
  ASSUME TypeOK, NEW c \in Callers, NEW how \in {"none", "immediate", "deferred"},
         NEW ops \in Seq(Ops), PostBy(c, how, ops)
  PROVE  posting' \in [Callers -> PostType]
BY DEF TypeOK, PostBy, PostType

(* perform() is done for as many operations as there were, at most.        *)
LEMMA OutcomesType ==
  ASSUME TypeOK, NEW d \in Descriptors, NEW k \in Kinds, NEW n \in Nat,
         NEW o \in Outcomes(d, k, n)
  PROVE  /\ o.done \in 0 .. n /\ o.exhausted \in BOOLEAN
         /\ o.left \in SUBSET Conditions
<1>1. kern[d].ready \in SUBSET Conditions /\ Stream \in BOOLEAN
  BY ReactorAssumption DEF TypeOK
<1>2. Flag[k] \in Conditions
  BY DEF Flag, Kinds, Conditions
<1> DEFINE ready == kern[d].ready
           drained == ready \ {Flag[k]}
<1>3. ready \in SUBSET Conditions /\ drained \in SUBSET Conditions
  BY <1>1
<1>4. CASE n = 0 \/ ready \cap {Flag[k], "hup"} = {}
  <2>1. o = [done |-> 0, exhausted |-> FALSE, left |-> ready]
    BY <1>4 DEF Outcomes
  <2> QED BY <1>3, <2>1
<1>5. CASE ~(n = 0 \/ ready \cap {Flag[k], "hup"} = {}) /\ "hup" \in ready
  <2>1. o = [done |-> IF Stream THEN 1 ELSE n, exhausted |-> Stream, left |-> ready]
    BY <1>5 DEF Outcomes
  <2>2. o.done = (IF Stream THEN 1 ELSE n) /\ o.exhausted = Stream /\ o.left = ready
    BY <2>1
  <2> QED BY <1>1, <1>3, <1>5, <2>2
<1>6. CASE ~(n = 0 \/ ready \cap {Flag[k], "hup"} = {}) /\ "hup" \notin ready
  <2>1. o \in [done : 1..n, exhausted : BOOLEAN, left : {ready, drained}]
    BY <1>6 DEF Outcomes
  <2>2. o.done \in 1 .. n /\ o.exhausted \in BOOLEAN /\ o.left \in {ready, drained}
    BY <2>1
  <2> QED BY <1>3, <2>2
<1> QED BY <1>4, <1>5, <1>6

(* The operations that wait in a descriptor are a list of operations.      *)
LEMMA WaitingType ==
  ASSUME TypeOK, NEW d \in Descriptors
  PROVE  /\ Waiting(desc[d]) \in Seq(Ops)
         /\ Range(Waiting(desc[d])) = Range(desc[d].pending["read"])
              \cup Range(desc[d].pending["write"]) \cup Range(desc[d].pending["except"])
<1>1. \A k \in Kinds : desc[d].pending[k] \in Seq(Ops)
  BY DEF TypeOK
<1> DEFINE r == desc[d].pending["read"]  w == desc[d].pending["write"]
           x == desc[d].pending["except"]
<1>2. r \in Seq(Ops) /\ w \in Seq(Ops) /\ x \in Seq(Ops)
  BY <1>1 DEF Kinds
<1> HIDE DEF r, w, x
<1>3. r \o w \in Seq(Ops) /\ Range(r \o w) = Range(r) \cup Range(w)
  BY <1>2, ConcatList
<1> DEFINE rw == r \o w
<1> HIDE DEF rw
<1>4. rw \in Seq(Ops) /\ Range(rw) = Range(r) \cup Range(w)
  BY <1>3 DEF rw
<1>5. /\ rw \o x \in Seq(Ops)
      /\ Range(rw \o x) = Range(rw) \cup Range(x)
  BY <1>2, <1>4, ConcatList
<1>6. Waiting(desc[d]) = rw \o x
  BY DEF Waiting, rw, r, w, x
<1>7. Range(Waiting(desc[d])) = Range(r) \cup Range(w) \cup Range(x)
  BY <1>4, <1>5, <1>6
<1> QED BY <1>5, <1>6, <1>7 DEF r, w, x

(* register_descriptor keeps the types.                                    *)
LEMMA TypeRegister ==
  ASSUME TypeOK, NEW c \in Callers, NEW d \in Descriptors,
         NEW error \in {"none", "EPERM", "ADD"}, Register(c, d, error)
  PROVE  TypeOK'
<1> DEFINE bits == {"in", "pri", "et"}
<1>1. bits \in SUBSET EventBits
  BY DEF EventBits
<1>2. \A e \in Descriptors : kern[e] \in KernType
  BY DEF TypeOK, KernType
<1>3. Watch(kern[d], bits) \in KernType
  BY <1>1, <1>2, WatchType
<1> HIDE DEF bits
<1>4. kern' \in [Descriptors -> KernType]
  <2>1. kern' = [kern EXCEPT ![d] = Watch(@, bits)] \/ kern' = kern
    BY DEF Register, bits
  <2> QED BY <1>2, <1>3, <2>1 DEF TypeOK
<1>5. desc' \in [Descriptors -> DescType]
  <2>1. PICK r \in SUBSET EventBits :
          desc' = [desc EXCEPT ![d] =
            [handle |-> error # "ADD", state |-> "live", registered |-> r,
             pending |-> [k \in Kinds |-> <<>>],
             speculative |-> [k \in Kinds |-> TRUE], result |-> {}]]
    BY <1>1 DEF Register, bits
  <2> QED BY <2>1 DEF TypeOK, DescType
<1>6. UNCHANGED <<th, posting, op_queue_, outstanding_work_, stopped_, guard,
                  status, fate>>
  BY DEF Register, sched
<1> QED BY <1>4, <1>5, <1>6 DEF TypeOK, KernType, DescType

(* start_op keeps the types, by whichever way it returns.                  *)
LEMMA TypeStart ==
  ASSUME TypeOK, NEW c \in Callers, NEW op \in Ops, StartOp(c, op)
  PROVE  TypeOK'
<1> DEFINE d == Desc[op]
<1>1. d \in Descriptors /\ Kind[op] \in Kinds
  BY ReactorAssumption
<1>2. <<op>> \in Seq(Ops)
  OBVIOUS
<1>3. \A o \in Ops : [status EXCEPT ![op] = "started"] \in [Ops -> {"idle", "started", "done"}]
  BY DEF TypeOK
<1>4. ASSUME StartRefused(c, op) \/ StartModFails(c, op) PROVE TypeOK'
  <2>1. /\ PostBy(c, "immediate", <<op>>)
        /\ status' = [status EXCEPT ![op] = "started"]
        /\ UNCHANGED <<desc, kern, th, op_queue_, outstanding_work_, stopped_, guard, fate>>
    BY <1>4 DEF StartRefused, StartModFails, sched
  <2>2. posting' \in [Callers -> PostType]
    BY <1>2, <2>1, PostType1
  <2> QED BY <1>3, <2>1, <2>2 DEF TypeOK, PostType
<1>5. ASSUME StartPerformed(c, op) PROVE TypeOK'
  <2>1. PICK o \in Outcomes(d, Kind[op], 1) :
       /\ kern' = [kern EXCEPT ![d].ready = o.left,
                               ![d].told = @ \cup Told(d, {Kind[op]})]
       /\ desc' = [desc EXCEPT ![d].speculative[Kind[op]] =
                     ~(o.exhausted /\ desc[d].registered # {})]
    BY <1>5 DEF StartPerformed
  <2>2. /\ PostBy(c, "immediate", <<op>>)
        /\ status' = [status EXCEPT ![op] = "started"]
        /\ UNCHANGED <<th, op_queue_, outstanding_work_, stopped_, guard, fate>>
    BY <1>5 DEF StartPerformed, sched
  <2>3. posting' \in [Callers -> PostType]
    BY <1>2, <2>2, PostType1
  <2>4. o.left \in SUBSET Conditions
    BY <1>1, OutcomesType
  <2>5. kern' \in [Descriptors -> KernType]
    <3>1. Told(d, {Kind[op]}) \in SUBSET Kinds
      BY <1>1 DEF Told
    <3> DEFINE tl == kern[d].told \cup Told(d, {Kind[op]})
               s == [kern[d] EXCEPT !.ready = o.left, !.told = tl]
    <3>2. kern \in [Descriptors -> KernType]
      BY DEF TypeOK, KernType
    <3>3. tl \in SUBSET Kinds
      BY <1>1, <3>1, <3>2 DEF KernType
    <3>4. kern' = [kern EXCEPT ![d] = s]
      BY <1>1, <2>1
    <3> HIDE DEF tl
    <3>5. s \in KernType
      BY <1>1, <2>4, <3>2, <3>3 DEF KernType
    <3> QED BY <3>2, <3>4, <3>5
  <2>6. desc' \in [Descriptors -> DescType]
    <3> DEFINE b == ~(o.exhausted /\ desc[d].registered # {})
               s == [desc[d] EXCEPT !.speculative = [@ EXCEPT ![Kind[op]] = b]]
    <3>1. desc[d] \in DescType /\ b \in BOOLEAN
      BY <1>1 DEF TypeOK, DescType
    <3>2. desc' = [desc EXCEPT ![d] = s]
      BY <1>1, <2>1
    <3> HIDE DEF b
    <3>3. s \in DescType
      BY <1>1, <3>1 DEF DescType
    <3> HIDE DEF s
    <3> QED BY <1>1, <3>2, <3>3 DEF TypeOK, DescType
  <2> QED BY <1>3, <2>2, <2>3, <2>5, <2>6 DEF TypeOK, PostType, KernType, DescType
<1>6. ASSUME StartWaits(c, op) PROVE TypeOK'
  <2>1. /\ NewInterest(op)[1] \in SUBSET EventBits
        /\ NewInterest(op)[2] \in SUBSET EventBits
    <3>1. desc[d].registered \in SUBSET EventBits /\ kern[d].interest \in SUBSET EventBits
      BY <1>1 DEF TypeOK
    <3> QED BY <3>1 DEF NewInterest, EventBits
  <2>2. /\ status' = [status EXCEPT ![op] = "started"]
        /\ outstanding_work_' = outstanding_work_ + 1
        /\ UNCHANGED <<th, posting, op_queue_, stopped_, guard, fate>>
    BY <1>6 DEF StartWaits
  <2>3. PICK r \in SUBSET EventBits :
          desc' = [desc EXCEPT ![d].registered = r,
                               ![d].pending[Kind[op]] = Append(@, op)]
    <3>1. desc[d].registered \in SUBSET EventBits
      BY <1>1 DEF TypeOK
    <3> QED BY <1>6, <2>1, <3>1 DEF StartWaits
  <2>4. \/ kern' = [kern EXCEPT ![d] = Watch(@, NewInterest(op)[2])]
        \/ kern' = kern
    BY <1>6 DEF StartWaits
  <2>5. kern' \in [Descriptors -> KernType]
    <3>1. kern \in [Descriptors -> KernType]
      BY DEF TypeOK, KernType
    <3>2. Watch(kern[d], NewInterest(op)[2]) \in KernType
      BY <1>1, <2>1, <3>1, WatchType
    <3> QED BY <2>4, <3>1, <3>2
  <2>6. desc' \in [Descriptors -> DescType]
    <3> DEFINE p == desc[d].pending
    <3>1. desc[d] \in DescType /\ p \in [Kinds -> Seq(Ops)]
      BY <1>1 DEF TypeOK, DescType
    <3>2. Append(p[Kind[op]], op) \in Seq(Ops)
      BY <1>1, <3>1, AppendList
    <3>3. [p EXCEPT ![Kind[op]] = Append(p[Kind[op]], op)] \in [Kinds -> Seq(Ops)]
      BY <1>1, <3>1, <3>2
    <3> DEFINE pp == [p EXCEPT ![Kind[op]] = Append(p[Kind[op]], op)]
    <3> HIDE DEF pp
    <3> DEFINE s == [desc[d] EXCEPT !.registered = r, !.pending = pp]
    <3>4. desc' = [desc EXCEPT ![d] = s]
      BY <1>1, <2>3 DEF pp
    <3>5. s \in DescType
      BY <3>1, <3>3 DEF DescType, pp
    <3> HIDE DEF s
    <3> QED BY <1>1, <3>4, <3>5 DEF TypeOK, DescType
  <2> QED BY <1>3, <2>2, <2>5, <2>6 DEF TypeOK, KernType, DescType
<1> QED BY <1>4, <1>5, <1>6 DEF StartOp

(* cancel_ops and deregister_descriptor keep the types.                    *)
LEMMA TypeCancel ==
  ASSUME TypeOK, NEW c \in Callers, NEW d \in Descriptors,
         \/ CancelOps(c, d) \/ DropHandle(c, d)
         \/ \E closing \in BOOLEAN : Deregister(c, d, closing)
  PROVE  TypeOK'
<1>1. desc[d] \in DescType /\ desc \in [Descriptors -> DescType]
  BY DEF TypeOK, DescType
<1>2. NonePending \in [Kinds -> Seq(Ops)]
  BY DEF NonePending
<1>3. PostBy(c, "deferred", Waiting(desc[d])) => posting' \in [Callers -> PostType]
  BY WaitingType, PostType1
<1> DEFINE s == [desc[d] EXCEPT !.pending = NonePending]
           u == [desc[d] EXCEPT !.pending = NonePending, !.state = "shut"]
           v == [desc[d] EXCEPT !.handle = FALSE]
<1>4. s \in DescType /\ u \in DescType /\ v \in DescType
  BY <1>1, <1>2 DEF DescType
<1>5. ASSUME CancelOps(c, d) PROVE TypeOK'
  <2>1. desc' = [desc EXCEPT ![d] = s]
    BY <1>1, <1>5 DEF CancelOps
  <2> HIDE DEF s
  <2>2. desc' \in [Descriptors -> DescType]
    BY <1>1, <1>4, <2>1
  <2>3. UNCHANGED <<kern, th, op_queue_, outstanding_work_, stopped_, guard, status, fate>>
    BY <1>5 DEF CancelOps, sched
  <2> QED BY <1>3, <1>5, <2>2, <2>3 DEF TypeOK, DescType, PostType, CancelOps
<1>6. ASSUME NEW closing \in BOOLEAN, Deregister(c, d, closing) PROVE TypeOK'
  <2>1. desc' = [desc EXCEPT ![d] = u]
    BY <1>1, <1>6 DEF Deregister
  <2> HIDE DEF u
  <2>2. desc' \in [Descriptors -> DescType]
    BY <1>1, <1>4, <2>1
  <2>3. UNCHANGED <<th, op_queue_, outstanding_work_, stopped_, guard, status, fate>>
    BY <1>6 DEF Deregister, sched
  <2>4. kern' \in [Descriptors -> KernType]
    <3> DEFINE k == [kern[d] EXCEPT !.interest = {}, !.armed = FALSE]
    <3>1. kern \in [Descriptors -> KernType]
      BY DEF TypeOK, KernType
    <3>2. k \in KernType
      BY <3>1 DEF KernType
    <3>3. kern' = kern \/ kern' = [kern EXCEPT ![d] = k]
      BY <1>6, <3>1 DEF Deregister
    <3> HIDE DEF k
    <3> QED BY <3>1, <3>2, <3>3
  <2> QED BY <1>3, <1>6, <2>2, <2>3, <2>4 DEF TypeOK, DescType, PostType, KernType, Deregister
<1>7. ASSUME DropHandle(c, d) PROVE TypeOK'
  <2>1. desc' = [desc EXCEPT ![d] = v]
    BY <1>1, <1>7 DEF DropHandle
  <2> HIDE DEF v
  <2>2. desc' \in [Descriptors -> DescType]
    BY <1>1, <1>4, <2>1
  <2>3. UNCHANGED <<kern, th, posting, op_queue_, outstanding_work_, stopped_, guard, status, fate>>
    BY <1>7 DEF DropHandle, sched
  <2> QED BY <2>2, <2>3 DEF TypeOK, DescType
<1> QED BY <1>5, <1>6, <1>7

(* post_immediate_completion and post_deferred_completions keep the types. *)
LEMMA TypePost ==
  ASSUME TypeOK, NEW c \in Callers, PostStep(c)
  PROVE  TypeOK'
<1>1. /\ posting[c].ops \in Seq(Ops) /\ op_queue_ \in Seq(Descriptors \cup Ops \cup {TaskOp})
      /\ posting[c].ops \in Seq(Descriptors \cup Ops \cup {TaskOp})
      /\ posting[c].ops \in Seq(Descriptors \cup Ops)
      /\ th \in [Threads -> ThType]
  <2>1. posting[c].ops \in Seq(Ops)
    BY DEF TypeOK
  <2> QED BY <2>1 DEF TypeOK, ThType
<1>2. op_queue_ \o posting[c].ops \in Seq(Descriptors \cup Ops \cup {TaskOp})
  BY <1>1, ConcatList
<1>3. c \in Threads =>
        /\ th[c].queue \o posting[c].ops \in Seq(Descriptors \cup Ops)
        /\ th[c] \in ThType /\ <<>> \in Seq(Descriptors \cup Ops)
  <2>1. c \in Threads => th[c] \in ThType /\ th[c].queue \in Seq(Descriptors \cup Ops)
    BY <1>1 DEF ThType
  <2> QED BY <1>1, <2>1, ConcatList
<1>4. Idle \in PostType
  BY DEF Idle, PostType
<1>5. posting' = [posting EXCEPT ![c] = Idle]
  BY DEF PostStep, PostImmediate, PostDeferred
<1>6. posting' \in [Callers -> PostType]
  BY <1>4, <1>5 DEF TypeOK, PostType
<1>7. UNCHANGED <<desc, kern, guard, status, fate, stopped_>>
  BY DEF PostStep, PostImmediate, PostDeferred, sched
<1>8. op_queue_' \in Seq(Descriptors \cup Ops \cup {TaskOp})
  BY <1>1, <1>2 DEF PostStep, PostImmediate, PostDeferred, sched
<1>9. outstanding_work_' \in Nat
  <2>1. outstanding_work_' \in {outstanding_work_, outstanding_work_ + 1}
    BY DEF PostStep, PostImmediate, PostDeferred, sched
  <2> QED BY <2>1 DEF TypeOK
<1>10. th' \in [Threads -> ThType]
  <2>1. CASE th' = th
    BY <1>1, <2>1
  <2>2. CASE c \in Threads /\ th' = [th EXCEPT ![c].queue = <<>>]
    <3> DEFINE s == [th[c] EXCEPT !.queue = <<>>]
    <3>1. s \in ThType /\ th' = [th EXCEPT ![c] = s]
      BY <1>1, <1>3, <2>2 DEF ThType
    <3> HIDE DEF s
    <3> QED BY <1>1, <3>1
  <2>3. CASE /\ c \in Threads
             /\ th' = [th EXCEPT ![c].work = @ + 1, ![c].queue = @ \o posting[c].ops]
    <3> DEFINE q == th[c].queue \o posting[c].ops
    <3>1. q \in Seq(Descriptors \cup Ops) /\ th[c] \in ThType
      BY <1>3, <2>3
    <3> HIDE DEF q
    <3> DEFINE n == th[c].work + 1
    <3>4. n \in Nat
      BY <3>1 DEF ThType
    <3> HIDE DEF n
    <3> DEFINE s == [th[c] EXCEPT !.work = n, !.queue = q]
    <3>2. th' = [th EXCEPT ![c] = s]
      BY <1>1, <2>3 DEF q, n
    <3>3. s \in ThType
      BY <3>1, <3>4 DEF ThType
    <3> HIDE DEF s
    <3> QED BY <1>1, <3>2, <3>3
  <2> QED
    BY <2>1, <2>2, <2>3 DEF PostStep, PostImmediate, PostDeferred, UsesPrivateQueue
<1> QED BY <1>6, <1>7, <1>8, <1>9, <1>10 DEF TypeOK, ThType, PostType

(* Popping the front of the queue keeps the types.                         *)
LEMMA TypeTake ==
  ASSUME TypeOK, NEW t \in Threads, Take(t)
  PROVE  TypeOK'
<1> DEFINE o == Head(op_queue_)
           pc == IF o = TaskOp THEN "task" ELSE IF o \in Ops THEN "handler" ELSE "popped"
           base == IF o \in Descriptors THEN o ELSE NoOp
<1>1. /\ th' = [th EXCEPT ![t].pc = pc, ![t].base = base]
      /\ status' = IF o \in Ops THEN [status EXCEPT ![o] = "done"] ELSE status
      /\ op_queue_' = Tail(op_queue_) /\ op_queue_ # <<>>
      /\ UNCHANGED <<desc, kern, posting, outstanding_work_, stopped_, guard, fate>>
  BY DEF Take
<1>2. /\ o \in Descriptors \cup Ops \cup {TaskOp}
      /\ op_queue_' \in Seq(Descriptors \cup Ops \cup {TaskOp})
  BY <1>1, TailList DEF TypeOK
<1>3. status' \in [Ops -> {"idle", "started", "done"}]
  BY <1>1 DEF TypeOK
<1>4. th' \in [Threads -> ThType]
  <2>1. /\ pc \in {"loop", "task", "cleanup", "popped", "perform", "handler", "finish", "gone"}
        /\ base \in Descriptors \cup {NoOp} /\ th \in [Threads -> ThType]
    BY DEF TypeOK, ThType
  <2> HIDE DEF pc, base, o
  <2> DEFINE s == [th[t] EXCEPT !.pc = pc, !.base = base]
  <2>2. s \in ThType /\ th' = [th EXCEPT ![t] = s]
    BY <1>1, <2>1 DEF ThType
  <2> HIDE DEF s
  <2> QED BY <2>1, <2>2
<1> QED BY <1>1, <1>2, <1>3, <1>4 DEF TypeOK, ThType

(* epoll_wait has reported some descriptors, in some order.                *)
TaskReports(t, reported, order) ==
  /\ At(t, "task")
  /\ desc' = [d \in Descriptors |->
       IF d \in reported THEN [desc[d] EXCEPT !.result = Mask(kern[d])] ELSE desc[d]]
  /\ kern' = [d \in Descriptors |->
       IF d \in reported THEN [kern[d] EXCEPT !.armed = FALSE] ELSE kern[d]]
  /\ th' = [th EXCEPT ![t].pc = "cleanup", ![t].queue = order]
  /\ UNCHANGED <<posting, sched, guard, status, fate>>

(* How many it reports plays no part in what follows.                      *)
LEMMA TaskIs ==
  ASSUME NEW t \in Threads, TaskRuns(t)
  PROVE  \E reported \in SUBSET Descriptors : \E order \in SetToSeqs(reported) :
           TaskReports(t, reported, order)
<1>1. PICK reported \in SUBSET Descriptors :
        /\ desc' = [d \in Descriptors |->
             IF d \in reported THEN [desc[d] EXCEPT !.result = Mask(kern[d])]
                               ELSE desc[d]]
        /\ kern' = [d \in Descriptors |->
             IF d \in reported THEN [kern[d] EXCEPT !.armed = FALSE]
                               ELSE kern[d]]
        /\ \E order \in SetToSeqs(reported) :
             th' = [th EXCEPT ![t].pc = "cleanup", ![t].queue = order]
  BY DEF TaskRuns
<1>2. At(t, "task") /\ UNCHANGED <<posting, sched, guard, status, fate>>
  BY DEF TaskRuns
<1>3. PICK order \in SetToSeqs(reported) :
        th' = [th EXCEPT ![t].pc = "cleanup", ![t].queue = order]
  BY <1>1
<1>4. TaskReports(t, reported, order)
  BY <1>1, <1>2, <1>3 DEF TaskReports
<1> QED BY <1>4

(* The task, its cleanup and the reading of task_result_ keep the types.   *)
LEMMA TypeTask ==
  ASSUME TypeOK, NEW t \in Threads, TaskRuns(t) \/ TaskCleanup(t) \/ ReadResult(t),
         th[t].pc = "popped" => th[t].base \in Descriptors
  PROVE  TypeOK'
<1>1. /\ th \in [Threads -> ThType] /\ th[t].queue \in Seq(Descriptors \cup Ops)
      /\ desc \in [Descriptors -> DescType] /\ kern \in [Descriptors -> KernType]
  BY DEF TypeOK, ThType, KernType, DescType
<1>2. ASSUME TaskRuns(t) PROVE TypeOK'
  <2>r. PICK reported \in SUBSET Descriptors :
          \E order \in SetToSeqs(reported) : TaskReports(t, reported, order)
    BY <1>2, TaskIs
  <2>0. PICK order \in SetToSeqs(reported) : TaskReports(t, reported, order)
    BY <2>r
  <2>1. /\ desc' = [d \in Descriptors |->
             IF d \in reported THEN [desc[d] EXCEPT !.result = Mask(kern[d])]
                               ELSE desc[d]]
        /\ kern' = [d \in Descriptors |->
             IF d \in reported THEN [kern[d] EXCEPT !.armed = FALSE]
                               ELSE kern[d]]
        /\ UNCHANGED <<posting, op_queue_, outstanding_work_, stopped_, guard, status, fate>>
    BY <2>0 DEF TaskReports, sched
  <2>2. th' = [th EXCEPT ![t].pc = "cleanup", ![t].queue = order]
    BY <2>0 DEF TaskReports
  <2>3. order \in Seq(Descriptors \cup Ops)
    <3>1. IsFiniteSet(reported)
      BY ReactorAssumption, FS_Subset
    <3>2. Cardinality(reported) \in Nat
      BY <3>1, FS_CardinalityType
    <3>3. order \in [1 .. Cardinality(reported) -> Descriptors]
      BY DEF SetToSeqs
    <3> QED BY <3>2, <3>3
  <2>4. desc' \in [Descriptors -> DescType]
    <3>1. ASSUME NEW d \in Descriptors
          PROVE  [desc[d] EXCEPT !.result = Mask(kern[d])] \in DescType
      <4>1. Mask(kern[d]) \in SUBSET Conditions /\ desc[d] \in DescType
        BY <1>1, MaskType
      <4> QED BY <4>1 DEF DescType
    <3> QED BY <1>1, <2>1, <3>1
  <2>5. kern' \in [Descriptors -> KernType]
    <3>1. ASSUME NEW d \in Descriptors
          PROVE  [kern[d] EXCEPT !.armed = FALSE] \in KernType
      BY <1>1 DEF KernType
    <3> QED BY <1>1, <2>1, <3>1
  <2>6. th' \in [Threads -> ThType]
    <3> DEFINE s == [th[t] EXCEPT !.pc = "cleanup", !.queue = order]
    <3>1. s \in ThType /\ th' = [th EXCEPT ![t] = s]
      BY <1>1, <2>2, <2>3 DEF ThType
    <3> HIDE DEF s
    <3> QED BY <1>1, <3>1
  <2> QED BY <2>1, <2>4, <2>5, <2>6 DEF TypeOK, ThType, DescType, KernType
<1>3. ASSUME TaskCleanup(t) PROVE TypeOK'
  <2>1. /\ op_queue_' = op_queue_ \o th[t].queue \o <<TaskOp>>
        /\ th' = [th EXCEPT ![t].pc = "loop", ![t].queue = <<>>]
        /\ UNCHANGED <<desc, kern, posting, outstanding_work_, stopped_, guard, status, fate>>
    BY <1>3 DEF TaskCleanup
  <2> DEFINE S == Descriptors \cup Ops \cup {TaskOp}
  <2>2. /\ op_queue_ \in Seq(S) /\ th[t].queue \in Seq(S) /\ <<TaskOp>> \in Seq(S)
    BY <1>1 DEF TypeOK
  <2>3. op_queue_ \o th[t].queue \in Seq(S)
    BY <2>2, ConcatList
  <2>4. op_queue_ \o th[t].queue \o <<TaskOp>> \in Seq(S)
    BY <2>2, <2>3, ConcatList
  <2>5. th' \in [Threads -> ThType]
    <3> DEFINE s == [th[t] EXCEPT !.pc = "loop", !.queue = <<>>]
    <3>2. <<>> \in Seq(Descriptors \cup Ops) /\ th[t] \in ThType
      BY <1>1
    <3>3. s \in ThType
      BY <3>2 DEF ThType
    <3>1. s \in ThType /\ th' = [th EXCEPT ![t] = s]
      BY <1>1, <2>1, <3>3
    <3> HIDE DEF s
    <3> QED BY <1>1, <3>1
  <2> QED BY <2>1, <2>4, <2>5 DEF TypeOK, ThType
<1>4. ASSUME ReadResult(t) PROVE TypeOK'
  <2>1. /\ th' = [th EXCEPT ![t].pc = "perform", ![t].events = desc[th[t].base].result]
        /\ th[t].pc = "popped"
        /\ UNCHANGED <<desc, kern, posting, op_queue_, outstanding_work_, stopped_, guard, status, fate>>
    BY <1>4 DEF ReadResult, At, sched
  <2>2. desc[th[t].base].result \in SUBSET Conditions
    BY <1>1, <2>1 DEF DescType
  <2>3. th' \in [Threads -> ThType]
    <3> DEFINE s == [th[t] EXCEPT !.pc = "perform", !.events = desc[th[t].base].result]
    <3>1. s \in ThType /\ th' = [th EXCEPT ![t] = s]
      BY <1>1, <2>1, <2>2 DEF ThType
    <3> HIDE DEF s
    <3> QED BY <1>1, <3>1
  <2> QED BY <2>1, <2>3 DEF TypeOK, ThType
<1> QED BY <1>2, <1>3, <1>4

-----------------------------------------------------------------------------
(* What perform_io does to the queues p of its descriptor: p2 is left in   *)
(* them, and done comes out.                                               *)
Performs(p, p2, done) ==
  /\ done \in Seq(Ops) /\ p2 \in [Kinds -> Seq(Ops)]
  /\ \A k \in Kinds : Range(p2[k]) \subseteq Range(p[k])
                        /\ Range(p[k]) \subseteq Range(p2[k]) \cup Range(done)
  /\ Range(done) \subseteq UNION {Range(p[k]) : k \in Kinds}
  /\ (/\ \A k \in Kinds : NoneTwice(p[k])
      /\ \A k, l \in Kinds : k # l => Range(p[k]) \cap Range(p[l]) = {}) =>
       /\ NoneTwice(done)
       /\ \A k \in Kinds : NoneTwice(p2[k]) /\ Range(p2[k]) \cap Range(done) = {}

(* perform_io takes a first part of every queue, and nothing of it stays.  *)
LEMMA PerformsSplit ==
  ASSUME NEW p \in [Kinds -> Seq(Ops)], NEW n \in [Kinds -> Nat],
         \A k \in Kinds : n[k] \in 0 .. Len(p[k])
  PROVE  Performs(p, [k \in Kinds |-> SubSeq(p[k], n[k] + 1, Len(p[k]))],
                  SubSeq(p["except"], 1, n["except"])
                    \o SubSeq(p["write"], 1, n["write"])
                    \o SubSeq(p["read"], 1, n["read"]))
<1> DEFINE a == [k \in Kinds |-> SubSeq(p[k], 1, n[k])]
           p2 == [k \in Kinds |-> SubSeq(p[k], n[k] + 1, Len(p[k]))]
<1>1. ASSUME NEW k \in Kinds
      PROVE  /\ a[k] \in Seq(Ops) /\ p2[k] \in Seq(Ops)
             /\ Range(p[k]) = Range(a[k]) \cup Range(p2[k])
             /\ NoneTwice(p[k]) => /\ NoneTwice(a[k]) /\ NoneTwice(p2[k])
                                   /\ Range(a[k]) \cap Range(p2[k]) = {}
  <2> DEFINE q == p[k]  m == n[k]
  <2>1. q \in Seq(Ops) /\ m \in 0 .. Len(q)
    OBVIOUS
  <2> HIDE DEF q, m
  <2>2. /\ SubSeq(q, 1, m) \in Seq(Ops) /\ SubSeq(q, m + 1, Len(q)) \in Seq(Ops)
        /\ Range(q) = Range(SubSeq(q, 1, m)) \cup Range(SubSeq(q, m + 1, Len(q)))
        /\ NoneTwice(q) =>
             /\ NoneTwice(SubSeq(q, 1, m)) /\ NoneTwice(SubSeq(q, m + 1, Len(q)))
             /\ Range(SubSeq(q, 1, m)) \cap Range(SubSeq(q, m + 1, Len(q))) = {}
    BY <2>1, SplitList
  <2>3. a[k] = SubSeq(q, 1, m) /\ p2[k] = SubSeq(q, m + 1, Len(q))
    BY DEF q, m
  <2> HIDE DEF a, p2
  <2>4. p[k] = q
    BY DEF q
  <2> QED BY <2>2, <2>3, <2>4
<1>2. /\ a["except"] = SubSeq(p["except"], 1, n["except"])
      /\ a["write"] = SubSeq(p["write"], 1, n["write"])
      /\ a["read"] = SubSeq(p["read"], 1, n["read"])
      /\ p2 \in [Kinds -> Seq(Ops)]
  BY <1>1 DEF Kinds
<1> HIDE DEF a, p2
<1> DEFINE x == a["except"]  w == a["write"]  r == a["read"]
<1>3. x \in Seq(Ops) /\ w \in Seq(Ops) /\ r \in Seq(Ops)
  BY <1>1 DEF Kinds
<1> HIDE DEF x, w, r
<1> DEFINE xw == x \o w
<1>4. /\ xw \in Seq(Ops) /\ Range(xw) = Range(x) \cup Range(w)
      /\ NoneTwice(x) /\ NoneTwice(w) /\ Range(x) \cap Range(w) = {} => NoneTwice(xw)
  BY <1>3, ConcatList
<1> HIDE DEF xw
<1> DEFINE done == xw \o r
<1>5. /\ done \in Seq(Ops) /\ Range(done) = Range(xw) \cup Range(r)
      /\ NoneTwice(xw) /\ NoneTwice(r) /\ Range(xw) \cap Range(r) = {} => NoneTwice(done)
  BY <1>3, <1>4, ConcatList
<1> HIDE DEF done
<1>6. Range(done) = Range(x) \cup Range(w) \cup Range(r)
  BY <1>4, <1>5
<1>7. Range(done) = UNION {Range(a[k]) : k \in Kinds}
  BY <1>6 DEF x, w, r, Kinds
<1>8. ASSUME \A k \in Kinds : NoneTwice(p[k]),
             \A k, l \in Kinds : k # l => Range(p[k]) \cap Range(p[l]) = {}
      PROVE  /\ NoneTwice(done)
             /\ \A k \in Kinds : NoneTwice(p2[k]) /\ Range(p2[k]) \cap Range(done) = {}
  <2>1. \A k, l \in Kinds : k # l => Range(a[k]) \cap Range(a[l]) = {}
    BY <1>1, <1>8
  <2>2. /\ Range(x) \cap Range(w) = {} /\ Range(x) \cap Range(r) = {}
        /\ Range(w) \cap Range(r) = {}
    BY <2>1 DEF x, w, r, Kinds
  <2>3. NoneTwice(x) /\ NoneTwice(w) /\ NoneTwice(r)
    BY <1>1, <1>8 DEF x, w, r, Kinds
  <2>4. NoneTwice(done)
    BY <1>4, <1>5, <2>2, <2>3
  <2>5. ASSUME NEW k \in Kinds PROVE NoneTwice(p2[k]) /\ Range(p2[k]) \cap Range(done) = {}
    <3>1. \A l \in Kinds : Range(p2[k]) \cap Range(a[l]) = {}
      BY <1>1, <1>8
    <3> QED BY <1>1, <1>7, <1>8, <3>1
  <2> QED BY <2>4, <2>5
<1>9. Performs(p, p2, done)
  <2>1. \A k \in Kinds : Range(p2[k]) \subseteq Range(p[k])
                           /\ Range(p[k]) \subseteq Range(p2[k]) \cup Range(done)
    BY <1>1, <1>7
  <2>2. Range(done) \subseteq UNION {Range(p[k]) : k \in Kinds}
    BY <1>1, <1>7
  <2> QED BY <1>2, <1>5, <1>8, <2>1, <2>2 DEF Performs
<1>10. done = SubSeq(p["except"], 1, n["except"])
                \o SubSeq(p["write"], 1, n["write"])
                \o SubSeq(p["read"], 1, n["read"])
  BY <1>2 DEF done, xw, x, w, r
<1> QED BY <1>9, <1>10 DEF p2

(* What perform_io changes, with the kinds and the outcomes put aside.     *)
LEMMA PerformFacts ==
  ASSUME TypeOK, NEW t \in Threads, th[t].base \in Descriptors, PerformIo(t)
  PROVE  LET d == th[t].base IN
         \E p2 \in [Kinds -> Seq(Ops)], sp \in [Kinds -> BOOLEAN],
            kn \in KernType, done \in Seq(Ops) :
           /\ Performs(desc[d].pending, p2, done)
           /\ desc' = [desc EXCEPT ![d].pending = p2, ![d].speculative = sp]
           /\ kern' = [kern EXCEPT ![d] = kn]
           /\ IF done = <<>> THEN NothingDone(t) ELSE SomeDone(t, done)
<1> DEFINE d == th[t].base
           events == th[t].events
           p == desc[d].pending
           Outs(k) == Performed(d, events, k)
           of(r, w, x) == [read |-> r, write |-> w, except |-> x]
<1>1. PICK r \in Outs("read"), w \in Outs("write"), x \in Outs("except") :
        LET o == of(r, w, x)
            Some(k) == SubSeq(desc[d].pending[k], 1, o[k].done)
            done == Some("except") \o Some("write") \o Some("read")
        IN /\ desc' = [desc EXCEPT
                  ![d].pending = [k \in Kinds |->
                     SubSeq(@[k], o[k].done + 1, Len(@[k]))],
                  ![d].speculative = [k \in Kinds |->
                     IF k \in Due(events) THEN ~o[k].exhausted ELSE @[k]]]
           /\ kern' = [kern EXCEPT
                  ![d].ready = r.left \cap w.left \cap x.left,
                  ![d].told = @ \cup Told(d, {k \in Kinds : o[k].done > 0})]
           /\ IF done = <<>> THEN NothingDone(t) ELSE SomeDone(t, done)
  BY DEF PerformIo
<1> DEFINE o == of(r, w, x)
           n == [k \in Kinds |-> o[k].done]
           p2 == [k \in Kinds |-> SubSeq(p[k], n[k] + 1, Len(p[k]))]
           done == SubSeq(p["except"], 1, n["except"])
                     \o SubSeq(p["write"], 1, n["write"])
                     \o SubSeq(p["read"], 1, n["read"])
           sp == [k \in Kinds |-> IF k \in Due(events) THEN ~o[k].exhausted
                                  ELSE desc[d].speculative[k]]
           rd == r.left \cap w.left \cap x.left
           tl == kern[d].told \cup Told(d, {k \in Kinds : o[k].done > 0})
           kn == [kern[d] EXCEPT !.ready = rd, !.told = tl]
<1>2. p \in [Kinds -> Seq(Ops)] /\ desc \in [Descriptors -> DescType]
  BY DEF TypeOK, DescType
<1>3. ASSUME NEW k \in Kinds, NEW u \in Outs(k)
      PROVE  u.done \in 0 .. Len(p[k]) /\ u.exhausted \in BOOLEAN
             /\ u.left \in SUBSET Conditions
  <2> DEFINE m == IF k \in Due(events) THEN Len(p[k]) ELSE 0
  <2>1. m \in Nat /\ m \in {0, Len(p[k])} /\ Len(p[k]) \in Nat
    BY <1>2, LenProperties
  <2>2. u \in Outcomes(d, k, m)
    BY DEF Performed
  <2> HIDE DEF m
  <2>3. u.done \in 0 .. m /\ u.exhausted \in BOOLEAN /\ u.left \in SUBSET Conditions
    BY <2>1, <2>2, OutcomesType
  <2> QED BY <2>1, <2>3
<1>4. /\ r.done \in 0 .. Len(p["read"]) /\ w.done \in 0 .. Len(p["write"])
      /\ x.done \in 0 .. Len(p["except"])
      /\ r.exhausted \in BOOLEAN /\ w.exhausted \in BOOLEAN /\ x.exhausted \in BOOLEAN
      /\ r.left \in SUBSET Conditions
  <2> HIDE DEF p
  <2>1. "read" \in Kinds /\ "write" \in Kinds /\ "except" \in Kinds
    BY DEF Kinds
  <2> QED BY <1>3, <2>1
<1>5. /\ o["read"] = r /\ o["write"] = w /\ o["except"] = x
  OBVIOUS
<1>6. \A k \in Kinds : o[k].done \in 0 .. Len(p[k]) /\ o[k].exhausted \in BOOLEAN
  <2> HIDE DEF o, p
  <2> QED BY <1>4, <1>5 DEF Kinds
<1>7. n \in [Kinds -> Nat] /\ \A k \in Kinds : n[k] \in 0 .. Len(p[k])
  <2> HIDE DEF o, p
  <2>1. \A k \in Kinds : Len(p[k]) \in Nat
    BY <1>2, LenProperties
  <2> QED BY <1>6, <2>1
<1>8. Performs(p, p2, done)
  <2> HIDE DEF n, p
  <2> QED BY <1>2, <1>7, PerformsSplit
<1>9. sp \in [Kinds -> BOOLEAN]
  <2>1. desc[d].speculative \in [Kinds -> BOOLEAN]
    BY <1>2 DEF DescType
  <2> HIDE DEF o
  <2> QED BY <1>6, <2>1
<1>10. rd \in SUBSET Conditions
  BY <1>4
<1>17. tl \in SUBSET Kinds
  <2>1. kern[d].told \in SUBSET Kinds
    BY DEF TypeOK
  <2> HIDE DEF o
  <2>2. Told(d, {k \in Kinds : o[k].done > 0}) \in SUBSET Kinds
    BY DEF Told
  <2> QED BY <2>1, <2>2
<1>11. /\ n["read"] = o["read"].done /\ n["write"] = o["write"].done
       /\ n["except"] = o["except"].done
       /\ \A k \in Kinds : n[k] = o[k].done
  BY DEF Kinds
<1>12. done = SubSeq(p["except"], 1, o["except"].done)
               \o SubSeq(p["write"], 1, o["write"].done)
               \o SubSeq(p["read"], 1, o["read"].done)
  BY <1>11
<1>13. IF done = <<>> THEN NothingDone(t) ELSE SomeDone(t, done)
  <2> HIDE DEF o, n
  <2>1. IF SubSeq(p["except"], 1, o["except"].done)
             \o SubSeq(p["write"], 1, o["write"].done)
             \o SubSeq(p["read"], 1, o["read"].done) = <<>>
        THEN NothingDone(t)
        ELSE SomeDone(t, SubSeq(p["except"], 1, o["except"].done)
               \o SubSeq(p["write"], 1, o["write"].done)
               \o SubSeq(p["read"], 1, o["read"].done))
    BY <1>1 DEF o
  <2> HIDE DEF done
  <2> QED BY <1>12, <2>1
<1>14. desc' = [desc EXCEPT ![d].pending = p2, ![d].speculative = sp]
  <2> DEFINE q2 == [k \in Kinds |-> SubSeq(desc[d].pending[k], o[k].done + 1,
                                           Len(desc[d].pending[k]))]
             s2 == [desc[d] EXCEPT !.pending = q2, !.speculative = sp]
  <2>1. q2 = p2
    <3> HIDE DEF o
    <3> QED BY <1>11
  <2>2. desc' = [desc EXCEPT ![d].pending = q2, ![d].speculative = sp]
    <3>1. desc' = [desc EXCEPT
                  ![d].pending = [k \in Kinds |->
                     SubSeq(@[k], o[k].done + 1, Len(@[k]))],
                  ![d].speculative = [k \in Kinds |->
                     IF k \in Due(events) THEN ~o[k].exhausted ELSE @[k]]]
      BY <1>1
    <3> HIDE DEF o
    <3> QED BY <1>2, <3>1 DEF DescType
  <2> HIDE DEF q2, p2, sp
  <2> QED BY <2>1, <2>2
<1>15. kern' = [kern EXCEPT ![d] = kn] /\ kn \in KernType
  <2>1. kern \in [Descriptors -> KernType]
    BY DEF TypeOK, KernType
  <2>2. kern' = [kern EXCEPT ![d].ready = rd, ![d].told = tl]
    BY <1>1
  <2> HIDE DEF rd, tl
  <2> QED BY <1>10, <1>17, <2>1, <2>2 DEF KernType
<1> HIDE DEF p2, done, sp, rd, tl, kn, n, o
<1>16. p2 \in [Kinds -> Seq(Ops)] /\ done \in Seq(Ops)
  BY <1>8 DEF Performs
<1> QED BY <1>8, <1>9, <1>13, <1>14, <1>15, <1>16

(* perform_io keeps the types.                                             *)
LEMMA TypePerform ==
  ASSUME TypeOK, NEW t \in Threads, th[t].base \in Descriptors, PerformIo(t)
  PROVE  TypeOK'
<1> DEFINE d == th[t].base
<1>1. PICK p2 \in [Kinds -> Seq(Ops)], sp \in [Kinds -> BOOLEAN],
           kn \in KernType, done \in Seq(Ops) :
        /\ desc' = [desc EXCEPT ![d].pending = p2, ![d].speculative = sp]
        /\ kern' = [kern EXCEPT ![d] = kn]
        /\ IF done = <<>> THEN NothingDone(t) ELSE SomeDone(t, done)
  BY PerformFacts
<1>2. UNCHANGED <<op_queue_, outstanding_work_, stopped_, guard>>
  BY DEF PerformIo, sched
<1>3. /\ th \in [Threads -> ThType] /\ desc \in [Descriptors -> DescType]
      /\ kern \in [Descriptors -> KernType]
  BY DEF TypeOK, ThType, DescType, KernType
<1>4. desc' \in [Descriptors -> DescType]
  <2> DEFINE s == [desc[d] EXCEPT !.pending = p2, !.speculative = sp]
  <2>1. s \in DescType /\ desc' = [desc EXCEPT ![d] = s]
    BY <1>1, <1>3 DEF DescType
  <2> HIDE DEF s
  <2> QED BY <1>3, <2>1
<1>5. kern' \in [Descriptors -> KernType]
  BY <1>1, <1>3
<1>6. /\ th' \in [Threads -> ThType] /\ posting' \in [Callers -> PostType]
      /\ status' \in [Ops -> {"idle", "started", "done"}]
      /\ fate' \in {"running", "aborted", "hung", "destroyed"}
  <2> DEFINE n == th[t].work + 1
             s == [th[t] EXCEPT !.pc = "finish", !.base = NoOp, !.events = {},
                                !.work = n]
             u == [th[t] EXCEPT !.pc = "handler", !.base = NoOp, !.events = {}]
  <2>1. n \in Nat
    BY <1>3 DEF ThType
  <2>2. s \in ThType /\ u \in ThType
    <3> HIDE DEF n
    <3> QED BY <1>3, <2>1 DEF ThType
  <2>3. CASE done = <<>>
    <3>1. NothingDone(t)
      BY <1>1, <2>3
    <3>2. th' \in [Threads -> ThType]
      <4>1. th' = [th EXCEPT ![t].pc = "finish", ![t].base = NoOp,
                             ![t].events = {}, ![t].work = @ + 1]
        BY <3>1 DEF NothingDone
      <4>2. th[t] \in ThType /\ th \in [Threads -> ThType]
        BY <1>3
      <4>3. \A x \in Threads : x # t => th'[x] = th[x]
        BY <4>1, <4>2
      <4>4. th'[t] = s
        BY <4>1, <4>2 DEF ThType
      <4>5. th' = [x \in Threads |-> th'[x]]
        BY <4>1, <4>2
      <4>6. s \in ThType
        BY <2>2
      <4> HIDE DEF s
      <4>7. \A x \in Threads : th'[x] \in ThType
        BY <4>2, <4>3, <4>4, <4>6
      <4> QED BY <4>5, <4>7
    <3> HIDE DEF s
    <3> QED BY <1>3, <2>2, <3>1, <3>2 DEF NothingDone, TypeOK, PostType
  <2>4. CASE done # <<>>
    <3>1. SomeDone(t, done)
      BY <1>1, <2>4
    <3>2. th' = [th EXCEPT ![t] = u]
      BY <3>1 DEF SomeDone
    <3>3. Head(done) \in Ops /\ Tail(done) \in Seq(Ops)
      BY <2>4, TailList
    <3>4. posting' \in [Callers -> PostType]
      <4>1. CASE posting' = posting
        BY <4>1 DEF TypeOK, PostType
      <4>2. CASE PostBy(t, "deferred", Tail(done))
        BY <3>3, <4>2, PostType1 DEF Callers
      <4> QED BY <3>1, <4>1, <4>2 DEF SomeDone
    <3>5. status' = [status EXCEPT ![Head(done)] = "done"] /\ fate' = fate
      BY <3>1 DEF SomeDone
    <3> HIDE DEF u
    <3> QED BY <1>3, <2>2, <3>2, <3>4, <3>5 DEF TypeOK
  <2> QED BY <2>3, <2>4
<1> QED BY <1>2, <1>4, <1>5, <1>6 DEF TypeOK, ThType, DescType, KernType, PostType

(* The count is never driven below zero.                                   *)
LEMMA EnoughIs ==
  ASSUME TypeOK, EnoughWork
  PROVE  /\ Cardinality(Handling(th)) \in Nat
         /\ Cardinality(Shared(desc, op_queue_, posting)) \in Nat
         /\ guard => outstanding_work_ >= 1
         /\ \A t \in Threads : th[t].pc = "handler" => outstanding_work_ >= 1
         /\ outstanding_work_ = 0 =>
              ~guard /\ Handling(th) = {} /\ Shared(desc, op_queue_, posting) = {}
<1> DEFINE H == Handling(th)  S == Shared(desc, op_queue_, posting)
<1>1. IsFiniteSet(H) /\ IsFiniteSet(S)
  <2>1. IsFiniteSet(Callers) /\ IsFiniteSet(Ops)
    BY ReactorAssumption
  <2>2. H \subseteq Callers
    BY DEF Handling, Callers
  <2>3. S \subseteq Ops
    BY DEF Shared, InDesc, InPosting, TypeOK, Range
  <2> HIDE DEF H, S
  <2> QED BY <2>1, <2>2, <2>3, FS_Subset
<1>2. outstanding_work_ >= (IF guard THEN 1 ELSE 0) + Cardinality(H) + Cardinality(S)
  BY DEF EnoughWork
<1>3. outstanding_work_ \in Nat /\ guard \in BOOLEAN
  BY DEF TypeOK
<1>4. \A t \in Threads : th[t].pc = "handler" => t \in H
  BY DEF Handling
<1> HIDE DEF H, S
<1>5. Cardinality(H) \in Nat /\ Cardinality(S) \in Nat
  BY <1>1, FS_CardinalityType
<1>6. Cardinality(H) = 0 <=> H = {}
  BY <1>1, FS_EmptySet
<1>7. Cardinality(S) = 0 <=> S = {}
  BY <1>1, FS_EmptySet
<1> QED BY <1>2, <1>3, <1>4, <1>5, <1>6, <1>7 DEF H, S

(* ~work_cleanup keeps the types; the shared count covers the unit that is *)
(* given back.                                                             *)
LEMMA TypeFinish ==
  ASSUME TypeOK, ThreadsOK(th), EnoughWork, NEW t \in Threads, Finish(t)
  PROVE  TypeOK'
<1>1. /\ th[t].pc \in {"handler", "finish"}
      /\ outstanding_work_' = outstanding_work_ + th[t].work - 1
      /\ stopped_' = (stopped_ \/ outstanding_work_' = 0)
      /\ op_queue_' = op_queue_ \o th[t].queue
      /\ th' = [th EXCEPT ![t].pc = IF th[t].queue = <<>> THEN "loop" ELSE "gone",
                          ![t].work = 0, ![t].queue = <<>>]
      /\ UNCHANGED <<desc, kern, posting, guard, status, fate>>
  BY DEF Finish, At
<1>2. outstanding_work_' \in Nat
  <2>1. outstanding_work_ \in Nat /\ th[t].work \in Nat
    BY DEF TypeOK
  <2>2. th[t].pc = "finish" => th[t].work = 1
    BY DEF ThreadsOK, ThreadOK
  <2>3. th[t].pc = "handler" => outstanding_work_ >= 1
    BY EnoughIs
  <2> QED BY <1>1, <2>1, <2>2, <2>3
<1>3. op_queue_' \in Seq(Descriptors \cup Ops \cup {TaskOp})
  <2> DEFINE S == Descriptors \cup Ops \cup {TaskOp}
  <2>1. op_queue_ \in Seq(S) /\ th[t].queue \in Seq(Descriptors \cup Ops)
    BY DEF TypeOK
  <2>2. th[t].queue \in Seq(S)
    BY <2>1
  <2> HIDE DEF S
  <2>3. op_queue_ \o th[t].queue \in Seq(S)
    BY <2>1, <2>2, ConcatList
  <2> QED BY <1>1, <2>3 DEF S
<1>4. th' \in [Threads -> ThType]
  <2> DEFINE pc == IF th[t].queue = <<>> THEN "loop" ELSE "gone"
  <2>1. /\ pc \in {"loop", "gone"} /\ th \in [Threads -> ThType]
        /\ <<>> \in Seq(Descriptors \cup Ops) /\ 0 \in Nat
    BY DEF TypeOK, ThType
  <2> HIDE DEF pc
  <2> DEFINE s == [th[t] EXCEPT !.pc = pc, !.work = 0, !.queue = <<>>]
  <2>2. th' = [th EXCEPT ![t] = s]
    BY <1>1, <2>1 DEF pc
  <2>3. s \in ThType
    BY <2>1 DEF ThType
  <2> HIDE DEF s
  <2> QED BY <2>1, <2>2, <2>3
<1>5. stopped_' \in BOOLEAN
  BY <1>1 DEF TypeOK
<1> QED BY <1>1, <1>2, <1>3, <1>4, <1>5 DEF TypeOK, ThType

(* The kernel, the release of the guard and the shutdown keep the types;   *)
(* the guard is covered by the shared count.                               *)
LEMMA TypeEnvironment ==
  ASSUME TypeOK, EnoughWork, Environment
  PROVE  TypeOK'
<1>0. kern \in [Descriptors -> KernType]
  BY DEF TypeOK, KernType
<1>1. ASSUME NEW d \in Descriptors, NEW c \in Raised, BecomesReady(d, c)
      PROVE  TypeOK'
  <2> DEFINE a == kern[d].armed \/ (/\ kern[d].interest # {}
                                    /\ c \in kern[d].interest \cup {"hup"})
             s == [kern[d] EXCEPT !.ready = @ \cup {c}, !.armed = a]
  <2>1. kern' = [kern EXCEPT ![d] = s]
        /\ UNCHANGED <<desc, th, posting, op_queue_, outstanding_work_, stopped_,
                       guard, status, fate>>
    BY <1>0, <1>1 DEF BecomesReady, sched
  <2>2. s \in KernType
    <3>1. c \in Conditions /\ a \in BOOLEAN /\ kern[d] \in KernType
      BY <1>0, ReactorAssumption DEF KernType
    <3> HIDE DEF a
    <3> QED BY <3>1 DEF KernType
  <2> HIDE DEF s
  <2>3. kern' \in [Descriptors -> KernType]
    BY <1>0, <2>1, <2>2
  <2> QED BY <2>1, <2>3 DEF TypeOK, KernType
<1>2. ASSUME NEW d \in Descriptors, CloseDescriptor(d) PROVE TypeOK'
  <2> DEFINE s == [kern[d] EXCEPT !.interest = {}, !.armed = FALSE]
  <2>1. kern' = [kern EXCEPT ![d] = s]
        /\ UNCHANGED <<desc, th, posting, op_queue_, outstanding_work_, stopped_,
                       guard, status, fate>>
    BY <1>0, <1>2 DEF CloseDescriptor, sched
  <2>2. s \in KernType
    BY <1>0 DEF KernType
  <2> HIDE DEF s
  <2>3. kern' \in [Descriptors -> KernType]
    BY <1>0, <2>1, <2>2
  <2> QED BY <2>1, <2>3 DEF TypeOK, KernType
<1>3. ASSUME ReleaseGuard PROVE TypeOK'
  <2>1. outstanding_work_ >= 1 /\ outstanding_work_ \in Nat
    BY <1>3, EnoughIs DEF ReleaseGuard, TypeOK
  <2>2. /\ outstanding_work_' = outstanding_work_ - 1 /\ guard' = FALSE
        /\ stopped_' = (stopped_ \/ outstanding_work_ = 1)
        /\ UNCHANGED <<desc, kern, th, posting, op_queue_, status, fate>>
    BY <1>3 DEF ReleaseGuard
  <2>3. outstanding_work_' \in Nat /\ stopped_' \in BOOLEAN
    BY <2>1, <2>2 DEF TypeOK
  <2> QED BY <2>2, <2>3 DEF TypeOK
<1>4. ASSUME Shutdown PROVE TypeOK'
  BY <1>4 DEF Shutdown, TypeOK, sched
<1> QED BY <1>1, <1>2, <1>3, <1>4 DEF Environment

-----------------------------------------------------------------------------
(* What a step does to the lists.                                          *)

Units(h) == UNION {{t} \X (1 .. h[t].work) : t \in Threads}

(* A list that has nothing in it is empty.                                 *)
LEMMA NothingIn ==
  ASSUME NEW S, NEW q \in Seq(S), Range(q) = {}
  PROVE  q = <<>>
<1>1. Len(q) \in Nat /\ DOMAIN q = 1 .. Len(q)
  BY LenProperties
<1>2. Len(q) = 0
  <2>1. Len(q) # 0 => 1 \in DOMAIN q
    BY <1>1
  <2> QED BY <2>1 DEF Range
<1> QED BY <1>2, EmptySeq

(* Operations X leave the queues of the descriptor d.                      *)
Leave(X, ds, es, d) ==
  /\ \A e \in Descriptors : e # d => /\ es[e].pending = ds[e].pending
                                     /\ es[e].state = ds[e].state
  /\ \A k \in Kinds : /\ NoneTwice(es[d].pending[k])
                      /\ Range(es[d].pending[k]) = Range(ds[d].pending[k]) \ X
                      /\ es[d].state # "live" => es[d].pending[k] = <<>>
  /\ X \subseteq UNION {Range(ds[d].pending[k]) : k \in Kinds}
  /\ X \subseteq Ops

(* What leaves the queues of a descriptor leaves what waits in             *)
(* descriptors.                                                            *)
LEMMA DescLoses ==
  ASSUME NEW ds, NEW es, NEW d \in Descriptors, NEW X, DescOK(ds), Leave(X, ds, es, d)
  PROVE  DescOK(es) /\ InDesc(es) = InDesc(ds) \ X /\ X \subseteq InDesc(ds)
<1> USE DEF Leave
<1>0. \A o \in Ops : Desc[o] \in Descriptors /\ Kind[o] \in Kinds
  BY ReactorAssumption
<1>1. DescOK(es)
  <2> SUFFICES ASSUME NEW e \in Descriptors, NEW k \in Kinds
               PROVE  /\ NoneTwice(es[e].pending[k])
                      /\ \A o \in Range(es[e].pending[k]) : Desc[o] = e /\ Kind[o] = k
                      /\ es[e].state # "live" => es[e].pending[k] = <<>>
    BY DEF DescOK
  <2>1. CASE e = d
    <3>1. \A o \in Range(ds[d].pending[k]) : Desc[o] = d /\ Kind[o] = k
      BY DEF DescOK
    <3> QED BY <2>1, <3>1
  <2>2. CASE e # d
    BY <2>2 DEF DescOK
  <2> QED BY <2>1, <2>2
<1>2. X \subseteq InDesc(ds)
  <2> SUFFICES ASSUME NEW o \in X PROVE o \in InDesc(ds)
    OBVIOUS
  <2>1. PICK k \in Kinds : o \in Range(ds[d].pending[k])
    OBVIOUS
  <2>2. Desc[o] = d /\ Kind[o] = k
    BY <2>1 DEF DescOK
  <2> QED BY <2>1, <2>2 DEF InDesc
<1>3. ASSUME NEW o \in Ops PROVE o \in InDesc(es) <=> o \in InDesc(ds) /\ o \notin X
  <2>1. CASE Desc[o] = d
    BY <1>0, <2>1 DEF InDesc
  <2>2. CASE Desc[o] # d
    <3>1. o \notin X
      <4> SUFFICES ASSUME o \in X PROVE FALSE
        OBVIOUS
      <4>1. PICK k \in Kinds : o \in Range(ds[d].pending[k])
        OBVIOUS
      <4> QED BY <2>2, <4>1 DEF DescOK
    <3> QED BY <1>0, <2>2, <3>1 DEF InDesc
  <2> QED BY <2>1, <2>2
<1>4. InDesc(es) \subseteq Ops /\ InDesc(ds) \subseteq Ops
  BY DEF InDesc
<1> QED BY <1>1, <1>2, <1>3, <1>4

(* The operation op joins the queue of its descriptor and kind.            *)
LEMMA DescGains ==
  ASSUME NEW ds, NEW es, NEW op \in Ops, DescOK(ds), op \notin InDesc(ds),
         ds[Desc[op]].state = "live",
         ds[Desc[op]].pending[Kind[op]] \in Seq(Ops),
         \A e \in Descriptors : es[e].state = ds[e].state,
         \A e \in Descriptors, k \in Kinds :
           es[e].pending[k] = IF e = Desc[op] /\ k = Kind[op]
                              THEN Append(ds[e].pending[k], op)
                              ELSE ds[e].pending[k]
  PROVE  DescOK(es) /\ InDesc(es) = InDesc(ds) \cup {op}
<1> DEFINE d == Desc[op]  q == ds[d].pending[Kind[op]]
<1>0. \A o \in Ops : Desc[o] \in Descriptors /\ Kind[o] \in Kinds
  BY ReactorAssumption
<1>1. op \notin Range(q)
  BY DEF InDesc
<1>2. NoneTwice(q) /\ \A o \in Range(q) : Desc[o] = d /\ Kind[o] = Kind[op]
  BY <1>0 DEF DescOK
<1> DEFINE r == Append(q, op)
<1>8. q \in Seq(Ops)
  OBVIOUS
<1>3. NoneTwice(r) /\ Range(r) = Range(q) \cup {op}
  <2> HIDE DEF q
  <2> QED BY <1>1, <1>2, <1>8, AppendList
<1>4. es[d].pending[Kind[op]] = r
  BY <1>0
<1> HIDE DEF r
<1>5. DescOK(es)
  <2> SUFFICES ASSUME NEW e \in Descriptors, NEW k \in Kinds
               PROVE  /\ NoneTwice(es[e].pending[k])
                      /\ \A o \in Range(es[e].pending[k]) : Desc[o] = e /\ Kind[o] = k
                      /\ es[e].state # "live" => es[e].pending[k] = <<>>
    BY DEF DescOK
  <2>1. CASE e = d /\ k = Kind[op]
    BY <1>2, <1>3, <1>4, <2>1
  <2>2. CASE ~(e = d /\ k = Kind[op])
    <3>1. es[e].pending[k] = ds[e].pending[k] /\ es[e].state = ds[e].state
      BY <2>2
    <3> QED BY <3>1 DEF DescOK
  <2> QED BY <2>1, <2>2
<1>6. ASSUME NEW o \in Ops PROVE o \in InDesc(es) <=> o \in InDesc(ds) \/ o = op
  <2>1. CASE Desc[o] = d /\ Kind[o] = Kind[op]
    <3>1. o \in InDesc(es) <=> o \in Range(r)
      BY <1>4, <2>1 DEF InDesc
    <3>2. o \in InDesc(ds) <=> o \in Range(q)
      BY <2>1 DEF InDesc
    <3> QED BY <1>3, <3>1, <3>2
  <2>2. CASE ~(Desc[o] = d /\ Kind[o] = Kind[op])
    <3>1. es[Desc[o]].pending[Kind[o]] = ds[Desc[o]].pending[Kind[o]] /\ o # op
      BY <1>0, <2>2
    <3> QED BY <3>1 DEF InDesc
  <2> QED BY <2>1, <2>2
<1>7. InDesc(es) \subseteq Ops /\ InDesc(ds) \subseteq Ops
  BY DEF InDesc
<1> QED BY <1>5, <1>6, <1>7

(* What waits in descriptors stays as it was.                              *)
LEMMA DescKeeps ==
  ASSUME NEW ds, NEW es, DescOK(ds),
         \A e \in Descriptors, k \in Kinds :
           /\ es[e].pending[k] = ds[e].pending[k]
           /\ es[e].state # "live" => ds[e].pending[k] = <<>>
  PROVE  DescOK(es) /\ InDesc(es) = InDesc(ds)
<1>0. \A o \in Ops : Desc[o] \in Descriptors /\ Kind[o] \in Kinds
  BY ReactorAssumption
<1>1. DescOK(es)
  BY DEF DescOK
<1>2. InDesc(es) = InDesc(ds)
  BY <1>0 DEF InDesc
<1> QED BY <1>1, <1>2

(* A caller that held nothing holds the operations ops.                    *)
Holds(c, how, ops, p, r, h, i, g) ==
  /\ how \in {"immediate", "deferred"} /\ ops \in Seq(Ops)
  /\ PostingOK(p, h, g) /\ p[c].how = "none"
  /\ r = [p EXCEPT ![c] = [how |-> how, ops |-> ops]]
  /\ NoneTwice(ops) /\ Range(ops) \cap InPosting(p) = {}
  /\ how = "immediate" => \E o \in Ops : ops = <<o>>
  /\ IF c \in Threads THEN i[c].pc = "handler" ELSE g
  /\ \A t \in Threads : t # c => i[t] = h[t]

(* A caller that takes operations to post leaves the others as they were.  *)
LEMMA PostingGains ==
  ASSUME NEW p \in [Callers -> PostType], NEW r, NEW c \in Callers, NEW h, NEW i, NEW g,
         NEW how, NEW ops, Holds(c, how, ops, p, r, h, i, g)
  PROVE  /\ PostingOK(r, i, g)
         /\ InPosting(r) = InPosting(p) \cup Range(ops)
         /\ how = "immediate" => Refused(r) = Refused(p) \cup Range(ops)
         /\ how = "deferred" => Refused(r) = Refused(p)
<1> USE DEF Holds
<1>1. /\ r[c].how = how /\ r[c].ops = ops
      /\ \A e \in Callers : e # c => r[e] = p[e]
  OBVIOUS
<1>2. p[c].ops = <<>> /\ Range(p[c].ops) = {}
  BY EmptyList DEF PostingOK
<1>3. InPosting(r) = InPosting(p) \cup Range(ops)
  BY <1>1, <1>2 DEF InPosting
<1>4. \A e \in Callers : Range(p[e].ops) \subseteq InPosting(p)
  BY DEF InPosting
<1>5. PostingOK(r, i, g)
  <2> SUFFICES ASSUME NEW e \in Callers
               PROVE  /\ NoneTwice(r[e].ops)
                      /\ r[e].how = "none" => r[e].ops = <<>>
                      /\ r[e].how = "immediate" => \E o \in Ops : r[e].ops = <<o>>
                      /\ r[e].how # "none" => IF e \in Threads THEN i[e].pc = "handler" ELSE g
                      /\ \A f \in Callers : e # f => Range(r[e].ops) \cap Range(r[f].ops) = {}
    BY DEF PostingOK
  <2>1. \A f \in Callers : e # f => Range(r[e].ops) \cap Range(r[f].ops) = {}
    BY <1>1, <1>4 DEF PostingOK
  <2>2. CASE e = c
    BY <1>1, <2>1, <2>2
  <2>3. CASE e # c
    <3>1. r[e] = p[e]
      BY <1>1, <2>3
    <3> QED BY <2>1, <2>3, <3>1 DEF PostingOK
  <2> QED BY <2>2, <2>3
<1>6. Refused(r) = Refused(p) \cup (IF how = "immediate" THEN Range(ops) ELSE {})
  <2> SUFFICES ASSUME NEW o \in Ops
               PROVE  o \in Refused(r) <=>
                        o \in Refused(p) \/ (how = "immediate" /\ o \in Range(ops))
    <3>1. Range(ops) \subseteq Ops
      BY DEF Range
    <3> QED BY <3>1 DEF Refused
  <2> QED BY <1>1 DEF Refused
<1>7. how = "deferred" => how # "immediate"
  OBVIOUS
<1> QED BY <1>3, <1>5, <1>6, <1>7

(* A caller hands over what it holds.                                      *)
Releases(c, p, r, h, i, g) ==
  /\ PostingOK(p, h, g) /\ r = [p EXCEPT ![c] = Idle]
  /\ \A t \in Threads : i[t].pc = h[t].pc

(* A caller that hands over what it holds takes nothing from the others.   *)
LEMMA PostingLoses ==
  ASSUME NEW p \in [Callers -> PostType], NEW r, NEW c \in Callers, NEW h, NEW i, NEW g,
         Releases(c, p, r, h, i, g)
  PROVE  /\ PostingOK(r, i, g)
         /\ InPosting(r) = InPosting(p) \ Range(p[c].ops)
         /\ Refused(r) = Refused(p) \ Range(p[c].ops)
         /\ Range(p[c].ops) \subseteq InPosting(p) /\ NoneTwice(p[c].ops)
<1> USE DEF Releases
<1>1. /\ r[c].how = "none" /\ r[c].ops = <<>>
      /\ \A e \in Callers : e # c => r[e] = p[e]
  BY DEF Idle
<1>2. Range(r[c].ops) = {} /\ NoneTwice(r[c].ops)
  BY <1>1, EmptyList
<1>3. \A e \in Callers : e # c => Range(p[e].ops) \cap Range(p[c].ops) = {}
  BY DEF PostingOK
<1>4. InPosting(r) = InPosting(p) \ Range(p[c].ops)
  BY <1>1, <1>2, <1>3 DEF InPosting
<1>5. PostingOK(r, i, g)
  <2> SUFFICES ASSUME NEW e \in Callers
               PROVE  /\ NoneTwice(r[e].ops)
                      /\ r[e].how = "none" => r[e].ops = <<>>
                      /\ r[e].how = "immediate" => \E o \in Ops : r[e].ops = <<o>>
                      /\ r[e].how # "none" => IF e \in Threads THEN i[e].pc = "handler" ELSE g
                      /\ \A f \in Callers : e # f => Range(r[e].ops) \cap Range(r[f].ops) = {}
    BY DEF PostingOK
  <2>1. \A f \in Callers : e # f => Range(r[e].ops) \cap Range(r[f].ops) = {}
    BY <1>1, <1>2 DEF PostingOK
  <2>2. CASE e = c
    BY <1>1, <1>2, <2>1, <2>2
  <2>3. CASE e # c
    <3>1. r[e] = p[e]
      BY <1>1, <2>3
    <3> QED BY <2>1, <2>3, <3>1 DEF PostingOK
  <2> QED BY <2>2, <2>3
<1>6. Refused(r) = Refused(p) \ Range(p[c].ops)
  <2> SUFFICES ASSUME NEW o \in Ops
               PROVE  o \in Refused(r) <=> o \in Refused(p) /\ o \notin Range(p[c].ops)
    BY DEF Refused
  <2> QED BY <1>1, <1>2, <1>3 DEF Refused
<1>7. Range(p[c].ops) \subseteq InPosting(p) /\ NoneTwice(p[c].ops)
  BY DEF InPosting, PostingOK
<1> QED BY <1>4, <1>5, <1>6, <1>7

(* Only the thread t changes, and its queue becomes what it is in i.       *)
Turns(t, h, i) ==
  /\ ThreadsOK(h) /\ \A u \in Threads : u # t => i[u] = h[u]
  /\ ThreadOK(i[t])
  /\ Range(i[t].queue) \cap (InPrivate(h) \ Range(h[t].queue)) = {}

(* A thread that moves leaves what the other threads hold privately.       *)
LEMMA ThreadMoves ==
  ASSUME NEW h, NEW i, NEW t \in Threads, Turns(t, h, i)
  PROVE  /\ ThreadsOK(i)
         /\ InPrivate(i) = (InPrivate(h) \ Range(h[t].queue)) \cup Range(i[t].queue)
         /\ Range(h[t].queue) \subseteq InPrivate(h)
<1> USE DEF Turns
<1>1. \A u \in Threads : u # t => Range(h[u].queue) \cap Range(h[t].queue) = {}
  BY DEF ThreadsOK
<1>2. \A u \in Threads : Range(h[u].queue) \subseteq InPrivate(h)
  BY DEF InPrivate
<1>3. InPrivate(i) = (InPrivate(h) \ Range(h[t].queue)) \cup Range(i[t].queue)
  BY <1>1 DEF InPrivate
<1>4. \A u \in Threads : u # t => Range(i[u].queue) \cap Range(i[t].queue) = {}
  BY <1>1, <1>2
<1>5. ThreadsOK(i)
  <2> SUFFICES ASSUME NEW u \in Threads
               PROVE  /\ ThreadOK(i[u])
                      /\ \A v \in Threads : u # v => Range(i[u].queue) \cap Range(i[v].queue) = {}
    BY DEF ThreadsOK
  <2>1. CASE u = t
    BY <1>4, <2>1
  <2>2. CASE u # t
    BY <1>4, <2>2 DEF ThreadsOK
  <2> QED BY <2>1, <2>2
<1> QED BY <1>2, <1>3, <1>5

-----------------------------------------------------------------------------
(* The task and the descriptors in the scheduler's queue.                  *)

All == Descriptors \cup Ops \cup {TaskOp}

(* No operation is a descriptor or the task, and each has its descriptor   *)
(* and kind.                                                               *)
LEMMA Names ==
  /\ TaskOp \notin Ops /\ TaskOp \notin Descriptors /\ Descriptors \cap Ops = {}
  /\ Threads \subseteq Callers
  /\ \A o \in Ops : Desc[o] \in Descriptors /\ Kind[o] \in Kinds
BY ReactorAssumption DEF Callers

(* Operations are pushed.                                                  *)
LEMMA TaskBeforeOps ==
  ASSUME NEW q \in Seq(All), NEW u \in Seq(All), NEW h, NEW i, TaskOK(q, h),
         Range(u) \subseteq Ops, \A t \in Threads : RunsTask(i, t) => RunsTask(h, t)
  PROVE  TaskOK(q \o u, i)
<1> DEFINE r == q \o u
<1>1. /\ Len(q) \in Nat /\ DOMAIN q = 1 .. Len(q) /\ DOMAIN r = 1 .. Len(q) + Len(u)
      /\ Len(u) \in Nat /\ DOMAIN u = 1 .. Len(u)
      /\ \A j \in DOMAIN r : r[j] = IF j <= Len(q) THEN q[j] ELSE u[j - Len(q)]
  BY ConcatProperties, LenProperties
<1> HIDE DEF r
<1>2. \A j \in DOMAIN r : \/ j \in DOMAIN q /\ r[j] = q[j]
                          \/ j > Len(q) /\ r[j] \in Ops
  <2> SUFFICES ASSUME NEW j \in DOMAIN r, j > Len(q) PROVE r[j] \in Ops
    BY <1>1
  <2>1. j - Len(q) \in DOMAIN u /\ r[j] = u[j - Len(q)]
    BY <1>1
  <2> QED BY <2>1 DEF Range
<1>3. \A j, k \in DOMAIN r : j < k /\ r[j] = TaskOp => r[k] \notin Descriptors
  <2> SUFFICES ASSUME NEW j \in DOMAIN r, NEW k \in DOMAIN r, j < k, r[j] = TaskOp
               PROVE  r[k] \notin Descriptors
    OBVIOUS
  <2>1. j \in DOMAIN q /\ q[j] = TaskOp
    BY <1>2, Names
  <2>2. CASE k \in DOMAIN q /\ r[k] = q[k]
    BY <2>1, <2>2 DEF TaskOK
  <2>3. CASE r[k] \in Ops
    BY <2>3, Names
  <2> QED BY <1>2, <2>2, <2>3
<1>4. ASSUME NEW t \in Threads, RunsTask(i, t)
      PROVE  /\ \A x \in Threads : RunsTask(i, x) => t = x
             /\ \A j \in DOMAIN r : r[j] # TaskOp /\ r[j] \notin Descriptors
  <2>1. RunsTask(h, t)
    BY <1>4
  <2>2. \A j \in DOMAIN q : q[j] # TaskOp /\ q[j] \notin Descriptors
    BY <2>1 DEF TaskOK
  <2>3. \A x \in Threads : RunsTask(i, x) => t = x
    BY <2>1 DEF TaskOK
  <2> QED BY <1>2, <2>2, <2>3, Names
<1> QED BY <1>3, <1>4 DEF TaskOK, r

(* The front is taken.                                                     *)
LEMMA TaskTaken ==
  ASSUME NEW q \in Seq(All), q # <<>>, NoneTwice(q), NEW h, NEW i, TaskOK(q, h),
         NEW t \in Threads, \A u \in Threads : u # t => i[u] = h[u],
         ~RunsTask(h, t), RunsTask(i, t) => Head(q) = TaskOp
  PROVE  TaskOK(Tail(q), i)
<1> DEFINE r == Tail(q)
<1>1. /\ Head(q) = q[1] /\ 1 \in DOMAIN q
      /\ \A j \in DOMAIN r : j + 1 \in DOMAIN q /\ r[j] = q[j + 1] /\ j \in Nat /\ j >= 1
      /\ NoneTwice(r) /\ Head(q) \notin Range(r)
  <2>1. /\ Head(q) = q[1] /\ Len(q) \in Nat \ {0} /\ r \in Seq(All)
        /\ \A j \in DOMAIN r : j + 1 \in DOMAIN q /\ r[j] = q[j + 1]
        /\ NoneTwice(r) /\ Head(q) \notin Range(r)
    BY TailList
  <2>2. DOMAIN q = 1 .. Len(q) /\ DOMAIN r = 1 .. Len(r) /\ Len(r) \in Nat
    BY <2>1, LenProperties
  <2> HIDE DEF r
  <2> QED BY <2>1, <2>2
<1> HIDE DEF r
<1>2. \A j, k \in DOMAIN r : j < k /\ r[j] = TaskOp => r[k] \notin Descriptors
  <2> SUFFICES ASSUME NEW j \in DOMAIN r, NEW k \in DOMAIN r, j < k, r[j] = TaskOp
               PROVE  r[k] \notin Descriptors
    OBVIOUS
  <2>1. j + 1 < k + 1 /\ q[j + 1] = TaskOp
    BY <1>1
  <2> QED BY <1>1, <2>1 DEF TaskOK
<1>3. ASSUME NEW u \in Threads, RunsTask(i, u)
      PROVE  /\ \A x \in Threads : RunsTask(i, x) => u = x
             /\ \A j \in DOMAIN r : r[j] # TaskOp /\ r[j] \notin Descriptors
  <2>1. CASE u = t
    <3>1. q[1] = TaskOp
      BY <1>1, <1>3, <2>1
    <3>2. \A x \in Threads : ~RunsTask(h, x)
      BY <1>1, <3>1 DEF TaskOK
    <3>3. \A x \in Threads : RunsTask(i, x) => x = t
      BY <3>2 DEF RunsTask
    <3>4. \A j \in DOMAIN r : r[j] # TaskOp
      BY <1>1, <3>1 DEF Range
    <3>5. \A j \in DOMAIN r : r[j] \notin Descriptors
      <4> SUFFICES ASSUME NEW j \in DOMAIN r PROVE q[j + 1] \notin Descriptors
        BY <1>1
      <4>1. 1 < j + 1 /\ j + 1 \in DOMAIN q
        BY <1>1
      <4> QED BY <1>1, <3>1, <4>1 DEF TaskOK
    <3> QED BY <2>1, <3>3, <3>4, <3>5
  <2>2. CASE u # t
    <3>1. RunsTask(h, u)
      BY <1>3, <2>2 DEF RunsTask
    <3>2. \A j \in DOMAIN q : q[j] # TaskOp /\ q[j] \notin Descriptors
      BY <3>1 DEF TaskOK
    <3>3. ~RunsTask(i, t)
      BY <1>1, <3>2
    <3>4. \A x \in Threads : RunsTask(i, x) => x # t /\ RunsTask(h, x)
      BY <3>3 DEF RunsTask
    <3>5. \A x \in Threads : RunsTask(i, x) => u = x
      BY <3>1, <3>4 DEF TaskOK
    <3> QED BY <1>1, <3>2, <3>5
  <2> QED BY <2>1, <2>2
<1> QED BY <1>2, <1>3 DEF TaskOK, r

(* The thread that ran the task puts descriptors and the task back.        *)
LEMMA TaskReturns ==
  ASSUME NEW q \in Seq(All), NEW u \in Seq(All), NEW h, NEW i, TaskOK(q, h),
         NEW t \in Threads, \A x \in Threads : x # t => i[x] = h[x],
         RunsTask(h, t), ~RunsTask(i, t), Range(u) \subseteq Descriptors
  PROVE  TaskOK(q \o u \o <<TaskOp>>, i)
<1> DEFINE a == q \o u
           r == a \o <<TaskOp>>
<1>1. /\ Len(q) \in Nat /\ DOMAIN q = 1 .. Len(q)
      /\ Len(u) \in Nat /\ DOMAIN u = 1 .. Len(u)
      /\ a \in Seq(All) /\ Len(a) = Len(q) + Len(u)
      /\ \A j \in 1 .. Len(q) + Len(u) : a[j] = IF j <= Len(q) THEN q[j] ELSE u[j - Len(q)]
  BY ConcatProperties, LenProperties
<1>2. \A j \in 1 .. Len(a) : a[j] # TaskOp
  <2> SUFFICES ASSUME NEW j \in 1 .. Len(a) PROVE a[j] # TaskOp
    OBVIOUS
  <2>1. CASE j <= Len(q)
    <3>1. j \in DOMAIN q /\ a[j] = q[j]
      BY <1>1, <2>1
    <3> QED BY <3>1 DEF TaskOK
  <2>2. CASE ~(j <= Len(q))
    <3> HIDE DEF a
    <3>1. j - Len(q) \in DOMAIN u /\ a[j] = u[j - Len(q)]
      BY <1>1, <2>2
    <3> QED BY <3>1, Names DEF Range
  <2> QED BY <2>1, <2>2
<1>3. <<TaskOp>> \in Seq(All) /\ Len(<<TaskOp>>) = 1 /\ <<TaskOp>>[1] = TaskOp
  BY DEF All
<1>4. /\ DOMAIN r = 1 .. Len(a) + 1 /\ Len(a) \in Nat
      /\ \A j \in 1 .. Len(a) : r[j] = a[j]
  <2> DEFINE b == <<TaskOp>>
  <2>0. b \in Seq(All) /\ Len(b) = 1 /\ a \in Seq(All)
    BY <1>1, <1>3
  <2> HIDE DEF a, b
  <2>1. /\ a \o b \in Seq(All) /\ Len(a \o b) = Len(a) + Len(b)
        /\ \A j \in 1 .. Len(a) + Len(b) :
             (a \o b)[j] = IF j <= Len(a) THEN a[j] ELSE b[j - Len(a)]
    BY <2>0, ConcatProperties
  <2>3. r = a \o b
    BY DEF b
  <2>2. Len(a) \in Nat /\ DOMAIN r = 1 .. Len(r)
    BY <2>0, <2>1, <2>3, LenProperties
  <2> HIDE DEF r
  <2> QED BY <2>0, <2>1, <2>2, <2>3
<1> HIDE DEF a, r
<1>5. \A j, k \in DOMAIN r : j < k /\ r[j] = TaskOp => r[k] \notin Descriptors
  BY <1>2, <1>4
<1>6. \A x \in Threads : ~RunsTask(i, x)
  <2> SUFFICES ASSUME NEW x \in Threads, RunsTask(i, x) PROVE FALSE
    OBVIOUS
  <2>1. x # t /\ RunsTask(h, x)
    BY DEF RunsTask
  <2> QED BY <2>1 DEF TaskOK
<1> QED BY <1>5, <1>6 DEF TaskOK, a, r

-----------------------------------------------------------------------------
(* Every step, as what it moves from list to list.                         *)

ListsBecome(D, Q, P, V, S, R) ==
  /\ InDesc(desc') = D /\ Range(op_queue_') = Q /\ InPosting(posting') = P
  /\ InPrivate(th') = V /\ StartedOps(status') = S /\ Refused(posting') = R

(* The type invariant, with the record types by their names.               *)
LEMMA TypesOf ==
  ASSUME TypeOK
  PROVE  /\ th \in [Threads -> ThType] /\ desc \in [Descriptors -> DescType]
         /\ kern \in [Descriptors -> KernType] /\ posting \in [Callers -> PostType]
         /\ op_queue_ \in Seq(All) /\ status \in [Ops -> {"idle", "started", "done"}]
         /\ outstanding_work_ \in Nat /\ guard \in BOOLEAN /\ stopped_ \in BOOLEAN
BY DEF TypeOK, ThType, DescType, KernType, PostType, All

(* The operations that wait are operations that have been started.         *)
LEMMA WaitingIsStarted ==
  ASSUME TypeOK, PlaceInv
  PROVE  /\ InDesc(desc) \subseteq StartedOps(status)
         /\ InPosting(posting) \subseteq StartedOps(status)
         /\ Range(op_queue_) \cap Ops \subseteq StartedOps(status)
         /\ Refused(posting) \subseteq InPosting(posting)
         /\ StartedOps(status) \subseteq Ops
<1>1. Refused(posting) \subseteq InPosting(posting)
  BY DEF Refused, InPosting
<1>2. InPosting(posting) \subseteq StartedOps(status)
  BY DEF PlaceInv, Spread, Apart
<1> QED BY <1>1, <1>2 DEF PlaceInv, Spread, Apart, StartedOps

(* start_op posts: the operation is started and refused, and nobody had    *)
(* it.                                                                     *)
LEMMA MovesToPosting ==
  ASSUME TypeOK, PlaceInv, NEW c \in Callers, NEW op \in Ops,
         StartRefused(c, op) \/ StartPerformed(c, op) \/ StartModFails(c, op)
  PROVE  /\ PlaceInv'
         /\ op \notin StartedOps(status)
         /\ ListsBecome(InDesc(desc), Range(op_queue_), InPosting(posting) \cup {op},
                        InPrivate(th), StartedOps(status) \cup {op},
                        Refused(posting) \cup {op})
<1> DEFINE D == InDesc(desc)  Q == Range(op_queue_)  P == InPosting(posting)
           V == InPrivate(th)  S == StartedOps(status)  R == Refused(posting)
<1>1. /\ MayStart(c, op) /\ PostBy(c, "immediate", <<op>>)
      /\ status' = [status EXCEPT ![op] = "started"]
      /\ UNCHANGED <<th, op_queue_, guard>>
  BY DEF StartRefused, StartPerformed, StartModFails, sched
<1>2. op \notin S /\ MayCall(c)
  BY <1>1 DEF MayStart, StartedOps
<1>3. DescOK(desc') /\ InDesc(desc') = D
  <2>1. \A e \in Descriptors, k \in Kinds :
          /\ desc'[e].pending[k] = desc[e].pending[k]
          /\ desc'[e].state # "live" => desc[e].pending[k] = <<>>
    <3>1. CASE desc' = desc
      BY <3>1 DEF PlaceInv, DescOK
    <3>2. CASE StartPerformed(c, op)
      <4>1. PICK b : desc' = [desc EXCEPT ![Desc[op]].speculative[Kind[op]] = b]
        BY <3>2 DEF StartPerformed
      <4>2. \A e \in Descriptors : /\ desc'[e].pending = desc[e].pending
                                   /\ desc'[e].state = desc[e].state
        BY <4>1, TypesOf DEF DescType
      <4> QED BY <4>2 DEF PlaceInv, DescOK
    <3> QED BY <3>1, <3>2 DEF StartRefused, StartModFails
  <2>2. DescOK(desc)
    BY DEF PlaceInv
  <2> DEFINE es == desc'
  <2> HIDE DEF es
  <2>3. \A e \in Descriptors, k \in Kinds :
          /\ es[e].pending[k] = desc[e].pending[k]
          /\ es[e].state # "live" => desc[e].pending[k] = <<>>
    BY <2>1 DEF es
  <2>4. DescOK(es) /\ InDesc(es) = InDesc(desc)
    BY <2>2, <2>3, DescKeeps
  <2> QED BY <2>4 DEF es
<1>4. /\ PostingOK(posting', th, guard)
      /\ InPosting(posting') = P \cup {op} /\ Refused(posting') = R \cup {op}
  <2>1. /\ posting[c].how = "none"
        /\ IF c \in Threads THEN th[c].pc = "handler" ELSE guard
    BY <1>2 DEF MayCall
  <2>2. <<op>> \in Seq(Ops) /\ Range(<<op>>) = {op} /\ NoneTwice(<<op>>)
    BY OneList
  <2>3. op \notin InPosting(posting)
    BY <1>2, WaitingIsStarted
  <2> DEFINE r == posting'  l == <<op>>
  <2>4. r = [posting EXCEPT ![c] = [how |-> "immediate", ops |-> l]]
    BY <1>1 DEF PostBy
  <2>5. l \in Seq(Ops) /\ Range(l) = {op} /\ NoneTwice(l) /\ \E o \in Ops : l = <<o>>
    BY <2>2
  <2>6. PostingOK(posting, th, guard)
    BY DEF PlaceInv
  <2> HIDE DEF r, l
  <2>8. posting \in [Callers -> PostType] /\ Range(l) \cap InPosting(posting) = {}
    BY <2>3, <2>5, TypesOf
  <2>9. Holds(c, "immediate", l, posting, r, th, th, guard)
    BY <2>1, <2>4, <2>5, <2>6, <2>8 DEF Holds
  <2>7. /\ PostingOK(r, th, guard)
        /\ InPosting(r) = InPosting(posting) \cup Range(l)
        /\ "immediate" = "immediate" => Refused(r) = Refused(posting) \cup Range(l)
    BY <2>8, <2>9, PostingGains
  <2> QED BY <2>5, <2>7 DEF r
<1>5. StartedOps(status') = S \cup {op}
  BY <1>1, TypesOf DEF StartedOps
<1>6. Apart(D, Q, P \cup {op}, V, S \cup {op})
  <2>1. Apart(D, Q, P, V, S) /\ op \in Ops
    BY DEF PlaceInv, Spread
  <2> HIDE DEF D, Q, P, V, S
  <2> QED BY <1>2, <2>1 DEF Apart
<1>7. PlaceInv'
  <2>1. /\ DescOK(desc') /\ PostingOK(posting', th', guard') /\ ThreadsOK(th')
        /\ NoneTwice(op_queue_') /\ TaskOK(op_queue_', th')
    BY <1>1, <1>3, <1>4 DEF PlaceInv
  <2>2. Spread(desc', op_queue_', posting', th', status')
    BY <1>1, <1>3, <1>4, <1>5, <1>6 DEF Spread
  <2> QED BY <2>1, <2>2 DEF PlaceInv
<1> QED BY <1>1, <1>2, <1>3, <1>4, <1>5, <1>7 DEF ListsBecome

(* start_op returns with the operation in the queue of its descriptor.     *)
LEMMA MovesToDesc ==
  ASSUME TypeOK, PlaceInv, NEW c \in Callers, NEW op \in Ops, StartWaits(c, op)
  PROVE  /\ PlaceInv'
         /\ op \notin StartedOps(status)
         /\ ListsBecome(InDesc(desc) \cup {op}, Range(op_queue_), InPosting(posting),
                        InPrivate(th), StartedOps(status) \cup {op}, Refused(posting))
<1> DEFINE D == InDesc(desc)  Q == Range(op_queue_)  P == InPosting(posting)
           V == InPrivate(th)  S == StartedOps(status)  R == Refused(posting)
           d == Desc[op]
<1>1. /\ MayStart(c, op) /\ Open(desc[d])
      /\ status' = [status EXCEPT ![op] = "started"]
      /\ UNCHANGED <<th, posting, op_queue_, guard>>
  BY DEF StartWaits
<1>2. op \notin S
  BY <1>1 DEF MayStart, StartedOps
<1>3. DescOK(desc') /\ InDesc(desc') = D \cup {op}
  <2>1. PICK x : desc' = [desc EXCEPT ![d].registered = x,
                                      ![d].pending[Kind[op]] = Append(@, op)]
    BY DEF StartWaits
  <2>2. /\ d \in Descriptors /\ Kind[op] \in Kinds /\ desc \in [Descriptors -> DescType]
    BY Names, TypesOf
  <2> DEFINE es == desc'
  <2>3. /\ \A e \in Descriptors : es[e].state = desc[e].state
        /\ \A e \in Descriptors : e # d => es[e].pending = desc[e].pending
        /\ es[d].pending = [desc[d].pending EXCEPT ![Kind[op]] = Append(@, op)]
    BY <2>1, <2>2 DEF DescType
  <2>4. desc[d].pending \in [Kinds -> Seq(Ops)]
    BY <2>2 DEF DescType
  <2> HIDE DEF es
  <2>5. \A e \in Descriptors, k \in Kinds :
          es[e].pending[k] = IF e = d /\ k = Kind[op]
                             THEN Append(desc[e].pending[k], op)
                             ELSE desc[e].pending[k]
    BY <2>3, <2>4
  <2>6. DescOK(desc) /\ op \notin InDesc(desc) /\ desc[d].state = "live"
        /\ desc[d].pending[Kind[op]] \in Seq(Ops)
    BY <1>1, <1>2, <2>2, <2>4, WaitingIsStarted DEF PlaceInv, Open
  <2>7. DescOK(es) /\ InDesc(es) = InDesc(desc) \cup {op}
    BY <2>3, <2>5, <2>6, DescGains
  <2> QED BY <2>7 DEF es
<1>5. StartedOps(status') = S \cup {op}
  BY <1>1, TypesOf DEF StartedOps
<1>6. Apart(D \cup {op}, Q, P, V, S \cup {op})
  <2>1. Apart(D, Q, P, V, S) /\ op \in Ops
    BY DEF PlaceInv, Spread
  <2> HIDE DEF D, Q, P, V, S
  <2> QED BY <1>2, <2>1 DEF Apart
<1>7. PlaceInv'
  <2>1. /\ DescOK(desc') /\ PostingOK(posting', th', guard') /\ ThreadsOK(th')
        /\ NoneTwice(op_queue_') /\ TaskOK(op_queue_', th')
    BY <1>1, <1>3 DEF PlaceInv
  <2>2. Spread(desc', op_queue_', posting', th', status')
    BY <1>1, <1>3, <1>5, <1>6 DEF Spread
  <2> QED BY <2>1, <2>2 DEF PlaceInv
<1> QED BY <1>1, <1>2, <1>3, <1>5, <1>7 DEF ListsBecome

(* What waits in a descriptor, taken together.                             *)
LEMMA WaitingTogether ==
  ASSUME TypeOK, PlaceInv, NEW d \in Descriptors
  PROVE  /\ Waiting(desc[d]) \in Seq(Ops) /\ NoneTwice(Waiting(desc[d]))
         /\ Range(Waiting(desc[d])) = UNION {Range(desc[d].pending[k]) : k \in Kinds}
         /\ Range(Waiting(desc[d])) \subseteq InDesc(desc)
<1> DEFINE r == desc[d].pending["read"]  w == desc[d].pending["write"]
           x == desc[d].pending["except"]  rw == r \o w
<1>1. \A k \in Kinds : /\ desc[d].pending[k] \in Seq(Ops) /\ NoneTwice(desc[d].pending[k])
                       /\ \A o \in Range(desc[d].pending[k]) : Desc[o] = d /\ Kind[o] = k
  BY DEF TypeOK, PlaceInv, DescOK
<1>2. /\ r \in Seq(Ops) /\ w \in Seq(Ops) /\ x \in Seq(Ops)
      /\ NoneTwice(r) /\ NoneTwice(w) /\ NoneTwice(x)
      /\ Range(r) \cap Range(w) = {} /\ Range(r) \cap Range(x) = {}
      /\ Range(w) \cap Range(x) = {}
  <2>1. "read" \in Kinds /\ "write" \in Kinds /\ "except" \in Kinds
    BY DEF Kinds
  <2> QED BY <1>1, <2>1
<1> HIDE DEF r, w, x
<1>3. rw \in Seq(Ops) /\ Range(rw) = Range(r) \cup Range(w) /\ NoneTwice(rw)
  BY <1>2, ConcatList
<1> HIDE DEF rw
<1>4. /\ rw \o x \in Seq(Ops) /\ Range(rw \o x) = Range(r) \cup Range(w) \cup Range(x)
      /\ NoneTwice(rw \o x)
  <2>1. Range(rw) \cap Range(x) = {}
    BY <1>2, <1>3
  <2>2. /\ rw \o x \in Seq(Ops) /\ Range(rw \o x) = Range(rw) \cup Range(x)
        /\ NoneTwice(rw \o x)
    BY <1>2, <1>3, <2>1, ConcatList
  <2> QED BY <1>3, <2>2
<1>5. Waiting(desc[d]) = rw \o x
  BY DEF Waiting, rw, r, w, x
<1>6. Range(Waiting(desc[d])) = UNION {Range(desc[d].pending[k]) : k \in Kinds}
  BY <1>4, <1>5 DEF r, w, x, Kinds
<1>7. Range(Waiting(desc[d])) \subseteq InDesc(desc)
  <2>1. Range(Waiting(desc[d])) \subseteq Ops
    BY <1>4, <1>5 DEF Range
  <2> QED BY <1>1, <1>6, <2>1 DEF InDesc
<1> QED BY <1>4, <1>5, <1>6, <1>7

(* What cancel_ops and deregister_descriptor take goes from the descriptor *)
(* to the caller.                                                          *)
LEMMA MovesFromDesc ==
  ASSUME TypeOK, PlaceInv, NEW c \in Callers, NEW d \in Descriptors,
         CancelOps(c, d) \/ \E closing \in BOOLEAN : Deregister(c, d, closing)
  PROVE  LET W == Range(Waiting(desc[d])) IN
         /\ PlaceInv'
         /\ W \subseteq InDesc(desc)
         /\ ListsBecome(InDesc(desc) \ W, Range(op_queue_), InPosting(posting) \cup W,
                        InPrivate(th), StartedOps(status), Refused(posting))
<1> DEFINE D == InDesc(desc)  Q == Range(op_queue_)  P == InPosting(posting)
           V == InPrivate(th)  S == StartedOps(status)  R == Refused(posting)
           l == Waiting(desc[d])  W == Range(l)
<1>1. /\ MayCall(c) /\ PostBy(c, "deferred", l)
      /\ UNCHANGED <<th, op_queue_, guard, status>>
  BY DEF CancelOps, Deregister, sched
<1>2. /\ l \in Seq(Ops) /\ NoneTwice(l) /\ W \subseteq D
      /\ W = UNION {Range(desc[d].pending[k]) : k \in Kinds}
  BY WaitingTogether
<1>0. W \subseteq Ops
  BY <1>2 DEF InDesc
<1>3. DescOK(desc') /\ InDesc(desc') = D \ W
  <2>1. \/ desc' = [desc EXCEPT ![d].pending = NonePending]
        \/ desc' = [desc EXCEPT ![d].state = "shut", ![d].pending = NonePending]
    BY DEF CancelOps, Deregister
  <2> DEFINE es == desc'
  <2>2. /\ \A e \in Descriptors : e # d => /\ es[e].pending = desc[e].pending
                                           /\ es[e].state = desc[e].state
        /\ es[d].pending = NonePending
    BY <2>1, TypesOf DEF DescType
  <2>3. \A k \in Kinds : es[d].pending[k] = <<>>
    BY <2>2 DEF NonePending
  <2> HIDE DEF es, l
  <2>4. \A k \in Kinds : /\ NoneTwice(es[d].pending[k])
                         /\ Range(es[d].pending[k]) = Range(desc[d].pending[k]) \ W
                         /\ es[d].state # "live" => es[d].pending[k] = <<>>
    BY <1>2, <2>3, EmptyList
  <2>5. DescOK(desc)
    BY DEF PlaceInv
  <2> HIDE DEF W
  <2>7. W \subseteq UNION {Range(desc[d].pending[k]) : k \in Kinds} /\ W \subseteq Ops
    BY <1>0, <1>2
  <2>8. Leave(W, desc, es, d)
    BY <2>2, <2>4, <2>7 DEF Leave
  <2>6. DescOK(es) /\ InDesc(es) = InDesc(desc) \ W
    BY <2>5, <2>8, DescLoses
  <2> QED BY <2>6 DEF es
<1>6. Apart(D, Q, P, V, S)
  BY DEF PlaceInv, Spread
<1>4. /\ PostingOK(posting', th, guard)
      /\ InPosting(posting') = P \cup W /\ Refused(posting') = R
  <2>1. /\ posting[c].how = "none"
        /\ IF c \in Threads THEN th[c].pc = "handler" ELSE guard
    BY <1>1 DEF MayCall
  <2>3. W \cap InPosting(posting) = {}
    <3> HIDE DEF W
    <3> QED BY <1>2, <1>6 DEF Apart
  <2> DEFINE r == posting'
  <2>4. r = [posting EXCEPT ![c] = [how |-> "deferred", ops |-> l]]
    BY <1>1 DEF PostBy
  <2>6. PostingOK(posting, th, guard)
    BY DEF PlaceInv
  <2> HIDE DEF r, l
  <2>8. posting \in [Callers -> PostType] /\ l \in Seq(Ops) /\ NoneTwice(l)
    BY <1>2, TypesOf
  <2>9. Holds(c, "deferred", l, posting, r, th, th, guard)
    BY <2>1, <2>3, <2>4, <2>6, <2>8 DEF Holds
  <2>7. /\ PostingOK(r, th, guard)
        /\ InPosting(r) = InPosting(posting) \cup Range(l)
        /\ "deferred" = "deferred" => Refused(r) = Refused(posting)
    BY <2>8, <2>9, PostingGains
  <2> QED BY <2>7 DEF r
<1>7. Apart(D \ W, Q, P \cup W, V, S)
  <2> HIDE DEF D, Q, P, V, S, W
  <2> QED BY <1>2, <1>6 DEF Apart
<1>8. PlaceInv'
  <2>1. /\ DescOK(desc') /\ PostingOK(posting', th', guard') /\ ThreadsOK(th')
        /\ NoneTwice(op_queue_') /\ TaskOK(op_queue_', th')
    BY <1>1, <1>3, <1>4 DEF PlaceInv
  <2>2. Spread(desc', op_queue_', posting', th', status')
    BY <1>1, <1>3, <1>4, <1>7 DEF Spread
  <2> QED BY <2>1, <2>2 DEF PlaceInv
<1> QED BY <1>1, <1>2, <1>3, <1>4, <1>8 DEF ListsBecome

(* A post to the scheduler's queue takes what the caller held there.       *)
LEMMA MovesToQueue ==
  ASSUME TypeOK, PlaceInv, NEW c \in Callers, PostStep(c), ~UsesPrivateQueue(c)
  PROVE  LET X == Range(posting[c].ops) IN
         /\ PlaceInv' /\ X \subseteq InPosting(posting) /\ X \subseteq Ops
         /\ ListsBecome(InDesc(desc), Range(op_queue_) \cup X, InPosting(posting) \ X,
                        InPrivate(th), StartedOps(status), Refused(posting) \ X)
<1> DEFINE D == InDesc(desc)  Q == Range(op_queue_)  P == InPosting(posting)
           V == InPrivate(th)  S == StartedOps(status)  R == Refused(posting)
           l == posting[c].ops  X == Range(l)
<1>1. /\ posting' = [posting EXCEPT ![c] = Idle] /\ op_queue_' = op_queue_ \o l
      /\ UNCHANGED <<desc, th, guard, status>>
  BY DEF PostStep, PostImmediate, PostDeferred, sched
<1>2. /\ l \in Seq(Ops) /\ X \subseteq Ops /\ l \in Seq(All) /\ op_queue_ \in Seq(All)
  <2>1. l \in Seq(Ops)
    BY TypesOf DEF PostType
  <2> QED BY <2>1, TypesOf DEF Range, All
<1>3. /\ PostingOK(posting', th, guard) /\ InPosting(posting') = P \ X
      /\ Refused(posting') = R \ X /\ X \subseteq P /\ NoneTwice(l)
  <2> DEFINE r == posting'
  <2>1. PostingOK(posting, th, guard) /\ r = [posting EXCEPT ![c] = Idle]
    BY <1>1 DEF PlaceInv
  <2> HIDE DEF r
  <2>2. /\ PostingOK(r, th, guard)
        /\ InPosting(r) = InPosting(posting) \ Range(posting[c].ops)
        /\ Refused(r) = Refused(posting) \ Range(posting[c].ops)
        /\ Range(posting[c].ops) \subseteq InPosting(posting)
        /\ NoneTwice(posting[c].ops)
    <3>1. Releases(c, posting, r, th, th, guard)
      BY <2>1 DEF Releases
    <3> QED BY <3>1, TypesOf, PostingLoses
  <2> QED BY <2>2 DEF r
<1>4. Apart(D, Q, P, V, S)
  BY DEF PlaceInv, Spread
<1>5. Range(op_queue_') = Q \cup X /\ NoneTwice(op_queue_')
  <2>1. X \cap Q = {}
    <3> HIDE DEF X, P, Q
    <3> QED BY <1>3, <1>4 DEF Apart
  <2>2. NoneTwice(op_queue_) /\ Range(op_queue_) \cap Range(l) = {}
    BY <2>1 DEF PlaceInv
  <2> HIDE DEF l
  <2> QED BY <1>1, <1>2, <1>3, <2>2, ConcatList
<1>6. TaskOK(op_queue_', th)
  <2>1. TaskOK(op_queue_, th)
    BY DEF PlaceInv
  <2> HIDE DEF l
  <2>2. TaskOK(op_queue_ \o l, th)
    BY <1>2, <2>1, TaskBeforeOps
  <2> QED BY <1>1, <2>2
<1>7. Apart(D, Q \cup X, P \ X, V, S)
  <2> HIDE DEF D, Q, P, V, S, X
  <2> QED BY <1>2, <1>3, <1>4 DEF Apart
<1>8. PlaceInv'
  <2>1. /\ DescOK(desc') /\ PostingOK(posting', th', guard') /\ ThreadsOK(th')
        /\ NoneTwice(op_queue_') /\ TaskOK(op_queue_', th')
    BY <1>1, <1>3, <1>5, <1>6 DEF PlaceInv
  <2>2. Spread(desc', op_queue_', posting', th', status')
    BY <1>1, <1>3, <1>5, <1>7 DEF Spread
  <2> QED BY <2>1, <2>2 DEF PlaceInv
<1> QED BY <1>1, <1>2, <1>3, <1>5, <1>8 DEF ListsBecome

(* With one_thread_, or as a continuation, an operation a handler posts    *)
(* goes to the private queue.                                              *)
LEMMA MovesToPrivate ==
  ASSUME TypeOK, PlaceInv, NEW c \in Callers, PostImmediate(c), UsesPrivateQueue(c)
  PROVE  LET X == Range(posting[c].ops) IN
         /\ PlaceInv' /\ X \subseteq InPosting(posting) /\ X \subseteq Ops
         /\ ListsBecome(InDesc(desc), Range(op_queue_), InPosting(posting) \ X,
                        InPrivate(th) \cup X, StartedOps(status), Refused(posting) \ X)
<1> DEFINE D == InDesc(desc)  Q == Range(op_queue_)  P == InPosting(posting)
           V == InPrivate(th)  S == StartedOps(status)  R == Refused(posting)
           l == posting[c].ops  X == Range(l)  q == th[c].queue
<1>1. /\ posting' = [posting EXCEPT ![c] = Idle] /\ posting[c].how = "immediate"
      /\ th' = [th EXCEPT ![c].work = @ + 1, ![c].queue = @ \o l]
      /\ UNCHANGED <<desc, op_queue_, guard, status>>
      /\ c \in Threads
  BY DEF PostImmediate, UsesPrivateQueue, sched
<1>2. /\ l \in Seq(Ops) /\ X \subseteq Ops /\ \E o \in Ops : l = <<o>>
      /\ th[c].pc = "handler"
  <2>1. l \in Seq(Ops)
    BY TypesOf DEF PostType
  <2> QED BY <1>1, <2>1 DEF Range, PlaceInv, PostingOK
<1>3. /\ th'[c].pc = "handler" /\ th'[c].queue = q \o l /\ th'[c].work = th[c].work + 1
      /\ \A u \in Threads : u # c => th'[u] = th[u]
      /\ \A u \in Threads : th'[u].pc = th[u].pc
  BY <1>1, <1>2, TypesOf DEF ThType
<1>4. /\ PostingOK(posting', th', guard) /\ InPosting(posting') = P \ X
      /\ Refused(posting') = R \ X /\ X \subseteq P /\ NoneTwice(l)
  <2> DEFINE r == posting'  i == th'
  <2>1. /\ PostingOK(posting, th, guard) /\ r = [posting EXCEPT ![c] = Idle]
        /\ \A u \in Threads : i[u].pc = th[u].pc
    BY <1>1, <1>3 DEF PlaceInv
  <2> HIDE DEF r, i
  <2>2. /\ PostingOK(r, i, guard)
        /\ InPosting(r) = InPosting(posting) \ Range(posting[c].ops)
        /\ Refused(r) = Refused(posting) \ Range(posting[c].ops)
        /\ Range(posting[c].ops) \subseteq InPosting(posting)
        /\ NoneTwice(posting[c].ops)
    <3>1. Releases(c, posting, r, th, i, guard)
      BY <2>1 DEF Releases
    <3> QED BY <3>1, TypesOf, PostingLoses
  <2> QED BY <2>2 DEF r, i
<1>5. Apart(D, Q, P, V, S)
  BY DEF PlaceInv, Spread
<1>6. ThreadsOK(th) /\ TaskOK(op_queue_, th)
  BY DEF PlaceInv
<1>7. ThreadOK(th[c]) /\ Range(q) \subseteq V
  BY <1>1, <1>6 DEF ThreadsOK, InPrivate
<1>8. X \cap V = {}
  <2> HIDE DEF X, P, V
  <2> QED BY <1>4, <1>5 DEF Apart
<1>9. /\ q \o l \in Seq(Descriptors \cup Ops) /\ Range(q \o l) = Range(q) \cup X
      /\ NoneTwice(q \o l) /\ Len(q \o l) = Len(q) + 1 /\ Len(q) \in Nat
      /\ th[c].work \in Nat
  <2>1. /\ q \in Seq(Descriptors \cup Ops) /\ l \in Seq(Descriptors \cup Ops)
        /\ th[c].work \in Nat
    BY <1>1, <1>2, TypesOf DEF ThType
  <2>2. NoneTwice(q) /\ NoneTwice(l) /\ Range(q) \cap Range(l) = {}
    BY <1>4, <1>7, <1>8 DEF ThreadOK
  <2>3. Len(l) = 1
    BY <1>2
  <2> HIDE DEF q, l
  <2>4. Len(q \o l) = Len(q) + Len(l) /\ Len(q) \in Nat
    BY <2>1, ConcatProperties, LenProperties
  <2> QED BY <2>1, <2>2, <2>3, <2>4, ConcatList
<1>10. /\ ThreadsOK(th') /\ InPrivate(th') = V \cup X
  <2> DEFINE i == th'
  <2>1. ThreadOK(i[c])
    <3>2. Range(q) \subseteq Ops /\ Len(q) <= th[c].work
      BY <1>2, <1>7 DEF ThreadOK
    <3>3. i[c].queue = q \o l /\ i[c].work = th[c].work + 1 /\ i[c].pc = "handler"
      BY <1>3
    <3> HIDE DEF i, q, l
    <3>1. /\ i[c].pc = "handler" /\ NoneTwice(i[c].queue) /\ Len(i[c].queue) <= i[c].work
          /\ Range(i[c].queue) \subseteq Ops
      BY <1>1, <1>2, <1>9, <3>2, <3>3
    <3> HIDE DEF i
    <3> QED BY <3>1 DEF ThreadOK
  <2>2. Range(i[c].queue) = Range(q) \cup X /\ \A u \in Threads : u # c => i[u] = th[u]
    BY <1>3, <1>9
  <2> HIDE DEF i
  <2>3. Range(i[c].queue) \cap (InPrivate(th) \ Range(th[c].queue)) = {}
    <3> HIDE DEF X
    <3> QED BY <1>8, <2>2
  <2>4. Turns(c, th, i)
    BY <1>6, <2>1, <2>2, <2>3 DEF Turns
  <2>5. /\ ThreadsOK(i)
        /\ InPrivate(i) = (InPrivate(th) \ Range(th[c].queue)) \cup Range(i[c].queue)
    BY <1>1, <2>4, ThreadMoves
  <2>6. InPrivate(i) = V \cup X
    <3> HIDE DEF X
    <3> QED BY <1>7, <2>2, <2>5
  <2> QED BY <2>5, <2>6 DEF i
<1>11. TaskOK(op_queue_, th')
  BY <1>3, <1>6 DEF TaskOK, RunsTask
<1>12. Apart(D, Q, P \ X, V \cup X, S)
  <2>1. X \cap Q = {} /\ X \cap D = {}
    <3> HIDE DEF D, X, P, Q
    <3> QED BY <1>4, <1>5 DEF Apart
  <2> HIDE DEF D, Q, P, V, S, X
  <2> QED BY <1>2, <1>4, <1>5, <2>1 DEF Apart
<1>13. PlaceInv'
  <2>1. /\ DescOK(desc') /\ PostingOK(posting', th', guard') /\ ThreadsOK(th')
        /\ NoneTwice(op_queue_') /\ TaskOK(op_queue_', th')
    BY <1>1, <1>4, <1>10, <1>11 DEF PlaceInv
  <2>2. Spread(desc', op_queue_', posting', th', status')
    BY <1>1, <1>4, <1>10, <1>12 DEF Spread
  <2> QED BY <2>1, <2>2 DEF PlaceInv
<1> QED BY <1>1, <1>2, <1>4, <1>10, <1>13 DEF ListsBecome

(* With one_thread_ cancelled and performed operations are dropped, with   *)
(* what the private queue had.                                             *)
LEMMA MovesNowhere ==
  ASSUME TypeOK, PlaceInv, NEW c \in Callers, PostDeferred(c), UsesPrivateQueue(c)
  PROVE  LET X == Range(posting[c].ops) IN
         /\ PlaceInv'
         /\ ListsBecome(InDesc(desc), Range(op_queue_), InPosting(posting) \ X,
                        InPrivate(th) \ Range(th[c].queue), StartedOps(status),
                        Refused(posting))
<1> DEFINE D == InDesc(desc)  Q == Range(op_queue_)  P == InPosting(posting)
           V == InPrivate(th)  S == StartedOps(status)  R == Refused(posting)
           l == posting[c].ops  X == Range(l)  q == th[c].queue
<1>1. /\ posting' = [posting EXCEPT ![c] = Idle] /\ posting[c].how = "deferred"
      /\ th' = [th EXCEPT ![c].queue = <<>>]
      /\ UNCHANGED <<desc, op_queue_, guard, status>>
      /\ c \in Threads /\ OneThread
  BY DEF PostDeferred, UsesPrivateQueue
<1>2. th[c].pc = "handler"
  BY <1>1 DEF PlaceInv, PostingOK
<1>3. /\ th'[c].pc = "handler" /\ th'[c].queue = <<>> /\ th'[c].work = th[c].work
      /\ \A u \in Threads : u # c => th'[u] = th[u]
      /\ \A u \in Threads : th'[u].pc = th[u].pc
  BY <1>1, <1>2, TypesOf DEF ThType
<1>4. /\ PostingOK(posting', th', guard) /\ InPosting(posting') = P \ X
      /\ Refused(posting') = R \ X /\ X \subseteq P
  <2> DEFINE r == posting'  i == th'
  <2>1. /\ PostingOK(posting, th, guard) /\ r = [posting EXCEPT ![c] = Idle]
        /\ \A u \in Threads : i[u].pc = th[u].pc
    BY <1>1, <1>3 DEF PlaceInv
  <2> HIDE DEF r, i
  <2>2. /\ PostingOK(r, i, guard)
        /\ InPosting(r) = InPosting(posting) \ Range(posting[c].ops)
        /\ Refused(r) = Refused(posting) \ Range(posting[c].ops)
        /\ Range(posting[c].ops) \subseteq InPosting(posting)
    <3>1. Releases(c, posting, r, th, i, guard)
      BY <2>1 DEF Releases
    <3> QED BY <3>1, TypesOf, PostingLoses
  <2> QED BY <2>2 DEF r, i
<1>5. R \ X = R
  <2> SUFFICES ASSUME NEW o \in R PROVE o \notin X
    OBVIOUS
  <2>1. PICK e \in Callers : posting[e].how = "immediate" /\ o \in Range(posting[e].ops)
    BY DEF Refused
  <2>2. e # c
    BY <1>1, <2>1
  <2> QED BY <2>1, <2>2 DEF PlaceInv, PostingOK
<1>6. Apart(D, Q, P, V, S)
  BY DEF PlaceInv, Spread
<1>7. ThreadsOK(th) /\ TaskOK(op_queue_, th)
  BY DEF PlaceInv
<1>8. ThreadsOK(th') /\ InPrivate(th') = V \ Range(q)
  <2> DEFINE i == th'
  <2>1. ThreadOK(i[c])
    <3>1. /\ i[c].pc = "handler" /\ i[c].queue = <<>> /\ OneThread
      BY <1>1, <1>3
    <3>2. NoneTwice(i[c].queue) /\ Range(i[c].queue) \subseteq Ops
      BY <3>1, EmptyList
    <3>3. Len(i[c].queue) <= i[c].work
      BY <1>1, <1>3, <3>1, TypesOf DEF ThType
    <3> HIDE DEF i
    <3> QED BY <3>1, <3>2, <3>3 DEF ThreadOK
  <2>2. Range(i[c].queue) = {} /\ \A u \in Threads : u # c => i[u] = th[u]
    BY <1>3, EmptyList
  <2> HIDE DEF i
  <2>4. Turns(c, th, i)
    BY <1>7, <2>1, <2>2 DEF Turns
  <2>5. /\ ThreadsOK(i)
        /\ InPrivate(i) = (InPrivate(th) \ Range(th[c].queue)) \cup Range(i[c].queue)
    BY <1>1, <2>4, ThreadMoves
  <2> QED BY <2>2, <2>5 DEF i
<1>9. TaskOK(op_queue_, th')
  BY <1>3, <1>7 DEF TaskOK, RunsTask
<1>10. Apart(D, Q, P \ X, V \ Range(q), S)
  <2> HIDE DEF D, Q, P, V, S, X
  <2> QED BY <1>4, <1>6 DEF Apart
<1>11. PlaceInv'
  <2>1. /\ DescOK(desc') /\ PostingOK(posting', th', guard') /\ ThreadsOK(th')
        /\ NoneTwice(op_queue_') /\ TaskOK(op_queue_', th')
    BY <1>1, <1>4, <1>8, <1>9 DEF PlaceInv
  <2>2. Spread(desc', op_queue_', posting', th', status')
    BY <1>1, <1>4, <1>8, <1>10 DEF Spread
  <2> QED BY <2>1, <2>2 DEF PlaceInv
<1> QED BY <1>1, <1>4, <1>5, <1>8, <1>11 DEF ListsBecome

(* Only a handler and the task's cleanup have a private queue.             *)
LEMMA NothingHeld ==
  ASSUME TypeOK, PlaceInv, NEW t \in Threads, th[t].pc \notin {"handler", "cleanup"}
  PROVE  th[t].queue = <<>> /\ Range(th[t].queue) = {}
<1>1. ThreadOK(th[t])
  BY DEF PlaceInv, ThreadsOK
<1> QED BY <1>1, EmptyList DEF ThreadOK

(* Only the step of the thread t changes, and not what its caller holds.   *)
LEMMA PostingStays ==
  ASSUME TypeOK, PlaceInv, NEW t \in Threads, posting[t].how = "none",
         UNCHANGED <<posting, guard>>, \A u \in Threads : u # t => th'[u] = th[u]
  PROVE  PostingOK(posting', th', guard')
BY DEF PlaceInv, PostingOK

(* do_run_one takes the front of the queue, and the handler is run when it *)
(* is an operation.                                                        *)
LEMMA MovesToThread ==
  ASSUME TypeOK, PlaceInv, NEW t \in Threads, Take(t)
  PROVE  LET o == Head(op_queue_) IN
         /\ PlaceInv' /\ o \in Range(op_queue_)
         /\ ListsBecome(InDesc(desc), Range(op_queue_) \ {o}, InPosting(posting),
                        InPrivate(th), StartedOps(status) \ {o}, Refused(posting))
         /\ \A u \in Threads : u # t => th'[u] = th[u]
         /\ th[t].pc = "loop" /\ th'[t].work = th[t].work
         /\ th'[t].pc = IF o = TaskOp THEN "task" ELSE IF o \in Ops THEN "handler" ELSE "popped"
<1> DEFINE D == InDesc(desc)  Q == Range(op_queue_)  P == InPosting(posting)
           V == InPrivate(th)  S == StartedOps(status)  R == Refused(posting)
           o == Head(op_queue_)
           pc == IF o = TaskOp THEN "task" ELSE IF o \in Ops THEN "handler" ELSE "popped"
           base == IF o \in Descriptors THEN o ELSE NoOp
<1>1. /\ th[t].pc = "loop" /\ posting[t].how = "none"
      /\ th' = [th EXCEPT ![t].pc = pc, ![t].base = base]
      /\ status' = IF o \in Ops THEN [status EXCEPT ![o] = "done"] ELSE status
      /\ op_queue_' = Tail(op_queue_) /\ op_queue_ # <<>>
      /\ UNCHANGED <<desc, posting, guard>>
  BY DEF Take, At
<1>2. /\ op_queue_ \in Seq(All) /\ NoneTwice(op_queue_) /\ TaskOK(op_queue_, th)
  BY TypesOf DEF PlaceInv
<1>3. /\ o \in All /\ Q = {o} \cup Range(op_queue_') /\ o \notin Range(op_queue_')
      /\ NoneTwice(op_queue_')
  BY <1>1, <1>2, TailList
<1>4. o \in Descriptors \/ o \in Ops \/ o = TaskOp
  BY <1>3 DEF All
<1> HIDE DEF o
<1>5. /\ th'[t].pc = pc /\ th'[t].base = base /\ th'[t].queue = th[t].queue
      /\ th'[t].work = th[t].work
      /\ \A u \in Threads : u # t => th'[u] = th[u]
  BY <1>1, TypesOf DEF ThType
<1>6. th[t].queue = <<>> /\ Range(th[t].queue) = {} /\ th[t].work = 0
  <2>1. ThreadOK(th[t])
    BY DEF PlaceInv, ThreadsOK
  <2> QED BY <1>1, <2>1, NothingHeld DEF ThreadOK
<1>7. ThreadsOK(th') /\ InPrivate(th') = V
  <2> DEFINE i == th'
  <2>1. /\ i[t].queue = <<>> /\ i[t].work = 0 /\ i[t].pc \in {"task", "handler", "popped"}
        /\ i[t].pc = "popped" => i[t].base \in Descriptors
        /\ \A u \in Threads : u # t => i[u] = th[u]
    BY <1>4, <1>5, <1>6
  <2> HIDE DEF i
  <2>2. Range(i[t].queue) = {} /\ NoneTwice(i[t].queue) /\ Len(i[t].queue) = 0
    BY <2>1, EmptyList
  <2>3. ThreadOK(i[t])
    BY <2>1, <2>2 DEF ThreadOK
  <2>4. Turns(t, th, i)
    BY <2>1, <2>2, <2>3 DEF Turns, PlaceInv
  <2>5. /\ ThreadsOK(i)
        /\ InPrivate(i) = (InPrivate(th) \ Range(th[t].queue)) \cup Range(i[t].queue)
    BY <2>4, ThreadMoves
  <2> QED BY <1>6, <2>2, <2>5 DEF i
<1>8. TaskOK(op_queue_', th')
  <2> DEFINE i == th'
  <2>3. pc \in {"task", "cleanup"} => o = TaskOp
    OBVIOUS
  <2>4. i[t].pc = pc /\ \A u \in Threads : u # t => i[u] = th[u]
    BY <1>5
  <2> HIDE DEF pc
  <2>1. /\ \A u \in Threads : u # t => i[u] = th[u]
        /\ ~RunsTask(th, t) /\ (RunsTask(i, t) => o = TaskOp)
    BY <1>1, <2>3, <2>4 DEF RunsTask
  <2> HIDE DEF i
  <2>2. TaskOK(Tail(op_queue_), i)
    BY <1>1, <1>2, <2>1, TaskTaken DEF o
  <2> QED BY <1>1, <2>2 DEF i
<1>9. PostingOK(posting', th', guard')
  BY <1>1, <1>5, PostingStays
<1>10. StartedOps(status') = S \ {o}
  <2>1. S \subseteq Ops
    BY DEF StartedOps
  <2> QED BY <1>1, <2>1, TypesOf DEF StartedOps
<1>11. Apart(D, Q \ {o}, P, V, S \ {o})
  <2>1. Apart(D, Q, P, V, S) /\ o \in Q
    BY <1>3 DEF PlaceInv, Spread
  <2> HIDE DEF D, Q, P, V, S
  <2> QED BY <2>1 DEF Apart
<1>12. Range(op_queue_') = Q \ {o}
  BY <1>3
<1>13. PlaceInv'
  <2>1. /\ DescOK(desc') /\ PostingOK(posting', th', guard') /\ ThreadsOK(th')
        /\ NoneTwice(op_queue_') /\ TaskOK(op_queue_', th')
    BY <1>1, <1>3, <1>7, <1>8, <1>9 DEF PlaceInv
  <2>2. Spread(desc', op_queue_', posting', th', status')
    BY <1>1, <1>7, <1>10, <1>11, <1>12 DEF Spread
  <2> QED BY <2>1, <2>2 DEF PlaceInv
<1>14. ListsBecome(D, Q \ {o}, P, V, S \ {o}, R)
  BY <1>1, <1>7, <1>10, <1>12 DEF ListsBecome
<1> QED BY <1>1, <1>3, <1>5, <1>13, <1>14 DEF o

(* Only descriptors move: no operation does.                               *)
LEMMA MovesDescriptors ==
  ASSUME TypeOK, PlaceInv, NEW t \in Threads, TaskRuns(t)
  PROVE  /\ PlaceInv'
         /\ \E X \in SUBSET Descriptors :
              ListsBecome(InDesc(desc), Range(op_queue_), InPosting(posting),
                          InPrivate(th) \cup X, StartedOps(status), Refused(posting))
         /\ \A u \in Threads : u # t => th'[u] = th[u]
         /\ th[t].pc = "task" /\ th'[t].pc = "cleanup" /\ th'[t].work = th[t].work
<1> DEFINE D == InDesc(desc)  Q == Range(op_queue_)  P == InPosting(posting)
           V == InPrivate(th)  S == StartedOps(status)  R == Refused(posting)
<1>r. PICK reported \in SUBSET Descriptors :
        \E order \in SetToSeqs(reported) : TaskReports(t, reported, order)
  BY TaskIs
<1>0. PICK order \in SetToSeqs(reported) : TaskReports(t, reported, order)
  BY <1>r
<1>1. /\ th[t].pc = "task" /\ posting[t].how = "none"
      /\ desc' = [d \in Descriptors |->
             IF d \in reported THEN [desc[d] EXCEPT !.result = Mask(kern[d])]
                               ELSE desc[d]]
      /\ UNCHANGED <<posting, op_queue_, guard, status>>
  BY <1>0 DEF TaskReports, At, sched
<1>2. th' = [th EXCEPT ![t].pc = "cleanup", ![t].queue = order]
  BY <1>0 DEF TaskReports
<1>3. order \in Seq(Descriptors) /\ NoneTwice(order)
  <2>1. IsFiniteSet(reported)
    BY ReactorAssumption, FS_Subset
  <2>2. Cardinality(reported) \in Nat
    BY <2>1, FS_CardinalityType
  <2>3. /\ order \in [1 .. Cardinality(reported) -> Descriptors]
        /\ \A i, j \in 1 .. Cardinality(reported) : order[i] = order[j] => i = j
    BY DEF SetToSeqs, IsInjective
  <2> QED BY <2>2, <2>3 DEF NoneTwice
<1>4. /\ th'[t].pc = "cleanup" /\ th'[t].queue = order
      /\ th'[t].work = th[t].work
      /\ \A u \in Threads : u # t => th'[u] = th[u]
  BY <1>2, TypesOf DEF ThType
<1>5. DescOK(desc') /\ InDesc(desc') = D
  <2> DEFINE es == desc'
  <2>1. DescOK(desc) /\ \A d \in Descriptors : es[d].pending = desc[d].pending
                                                /\ es[d].state = desc[d].state
    BY <1>1, TypesOf DEF PlaceInv, DescType
  <2> HIDE DEF es
  <2>2. \A e \in Descriptors, k \in Kinds :
           /\ es[e].pending[k] = desc[e].pending[k]
           /\ es[e].state # "live" => desc[e].pending[k] = <<>>
    BY <2>1 DEF DescOK
  <2>3. DescOK(es) /\ InDesc(es) = InDesc(desc)
    BY <2>1, <2>2, DescKeeps
  <2> QED BY <2>3 DEF es
<1>6. /\ ThreadsOK(th) /\ TaskOK(op_queue_, th) /\ ThreadOK(th[t]) /\ Apart(D, Q, P, V, S)
  BY DEF PlaceInv, ThreadsOK, Spread
<1>7. \A u \in Threads : u # t => ~RunsTask(th, u)
  BY <1>1, <1>6 DEF TaskOK, RunsTask
<1>8. V \cap Descriptors = {} /\ Q \cap Descriptors = {} /\ Q \subseteq All
      /\ D \cap Descriptors = {} /\ P \cap Descriptors = {}
  <2>1. ASSUME NEW u \in Threads PROVE Range(th[u].queue) \cap Descriptors = {}
    <3>1. CASE th[u].pc = "handler"
      BY <1>6, <3>1, Names DEF ThreadsOK, ThreadOK
    <3>2. CASE th[u].pc \notin {"handler", "cleanup"}
      BY <3>2, NothingHeld
    <3>3. th[u].pc # "cleanup"
      BY <1>1, <1>7 DEF RunsTask
    <3> QED BY <3>1, <3>2, <3>3
  <2>2. Q \cap Descriptors = {} /\ Q \subseteq All
    BY <1>1, <1>6, TypesOf DEF TaskOK, RunsTask, Range
  <2>3. D \subseteq Ops /\ P \subseteq Ops
    BY WaitingIsStarted DEF InDesc
  <2> QED BY <2>1, <2>2, <2>3, Names DEF InPrivate
<1>9. Range(th[t].queue) = {} /\ th[t].work = 0
  BY <1>1, <1>6, NothingHeld DEF ThreadOK
<1> DEFINE X == Range(order)
<1>10. X \subseteq Descriptors
  BY <1>3 DEF Range
<1>11. ThreadsOK(th') /\ InPrivate(th') = V \cup X
  <2> DEFINE i == th'
  <2>1. /\ i[t].queue = order /\ i[t].work = 0 /\ i[t].pc = "cleanup"
        /\ \A u \in Threads : u # t => i[u] = th[u]
    BY <1>4, <1>9
  <2> HIDE DEF i
  <2>3. ThreadOK(i[t])
    BY <1>3, <1>10, <2>1 DEF ThreadOK
  <2>4. Turns(t, th, i)
    BY <1>6, <1>8, <1>10, <2>1, <2>3 DEF Turns
  <2>5. /\ ThreadsOK(i)
        /\ InPrivate(i) = (InPrivate(th) \ Range(th[t].queue)) \cup Range(i[t].queue)
    BY <2>4, ThreadMoves
  <2> QED BY <1>9, <2>1, <2>5 DEF i
<1>12. TaskOK(op_queue_', th')
  BY <1>1, <1>4, <1>6 DEF TaskOK, RunsTask
<1>13. PostingOK(posting', th', guard')
  BY <1>1, <1>4, PostingStays
<1>14. Apart(D, Q, P, V \cup X, S)
  <2> HIDE DEF D, Q, P, V, S, X
  <2> QED BY <1>6, <1>8, <1>10, Names DEF Apart
<1>15. PlaceInv'
  <2>1. /\ DescOK(desc') /\ PostingOK(posting', th', guard') /\ ThreadsOK(th')
        /\ NoneTwice(op_queue_') /\ TaskOK(op_queue_', th')
    BY <1>1, <1>5, <1>11, <1>12, <1>13 DEF PlaceInv
  <2>2. Spread(desc', op_queue_', posting', th', status')
    BY <1>1, <1>5, <1>11, <1>14 DEF Spread
  <2> QED BY <2>1, <2>2 DEF PlaceInv
<1>16. ListsBecome(D, Q, P, V \cup X, S, R)
  BY <1>1, <1>5, <1>11 DEF ListsBecome
<1> HIDE DEF X
<1> QED BY <1>1, <1>4, <1>10, <1>15, <1>16

(* The private queue, and perhaps the task, join the scheduler's queue.    *)
LEMMA MovesBack ==
  ASSUME TypeOK, PlaceInv, NEW t \in Threads, TaskCleanup(t)
  PROVE  /\ PlaceInv'
         /\ \E X \in SUBSET (Descriptors \cup {TaskOp}) : \E Y \in SUBSET X :
              ListsBecome(InDesc(desc), Range(op_queue_) \cup X, InPosting(posting),
                          InPrivate(th) \ Y, StartedOps(status), Refused(posting))
         /\ \A u \in Threads : u # t => th'[u] = th[u]
         /\ th[t].pc = "cleanup" /\ th'[t].pc = "loop" /\ th'[t].work = th[t].work
<1> DEFINE D == InDesc(desc)  Q == Range(op_queue_)  P == InPosting(posting)
           V == InPrivate(th)  S == StartedOps(status)  R == Refused(posting)
           q == th[t].queue  X == Range(q) \cup {TaskOp}  qq == op_queue_ \o q \o <<TaskOp>>
<1>1. /\ th[t].pc = "cleanup" /\ posting[t].how = "none"
      /\ op_queue_' = qq
      /\ th' = [th EXCEPT ![t].pc = "loop", ![t].queue = <<>>]
      /\ UNCHANGED <<desc, posting, guard, status>>
  BY DEF TaskCleanup, At
<1>2. /\ th'[t].pc = "loop" /\ th'[t].queue = <<>> /\ th'[t].work = th[t].work
      /\ \A u \in Threads : u # t => th'[u] = th[u]
  BY <1>1, TypesOf DEF ThType
<1>3. /\ ThreadsOK(th) /\ TaskOK(op_queue_, th) /\ ThreadOK(th[t]) /\ Apart(D, Q, P, V, S)
      /\ NoneTwice(op_queue_)
  BY DEF PlaceInv, ThreadsOK, Spread
<1>4. /\ q \in Seq(All) /\ Range(q) \subseteq Descriptors /\ NoneTwice(q)
      /\ Range(q) \subseteq V /\ th[t].work = 0
  <2>1. q \in Seq(Descriptors \cup Ops)
    BY TypesOf DEF ThType
  <2> QED BY <1>1, <1>3, <2>1 DEF ThreadOK, All, InPrivate
<1>5. op_queue_ \in Seq(All) /\ <<TaskOp>> \in Seq(All) /\ Range(<<TaskOp>>) = {TaskOp}
      /\ NoneTwice(<<TaskOp>>)
  <2>1. TaskOp \in All
    BY DEF All
  <2> QED BY <2>1, OneList, TypesOf
<1>6. Range(q) \cap Q = {} /\ TaskOp \notin Q /\ TaskOp \notin Range(q) /\ TaskOp \notin V
  <2>1. RunsTask(th, t)
    BY <1>1 DEF RunsTask
  <2>2. TaskOp \notin Q
    BY <1>3, <2>1 DEF TaskOK, Range
  <2>3. Range(q) \cap Q = {}
    <3> HIDE DEF V, Q, q
    <3> QED BY <1>3, <1>4 DEF Apart
  <2>4. TaskOp \notin V
    <3> SUFFICES ASSUME TaskOp \in V PROVE FALSE
      OBVIOUS
    <3>1. PICK u \in Threads : TaskOp \in Range(th[u].queue)
      BY DEF InPrivate
    <3>2. th[u].queue \in Seq(Descriptors \cup Ops)
      BY TypesOf DEF ThType
    <3> QED BY <3>1, <3>2, Names DEF Range
  <2> QED BY <1>4, <2>2, <2>3, <2>4, Names
<1>7. qq \in Seq(All) /\ Range(qq) = Q \cup X /\ NoneTwice(qq)
  <2> DEFINE a == op_queue_ \o q  b == <<TaskOp>>
  <2>1. /\ q \in Seq(All) /\ NoneTwice(q) /\ Range(q) \cap Range(op_queue_) = {}
    BY <1>4, <1>6
  <2>2. b \in Seq(All) /\ Range(b) = {TaskOp} /\ NoneTwice(b)
    BY <1>5
  <2> HIDE DEF q, b
  <2>3. a \in Seq(All) /\ Range(a) = Range(op_queue_) \cup Range(q) /\ NoneTwice(a)
    BY <1>3, <1>5, <2>1, ConcatList
  <2> HIDE DEF a
  <2>4. TaskOp \notin Range(a)
    BY <1>6, <2>3
  <2>5. a \o b \in Seq(All) /\ Range(a \o b) = Range(a) \cup Range(b) /\ NoneTwice(a \o b)
    BY <2>2, <2>3, <2>4, ConcatList
  <2>6. qq = a \o b
    BY DEF a, b
  <2> HIDE DEF qq
  <2> QED BY <2>2, <2>3, <2>5, <2>6
<1>8. TaskOK(qq, th')
  <2> DEFINE i == th'
  <2>1. /\ \A u \in Threads : u # t => i[u] = th[u]
        /\ RunsTask(th, t) /\ ~RunsTask(i, t)
    BY <1>1, <1>2 DEF RunsTask
  <2> HIDE DEF i, q
  <2>2. TaskOK(op_queue_ \o q \o <<TaskOp>>, i)
    BY <1>3, <1>4, <1>5, <2>1, TaskReturns
  <2> QED BY <2>2 DEF i
<1> HIDE DEF qq
<1>9. ThreadsOK(th') /\ InPrivate(th') = V \ Range(q)
  <2> DEFINE i == th'
  <2>1. /\ i[t].queue = <<>> /\ i[t].work = 0 /\ i[t].pc = "loop"
        /\ \A u \in Threads : u # t => i[u] = th[u]
    BY <1>2, <1>4
  <2> HIDE DEF i
  <2>2. Range(i[t].queue) = {} /\ NoneTwice(i[t].queue)
    BY <2>1, EmptyList
  <2>3. ThreadOK(i[t])
    BY <2>1, <2>2 DEF ThreadOK
  <2>4. Turns(t, th, i)
    BY <1>3, <2>1, <2>2, <2>3 DEF Turns
  <2>5. /\ ThreadsOK(i)
        /\ InPrivate(i) = (InPrivate(th) \ Range(th[t].queue)) \cup Range(i[t].queue)
    BY <2>4, ThreadMoves
  <2> QED BY <2>2, <2>5 DEF i
<1>10. PostingOK(posting', th', guard')
  BY <1>1, <1>2, PostingStays
<1>11. Apart(D, Q \cup X, P, V \ Range(q), S)
  <2>1. D \subseteq Ops /\ P \subseteq Ops
    BY WaitingIsStarted DEF InDesc
  <2> DEFINE Y == Range(q)
  <2>2. X = Y \cup {TaskOp} /\ Y \subseteq Descriptors /\ Y \subseteq V
    BY <1>4
  <2> HIDE DEF D, Q, P, V, S, X, Y
  <2>3. Apart(D, Q \cup X, P, V \ Y, S)
    BY <1>3, <1>6, <2>1, <2>2, Names DEF Apart
  <2> QED BY <2>3 DEF Y
<1>12. PlaceInv'
  <2>1. /\ DescOK(desc') /\ PostingOK(posting', th', guard') /\ ThreadsOK(th')
        /\ NoneTwice(op_queue_') /\ TaskOK(op_queue_', th')
    BY <1>1, <1>3, <1>7, <1>8, <1>9, <1>10 DEF PlaceInv
  <2>2. Spread(desc', op_queue_', posting', th', status')
    BY <1>1, <1>7, <1>9, <1>11 DEF Spread
  <2> QED BY <2>1, <2>2 DEF PlaceInv
<1>13. ListsBecome(D, Q \cup X, P, V \ Range(q), S, R)
  BY <1>1, <1>7, <1>9 DEF ListsBecome
<1>14. X \in SUBSET (Descriptors \cup {TaskOp}) /\ Range(q) \in SUBSET X
  BY <1>4
<1> HIDE DEF X, D, Q, P, V, S, R
<1>15. \E XX \in SUBSET (Descriptors \cup {TaskOp}) : \E Y \in SUBSET XX :
          ListsBecome(D, Q \cup XX, P, V \ Y, S, R)
  BY <1>13, <1>14
<1> QED BY <1>1, <1>2, <1>12, <1>15 DEF D, Q, P, V, S, R

(* Steps that move no operation.                                           *)
LEMMA MovesNone ==
  ASSUME TypeOK, PlaceInv,
         \/ \E c \in Callers, d \in Descriptors :
              \/ \E error \in {"none", "EPERM", "ADD"} : Register(c, d, error)
              \/ DropHandle(c, d)
         \/ Environment
  PROVE  /\ PlaceInv' /\ UNCHANGED th
         /\ ListsBecome(InDesc(desc), Range(op_queue_), InPosting(posting),
                        InPrivate(th), StartedOps(status), Refused(posting))
<1>1. UNCHANGED <<op_queue_, posting, th, status>>
  BY DEF Register, DropHandle, Environment, BecomesReady, CloseDescriptor,
         ReleaseGuard, Shutdown, sched
<1>2. DescOK(desc)
  BY DEF PlaceInv
<1>3. \A e \in Descriptors, k \in Kinds :
        /\ desc'[e].pending[k] = desc[e].pending[k]
        /\ desc'[e].state # "live" => desc[e].pending[k] = <<>>
  <2>1. CASE desc' = desc
    BY <1>2, <2>1 DEF DescOK
  <2>2. ASSUME NEW c \in Callers, NEW d \in Descriptors, DropHandle(c, d)
        PROVE  \A e \in Descriptors : /\ desc'[e].pending = desc[e].pending
                                      /\ desc'[e].state = desc[e].state
    BY <2>2, TypesOf DEF DropHandle, DescType
  <2>3. ASSUME NEW c \in Callers, NEW d \in Descriptors,
               NEW error \in {"none", "EPERM", "ADD"}, Register(c, d, error)
        PROVE  \A e \in Descriptors, k \in Kinds :
                 /\ desc'[e].pending[k] = desc[e].pending[k]
                 /\ desc'[e].state # "live" => desc[e].pending[k] = <<>>
    <3>1. desc[d].state = "none"
      BY <2>3 DEF Register
    <3>2. \A k \in Kinds : desc[d].pending[k] = <<>>
      BY <1>2, <3>1 DEF DescOK
    <3>3. /\ \A e \in Descriptors : e # d => desc'[e] = desc[e]
          /\ desc'[d].pending = [k \in Kinds |-> <<>>] /\ desc'[d].state = "live"
      BY <2>3, TypesOf DEF Register
    <3>4. \A k \in Kinds : desc'[d].pending[k] = <<>>
      BY <3>3
    <3> QED BY <1>2, <3>2, <3>3, <3>4 DEF DescOK
  <2>4. Environment => desc' = desc
    BY DEF Environment, BecomesReady, CloseDescriptor, ReleaseGuard, Shutdown
  <2>5. ASSUME NEW c \in Callers, NEW d \in Descriptors, DropHandle(c, d)
        PROVE  \A e \in Descriptors, k \in Kinds :
                 /\ desc'[e].pending[k] = desc[e].pending[k]
                 /\ desc'[e].state # "live" => desc[e].pending[k] = <<>>
    BY <1>2, <2>2, <2>5 DEF DescOK
  <2> QED BY <2>1, <2>3, <2>4, <2>5
<1>4. DescOK(desc') /\ InDesc(desc') = InDesc(desc)
  <2> DEFINE es == desc'
  <2>1. \A e \in Descriptors, k \in Kinds :
        /\ es[e].pending[k] = desc[e].pending[k]
        /\ es[e].state # "live" => desc[e].pending[k] = <<>>
    BY <1>3
  <2> HIDE DEF es
  <2>2. DescOK(es) /\ InDesc(es) = InDesc(desc)
    BY <1>2, <2>1, DescKeeps
  <2> QED BY <2>2 DEF es
<1>5. PostingOK(posting', th', guard')
  <2>1. \/ guard' = guard
        \/ \A c \in Clients : posting[c].how = "none"
    BY DEF Register, DropHandle, Environment, BecomesReady, CloseDescriptor,
           ReleaseGuard, Shutdown
  <2>2. PostingOK(posting, th, guard)
    BY DEF PlaceInv
  <2>3. PostingOK(posting, th, guard')
    <3>1. CASE guard' = guard
      BY <2>2, <3>1
    <3>2. CASE \A c \in Clients : posting[c].how = "none"
      <4>1. \A c \in Callers : c \notin Threads => posting[c].how = "none"
        BY <3>2 DEF Callers
      <4> DEFINE g == guard'
      <4> HIDE DEF g
      <4>2. PostingOK(posting, th, g)
        BY <2>2, <4>1 DEF PostingOK
      <4> QED BY <4>2 DEF g
    <3> QED BY <2>1, <3>1, <3>2
  <2> QED BY <1>1, <2>3
<1>6. PlaceInv'
  <2>1. /\ ThreadsOK(th') /\ NoneTwice(op_queue_') /\ TaskOK(op_queue_', th')
    BY <1>1 DEF PlaceInv
  <2>2. Spread(desc', op_queue_', posting', th', status')
    BY <1>1, <1>4 DEF PlaceInv, Spread
  <2> QED BY <1>4, <1>5, <2>1, <2>2 DEF PlaceInv
<1> QED BY <1>1, <1>4, <1>6 DEF ListsBecome

(* The reading of task_result_ moves no operation.                         *)
LEMMA MovesNoneRead ==
  ASSUME TypeOK, PlaceInv, NEW t \in Threads, ReadResult(t)
  PROVE  /\ PlaceInv'
         /\ ListsBecome(InDesc(desc), Range(op_queue_), InPosting(posting),
                        InPrivate(th), StartedOps(status), Refused(posting))
         /\ \A u \in Threads : u # t => th'[u] = th[u]
         /\ th[t].pc = "popped" /\ th'[t].pc = "perform" /\ th'[t].work = th[t].work
<1>1. /\ th[t].pc = "popped" /\ posting[t].how = "none"
      /\ th' = [th EXCEPT ![t].pc = "perform", ![t].events = desc[th[t].base].result]
      /\ UNCHANGED <<desc, posting, op_queue_, guard, status>>
  BY DEF ReadResult, At, sched
<1>2. /\ th'[t].pc = "perform" /\ th'[t].queue = th[t].queue /\ th'[t].work = th[t].work
      /\ th'[t].base = th[t].base
      /\ \A u \in Threads : u # t => th'[u] = th[u]
  BY <1>1, TypesOf DEF ThType
<1>3. ThreadsOK(th) /\ ThreadOK(th[t]) /\ TaskOK(op_queue_, th)
  BY DEF PlaceInv, ThreadsOK
<1>4. ThreadsOK(th') /\ InPrivate(th') = InPrivate(th)
  <2> DEFINE i == th'
  <2>1. /\ i[t].queue = <<>> /\ i[t].work = 0 /\ i[t].pc = "perform"
        /\ i[t].base \in Descriptors
        /\ \A u \in Threads : u # t => i[u] = th[u]
    BY <1>1, <1>2, <1>3 DEF ThreadOK
  <2> HIDE DEF i
  <2>2. Range(i[t].queue) = {} /\ NoneTwice(i[t].queue)
    BY <2>1, EmptyList
  <2>3. ThreadOK(i[t])
    BY <2>1, <2>2 DEF ThreadOK
  <2>4. Turns(t, th, i)
    BY <1>3, <2>1, <2>2, <2>3 DEF Turns
  <2>5. /\ ThreadsOK(i)
        /\ InPrivate(i) = (InPrivate(th) \ Range(th[t].queue)) \cup Range(i[t].queue)
    BY <2>4, ThreadMoves
  <2>6. Range(th[t].queue) = {}
    BY <1>1, NothingHeld
  <2> QED BY <2>2, <2>5, <2>6 DEF i
<1>5. TaskOK(op_queue_, th')
  BY <1>1, <1>2, <1>3 DEF TaskOK, RunsTask
<1>6. PostingOK(posting', th', guard')
  BY <1>1, <1>2, PostingStays
<1>7. PlaceInv'
  <2>1. DescOK(desc') /\ NoneTwice(op_queue_') /\ TaskOK(op_queue_', th')
    BY <1>1, <1>5 DEF PlaceInv
  <2>2. Spread(desc', op_queue_', posting', th', status')
    BY <1>1, <1>4 DEF PlaceInv, Spread
  <2> QED BY <1>4, <1>6, <2>1, <2>2 DEF PlaceInv
<1> QED BY <1>1, <1>2, <1>4, <1>7 DEF ListsBecome

(* The private queue of a thread joins the scheduler's when it gives its   *)
(* work back.                                                              *)
LEMMA MovesAfter ==
  ASSUME TypeOK, PlaceInv, NEW t \in Threads, Finish(t)
  PROVE  LET X == Range(th[t].queue) IN
         /\ PlaceInv' /\ X \subseteq Ops /\ X \subseteq InPrivate(th)
         /\ ListsBecome(InDesc(desc), Range(op_queue_) \cup X, InPosting(posting),
                        InPrivate(th) \ X, StartedOps(status), Refused(posting))
         /\ \A u \in Threads : u # t => th'[u] = th[u]
         /\ th'[t].pc \in {"loop", "gone"} /\ th'[t].work = 0
         /\ th[t].pc \in {"handler", "finish"}
         /\ th[t].pc = "finish" => th[t].work = 1 /\ X = {}
         /\ Cardinality(X) <= th[t].work /\ IsFiniteSet(X)
<1> DEFINE D == InDesc(desc)  Q == Range(op_queue_)  P == InPosting(posting)
           V == InPrivate(th)  S == StartedOps(status)  R == Refused(posting)
           q == th[t].queue  X == Range(q)
           pc == IF q = <<>> THEN "loop" ELSE "gone"
<1>1. /\ th[t].pc \in {"handler", "finish"} /\ posting[t].how = "none"
      /\ op_queue_' = op_queue_ \o q
      /\ th' = [th EXCEPT ![t].pc = pc, ![t].work = 0, ![t].queue = <<>>]
      /\ UNCHANGED <<desc, posting, guard, status>>
  BY DEF Finish, At
<1>2. /\ th'[t].pc = pc /\ th'[t].queue = <<>> /\ th'[t].work = 0
      /\ \A u \in Threads : u # t => th'[u] = th[u]
  BY <1>1, TypesOf DEF ThType
<1>3. /\ ThreadsOK(th) /\ TaskOK(op_queue_, th) /\ ThreadOK(th[t]) /\ Apart(D, Q, P, V, S)
      /\ NoneTwice(op_queue_) /\ op_queue_ \in Seq(All)
  BY TypesOf DEF PlaceInv, ThreadsOK, Spread
<1>4. q \in Seq(Descriptors \cup Ops)
  BY TypesOf DEF ThType
<1>5. /\ q \in Seq(All) /\ X \subseteq V /\ X \subseteq Ops /\ NoneTwice(q)
      /\ th[t].pc = "finish" => th[t].work = 1 /\ X = {}
      /\ Len(q) <= th[t].work
  <2>1. q \in Seq(All) /\ NoneTwice(q)
    BY <1>3, <1>4 DEF ThreadOK, All
  <2>2. X \subseteq V
    BY DEF InPrivate
  <2>3. th[t].pc = "finish" => q = <<>> /\ th[t].work = 1
    BY <1>3 DEF ThreadOK
  <2>4. th[t].pc = "handler" => /\ X \subseteq Ops /\ Len(q) <= th[t].work
    BY <1>3 DEF ThreadOK
  <2>5. q = <<>> => X = {} /\ Len(q) = 0
    BY EmptyList
  <2> HIDE DEF q, X
  <2> QED BY <1>1, <2>1, <2>2, <2>3, <2>4, <2>5
<1>6. Cardinality(X) <= th[t].work /\ IsFiniteSet(X)
  <2> DEFINE n == Len(q)
  <2>1. /\ n \in Nat /\ DOMAIN q = 1 .. n /\ th[t].work \in Nat
    BY <1>4, LenProperties, TypesOf DEF ThType
  <2>2. /\ \A i, j \in 1 .. n : q[i] = q[j] => i = j
        /\ \A i \in 1 .. n : q[i] \in X
        /\ \A x \in X : \E i \in 1 .. n : q[i] = x
    BY <1>5, <2>1 DEF NoneTwice, Range
  <2> HIDE DEF n, X
  <2> DEFINE f == [i \in 1 .. n |-> q[i]]
  <2>3. f \in [1 .. n -> X] /\ \A x \in X : \E i \in 1 .. n : f[i] = x
    BY <2>2
  <2> HIDE DEF f
  <2>4. f \in Surjection(1 .. n, X)
    BY <2>3 DEF Surjection
  <2>5. ExistsSurjection(1 .. n, X)
    BY <2>4 DEF ExistsSurjection
  <2>6. Cardinality(X) <= n
    BY <2>1, <2>5, FS_SurjCardinalityBound
  <2>7. IsFiniteSet(X)
    BY <1>5, ReactorAssumption, FS_Subset
  <2>8. Cardinality(X) \in Nat /\ n <= th[t].work
    BY <1>5, <2>7, FS_CardinalityType DEF n
  <2> QED BY <2>1, <2>6, <2>7, <2>8
<1>7. Range(op_queue_') = Q \cup X /\ NoneTwice(op_queue_') /\ TaskOK(op_queue_', th')
  <2>1. X \cap Q = {}
    <3> HIDE DEF X, V, Q
    <3> QED BY <1>3, <1>5 DEF Apart
  <2>2. pc # "task" /\ pc # "cleanup"
    OBVIOUS
  <2> DEFINE i == th'
  <2>3. \A u \in Threads : RunsTask(i, u) => RunsTask(th, u)
    <3> HIDE DEF pc
    <3> QED BY <1>2, <2>2 DEF RunsTask
  <2> HIDE DEF i, q
  <2>4. TaskOK(op_queue_ \o q, i)
    BY <1>3, <1>5, <2>3, TaskBeforeOps
  <2>5. Range(op_queue_ \o q) = Q \cup X /\ NoneTwice(op_queue_ \o q)
    BY <1>3, <1>5, <2>1, ConcatList
  <2> QED BY <1>1, <2>4, <2>5 DEF i
<1>8. ThreadsOK(th') /\ InPrivate(th') = V \ X
  <2> DEFINE i == th'
  <2>1. /\ i[t].queue = <<>> /\ i[t].work = 0 /\ i[t].pc \in {"loop", "gone"}
        /\ \A u \in Threads : u # t => i[u] = th[u]
    BY <1>2
  <2> HIDE DEF i
  <2>2. Range(i[t].queue) = {} /\ NoneTwice(i[t].queue)
    BY <2>1, EmptyList
  <2>3. ThreadOK(i[t])
    BY <2>1, <2>2 DEF ThreadOK
  <2>4. Turns(t, th, i)
    BY <1>3, <2>1, <2>2, <2>3 DEF Turns
  <2>5. /\ ThreadsOK(i)
        /\ InPrivate(i) = (InPrivate(th) \ Range(th[t].queue)) \cup Range(i[t].queue)
    BY <2>4, ThreadMoves
  <2> QED BY <2>2, <2>5 DEF i
<1>9. PostingOK(posting', th', guard')
  BY <1>1, <1>2, PostingStays
<1>10. Apart(D, Q \cup X, P, V \ X, S)
  <2> HIDE DEF D, Q, P, V, S, X
  <2> QED BY <1>3, <1>5 DEF Apart
<1>11. PlaceInv'
  <2>1. /\ DescOK(desc') /\ PostingOK(posting', th', guard') /\ ThreadsOK(th')
        /\ NoneTwice(op_queue_') /\ TaskOK(op_queue_', th')
    BY <1>1, <1>7, <1>8, <1>9 DEF PlaceInv
  <2>2. Spread(desc', op_queue_', posting', th', status')
    BY <1>1, <1>7, <1>8, <1>10 DEF Spread
  <2> QED BY <2>1, <2>2 DEF PlaceInv
<1>12. ListsBecome(D, Q \cup X, P, V \ X, S, R)
  BY <1>1, <1>7, <1>8 DEF ListsBecome
<1>13. th'[t].pc \in {"loop", "gone"}
  BY <1>2
<1> QED BY <1>1, <1>2, <1>5, <1>6, <1>11, <1>12, <1>13

(* perform_io moves nothing, or takes operations from its descriptor,      *)
(* completes one and posts the others.                                     *)
LEMMA MovesPerformed ==
  ASSUME TypeOK, PlaceInv, NEW t \in Threads, PerformIo(t)
  PROVE  /\ PlaceInv'
         /\ \A u \in Threads : u # t => th'[u] = th[u]
         /\ th[t].pc = "perform"
         /\ \/ /\ ListsBecome(InDesc(desc), Range(op_queue_), InPosting(posting),
                              InPrivate(th), StartedOps(status), Refused(posting))
               /\ th'[t].pc = "finish" /\ th'[t].work = th[t].work + 1
            \/ /\ \E X \in SUBSET InDesc(desc) : \E o \in X :
                    ListsBecome(InDesc(desc) \ X, Range(op_queue_),
                                InPosting(posting) \cup (X \ {o}), InPrivate(th),
                                StartedOps(status) \ {o}, Refused(posting))
               /\ th'[t].pc = "handler" /\ th'[t].work = th[t].work
<1> DEFINE D == InDesc(desc)  Q == Range(op_queue_)  P == InPosting(posting)
           V == InPrivate(th)  S == StartedOps(status)  R == Refused(posting)
           d == th[t].base
<1>1. /\ th[t].pc = "perform" /\ posting[t].how = "none"
      /\ UNCHANGED <<op_queue_, guard>>
  BY DEF PerformIo, At, sched
<1>2. /\ ThreadsOK(th) /\ TaskOK(op_queue_, th) /\ ThreadOK(th[t]) /\ Apart(D, Q, P, V, S)
      /\ NoneTwice(op_queue_) /\ op_queue_ \in Seq(All) /\ DescOK(desc)
      /\ PostingOK(posting, th, guard)
  BY TypesOf DEF PlaceInv, ThreadsOK, Spread
<1>3. d \in Descriptors /\ th[t].queue = <<>> /\ Range(th[t].queue) = {} /\ th[t].work = 0
  BY <1>1, <1>2, EmptyList DEF ThreadOK
<1>4. PICK p2 \in [Kinds -> Seq(Ops)], sp \in [Kinds -> BOOLEAN],
           kn \in KernType, done \in Seq(Ops) :
           /\ Performs(desc[d].pending, p2, done)
           /\ desc' = [desc EXCEPT ![d].pending = p2, ![d].speculative = sp]
           /\ kern' = [kern EXCEPT ![d] = kn]
           /\ IF done = <<>> THEN NothingDone(t) ELSE SomeDone(t, done)
  BY <1>3, PerformFacts
<1> DEFINE X == Range(done)
<1>5. /\ NoneTwice(done) /\ X \subseteq Ops
      /\ \A k \in Kinds : /\ NoneTwice(p2[k])
                          /\ Range(p2[k]) = Range(desc[d].pending[k]) \ X
      /\ X \subseteq UNION {Range(desc[d].pending[k]) : k \in Kinds}
  <2> DEFINE p == desc[d].pending
  <2>1. \A k \in Kinds : /\ NoneTwice(p[k])
                         /\ \A o \in Range(p[k]) : Desc[o] = d /\ Kind[o] = k
    BY <1>2, <1>3 DEF DescOK
  <2>2. Performs(p, p2, done)
    BY <1>4
  <2>3. X \subseteq Ops
    BY DEF Range
  <2> HIDE DEF p
  <2>4. \A k, l \in Kinds : k # l => Range(p[k]) \cap Range(p[l]) = {}
    <3> SUFFICES ASSUME NEW k \in Kinds, NEW l \in Kinds,
                        NEW o \in Range(p[k]) \cap Range(p[l])
                 PROVE  k = l
      OBVIOUS
    <3>1. Kind[o] = k
      BY <2>1
    <3>2. Kind[o] = l
      BY <2>1
    <3> QED BY <3>1, <3>2
  <2>5. /\ NoneTwice(done)
        /\ \A k \in Kinds : NoneTwice(p2[k]) /\ Range(p2[k]) \cap Range(done) = {}
    BY <2>1, <2>2, <2>4 DEF Performs
  <2>6. /\ \A k \in Kinds : Range(p2[k]) \subseteq Range(p[k])
                        /\ Range(p[k]) \subseteq Range(p2[k]) \cup Range(done)
        /\ Range(done) \subseteq UNION {Range(p[k]) : k \in Kinds}
    BY <2>2 DEF Performs
  <2>7. \A k \in Kinds : Range(p2[k]) = Range(p[k]) \ X
    BY <2>5, <2>6
  <2> QED BY <2>3, <2>5, <2>6, <2>7 DEF p
<1>6. DescOK(desc') /\ InDesc(desc') = D \ X /\ X \subseteq D
  <2> DEFINE es == desc'
  <2>1. /\ \A e \in Descriptors : e # d => /\ es[e].pending = desc[e].pending
                                           /\ es[e].state = desc[e].state
        /\ es[d].pending = p2 /\ es[d].state = desc[d].state
    BY <1>3, <1>4, TypesOf DEF DescType
  <2>2. \A k \in Kinds : desc[d].state # "live" => p2[k] = <<>>
    <3> SUFFICES ASSUME NEW k \in Kinds, desc[d].state # "live" PROVE p2[k] = <<>>
      OBVIOUS
    <3>1. Range(desc[d].pending[k]) = {}
      BY <1>2, <1>3, EmptyList DEF DescOK
    <3>2. Range(p2[k]) = {} /\ p2[k] \in Seq(Ops)
      BY <1>5, <3>1
    <3> QED BY <3>2, NothingIn
  <2> HIDE DEF es, X
  <2>3. \A k \in Kinds : /\ NoneTwice(es[d].pending[k])
                         /\ Range(es[d].pending[k]) = Range(desc[d].pending[k]) \ X
                         /\ es[d].state # "live" => es[d].pending[k] = <<>>
    BY <1>5, <2>1, <2>2
  <2>4. Leave(X, desc, es, d)
    BY <1>5, <2>1, <2>3 DEF Leave
  <2> HIDE DEF d, D
  <2>5. DescOK(es) /\ InDesc(es) = InDesc(desc) \ X /\ X \subseteq InDesc(desc)
    <3>1. d \in Descriptors /\ DescOK(desc) /\ Leave(X, desc, es, d)
      BY <1>2, <1>3, <2>4
    <3> QED BY ONLY <3>1, DescLoses
  <2> QED BY <2>5 DEF es, D
<1>7. ASSUME th'[t].queue = <<>>, th'[t].pc \in {"handler", "finish"},
             th'[t].work = IF th'[t].pc = "finish" THEN 1 ELSE 0,
             \A u \in Threads : u # t => th'[u] = th[u]
      PROVE  /\ ThreadsOK(th') /\ InPrivate(th') = V /\ TaskOK(op_queue_', th')
  <2> DEFINE i == th'
  <2>1. /\ i[t].queue = <<>> /\ i[t].pc \in {"handler", "finish"}
        /\ i[t].work = IF i[t].pc = "finish" THEN 1 ELSE 0
        /\ \A u \in Threads : u # t => i[u] = th[u]
    BY <1>7
  <2> HIDE DEF i
  <2>2. Range(i[t].queue) = {} /\ NoneTwice(i[t].queue) /\ Len(i[t].queue) = 0
    BY <2>1, EmptyList
  <2>3. ThreadOK(i[t])
    BY <2>1, <2>2 DEF ThreadOK
  <2>4. Turns(t, th, i)
    BY <1>2, <2>1, <2>2, <2>3 DEF Turns
  <2>5. /\ ThreadsOK(i)
        /\ InPrivate(i) = (InPrivate(th) \ Range(th[t].queue)) \cup Range(i[t].queue)
    BY <2>4, ThreadMoves
  <2>6. TaskOK(op_queue_, i)
    BY <1>2, <2>1 DEF TaskOK, RunsTask
  <2> QED BY <1>1, <1>3, <2>2, <2>5, <2>6 DEF i
<1>8. CASE done = <<>>
  <2>1. NothingDone(t) /\ UNCHANGED <<posting, status>>
    BY <1>4, <1>8 DEF NothingDone
  <2>2. /\ th'[t].queue = th[t].queue /\ th'[t].pc = "finish"
        /\ th'[t].work = th[t].work + 1
        /\ \A u \in Threads : u # t => th'[u] = th[u]
    BY <2>1, TypesOf DEF ThType, NothingDone
  <2>3. /\ ThreadsOK(th') /\ InPrivate(th') = V /\ TaskOK(op_queue_', th')
    BY <1>3, <1>7, <2>2
  <2>4. PostingOK(posting', th', guard')
    BY <1>1, <2>1, <2>2, PostingStays
  <2>5. X = {}
    BY <1>8, EmptyList
  <2>6. InDesc(desc') = D
    BY <1>6, <2>5
  <2>7. PlaceInv'
    <3>1. NoneTwice(op_queue_')
      BY <1>1, <1>2
    <3>2. Spread(desc', op_queue_', posting', th', status')
      BY <1>1, <1>2, <2>1, <2>3, <2>6 DEF Spread
    <3> QED BY <1>6, <2>3, <2>4, <3>1, <3>2 DEF PlaceInv
  <2>8. ListsBecome(D, Q, P, V, S, R)
    BY <1>1, <2>1, <2>3, <2>6 DEF ListsBecome
  <2> QED BY <1>1, <2>2, <2>7, <2>8
<1>9. CASE done # <<>>
  <2> DEFINE o == Head(done)  rest == Tail(done)
  <2>1. SomeDone(t, done)
    BY <1>4, <1>9
  <2>2. /\ th'[t].queue = th[t].queue /\ th'[t].pc = "handler"
        /\ th'[t].work = th[t].work
        /\ \A u \in Threads : u # t => th'[u] = th[u]
    BY <2>1, TypesOf DEF ThType, SomeDone
  <2>3. /\ ThreadsOK(th') /\ InPrivate(th') = V /\ TaskOK(op_queue_', th')
    <3>1. /\ th'[t].queue = <<>> /\ th'[t].pc \in {"handler", "finish"}
          /\ th'[t].work = IF th'[t].pc = "finish" THEN 1 ELSE 0
          /\ \A u \in Threads : u # t => th'[u] = th[u]
      BY <1>3, <2>2
    <3> QED BY <1>7, <3>1
  <2>4. /\ o \in X /\ rest \in Seq(Ops) /\ Range(rest) = X \ {o} /\ NoneTwice(rest) /\ o \in Ops
    BY <1>5, <1>9, TailList
  <2>5. StartedOps(status') = S \ {o}
    <3>1. status' = [status EXCEPT ![o] = "done"]
      BY <2>1 DEF SomeDone
    <3> HIDE DEF o
    <3> QED BY <2>4, <3>1, TypesOf DEF StartedOps
  <2>6. X \cap P = {}
    <3> HIDE DEF X, D, P
    <3> QED BY <1>2, <1>6 DEF Apart
  <2>7. /\ PostingOK(posting', th', guard')
        /\ InPosting(posting') = P \cup (X \ {o}) /\ Refused(posting') = R
    <3>1. CASE rest = <<>>
      <4>1. UNCHANGED posting
        BY <2>1, <3>1 DEF SomeDone
      <4>2. Range(rest) = {}
        BY <3>1, EmptyList
      <4>3. PostingOK(posting', th', guard')
        BY <1>1, <2>2, <4>1, PostingStays
      <4> HIDE DEF rest, X, o
      <4> QED BY <2>4, <4>1, <4>2, <4>3
    <3>2. CASE rest # <<>>
      <4> DEFINE r == posting'  i == th'
      <4>1. r = [posting EXCEPT ![t] = [how |-> "deferred", ops |-> rest]]
        BY <2>1, <3>2 DEF SomeDone, PostBy
      <4>2. i[t].pc = "handler" /\ \A u \in Threads : u # t => i[u] = th[u]
        BY <2>2
      <4>3. Range(rest) \cap P = {}
        BY <2>4, <2>6
      <4> HIDE DEF r, i, rest, X, o
      <4>4. Holds(t, "deferred", rest, posting, r, th, i, guard)
        BY <1>1, <1>2, <2>4, <4>1, <4>2, <4>3 DEF Holds
      <4>5. t \in Callers /\ posting \in [Callers -> PostType]
        BY Names, TypesOf
      <4> DEFINE how == "deferred"
      <4>7. Holds(t, how, rest, posting, r, th, i, guard)
        BY <4>4
      <4> HIDE DEF how
      <4>8. /\ PostingOK(r, i, guard)
            /\ InPosting(r) = InPosting(posting) \cup Range(rest)
            /\ how = "deferred" => Refused(r) = Refused(posting)
        <5>1. PostingOK(r, i, guard)
          BY <4>5, <4>7, PostingGains
        <5>2. InPosting(r) = InPosting(posting) \cup Range(rest)
          BY <4>5, <4>7, PostingGains
        <5>3. ASSUME how = "deferred" PROVE Refused(r) = Refused(posting)
          BY <4>5, <4>7, <5>3, PostingGains
        <5> QED BY <5>1, <5>2, <5>3
      <4>6. /\ PostingOK(r, i, guard)
            /\ InPosting(r) = InPosting(posting) \cup Range(rest)
            /\ Refused(r) = Refused(posting)
        BY <4>8 DEF how
      <4> QED BY <1>1, <2>4, <4>6 DEF r, i
    <3> QED BY <3>1, <3>2
  <2> HIDE DEF o, rest, X
  <2>8. Apart(D \ X, Q, P \cup (X \ {o}), V, S \ {o})
    <3> HIDE DEF D, Q, P, V, S
    <3> QED BY <1>2, <1>6, <2>4 DEF Apart
  <2>9. PlaceInv'
    <3>1. NoneTwice(op_queue_')
      BY <1>1, <1>2
    <3>2. Spread(desc', op_queue_', posting', th', status')
      BY <1>1, <1>6, <2>3, <2>5, <2>7, <2>8 DEF Spread
    <3> QED BY <1>6, <2>3, <2>7, <3>1, <3>2 DEF PlaceInv
  <2>10. ListsBecome(D \ X, Q, P \cup (X \ {o}), V, S \ {o}, R)
    BY <1>1, <1>6, <2>3, <2>5, <2>7 DEF ListsBecome
  <2>11. \E XX \in SUBSET D : \E oo \in XX :
           ListsBecome(D \ XX, Q, P \cup (XX \ {oo}), V, S \ {oo}, R)
    <3> HIDE DEF D, Q, P, V, S, R
    <3> QED BY <1>6, <2>4, <2>10
  <2> QED BY <1>1, <2>2, <2>9, <2>11
<1> QED BY <1>8, <1>9

-----------------------------------------------------------------------------
(* Every step keeps the types.                                             *)

(* TypeOK is kept by every step, from the lists and the shared count.      *)
LEMMA TypeNext ==
  ASSUME TypeOK, PlaceInv, EnoughWork, Next
  PROVE  TypeOK'
<1>1. ThreadsOK(th)
  BY DEF PlaceInv
<1>2. ASSUME NEW c \in Callers, Call(c) PROVE TypeOK'
  <2>1. ASSUME NEW op \in Ops, StartOp(c, op) PROVE TypeOK'
    BY <2>1, TypeStart
  <2>2. ASSUME NEW d \in Descriptors, NEW error \in {"none", "EPERM", "ADD"},
               Register(c, d, error)
        PROVE  TypeOK'
    BY <2>2, TypeRegister
  <2>3. ASSUME NEW d \in Descriptors,
               \/ CancelOps(c, d) \/ DropHandle(c, d)
               \/ \E closing \in BOOLEAN : Deregister(c, d, closing)
        PROVE  TypeOK'
    BY <2>3, TypeCancel
  <2> QED BY <1>2, <2>1, <2>2, <2>3 DEF Call
<1>3. ASSUME NEW c \in Callers, PostStep(c) PROVE TypeOK'
  BY <1>3, TypePost
<1>4. ASSUME NEW t \in Threads, ThreadStep(t) PROVE TypeOK'
  <2>1. ASSUME Take(t) PROVE TypeOK'
    BY <2>1, TypeTake
  <2>2. ASSUME TaskRuns(t) \/ TaskCleanup(t) \/ ReadResult(t) PROVE TypeOK'
    <3>1. th[t].pc = "popped" => th[t].base \in Descriptors
      BY <1>1 DEF ThreadsOK, ThreadOK
    <3> QED BY <2>2, <3>1, TypeTask
  <2>3. ASSUME PerformIo(t) PROVE TypeOK'
    <3>1. th[t].base \in Descriptors
      BY <1>1, <2>3 DEF ThreadsOK, ThreadOK, PerformIo, At
    <3> QED BY <2>3, <3>1, TypePerform
  <2>4. ASSUME Finish(t) PROVE TypeOK'
    BY <1>1, <2>4, TypeFinish
  <2> QED BY <1>4, <2>1, <2>2, <2>3, <2>4 DEF ThreadStep
<1>5. ASSUME Environment PROVE TypeOK'
  BY <1>5, TypeEnvironment
<1> QED BY <1>2, <1>3, <1>4, <1>5 DEF Next

-----------------------------------------------------------------------------
(* How many there are of each.                                             *)

Size(S) == Cardinality(S)
One(b)  == IF b THEN 1 ELSE 0

(* One element more in a finite set.                                       *)
LEMMA OneMore ==
  ASSUME NEW S, NEW x, IsFiniteSet(S), x \notin S
  PROVE  Size(S \cup {x}) = Size(S) + 1 /\ Size(S) \in Nat /\ IsFiniteSet(S \cup {x})
BY FS_AddElement, FS_CardinalityType DEF Size

(* One element less in a finite set.                                       *)
LEMMA OneLess ==
  ASSUME NEW S, NEW x, IsFiniteSet(S), x \in S
  PROVE  Size(S \ {x}) = Size(S) - 1 /\ Size(S) \in Nat /\ IsFiniteSet(S \ {x})
BY FS_RemoveElement, FS_CardinalityType DEF Size

(* A part of a finite set is no larger.                                    *)
LEMMA SizesOf ==
  ASSUME NEW S, NEW T, IsFiniteSet(S), T \subseteq S
  PROVE  Size(T) \in Nat /\ Size(S) \in Nat /\ Size(T) <= Size(S) /\ IsFiniteSet(T)
BY FS_Subset, FS_CardinalityType DEF Size

(* The threads, operations and descriptors are finitely many.              *)
LEMMA FiniteThreads == IsFiniteSet(Threads) /\ IsFiniteSet(Ops) /\ IsFiniteSet(Descriptors)
<1>1. Threads \subseteq Callers /\ IsFiniteSet(Callers) /\ IsFiniteSet(Ops)
      /\ IsFiniteSet(Descriptors)
  BY ReactorAssumption DEF Callers
<1> HIDE DEF Callers
<1> QED BY <1>1, FS_Subset

(* The units that one thread holds.                                        *)
UnitsOf(h, t) == {t} \X (1 .. h[t].work)

(* A thread holds as many units as its private count says.                 *)
LEMMA UnitsOfSize ==
  ASSUME NEW h \in [Threads -> ThType], NEW t \in Threads
  PROVE  IsFiniteSet(UnitsOf(h, t)) /\ Size(UnitsOf(h, t)) = h[t].work /\ h[t].work \in Nat
<1> DEFINE n == h[t].work
<1>1. n \in Nat
  BY DEF ThType
<1> HIDE DEF n
<1>2. \A a, b \in Int : /\ IsFiniteSet(a .. b)
                        /\ Cardinality(a .. b) = IF a > b THEN 0 ELSE b - a + 1
  BY FS_Interval
<1>3. IsFiniteSet(1 .. n) /\ Cardinality(1 .. n) = n
  <2>1. 1 \in Int /\ n \in Int
    BY <1>1
  <2>2. IsFiniteSet(1 .. n) /\ Cardinality(1 .. n) = IF 1 > n THEN 0 ELSE n - 1 + 1
    BY <1>2, <2>1
  <2> QED BY <1>1, <2>2
<1> DEFINE I == 1 .. n  s == {t}
<1>4. IsFiniteSet(I) /\ Cardinality(I) = n /\ IsFiniteSet(s) /\ Cardinality(s) = 1
  BY <1>3, FS_Singleton
<1> HIDE DEF I, s
<1>5. IsFiniteSet(s \X I) /\ Cardinality(s \X I) = 1 * n
  BY <1>4, FS_Product
<1>6. 1 * n = n
  BY <1>1
<1> QED BY <1>1, <1>5, <1>6 DEF UnitsOf, Size, I, s, n

(* The threads hold finitely many units.                                   *)
LEMMA UnitsFinite ==
  ASSUME NEW h \in [Threads -> ThType]
  PROVE  IsFiniteSet(Units(h)) /\ Size(Units(h)) \in Nat
<1> DEFINE f == [t \in Threads |-> UnitsOf(h, t)]
           T == {UnitsOf(h, t) : t \in Threads}
<1>1. f \in Surjection(Threads, T)
  BY DEF Surjection
<1>2. \A x \in T : IsFiniteSet(x)
  BY UnitsOfSize
<1> HIDE DEF f, T
<1>3. IsFiniteSet(T)
  BY <1>1, FiniteThreads, FS_Surjection
<1>4. IsFiniteSet(UNION T)
  BY <1>2, <1>3, FS_UNION
<1>5. UNION T = Units(h)
  BY DEF T, Units, UnitsOf
<1> QED BY <1>4, <1>5, FS_CardinalityType DEF Size

(* One thread changes.                                                     *)
LEMMA UnitsChange ==
  ASSUME NEW h \in [Threads -> ThType], NEW i \in [Threads -> ThType], NEW t \in Threads,
         \A u \in Threads : u # t => i[u] = h[u]
  PROVE  Size(Units(i)) = Size(Units(h)) + i[t].work - h[t].work
<1> DEFINE A == UnitsOf(h, t)  B == UnitsOf(i, t)  U == Units(h)  rest == U \ A
<1>1. IsFiniteSet(A) /\ Size(A) = h[t].work /\ IsFiniteSet(B) /\ Size(B) = i[t].work
      /\ IsFiniteSet(U) /\ Size(U) \in Nat /\ h[t].work \in Nat /\ i[t].work \in Nat
  BY UnitsOfSize, UnitsFinite
<1>2. U \cap A = A /\ rest \cap B = {} /\ Units(i) = rest \cup B
  <2>1. A \subseteq U
    BY DEF Units, UnitsOf
  <2>2. \A x \in rest : x \notin {t} \X Nat
    <3> SUFFICES ASSUME NEW x \in rest, x \in {t} \X Nat PROVE FALSE
      OBVIOUS
    <3>1. PICK u \in Threads : x \in {u} \X (1 .. h[u].work)
      BY DEF Units
    <3>2. u = t
      BY <3>1
    <3> QED BY <3>1, <3>2 DEF UnitsOf
  <2>3. \A x \in B : x \in {t} \X Nat
    BY <1>1 DEF UnitsOf
  <2>4. ASSUME NEW x PROVE x \in Units(i) <=> x \in rest \/ x \in B
    <3>1. ASSUME x \in Units(i) PROVE x \in rest \/ x \in B
      <4>1. PICK u \in Threads : x \in {u} \X (1 .. i[u].work)
        BY <3>1 DEF Units
      <4>2. CASE u = t
        BY <4>1, <4>2 DEF UnitsOf
      <4>3. CASE u # t
        <5>1. x \in {u} \X (1 .. h[u].work)
          BY <4>1, <4>3
        <5>2. x \notin A
          BY <4>3, <5>1 DEF UnitsOf
        <5> QED BY <5>1, <5>2 DEF Units
      <4> QED BY <4>2, <4>3
    <3>2. ASSUME x \in B PROVE x \in Units(i)
      BY <3>2 DEF Units, UnitsOf
    <3>3. ASSUME x \in rest PROVE x \in Units(i)
      <4>1. PICK u \in Threads : x \in {u} \X (1 .. h[u].work)
        BY <3>3 DEF Units
      <4>2. u # t
        BY <3>3, <4>1 DEF UnitsOf
      <4>3. x \in {u} \X (1 .. i[u].work)
        BY <4>1, <4>2
      <4> QED BY <4>3 DEF Units
    <3> QED BY <3>1, <3>2, <3>3
  <2> HIDE DEF A, B, rest, U
  <2>5. rest \cap B = {} /\ Units(i) = rest \cup B
    BY <2>2, <2>3, <2>4
  <2> QED BY <2>1, <2>5
<1> HIDE DEF A, B, U
<1>3. IsFiniteSet(rest) /\ Size(rest) = Size(U) - Size(A)
  <2>1. IsFiniteSet(U \ A) /\ Cardinality(U \ A) = Cardinality(U) - Cardinality(U \cap A)
    BY <1>1, FS_Difference
  <2> QED BY <1>2, <2>1 DEF Size
<1> HIDE DEF rest
<1>4. Size(rest \cup B) = Size(rest) + Size(B) - Size({})
  BY <1>1, <1>2, <1>3, FS_Union DEF Size
<1>5. Size({}) = 0
  BY FS_EmptySet DEF Size
<1>6. Size(rest \cup B) = Size(U) + i[t].work - h[t].work
  BY <1>1, <1>3, <1>4, <1>5
<1> QED BY <1>2, <1>6 DEF U

(* How many threads owe a unit, and how many run a handler, when one of    *)
(* them moves.                                                             *)
LEMMA ThreadsChange ==
  ASSUME NEW h, NEW i, NEW t \in Threads,
         \A u \in Threads : u # t => i[u] = h[u]
  PROVE  /\ Size(Owing(i)) = Size(Owing(h)) + One(i[t].pc \in {"handler", "finish"})
                                            - One(h[t].pc \in {"handler", "finish"})
         /\ Size(Handling(i)) = Size(Handling(h)) + One(i[t].pc = "handler")
                                                  - One(h[t].pc = "handler")
         /\ Size(Owing(h)) \in Nat /\ Size(Handling(h)) \in Nat
<1> DEFINE A == Owing(h)  B == Handling(h)
<1>1. IsFiniteSet(A) /\ IsFiniteSet(B)
  <2>1. A \subseteq Threads /\ B \subseteq Threads
    BY DEF Owing, Handling
  <2> HIDE DEF A, B
  <2> QED BY <2>1, FiniteThreads, FS_Subset
<1>2. /\ Owing(i) = IF i[t].pc \in {"handler", "finish"} THEN A \cup {t} ELSE A \ {t}
      /\ t \in A <=> h[t].pc \in {"handler", "finish"}
  BY DEF Owing
<1>3. /\ Handling(i) = IF i[t].pc = "handler" THEN B \cup {t} ELSE B \ {t}
      /\ t \in B <=> h[t].pc = "handler"
  BY DEF Handling
<1> HIDE DEF A, B
<1>4. ASSUME NEW S, IsFiniteSet(S)
      PROVE  /\ Size(S) \in Nat
             /\ t \in S => S \cup {t} = S /\ Size(S \ {t}) = Size(S) - 1
             /\ t \notin S => S \ {t} = S /\ Size(S \cup {t}) = Size(S) + 1
  <2>1. t \in S => S \cup {t} = S
    OBVIOUS
  <2>2. t \notin S => S \ {t} = S
    OBVIOUS
  <2>3. Size(S) \in Nat
    BY <1>4, FS_CardinalityType DEF Size
  <2> QED BY <1>4, <2>1, <2>2, <2>3, OneMore, OneLess
<1>5. Size(Owing(i)) = Size(A) + One(i[t].pc \in {"handler", "finish"})
                               - One(h[t].pc \in {"handler", "finish"})
  <2> DEFINE b == i[t].pc \in {"handler", "finish"}  c == h[t].pc \in {"handler", "finish"}
  <2>1. /\ Owing(i) = IF b THEN A \cup {t} ELSE A \ {t}
        /\ t \in A <=> c
    BY <1>2
  <2>2. /\ Size(A) \in Nat
        /\ t \in A => A \cup {t} = A /\ Size(A \ {t}) = Size(A) - 1
        /\ t \notin A => A \ {t} = A /\ Size(A \cup {t}) = Size(A) + 1
    BY <1>1, <1>4
  <2> HIDE DEF b, c
  <2>3. b /\ c => Size(Owing(i)) = Size(A)
    BY <2>1, <2>2
  <2>4. b /\ ~c => Size(Owing(i)) = Size(A) + 1
    BY <2>1, <2>2
  <2>5. ~b /\ c => Size(Owing(i)) = Size(A) - 1
    BY <2>1, <2>2
  <2>6. ~b /\ ~c => Size(Owing(i)) = Size(A)
    BY <2>1, <2>2
  <2>7. (b => One(b) = 1) /\ (~b => One(b) = 0) /\ (c => One(c) = 1) /\ (~c => One(c) = 0)
    BY DEF One
  <2>8. Size(Owing(i)) = Size(A) + One(b) - One(c)
    BY <2>2, <2>3, <2>4, <2>5, <2>6, <2>7
  <2> QED BY <2>8 DEF b, c
<1>6. Size(Handling(i)) = Size(B) + One(i[t].pc = "handler") - One(h[t].pc = "handler")
  <2> DEFINE b == i[t].pc = "handler"  c == h[t].pc = "handler"
  <2>1. /\ Handling(i) = IF b THEN B \cup {t} ELSE B \ {t}
        /\ t \in B <=> c
    BY <1>3
  <2>2. /\ Size(B) \in Nat
        /\ t \in B => B \cup {t} = B /\ Size(B \ {t}) = Size(B) - 1
        /\ t \notin B => B \ {t} = B /\ Size(B \cup {t}) = Size(B) + 1
    BY <1>1, <1>4
  <2> HIDE DEF b, c
  <2>3. b /\ c => Size(Handling(i)) = Size(B)
    BY <2>1, <2>2
  <2>4. b /\ ~c => Size(Handling(i)) = Size(B) + 1
    BY <2>1, <2>2
  <2>5. ~b /\ c => Size(Handling(i)) = Size(B) - 1
    BY <2>1, <2>2
  <2>6. ~b /\ ~c => Size(Handling(i)) = Size(B)
    BY <2>1, <2>2
  <2>7. (b => One(b) = 1) /\ (~b => One(b) = 0) /\ (c => One(c) = 1) /\ (~c => One(c) = 0)
    BY DEF One
  <2>8. Size(Handling(i)) = Size(B) + One(b) - One(c)
    BY <2>2, <2>3, <2>4, <2>5, <2>6, <2>7
  <2> QED BY <2>8 DEF b, c
<1> QED BY <1>1, <1>4, <1>5, <1>6 DEF A, B

-----------------------------------------------------------------------------
(* Every step keeps the lists apart.                                       *)

(* PlaceInv is kept by every step.                                         *)
LEMMA PlaceNext ==
  ASSUME TypeOK, PlaceInv, Next
  PROVE  PlaceInv'
<1>1. ASSUME NEW c \in Callers, Call(c) PROVE PlaceInv'
  <2>1. ASSUME NEW op \in Ops, StartOp(c, op) PROVE PlaceInv'
    BY <2>1, MovesToPosting, MovesToDesc DEF StartOp
  <2>2. ASSUME NEW d \in Descriptors, NEW error \in {"none", "EPERM", "ADD"},
               Register(c, d, error)
        PROVE  PlaceInv'
    BY <2>2, MovesNone
  <2>3. ASSUME NEW d \in Descriptors,
               CancelOps(c, d) \/ \E closing \in BOOLEAN : Deregister(c, d, closing)
        PROVE  PlaceInv'
    BY <2>3, MovesFromDesc
  <2>4. ASSUME NEW d \in Descriptors, DropHandle(c, d) PROVE PlaceInv'
    BY <2>4, MovesNone
  <2> QED BY <1>1, <2>1, <2>2, <2>3, <2>4 DEF Call
<1>2. ASSUME NEW c \in Callers, PostStep(c) PROVE PlaceInv'
  <2>1. CASE ~UsesPrivateQueue(c)
    BY <1>2, <2>1, MovesToQueue
  <2>2. CASE UsesPrivateQueue(c)
    BY <1>2, <2>2, MovesToPrivate, MovesNowhere DEF PostStep
  <2> QED BY <2>1, <2>2
<1>3. ASSUME NEW t \in Threads, ThreadStep(t) PROVE PlaceInv'
  BY <1>3, MovesToThread, MovesDescriptors, MovesBack, MovesNoneRead, MovesPerformed,
     MovesAfter DEF ThreadStep
<1>4. ASSUME Environment PROVE PlaceInv'
  BY <1>4, MovesNone
<1> QED BY <1>1, <1>2, <1>3, <1>4 DEF Next

(* Without one_thread_ no step loses an operation between two lists.       *)
LEMMA NoneLostNext ==
  ASSUME TypeOK, PlaceInv, NoneLost, Next
  PROVE  NoneLost'
<1> SUFFICES ASSUME ~OneThread
             PROVE  StartedOps(status') \subseteq
                      InDesc(desc') \cup Range(op_queue_') \cup InPosting(posting') \cup InPrivate(th')
  BY DEF NoneLost
<1> DEFINE D == InDesc(desc)  Q == Range(op_queue_)  P == InPosting(posting)
           V == InPrivate(th)  S == StartedOps(status)  R == Refused(posting)
           G == StartedOps(status') \subseteq
                  InDesc(desc') \cup Range(op_queue_') \cup InPosting(posting') \cup InPrivate(th')
<1>0. S \subseteq D \cup Q \cup P \cup V /\ S \subseteq Ops
  BY DEF NoneLost, StartedOps
<1>g. ASSUME NEW X, NEW Y, NEW Z, NEW T, NEW U, NEW W, ListsBecome(X, Y, Z, U, T, W),
             T \subseteq X \cup Y \cup Z \cup U
      PROVE  G
  BY <1>g DEF ListsBecome
<1> HIDE DEF D, Q, P, V, S, R, G
<1>1. ASSUME NEW c \in Callers, Call(c) PROVE G
  <2>1. ASSUME NEW op \in Ops,
               StartRefused(c, op) \/ StartPerformed(c, op) \/ StartModFails(c, op)
        PROVE  G
    <3>1. ListsBecome(D, Q, P \cup {op}, V, S \cup {op}, R \cup {op})
      BY <2>1, MovesToPosting DEF D, Q, P, V, S, R
    <3>2. S \cup {op} \subseteq D \cup Q \cup (P \cup {op}) \cup V
      BY <1>0
    <3> QED BY <1>g, <3>1, <3>2
  <2>2. ASSUME NEW op \in Ops, StartWaits(c, op) PROVE G
    <3>1. ListsBecome(D \cup {op}, Q, P, V, S \cup {op}, R)
      BY <2>2, MovesToDesc DEF D, Q, P, V, S, R
    <3>2. S \cup {op} \subseteq (D \cup {op}) \cup Q \cup P \cup V
      BY <1>0
    <3> QED BY <1>g, <3>1, <3>2
  <2>3. ASSUME NEW d \in Descriptors,
               CancelOps(c, d) \/ \E closing \in BOOLEAN : Deregister(c, d, closing)
        PROVE  G
    <3> DEFINE W == Range(Waiting(desc[d]))
    <3>1. ListsBecome(D \ W, Q, P \cup W, V, S, R)
      BY <2>3, MovesFromDesc DEF D, Q, P, V, S, R
    <3> HIDE DEF W
    <3>2. S \subseteq (D \ W) \cup Q \cup (P \cup W) \cup V
      BY <1>0
    <3> QED BY <1>g, <3>1, <3>2
  <2>4. ASSUME NEW d \in Descriptors,
               \/ \E error \in {"none", "EPERM", "ADD"} : Register(c, d, error)
               \/ DropHandle(c, d)
        PROVE  G
    <3>1. ListsBecome(D, Q, P, V, S, R)
      BY <2>4, MovesNone DEF D, Q, P, V, S, R
    <3> QED BY <1>0, <1>g, <3>1
  <2> QED BY <1>1, <2>1, <2>2, <2>3, <2>4 DEF Call, StartOp
<1>2. ASSUME NEW c \in Callers, PostStep(c) PROVE G
  <2> DEFINE X == Range(posting[c].ops)
  <2>1. CASE ~UsesPrivateQueue(c)
    <3>1. ListsBecome(D, Q \cup X, P \ X, V, S, R \ X)
      BY <1>2, <2>1, MovesToQueue DEF D, Q, P, V, S, R
    <3> HIDE DEF X
    <3>2. S \subseteq D \cup (Q \cup X) \cup (P \ X) \cup V
      BY <1>0
    <3> QED BY <1>g, <3>1, <3>2
  <2>2. CASE UsesPrivateQueue(c)
    <3>1. PostImmediate(c)
      BY <1>2, <2>2 DEF PostStep, PostDeferred, UsesPrivateQueue
    <3>2. ListsBecome(D, Q, P \ X, V \cup X, S, R \ X)
      BY <2>2, <3>1, MovesToPrivate DEF D, Q, P, V, S, R
    <3> HIDE DEF X
    <3>3. S \subseteq D \cup Q \cup (P \ X) \cup (V \cup X)
      BY <1>0
    <3> QED BY <1>g, <3>2, <3>3
  <2> QED BY <2>1, <2>2
<1>3. ASSUME NEW t \in Threads, ThreadStep(t) PROVE G
  <2>1. ASSUME Take(t) PROVE G
    <3> DEFINE o == Head(op_queue_)
    <3>1. ListsBecome(D, Q \ {o}, P, V, S \ {o}, R)
      BY <2>1, MovesToThread DEF D, Q, P, V, S, R
    <3> HIDE DEF o
    <3>2. S \ {o} \subseteq D \cup (Q \ {o}) \cup P \cup V
      BY <1>0
    <3> QED BY <1>g, <3>1, <3>2
  <2>2. ASSUME TaskRuns(t) PROVE G
    <3>1. PICK X \in SUBSET Descriptors : ListsBecome(D, Q, P, V \cup X, S, R)
      BY <2>2, MovesDescriptors DEF D, Q, P, V, S, R
    <3>2. S \subseteq D \cup Q \cup P \cup (V \cup X)
      BY <1>0
    <3> QED BY <1>g, <3>1, <3>2
  <2>3. ASSUME TaskCleanup(t) PROVE G
    <3>0. PICK X \in SUBSET (Descriptors \cup {TaskOp}) : \E Y \in SUBSET X :
            ListsBecome(D, Q \cup X, P, V \ Y, S, R)
      BY <2>3, MovesBack DEF D, Q, P, V, S, R
    <3>1. PICK Y \in SUBSET X :
            ListsBecome(D, Q \cup X, P, V \ Y, S, R)
      BY <3>0
    <3>2. S \subseteq D \cup (Q \cup X) \cup P \cup (V \ Y)
      BY <1>0, <3>1
    <3> QED BY <1>g, <3>1, <3>2
  <2>4. ASSUME ReadResult(t) PROVE G
    <3>1. ListsBecome(D, Q, P, V, S, R)
      BY <2>4, MovesNoneRead DEF D, Q, P, V, S, R
    <3> QED BY <1>0, <1>g, <3>1
  <2>5. ASSUME PerformIo(t) PROVE G
    <3>1. \/ ListsBecome(D, Q, P, V, S, R)
          \/ \E X \in SUBSET D : \E o \in X :
               ListsBecome(D \ X, Q, P \cup (X \ {o}), V, S \ {o}, R)
      BY <2>5, MovesPerformed DEF D, Q, P, V, S, R
    <3>2. CASE ListsBecome(D, Q, P, V, S, R)
      BY <1>0, <1>g, <3>2
    <3>3. ASSUME NEW X \in SUBSET D, NEW o \in X,
                 ListsBecome(D \ X, Q, P \cup (X \ {o}), V, S \ {o}, R)
          PROVE  G
      <4>1. S \ {o} \subseteq (D \ X) \cup Q \cup (P \cup (X \ {o})) \cup V
        BY <1>0
      <4> QED BY <1>g, <3>3, <4>1
    <3> QED BY <3>1, <3>2, <3>3
  <2>6. ASSUME Finish(t) PROVE G
    <3> DEFINE X == Range(th[t].queue)
    <3>1. ListsBecome(D, Q \cup X, P, V \ X, S, R)
      BY <2>6, MovesAfter DEF D, Q, P, V, S, R
    <3> HIDE DEF X
    <3>2. S \subseteq D \cup (Q \cup X) \cup P \cup (V \ X)
      BY <1>0
    <3> QED BY <1>g, <3>1, <3>2
  <2> QED BY <1>3, <2>1, <2>2, <2>3, <2>4, <2>5, <2>6 DEF ThreadStep
<1>4. ASSUME Environment PROVE G
  <2>1. ListsBecome(D, Q, P, V, S, R)
    BY <1>4, MovesNone DEF D, Q, P, V, S, R
  <2> QED BY <1>0, <1>g, <2>1
<1>5. G
  BY <1>1, <1>2, <1>3, <1>4 DEF Next
<1> QED BY <1>5 DEF G

-----------------------------------------------------------------------------
(* The operations that are counted, and the two invariants in numbers.     *)
Counted(s, p) == StartedOps(s) \ Refused(p)

Balance == outstanding_work_ + Size(Units(th))
             = One(guard) + Size(Counted(status, posting)) + Size(Owing(th))

Suffices == outstanding_work_ >= One(guard) + Size(Handling(th))
                                   + Size(Shared(desc, op_queue_, posting))

(* WorkCounted by the names of the sets it counts.                         *)
LEMMA BalanceIs == WorkCounted <=> Balance
<1>1. Refused(posting) = {o \in Ops : \E c \in Callers :
                            /\ posting[c].how = "immediate"
                            /\ o \in ToSet(posting[c].ops)}
  BY DEF Refused, ToSet, Range
<1> QED BY <1>1 DEF WorkCounted, Balance, PrivateWork, Units, Counted, StartedOps, Owing,
                    Size, One

(* EnoughWork by the names of the sets it counts.                          *)
LEMMA SufficesIs == EnoughWork <=> Suffices
BY DEF EnoughWork, Suffices, Size, One

(* How the sets whose sizes matter follow from the lists.                  *)
LEMMA CountsAre ==
  ASSUME NEW D, NEW Q, NEW P, NEW V, NEW S, NEW R, ListsBecome(D, Q, P, V, S, R)
  PROVE  /\ Counted(status', posting') = S \ R
         /\ Shared(desc', op_queue_', posting') = D \cup (Q \cap Ops) \cup (P \ R)
BY DEF ListsBecome, Counted, Shared

(* The sets of counted operations, from the lists.                         *)
LEMMA CountsNow ==
  ASSUME TypeOK, PlaceInv
  PROVE  LET D == InDesc(desc)  Q == Range(op_queue_)  P == InPosting(posting)
             S == StartedOps(status)  R == Refused(posting)
             C == Counted(status, posting)  H == Shared(desc, op_queue_, posting)
         IN /\ C = S \ R /\ H = D \cup (Q \cap Ops) \cup (P \ R)
            /\ D \cup (Q \cap Ops) \cup P \subseteq S /\ S \subseteq Ops /\ R \subseteq P
            /\ D \cap Q = {} /\ D \cap P = {} /\ Q \cap P = {}
            /\ IsFiniteSet(C) /\ IsFiniteSet(H) /\ Size(C) \in Nat /\ Size(H) \in Nat
<1> DEFINE D == InDesc(desc)  Q == Range(op_queue_)  P == InPosting(posting)
           V == InPrivate(th)  S == StartedOps(status)  R == Refused(posting)
           C == Counted(status, posting)  H == Shared(desc, op_queue_, posting)
<1>1. C = S \ R /\ H = D \cup (Q \cap Ops) \cup (P \ R)
  BY DEF Counted, Shared
<1>2. Apart(D, Q, P, V, S)
  BY DEF PlaceInv, Spread
<1>3. R \subseteq P /\ S \subseteq Ops
  BY WaitingIsStarted
<1> HIDE DEF D, Q, P, V, S, R, C, H
<1>4. /\ D \cup (Q \cap Ops) \cup P \subseteq S
      /\ D \cap Q = {} /\ D \cap P = {} /\ Q \cap P = {}
  BY <1>2 DEF Apart
<1>5. C \subseteq Ops /\ H \subseteq Ops
  BY <1>1, <1>3, <1>4
<1>6. IsFiniteSet(C) /\ IsFiniteSet(H) /\ Size(C) \in Nat /\ Size(H) \in Nat
  BY <1>5, FiniteThreads, SizesOf
<1> QED BY <1>1, <1>3, <1>4, <1>6 DEF D, Q, P, V, S, R, C, H

(* What the threads hold, when one of them moves.                          *)
LEMMA ThreadCounts ==
  ASSUME TypeOK, PlaceInv, EnoughWork, Next, NEW t \in Threads,
         \A u \in Threads : u # t => th'[u] = th[u]
  PROVE  /\ Size(Units(th')) = Size(Units(th)) + th'[t].work - th[t].work
         /\ Size(Owing(th')) = Size(Owing(th)) + One(th'[t].pc \in {"handler", "finish"})
                                               - One(th[t].pc \in {"handler", "finish"})
         /\ Size(Handling(th')) = Size(Handling(th)) + One(th'[t].pc = "handler")
                                                     - One(th[t].pc = "handler")
         /\ th[t].work \in Nat /\ th'[t].work \in Nat
<1>1. th \in [Threads -> ThType] /\ th' \in [Threads -> ThType]
  BY TypeNext DEF TypeOK, ThType
<1>2. th[t].work \in Nat /\ th'[t].work \in Nat
  BY <1>1 DEF ThType
<1> DEFINE i == th'
<1>3. \A u \in Threads : u # t => i[u] = th[u]
  OBVIOUS
<1> HIDE DEF i
<1>4. Size(Units(i)) = Size(Units(th)) + i[t].work - th[t].work
  BY <1>1, <1>3, UnitsChange DEF i
<1>5. /\ Size(Owing(i)) = Size(Owing(th)) + One(i[t].pc \in {"handler", "finish"})
                                            - One(th[t].pc \in {"handler", "finish"})
      /\ Size(Handling(i)) = Size(Handling(th)) + One(i[t].pc = "handler")
                                                  - One(th[t].pc = "handler")
  BY <1>3, ThreadsChange
<1> QED BY <1>2, <1>4, <1>5 DEF i

(* The sizes are numbers.                                                  *)
LEMMA NumbersNow ==
  ASSUME TypeOK
  PROVE  /\ Size(Units(th)) \in Nat /\ Size(Owing(th)) \in Nat /\ Size(Handling(th)) \in Nat
         /\ outstanding_work_ \in Nat /\ One(guard) \in {0, 1}
<1>1. Size(Units(th)) \in Nat
  BY TypesOf, UnitsFinite
<1>2. Owing(th) \subseteq Threads /\ Handling(th) \subseteq Threads
  BY DEF Owing, Handling
<1>3. Size(Owing(th)) \in Nat /\ Size(Handling(th)) \in Nat
  BY <1>2, FiniteThreads, SizesOf
<1> QED BY <1>1, <1>3, TypesOf DEF One

(* Operations join, or leave, a set of them.                               *)
LEMMA Joins ==
  ASSUME NEW S, NEW X, IsFiniteSet(S), IsFiniteSet(X)
  PROVE  Size(S \cup X) <= Size(S) + Size(X) /\ Size(S \cup X) \in Nat
<1>1. /\ Size(S \cup X) = Size(S) + Size(X) - Size(S \cap X)
      /\ IsFiniteSet(S \cup X)
  BY FS_Union DEF Size
<1>2. IsFiniteSet(S \cap X)
  BY FS_Subset
<1>3. Size(S \cap X) \in Nat /\ Size(S) \in Nat /\ Size(X) \in Nat /\ Size(S \cup X) \in Nat
  BY <1>1, <1>2, FS_CardinalityType DEF Size
<1> QED BY <1>1, <1>3

-----------------------------------------------------------------------------
(* Every step keeps the count, and keeps it large enough.                  *)

(* A caller starts, cancels or registers.                                  *)
LEMMA WorkCall ==
  ASSUME TypeOK, PlaceInv, Balance, Suffices, NEW c \in Callers, Call(c)
  PROVE  Balance' /\ Suffices'
<1> DEFINE D == InDesc(desc)  Q == Range(op_queue_)  P == InPosting(posting)
           V == InPrivate(th)  S == StartedOps(status)  R == Refused(posting)
           C == Counted(status, posting)  H == Shared(desc, op_queue_, posting)
           C2 == Counted(status', posting')  H2 == Shared(desc', op_queue_', posting')
           G == Balance' /\ Suffices'
<1>1. /\ C = S \ R /\ H = D \cup (Q \cap Ops) \cup (P \ R)
      /\ D \cup (Q \cap Ops) \cup P \subseteq S /\ S \subseteq Ops /\ R \subseteq P
      /\ D \cap Q = {} /\ D \cap P = {} /\ Q \cap P = {}
      /\ IsFiniteSet(C) /\ IsFiniteSet(H) /\ Size(C) \in Nat /\ Size(H) \in Nat
  BY CountsNow
<1>2. ASSUME C2 = C, H2 = H, UNCHANGED <<th, outstanding_work_, guard>> PROVE G
  BY <1>2 DEF Balance, Suffices
<1>3. ASSUME NEW D2, NEW Q2, NEW P2, NEW V2, NEW S2, NEW R2,
             ListsBecome(D2, Q2, P2, V2, S2, R2)
      PROVE  C2 = S2 \ R2 /\ H2 = D2 \cup (Q2 \cap Ops) \cup (P2 \ R2)
  BY <1>3, CountsAre
<1> HIDE DEF D, Q, P, V, S, R, C, H, C2, H2, G
<1>4. ASSUME NEW op \in Ops,
             StartRefused(c, op) \/ StartPerformed(c, op) \/ StartModFails(c, op)
      PROVE  G
  <2>1. /\ ListsBecome(D, Q, P \cup {op}, V, S \cup {op}, R \cup {op})
        /\ op \notin S
    BY <1>4, MovesToPosting DEF D, Q, P, V, S, R
  <2>2. /\ C2 = (S \cup {op}) \ (R \cup {op})
        /\ H2 = D \cup (Q \cap Ops) \cup ((P \cup {op}) \ (R \cup {op}))
    BY <1>3, <2>1
  <2>3. C2 = C /\ H2 = H
    BY <1>1, <2>1, <2>2
  <2>4. UNCHANGED <<th, outstanding_work_, guard>>
    BY <1>4 DEF StartRefused, StartPerformed, StartModFails, sched
  <2> QED BY <1>2, <2>3, <2>4
<1>5. ASSUME NEW op \in Ops, StartWaits(c, op) PROVE G
  <2>1. ListsBecome(D \cup {op}, Q, P, V, S \cup {op}, R) /\ op \notin S
    BY <1>5, MovesToDesc DEF D, Q, P, V, S, R
  <2>2. /\ C2 = (S \cup {op}) \ R
        /\ H2 = (D \cup {op}) \cup (Q \cap Ops) \cup (P \ R)
    BY <1>3, <2>1
  <2>3. C2 = C \cup {op} /\ op \notin C /\ H2 = H \cup {op} /\ op \notin H
    BY <1>1, <2>1, <2>2
  <2>4. Size(C2) = Size(C) + 1 /\ Size(H2) = Size(H) + 1
    BY <1>1, <2>3, OneMore
  <2>5. UNCHANGED <<th, guard>> /\ outstanding_work_' = outstanding_work_ + 1
    BY <1>5 DEF StartWaits
  <2> QED BY <1>1, <2>4, <2>5, NumbersNow DEF Balance, Suffices, G, C, H, C2, H2
<1>6. ASSUME NEW d \in Descriptors,
             CancelOps(c, d) \/ \E closing \in BOOLEAN : Deregister(c, d, closing)
      PROVE  G
  <2> DEFINE W == Range(Waiting(desc[d]))
  <2>1. ListsBecome(D \ W, Q, P \cup W, V, S, R) /\ W \subseteq D
    BY <1>6, MovesFromDesc DEF D, Q, P, V, S, R
  <2> HIDE DEF W
  <2>2. C2 = S \ R /\ H2 = (D \ W) \cup (Q \cap Ops) \cup ((P \cup W) \ R)
    BY <1>3, <2>1
  <2>3. C2 = C /\ H2 = H
    BY <1>1, <2>1, <2>2
  <2>4. UNCHANGED <<th, outstanding_work_, guard>>
    BY <1>6 DEF CancelOps, Deregister, sched
  <2> QED BY <1>2, <2>3, <2>4
<1>7. ASSUME NEW d \in Descriptors,
             \/ \E error \in {"none", "EPERM", "ADD"} : Register(c, d, error)
             \/ DropHandle(c, d)
      PROVE  G
  <2>1. ListsBecome(D, Q, P, V, S, R)
    BY <1>7, MovesNone DEF D, Q, P, V, S, R
  <2>2. C2 = C /\ H2 = H
    BY <1>1, <1>3, <2>1
  <2>3. UNCHANGED <<th, outstanding_work_, guard>>
    BY <1>7 DEF Register, DropHandle, sched
  <2> QED BY <1>2, <2>2, <2>3
<1>8. G
  BY <1>4, <1>5, <1>6, <1>7 DEF Call, StartOp
<1> QED BY <1>8 DEF G

(* A caller hands over what it holds.                                      *)
LEMMA WorkPost ==
  ASSUME TypeOK, PlaceInv, Balance, Suffices, Next, NEW c \in Callers, PostStep(c)
  PROVE  Balance' /\ Suffices'
<1> DEFINE D == InDesc(desc)  Q == Range(op_queue_)  P == InPosting(posting)
           V == InPrivate(th)  S == StartedOps(status)  R == Refused(posting)
           C == Counted(status, posting)  H == Shared(desc, op_queue_, posting)
           C2 == Counted(status', posting')  H2 == Shared(desc', op_queue_', posting')
           G == Balance' /\ Suffices'  X == Range(posting[c].ops)
<1>1. /\ C = S \ R /\ H = D \cup (Q \cap Ops) \cup (P \ R)
      /\ D \cup (Q \cap Ops) \cup P \subseteq S /\ S \subseteq Ops /\ R \subseteq P
      /\ D \cap Q = {} /\ D \cap P = {} /\ Q \cap P = {}
      /\ IsFiniteSet(C) /\ IsFiniteSet(H) /\ Size(C) \in Nat /\ Size(H) \in Nat
  BY CountsNow
<1>2. ASSUME C2 = C, H2 = H, UNCHANGED <<th, outstanding_work_, guard>> PROVE G
  BY <1>2 DEF Balance, Suffices
<1>3. ASSUME NEW D2, NEW Q2, NEW P2, NEW V2, NEW S2, NEW R2,
             ListsBecome(D2, Q2, P2, V2, S2, R2)
      PROVE  C2 = S2 \ R2 /\ H2 = D2 \cup (Q2 \cap Ops) \cup (P2 \ R2)
  BY <1>3, CountsAre
<1>4. PostImmediate(c) => \E op \in Ops : X = {op} /\ X \subseteq R
  <2> SUFFICES ASSUME PostImmediate(c) PROVE \E op \in Ops : X = {op} /\ X \subseteq R
    OBVIOUS
  <2>1. posting[c].how = "immediate"
    BY DEF PostImmediate
  <2>2. PICK op \in Ops : posting[c].ops = <<op>>
    BY <2>1 DEF PlaceInv, PostingOK
  <2>3. X = {op}
    BY <2>2, OneList
  <2>4. op \in R
    BY <2>1, <2>3 DEF Refused
  <2> QED BY <2>3, <2>4
<1>5. PostDeferred(c) => X \cap R = {}
  <2> SUFFICES ASSUME PostDeferred(c), NEW o \in R, o \in X PROVE FALSE
    OBVIOUS
  <2>1. posting[c].how = "deferred"
    BY DEF PostDeferred
  <2>2. PICK e \in Callers : posting[e].how = "immediate" /\ o \in Range(posting[e].ops)
    BY DEF Refused
  <2>3. e # c
    BY <2>1, <2>2
  <2> QED BY <2>2, <2>3 DEF PlaceInv, PostingOK
<1>6. X \subseteq P
  BY DEF InPosting
<1> HIDE DEF D, Q, P, V, S, R, C, H, C2, H2, G, X
<1>7. CASE PostImmediate(c) /\ ~UsesPrivateQueue(c)
  <2>1. PICK op \in Ops : X = {op} /\ X \subseteq R
    BY <1>4, <1>7
  <2>2. ListsBecome(D, Q \cup X, P \ X, V, S, R \ X)
    BY <1>7, MovesToQueue DEF PostStep, D, Q, P, V, S, R, X
  <2>3. C2 = S \ (R \ X) /\ H2 = D \cup ((Q \cup X) \cap Ops) \cup ((P \ X) \ (R \ X))
    BY <1>3, <2>2
  <2>4. C2 = C \cup {op} /\ op \notin C
    BY <1>1, <2>1, <2>3
  <2>5. H2 = H \cup {op} /\ op \notin H
    BY <1>1, <2>1, <2>3
  <2>6. Size(C2) = Size(C) + 1 /\ Size(H2) = Size(H) + 1
    BY <1>1, <2>4, <2>5, OneMore
  <2>7. UNCHANGED <<th, guard>> /\ outstanding_work_' = outstanding_work_ + 1
    BY <1>7 DEF PostImmediate
  <2> QED BY <1>1, <2>6, <2>7, NumbersNow DEF Balance, Suffices, G, C, H, C2, H2
<1>8. CASE PostDeferred(c) /\ ~UsesPrivateQueue(c)
  <2>1. ListsBecome(D, Q \cup X, P \ X, V, S, R \ X)
    BY <1>8, MovesToQueue DEF PostStep, D, Q, P, V, S, R, X
  <2>2. C2 = S \ (R \ X) /\ H2 = D \cup ((Q \cup X) \cap Ops) \cup ((P \ X) \ (R \ X))
    BY <1>3, <2>1
  <2>3. X \cap R = {}
    BY <1>5, <1>8
  <2>4. C2 = C
    BY <1>1, <2>2, <2>3
  <2>5. H2 = H
    BY <1>1, <1>6, <2>2, <2>3
  <2>6. UNCHANGED <<th, outstanding_work_, guard>>
    BY <1>8 DEF PostDeferred
  <2> QED BY <1>2, <2>4, <2>5, <2>6 DEF G
<1>9. CASE UsesPrivateQueue(c)
  <2>0. c \in Threads
    BY <1>9 DEF UsesPrivateQueue
  <2>1. th \in [Threads -> ThType]
    BY TypesOf
  <2>2. CASE PostImmediate(c)
    <3>1. PICK op \in Ops : X = {op} /\ X \subseteq R
      BY <1>4, <2>2
    <3>2. ListsBecome(D, Q, P \ X, V \cup X, S, R \ X)
      BY <1>9, <2>2, MovesToPrivate DEF D, Q, P, V, S, R, X
    <3>3. C2 = S \ (R \ X) /\ H2 = D \cup (Q \cap Ops) \cup ((P \ X) \ (R \ X))
      BY <1>3, <3>2
    <3>4. C2 = C \cup {op} /\ op \notin C
      BY <1>1, <3>1, <3>3
    <3>5. H2 = H
      BY <1>1, <3>1, <3>3
    <3>6. Size(C2) = Size(C) + 1
      BY <1>1, <3>4, OneMore
    <3>7. /\ UNCHANGED <<outstanding_work_, guard>>
          /\ \A u \in Threads : u # c => th'[u] = th[u]
          /\ th'[c].work = th[c].work + 1 /\ th'[c].pc = th[c].pc
      BY <1>9, <2>0, <2>1, <2>2 DEF PostImmediate, ThType, sched
    <3>8. /\ Size(Units(th')) = Size(Units(th)) + 1
          /\ Size(Owing(th')) = Size(Owing(th))
          /\ Size(Handling(th')) = Size(Handling(th))
      <4> DEFINE b == th[c].pc \in {"handler", "finish"}  e == th[c].pc = "handler"
      <4>1. /\ Size(Units(th')) = Size(Units(th)) + th'[c].work - th[c].work
            /\ Size(Owing(th')) = Size(Owing(th)) + One(b) - One(b)
            /\ Size(Handling(th')) = Size(Handling(th)) + One(e) - One(e)
            /\ th[c].work \in Nat
        BY <2>0, <3>7, SufficesIs, ThreadCounts
      <4> HIDE DEF b, e
      <4>2. One(b) \in {0, 1} /\ One(e) \in {0, 1}
        BY DEF One
      <4> QED BY <3>7, <4>1, <4>2, NumbersNow
    <3> QED BY <1>1, <3>5, <3>6, <3>7, <3>8, NumbersNow DEF Balance, Suffices, G, C, H, C2, H2
  <2>3. CASE PostDeferred(c)
    <3> DEFINE Y == Range(th[c].queue)
    <3>1. ListsBecome(D, Q, P \ X, V \ Y, S, R)
      BY <1>9, <2>3, MovesNowhere DEF D, Q, P, V, S, R, X
    <3>2. C2 = S \ R /\ H2 = D \cup (Q \cap Ops) \cup ((P \ X) \ R)
      BY <1>3, <3>1
    <3>3. C2 = C /\ H2 \subseteq H
      BY <1>1, <3>2
    <3>4. Size(H2) \in Nat /\ Size(H2) <= Size(H)
      BY <1>1, <3>3, SizesOf
    <3>5. /\ UNCHANGED <<outstanding_work_, guard>>
          /\ \A u \in Threads : u # c => th'[u] = th[u]
          /\ th'[c].work = th[c].work /\ th'[c].pc = th[c].pc
      BY <1>9, <2>0, <2>1, <2>3 DEF PostDeferred, ThType
    <3>6. /\ Size(Units(th')) = Size(Units(th))
          /\ Size(Owing(th')) = Size(Owing(th))
          /\ Size(Handling(th')) = Size(Handling(th))
      <4> DEFINE b == th[c].pc \in {"handler", "finish"}  e == th[c].pc = "handler"
      <4>1. /\ Size(Units(th')) = Size(Units(th)) + th'[c].work - th[c].work
            /\ Size(Owing(th')) = Size(Owing(th)) + One(b) - One(b)
            /\ Size(Handling(th')) = Size(Handling(th)) + One(e) - One(e)
            /\ th[c].work \in Nat
        BY <2>0, <3>5, SufficesIs, ThreadCounts
      <4> HIDE DEF b, e
      <4>2. One(b) \in {0, 1} /\ One(e) \in {0, 1}
        BY DEF One
      <4> QED BY <3>5, <4>1, <4>2, NumbersNow
    <3> QED BY <1>1, <3>3, <3>4, <3>5, <3>6, NumbersNow
            DEF Balance, Suffices, G, C, H, C2, H2
  <2> QED BY <2>2, <2>3 DEF PostStep
<1> QED BY <1>7, <1>8, <1>9 DEF PostStep

(* A thread takes a step of run().                                         *)
LEMMA WorkThread ==
  ASSUME TypeOK, PlaceInv, Balance, Suffices, Next, NEW t \in Threads, ThreadStep(t)
  PROVE  Balance' /\ Suffices'
<1> DEFINE D == InDesc(desc)  Q == Range(op_queue_)  P == InPosting(posting)
           V == InPrivate(th)  S == StartedOps(status)  R == Refused(posting)
           C == Counted(status, posting)  H == Shared(desc, op_queue_, posting)
           C2 == Counted(status', posting')  H2 == Shared(desc', op_queue_', posting')
           G == Balance' /\ Suffices'
           u == Size(Units(th))  u2 == Size(Units(th'))
           w == Size(Owing(th))  w2 == Size(Owing(th'))
           a == Size(Handling(th))  a2 == Size(Handling(th'))
<1>1. /\ C = S \ R /\ H = D \cup (Q \cap Ops) \cup (P \ R)
      /\ D \cup (Q \cap Ops) \cup P \subseteq S /\ S \subseteq Ops /\ R \subseteq P
      /\ D \cap Q = {} /\ D \cap P = {} /\ Q \cap P = {}
      /\ IsFiniteSet(C) /\ IsFiniteSet(H) /\ Size(C) \in Nat /\ Size(H) \in Nat
  BY CountsNow
<1>2. /\ u \in Nat /\ w \in Nat /\ a \in Nat
      /\ outstanding_work_ \in Nat /\ One(guard) \in {0, 1}
  BY NumbersNow
<1>3. ASSUME NEW D2, NEW Q2, NEW P2, NEW V2, NEW S2, NEW R2,
             ListsBecome(D2, Q2, P2, V2, S2, R2)
      PROVE  C2 = S2 \ R2 /\ H2 = D2 \cup (Q2 \cap Ops) \cup (P2 \ R2)
  BY <1>3, CountsAre
<1>4. ASSUME \A x \in Threads : x # t => th'[x] = th[x]
      PROVE  /\ u2 = u + th'[t].work - th[t].work
             /\ w2 = w + One(th'[t].pc \in {"handler", "finish"})
                       - One(th[t].pc \in {"handler", "finish"})
             /\ a2 = a + One(th'[t].pc = "handler") - One(th[t].pc = "handler")
             /\ th[t].work \in Nat /\ th'[t].work \in Nat
  BY <1>4, SufficesIs, ThreadCounts
<1>5. /\ outstanding_work_ + u = One(guard) + Size(C) + w
      /\ outstanding_work_ >= One(guard) + a + Size(H)
  BY DEF Balance, Suffices
<1>6. ASSUME /\ outstanding_work_' + u2 = One(guard) + Size(C2) + w2
             /\ outstanding_work_' >= One(guard) + a2 + Size(H2)
             /\ guard' = guard
      PROVE  G
  BY <1>6 DEF Balance, Suffices
<1>7. guard' = guard
  BY DEF ThreadStep, Take, TaskRuns, TaskCleanup, ReadResult, PerformIo, Finish
<1>8. ~Finish(t) => outstanding_work_' = outstanding_work_
  BY DEF ThreadStep, Take, TaskRuns, TaskCleanup, ReadResult, PerformIo, sched
<1> HIDE DEF D, Q, P, V, S, R, C, H, C2, H2, G, u, u2, w, w2, a, a2
<1>9. ASSUME C2 = C, H2 = H, outstanding_work_' = outstanding_work_,
             u2 = u, w2 = w, a2 = a
      PROVE  G
  BY <1>5, <1>6, <1>7, <1>9
<1>10. ASSUME Take(t) PROVE G
  <2> DEFINE o == Head(op_queue_)
  <2>0. outstanding_work_' = outstanding_work_
    BY <1>10 DEF Take
  <2>1. /\ ListsBecome(D, Q \ {o}, P, V, S \ {o}, R) /\ o \in Q
        /\ \A x \in Threads : x # t => th'[x] = th[x]
        /\ th[t].pc = "loop" /\ th'[t].work = th[t].work
        /\ th'[t].pc = IF o = TaskOp THEN "task" ELSE IF o \in Ops THEN "handler" ELSE "popped"
    BY <1>10, MovesToThread DEF D, Q, P, V, S, R
  <2> HIDE DEF o
  <2>2. C2 = (S \ {o}) \ R /\ H2 = D \cup ((Q \ {o}) \cap Ops) \cup (P \ R)
    BY <1>3, <2>1
  <2>3. CASE o \in Ops
    <3>1. C2 = C \ {o} /\ o \in C
      BY <1>1, <2>1, <2>2, <2>3
    <3>2. H2 = H \ {o} /\ o \in H
      BY <1>1, <2>1, <2>2, <2>3
    <3>3. Size(C2) = Size(C) - 1 /\ Size(H2) = Size(H) - 1
      BY <1>1, <3>1, <3>2, OneLess
    <3>4. th'[t].pc = "handler"
      BY <2>1, <2>3, Names
    <3>5. u2 = u /\ w2 = w + 1 /\ a2 = a + 1
      BY <1>2, <1>4, <2>1, <3>4 DEF One
    <3> QED BY <1>1, <1>2, <1>5, <1>6, <1>7, <2>0, <3>3, <3>5
  <2>4. CASE o \notin Ops
    <3>1. C2 = C
      BY <1>1, <2>2, <2>4
    <3>2. H2 = H
      BY <1>1, <2>2, <2>4
    <3>4. th'[t].pc \in {"task", "popped"}
      BY <2>1, <2>4
    <3>5. u2 = u /\ w2 = w /\ a2 = a
      BY <1>2, <1>4, <2>1, <3>4 DEF One
    <3> QED BY <1>9, <2>0, <3>1, <3>2, <3>5
  <2> QED BY <2>3, <2>4
<1>11. ASSUME TaskRuns(t) PROVE G
  <2>1. PICK X \in SUBSET Descriptors : ListsBecome(D, Q, P, V \cup X, S, R)
    BY <1>11, MovesDescriptors DEF D, Q, P, V, S, R
  <2>2. C2 = C /\ H2 = H
    BY <1>1, <1>3, <2>1
  <2>3. /\ \A x \in Threads : x # t => th'[x] = th[x]
        /\ th[t].pc = "task" /\ th'[t].pc = "cleanup" /\ th'[t].work = th[t].work
    BY <1>11, MovesDescriptors
  <2>4. u2 = u /\ w2 = w /\ a2 = a
    BY <1>2, <1>4, <2>3 DEF One
  <2>5. outstanding_work_' = outstanding_work_
    BY <1>11 DEF TaskRuns, sched
  <2> QED BY <1>9, <2>2, <2>4, <2>5
<1>12. ASSUME TaskCleanup(t) PROVE G
  <2>0. PICK X \in SUBSET (Descriptors \cup {TaskOp}) : \E Y \in SUBSET X :
          ListsBecome(D, Q \cup X, P, V \ Y, S, R)
    BY <1>12, MovesBack DEF D, Q, P, V, S, R
  <2>1. PICK Y :
          ListsBecome(D, Q \cup X, P, V \ Y, S, R)
    BY <2>0
  <2>2. X \cap Ops = {}
    BY Names
  <2>6. C2 = S \ R /\ H2 = D \cup ((Q \cup X) \cap Ops) \cup (P \ R)
    BY <1>3, <2>1
  <2>7. C2 = C /\ H2 = H
    BY <1>1, <2>2, <2>6
  <2>3. /\ \A x \in Threads : x # t => th'[x] = th[x]
        /\ th[t].pc = "cleanup" /\ th'[t].pc = "loop" /\ th'[t].work = th[t].work
    BY <1>12, MovesBack
  <2>4. u2 = u /\ w2 = w /\ a2 = a
    BY <1>2, <1>4, <2>3 DEF One
  <2>5. outstanding_work_' = outstanding_work_
    BY <1>12 DEF TaskCleanup
  <2> QED BY <1>9, <2>4, <2>5, <2>7
<1>13. ASSUME ReadResult(t) PROVE G
  <2>1. /\ ListsBecome(D, Q, P, V, S, R)
        /\ \A x \in Threads : x # t => th'[x] = th[x]
        /\ th[t].pc = "popped" /\ th'[t].pc = "perform" /\ th'[t].work = th[t].work
    BY <1>13, MovesNoneRead DEF D, Q, P, V, S, R
  <2>2. C2 = C /\ H2 = H
    BY <1>1, <1>3, <2>1
  <2>4. u2 = u /\ w2 = w /\ a2 = a
    BY <1>2, <1>4, <2>1 DEF One
  <2>5. outstanding_work_' = outstanding_work_
    BY <1>13 DEF ReadResult, sched
  <2> QED BY <1>9, <2>2, <2>4, <2>5
<1>14. ASSUME PerformIo(t) PROVE G
  <2>1. /\ \A x \in Threads : x # t => th'[x] = th[x]
        /\ th[t].pc = "perform"
        /\ \/ /\ ListsBecome(D, Q, P, V, S, R)
              /\ th'[t].pc = "finish" /\ th'[t].work = th[t].work + 1
           \/ /\ \E X \in SUBSET D : \E o \in X :
                   ListsBecome(D \ X, Q, P \cup (X \ {o}), V, S \ {o}, R)
              /\ th'[t].pc = "handler" /\ th'[t].work = th[t].work
    BY <1>14, MovesPerformed DEF D, Q, P, V, S, R
  <2>0. outstanding_work_' = outstanding_work_
    BY <1>14 DEF PerformIo, sched
  <2>2. ASSUME ListsBecome(D, Q, P, V, S, R), th'[t].pc = "finish",
               th'[t].work = th[t].work + 1
        PROVE  G
    <3>1. C2 = C /\ H2 = H
      BY <1>1, <1>3, <2>2
    <3>2. u2 = u + 1 /\ w2 = w + 1 /\ a2 = a
      BY <1>2, <1>4, <2>1, <2>2 DEF One
    <3> QED BY <1>1, <1>2, <1>5, <1>6, <1>7, <2>0, <3>1, <3>2
  <2>3. ASSUME NEW X \in SUBSET D, NEW o \in X,
               ListsBecome(D \ X, Q, P \cup (X \ {o}), V, S \ {o}, R),
               th'[t].pc = "handler", th'[t].work = th[t].work
        PROVE  G
    <3>1. /\ C2 = (S \ {o}) \ R
          /\ H2 = (D \ X) \cup (Q \cap Ops) \cup ((P \cup (X \ {o})) \ R)
      BY <1>3, <2>3
    <3>2. C2 = C \ {o} /\ o \in C
      BY <1>1, <3>1
    <3>3. H2 = H \ {o} /\ o \in H
      BY <1>1, <3>1
    <3>4. Size(C2) = Size(C) - 1 /\ Size(H2) = Size(H) - 1
      BY <1>1, <3>2, <3>3, OneLess
    <3>5. u2 = u /\ w2 = w + 1 /\ a2 = a + 1
      BY <1>2, <1>4, <2>1, <2>3 DEF One
    <3> QED BY <1>1, <1>2, <1>5, <1>6, <1>7, <2>0, <3>4, <3>5
  <2> QED BY <2>1, <2>2, <2>3
<1>15. ASSUME Finish(t) PROVE G
  <2> DEFINE X == Range(th[t].queue)  n == th[t].work
  <2>1. /\ ListsBecome(D, Q \cup X, P, V \ X, S, R) /\ X \subseteq Ops
        /\ \A x \in Threads : x # t => th'[x] = th[x]
        /\ th'[t].pc \in {"loop", "gone"} /\ th'[t].work = 0
        /\ th[t].pc \in {"handler", "finish"}
        /\ th[t].pc = "finish" => n = 1 /\ X = {}
        /\ Cardinality(X) <= n /\ IsFiniteSet(X)
    BY <1>15, MovesAfter DEF D, Q, P, V, S, R
  <2>2. outstanding_work_' = outstanding_work_ + n - 1
    BY <1>15 DEF Finish
  <2>3. /\ u2 = u + 0 - n /\ n \in Nat
        /\ w2 = w - 1
        /\ a2 = a - One(th[t].pc = "handler")
    BY <1>2, <1>4, <2>1 DEF One
  <2> HIDE DEF X, n
  <2>4. C2 = S \ R /\ H2 = D \cup ((Q \cup X) \cap Ops) \cup (P \ R)
    BY <1>3, <2>1
  <2>5. C2 = C /\ H2 = H \cup X
    BY <1>1, <2>1, <2>4
  <2>6. /\ Size(H2) <= Size(H) + Size(X) /\ Size(H2) \in Nat /\ Size(X) \in Nat
        /\ Size(X) <= n
    BY <1>1, <2>1, <2>5, Joins, SizesOf DEF Size
  <2>7. CASE th[t].pc = "handler"
    <3>1. a2 = a - 1
      BY <2>3, <2>7 DEF One
    <3> QED BY <1>1, <1>2, <1>5, <1>6, <1>7, <2>2, <2>3, <2>5, <2>6, <3>1
  <2>8. CASE th[t].pc = "finish"
    <3>1. a2 = a /\ n = 1 /\ H2 = H
      BY <1>2, <2>1, <2>3, <2>5, <2>8 DEF One
    <3>2. Size(H2) = Size(H) /\ Size(C2) = Size(C)
      BY <2>5, <3>1
    <3>3. outstanding_work_' = outstanding_work_ /\ u2 = u - 1
      BY <1>2, <2>2, <2>3, <3>1
    <3> QED BY <1>1, <1>2, <1>5, <1>6, <1>7, <2>3, <3>1, <3>2, <3>3
  <2> QED BY <2>1, <2>7, <2>8
<1>16. G
  BY <1>10, <1>11, <1>12, <1>13, <1>14, <1>15 DEF ThreadStep
<1> QED BY <1>16 DEF G

(* The kernel, the work guard and the end of the program.                  *)
LEMMA WorkEnvironment ==
  ASSUME TypeOK, PlaceInv, Balance, Suffices, Environment
  PROVE  Balance' /\ Suffices'
<1> DEFINE D == InDesc(desc)  Q == Range(op_queue_)  P == InPosting(posting)
           V == InPrivate(th)  S == StartedOps(status)  R == Refused(posting)
           C == Counted(status, posting)  H == Shared(desc, op_queue_, posting)
           C2 == Counted(status', posting')  H2 == Shared(desc', op_queue_', posting')
<1>1. C = S \ R /\ H = D \cup (Q \cap Ops) \cup (P \ R) /\ Size(C) \in Nat /\ Size(H) \in Nat
  BY CountsNow
<1>2. ListsBecome(D, Q, P, V, S, R) /\ UNCHANGED th
  BY MovesNone
<1> HIDE DEF D, Q, P, V, S, R
<1>3. C2 = C /\ H2 = H
  BY <1>1, <1>2, CountsAre
<1>4. \/ UNCHANGED <<outstanding_work_, guard>>
      \/ guard /\ ~guard' /\ outstanding_work_' = outstanding_work_ - 1
  BY DEF Environment, BecomesReady, CloseDescriptor, ReleaseGuard, Shutdown, sched
<1>5. \/ outstanding_work_' = outstanding_work_ /\ One(guard') = One(guard)
      \/ outstanding_work_' = outstanding_work_ - 1 /\ One(guard') = One(guard) - 1
  BY <1>4 DEF One
<1> QED BY <1>1, <1>2, <1>3, <1>5, NumbersNow DEF Balance, Suffices

(* The balance and its shared part are kept by every step.                 *)
LEMMA WorkNext ==
  ASSUME TypeOK, PlaceInv, WorkCounted, EnoughWork, Next
  PROVE  WorkCounted' /\ EnoughWork'
<1>1. Balance /\ Suffices
  BY BalanceIs, SufficesIs
<1>2. Balance' /\ Suffices'
  BY <1>1, WorkCall, WorkPost, WorkThread, WorkEnvironment DEF Next
<1>3. (WorkCounted <=> Balance)' /\ (EnoughWork <=> Suffices)'
  BY BalanceIs, SufficesIs, PTL
<1> QED BY <1>2, <1>3

-----------------------------------------------------------------------------
(* A stopped scheduler: no guard, no handler, nothing started.  There is   *)
(* then nobody who could start an operation.                               *)
StopInv == stopped_ => ~guard /\ Handling(th) = {} /\ StartedOps(status) = {}

(* A finite set without elements.                                          *)
LEMMA NoSize ==
  ASSUME NEW S, IsFiniteSet(S), Size(S) = 0
  PROVE  S = {}
BY FS_EmptySet DEF Size

(* A count of zero leaves nothing: the shared count covers the guard and   *)
(* the handlers, without them nobody holds an operation to post, and every *)
(* unit held privately is one of those about to be given back.             *)
LEMMA NoWorkLeft ==
  TypeOK /\ PlaceInv /\ WorkCounted /\ EnoughWork /\ outstanding_work_ = 0
    => ~guard /\ Handling(th) = {} /\ StartedOps(status) = {}
<1> SUFFICES ASSUME TypeOK, PlaceInv, WorkCounted, EnoughWork, outstanding_work_ = 0
             PROVE  ~guard /\ Handling(th) = {} /\ StartedOps(status) = {}
  OBVIOUS
<1>1. /\ Size(Units(th)) = One(guard) + Size(Counted(status, posting)) + Size(Owing(th))
      /\ 0 >= One(guard) + Size(Handling(th)) + Size(Shared(desc, op_queue_, posting))
  BY BalanceIs, SufficesIs, NumbersNow DEF Balance, Suffices
<1>2. /\ IsFiniteSet(Counted(status, posting)) /\ Size(Counted(status, posting)) \in Nat
      /\ Size(Shared(desc, op_queue_, posting)) \in Nat
  BY CountsNow
<1>3. Handling(th) \subseteq Threads /\ Owing(th) \subseteq Threads
  BY DEF Handling, Owing
<1>4. /\ IsFiniteSet(Handling(th)) /\ Size(Handling(th)) \in Nat
      /\ IsFiniteSet(Owing(th)) /\ Size(Owing(th)) \in Nat
  BY <1>3, FiniteThreads, SizesOf
<1>5. One(guard) = 0 /\ Size(Handling(th)) = 0
  BY <1>1, <1>2, <1>4, NumbersNow
<1>6. ~guard /\ Handling(th) = {}
  BY <1>4, <1>5, NoSize DEF One
<1>7. Refused(posting) = {}
  <2> SUFFICES ASSUME NEW c \in Callers, posting[c].how = "immediate" PROVE FALSE
    BY DEF Refused
  <2>1. IF c \in Threads THEN th[c].pc = "handler" ELSE guard
    BY DEF PlaceInv, PostingOK
  <2> QED BY <1>6, <2>1 DEF Handling
<1>8. Units(th) = Owing(th) \X {1}
  <2>1. \A t \in Threads : th[t].work = IF t \in Owing(th) THEN 1 ELSE 0
    BY <1>6 DEF PlaceInv, ThreadsOK, ThreadOK, Owing, Handling
  <2>2. \A t \in Threads : 1 .. th[t].work = IF t \in Owing(th) THEN {1} ELSE {}
    <3>1. 1 .. 1 = {1} /\ 1 .. 0 = {}
      OBVIOUS
    <3> QED BY <2>1, <3>1
  <2>3. ASSUME NEW x \in Units(th) PROVE x \in Owing(th) \X {1}
    <3>1. PICK t \in Threads : x \in {t} \X (1 .. th[t].work)
      BY DEF Units
    <3> QED BY <2>2, <3>1
  <2>4. ASSUME NEW x \in Owing(th) \X {1} PROVE x \in Units(th)
    <3>1. PICK t \in Owing(th) : x = <<t, 1>>
      OBVIOUS
    <3>2. x \in {t} \X (1 .. th[t].work)
      BY <1>3, <2>2, <3>1
    <3> QED BY <1>3, <3>2 DEF Units
  <2> QED BY <2>3, <2>4
<1>9. Size(Units(th)) = Size(Owing(th))
  <2> DEFINE A == Owing(th)  B == {1}
  <2>1. IsFiniteSet(A) /\ IsFiniteSet(B) /\ Cardinality(B) = 1 /\ Cardinality(A) \in Nat
    BY <1>4, FS_Singleton DEF Size
  <2> HIDE DEF A, B
  <2>2. Cardinality(A \X B) = Cardinality(A) * 1
    BY <2>1, FS_Product
  <2> QED BY <1>8, <2>1, <2>2 DEF A, B, Size
<1>10. Counted(status, posting) = {}
  BY <1>1, <1>2, <1>4, <1>5, <1>9, NoSize
<1> QED BY <1>6, <1>7, <1>10 DEF Counted

(* Once stopped there is nothing that could go on: no handler to start an  *)
(* operation, no client with a guard, nothing to perform or to pop.        *)
LEMMA StopNext ==
  ASSUME TypeOK, PlaceInv, WorkCounted, EnoughWork, StopInv, Next
  PROVE  StopInv'
<1> SUFFICES ASSUME stopped_'
             PROVE  ~guard' /\ Handling(th') = {} /\ StartedOps(status') = {}
  BY DEF StopInv
<1>1. TypeOK' /\ PlaceInv' /\ WorkCounted' /\ EnoughWork'
  BY TypeNext, PlaceNext, WorkNext
<1>2. CASE outstanding_work_' = 0
  <2>1. (TypeOK /\ PlaceInv /\ WorkCounted /\ EnoughWork /\ outstanding_work_ = 0
           => ~guard /\ Handling(th) = {} /\ StartedOps(status) = {})'
    BY NoWorkLeft, PTL
  <2> QED BY <1>1, <1>2, <2>1
<1>3. CASE stopped_
  <2>1. ~guard /\ Handling(th) = {} /\ StartedOps(status) = {}
    BY <1>3 DEF StopInv
  <2>2. \A c \in Callers : posting[c].how = "none"
    <3>1. \A c \in Callers : posting[c].how # "none" =>
            IF c \in Threads THEN th[c].pc = "handler" ELSE guard
      BY DEF PlaceInv, PostingOK
    <3> QED BY <2>1, <3>1 DEF Handling
  <2>3. ASSUME NEW c \in Callers, Call(c) PROVE FALSE
    <3>1. MayCall(c)
      BY <2>3 DEF Call, StartOp, StartRefused, StartPerformed, StartWaits, StartModFails,
                  MayStart, Register, CancelOps, Deregister, DropHandle
    <3> QED BY <2>1, <3>1 DEF MayCall, Handling
  <2>4. ASSUME NEW c \in Callers, PostStep(c) PROVE FALSE
    BY <2>2, <2>4 DEF PostStep, PostImmediate, PostDeferred
  <2>5. ASSUME NEW t \in Threads, ThreadStep(t)
        PROVE  ~guard' /\ Handling(th') = {} /\ StartedOps(status') = {}
    <3>1. ~Take(t)
      BY <1>3 DEF Take
    <3>2. guard' = guard
      BY <2>5 DEF ThreadStep, Take, TaskRuns, TaskCleanup, ReadResult, PerformIo, Finish
    <3>3. ASSUME StartedOps(status') = StartedOps(status), th'[t].pc # "handler",
                 \A u \in Threads : u # t => th'[u] = th[u]
          PROVE  Handling(th') = {} /\ StartedOps(status') = {}
      BY <2>1, <3>3 DEF Handling
    <3>4. ASSUME TaskRuns(t) PROVE Handling(th') = {} /\ StartedOps(status') = {}
      BY <3>3, <3>4, MovesDescriptors DEF ListsBecome
    <3>5. ASSUME TaskCleanup(t) PROVE Handling(th') = {} /\ StartedOps(status') = {}
      BY <3>3, <3>5, MovesBack DEF ListsBecome
    <3>6. ASSUME ReadResult(t) PROVE Handling(th') = {} /\ StartedOps(status') = {}
      BY <3>3, <3>6, MovesNoneRead DEF ListsBecome
    <3>7. ASSUME PerformIo(t) PROVE Handling(th') = {} /\ StartedOps(status') = {}
      <4>1. InDesc(desc) = {}
        BY <2>1, WaitingIsStarted
      <4>2. /\ \A u \in Threads : u # t => th'[u] = th[u]
            /\ \/ /\ ListsBecome(InDesc(desc), Range(op_queue_), InPosting(posting),
                                 InPrivate(th), StartedOps(status), Refused(posting))
                  /\ th'[t].pc = "finish"
               \/ \E X \in SUBSET InDesc(desc) : \E o \in X : TRUE
        BY <3>7, MovesPerformed
      <4> QED BY <3>3, <4>1, <4>2 DEF ListsBecome
    <3>8. ASSUME Finish(t) PROVE Handling(th') = {} /\ StartedOps(status') = {}
      BY <3>3, <3>8, MovesAfter DEF ListsBecome
    <3> QED BY <2>1, <2>5, <3>1, <3>2, <3>4, <3>5, <3>6, <3>7, <3>8 DEF ThreadStep
  <2>6. ASSUME Environment
        PROVE  ~guard' /\ Handling(th') = {} /\ StartedOps(status') = {}
    <3>1. UNCHANGED th /\ StartedOps(status') = StartedOps(status)
      BY <2>6, MovesNone DEF ListsBecome
    <3>2. ~guard'
      BY <2>1, <2>6 DEF Environment, BecomesReady, CloseDescriptor, ReleaseGuard, Shutdown
    <3> QED BY <2>1, <3>1, <3>2
  <2> QED BY <2>3, <2>4, <2>5, <2>6 DEF Next
<1>4. stopped_' = stopped_ \/ outstanding_work_' = 0
  <2>1. ASSUME NEW c \in Callers, Call(c) PROVE stopped_' = stopped_
    BY <2>1 DEF Call, StartOp, StartRefused, StartPerformed, StartWaits, StartModFails,
                Register, CancelOps, Deregister, DropHandle, sched
  <2>2. ASSUME NEW c \in Callers, PostStep(c) PROVE stopped_' = stopped_
    BY <2>2 DEF PostStep, PostImmediate, PostDeferred, sched
  <2>3. ASSUME NEW t \in Threads, ThreadStep(t)
        PROVE  stopped_' = stopped_ \/ outstanding_work_' = 0
    BY <2>3, TypesOf DEF ThreadStep, Take, TaskRuns, TaskCleanup, ReadResult, PerformIo,
                         Finish, sched
  <2>4. ASSUME Environment PROVE stopped_' = stopped_ \/ outstanding_work_' = 0
    <3>1. CASE ReleaseGuard
      <4>1. stopped_' = (stopped_ \/ outstanding_work_ = 1)
        BY <3>1 DEF ReleaseGuard
      <4>2. outstanding_work_ = 1 => outstanding_work_' = 0
        BY <3>1 DEF ReleaseGuard
      <4>3. stopped_ \in BOOLEAN
        BY TypesOf
      <4>4. CASE outstanding_work_ = 1
        BY <4>2, <4>4
      <4>5. CASE outstanding_work_ # 1
        BY <4>1, <4>3, <4>5
      <4> QED BY <4>4, <4>5
    <3>2. CASE ~ReleaseGuard
      BY <2>4, <3>2 DEF Environment, BecomesReady, CloseDescriptor, Shutdown, sched
    <3> QED BY <3>1, <3>2
  <2> QED BY <2>1, <2>2, <2>3, <2>4 DEF Next
<1> QED BY <1>2, <1>3, <1>4

-----------------------------------------------------------------------------
(* Counting the places of one operation or descriptor.                     *)

(* A set whose elements are all the same has one, or none.                 *)
LEMMA AtMostOne ==
  ASSUME NEW S, \A x, y \in S : x = y
  PROVE  IsFiniteSet(S) /\ Cardinality(S) = IF S = {} THEN 0 ELSE 1
<1>1. CASE S = {}
  BY <1>1, FS_EmptySet
<1>2. CASE S # {}
  <2>1. PICK x \in S : S = {x}
    BY <1>2
  <2> QED BY <2>1, FS_Singleton
<1> QED BY <1>1, <1>2

(* The four forms of a place.                                              *)
AtPending(p, x, d, k, i) ==
  /\ p = <<<<"pending", desc[d].pending[k], d, k>>, i>>
  /\ i \in DOMAIN desc[d].pending[k] /\ desc[d].pending[k][i] = x
AtQueue(p, x, i) ==
  p = <<<<"op_queue_", op_queue_>>, i>> /\ i \in DOMAIN op_queue_ /\ op_queue_[i] = x
AtPrivate(p, x, t, i) ==
  /\ p = <<<<"private", th[t].queue, t>>, i>>
  /\ i \in DOMAIN th[t].queue /\ th[t].queue[i] = x
AtPosting(p, x, c, i) ==
  /\ p = <<<<"posting", posting[c].ops, c>>, i>>
  /\ i \in DOMAIN posting[c].ops /\ posting[c].ops[i] = x

InPending(p, x) == \E d \in Descriptors, k \in Kinds : \E i : AtPending(p, x, d, k, i)
InQueue(p, x)   == \E i : AtQueue(p, x, i)
InThread(p, x)  == \E t \in Threads : \E i : AtPrivate(p, x, t, i)
InCaller(p, x)  == \E c \in Callers : \E i : AtPosting(p, x, c, i)

(* A place is a position in one of the four kinds of list.                 *)
LEMMA PlaceIs ==
  ASSUME NEW x, NEW p
  PROVE  p \in Places(x) <=>
           InPending(p, x) \/ InQueue(p, x) \/ InThread(p, x) \/ InCaller(p, x)
<1>1. ASSUME p \in Places(x)
      PROVE  InPending(p, x) \/ InQueue(p, x) \/ InThread(p, x) \/ InCaller(p, x)
  <2>1. PICK l \in Lists : p \in {<<l, i>> : i \in {j \in DOMAIN l[2] : l[2][j] = x}}
    BY <1>1 DEF Places
  <2>2. PICK i \in DOMAIN l[2] : p = <<l, i>> /\ l[2][i] = x
    BY <2>1
  <2>3. CASE \E d \in Descriptors, k \in Kinds : l = <<"pending", desc[d].pending[k], d, k>>
    <3>1. PICK d \in Descriptors, k \in Kinds : l = <<"pending", desc[d].pending[k], d, k>>
      BY <2>3
    <3>2. l[2] = desc[d].pending[k]
      BY <3>1
    <3> QED BY <2>2, <3>1, <3>2 DEF InPending, AtPending
  <2>4. CASE l = <<"op_queue_", op_queue_>>
    BY <2>2, <2>4 DEF InQueue, AtQueue
  <2>5. CASE \E t \in Threads : l = <<"private", th[t].queue, t>>
    BY <2>2, <2>5 DEF InThread, AtPrivate
  <2>6. CASE \E c \in Callers : l = <<"posting", posting[c].ops, c>>
    BY <2>2, <2>6 DEF InCaller, AtPosting
  <2> QED BY <2>3, <2>4, <2>5, <2>6 DEF Lists
<1>2. ASSUME NEW l \in Lists, NEW i \in DOMAIN l[2], l[2][i] = x, p = <<l, i>>
      PROVE  p \in Places(x)
  BY <1>2 DEF Places
<1>3. ASSUME InPending(p, x) PROVE p \in Places(x)
  <2>1. PICK d \in Descriptors, k \in Kinds : \E i : AtPending(p, x, d, k, i)
    BY <1>3 DEF InPending
  <2>2. PICK i : AtPending(p, x, d, k, i)
    BY <2>1
  <2> DEFINE l == <<"pending", desc[d].pending[k], d, k>>
  <2>3. l \in Lists /\ l[2] = desc[d].pending[k]
    BY DEF Lists
  <2>4. p = <<l, i>> /\ i \in DOMAIN l[2] /\ l[2][i] = x
    BY <2>2, <2>3 DEF AtPending
  <2> HIDE DEF l
  <2> QED BY <1>2, <2>3, <2>4
<1>4. ASSUME InQueue(p, x) PROVE p \in Places(x)
  <2>2. PICK i : AtQueue(p, x, i)
    BY <1>4 DEF InQueue
  <2> DEFINE l == <<"op_queue_", op_queue_>>
  <2>3. l \in Lists /\ l[2] = op_queue_
    BY DEF Lists
  <2>4. p = <<l, i>> /\ i \in DOMAIN l[2] /\ l[2][i] = x
    BY <2>2, <2>3 DEF AtQueue
  <2> HIDE DEF l
  <2> QED BY <1>2, <2>3, <2>4
<1>5. ASSUME InThread(p, x) PROVE p \in Places(x)
  <2>1. PICK t \in Threads : \E i : AtPrivate(p, x, t, i)
    BY <1>5 DEF InThread
  <2>2. PICK i : AtPrivate(p, x, t, i)
    BY <2>1
  <2> DEFINE l == <<"private", th[t].queue, t>>
  <2>3. l \in Lists /\ l[2] = th[t].queue
    BY DEF Lists
  <2>4. p = <<l, i>> /\ i \in DOMAIN l[2] /\ l[2][i] = x
    BY <2>2, <2>3 DEF AtPrivate
  <2> HIDE DEF l
  <2> QED BY <1>2, <2>3, <2>4
<1>6. ASSUME InCaller(p, x) PROVE p \in Places(x)
  <2>1. PICK c \in Callers : \E i : AtPosting(p, x, c, i)
    BY <1>6 DEF InCaller
  <2>2. PICK i : AtPosting(p, x, c, i)
    BY <2>1
  <2> DEFINE l == <<"posting", posting[c].ops, c>>
  <2>3. l \in Lists /\ l[2] = posting[c].ops
    BY DEF Lists
  <2>4. p = <<l, i>> /\ i \in DOMAIN l[2] /\ l[2][i] = x
    BY <2>2, <2>3 DEF AtPosting
  <2> HIDE DEF l
  <2> QED BY <1>2, <2>3, <2>4
<1> QED BY <1>1, <1>3, <1>4, <1>5, <1>6

(* Each form puts it in one of the four sets, at one position.             *)
LEMMA PlaceSets ==
  ASSUME TypeOK, PlaceInv, NEW x, NEW p
  PROVE  /\ InPending(p, x) => x \in InDesc(desc)
         /\ InQueue(p, x) => x \in Range(op_queue_)
         /\ InThread(p, x) => x \in InPrivate(th)
         /\ InCaller(p, x) => x \in InPosting(posting)
<1>1. InPending(p, x) => x \in InDesc(desc)
  <2> SUFFICES ASSUME NEW d \in Descriptors, NEW k \in Kinds, NEW i, AtPending(p, x, d, k, i)
               PROVE  x \in InDesc(desc)
    BY DEF InPending
  <2>1. x \in Range(desc[d].pending[k])
    BY DEF AtPending, Range
  <2>2. desc[d].pending[k] \in Seq(Ops)
    BY TypesOf DEF DescType
  <2>3. x \in Ops
    BY <2>2 DEF AtPending
  <2>4. Desc[x] = d /\ Kind[x] = k
    BY <2>1 DEF PlaceInv, DescOK
  <2> QED BY <2>1, <2>3, <2>4 DEF InDesc
<1>2. InQueue(p, x) => x \in Range(op_queue_)
  BY DEF InQueue, AtQueue, Range
<1>3. InThread(p, x) => x \in InPrivate(th)
  BY DEF InThread, AtPrivate, Range, InPrivate
<1>4. InCaller(p, x) => x \in InPosting(posting)
  BY DEF InCaller, AtPosting, Range, InPosting
<1> QED BY <1>1, <1>2, <1>3, <1>4

(* In lists of one kind an operation has one place.                        *)
LEMMA PlaceOnce ==
  ASSUME TypeOK, PlaceInv, NEW x, NEW p, NEW r
  PROVE  /\ InPending(p, x) /\ InPending(r, x) => p = r
         /\ InQueue(p, x) /\ InQueue(r, x) => p = r
         /\ InThread(p, x) /\ InThread(r, x) => p = r
         /\ InCaller(p, x) /\ InCaller(r, x) => p = r
<1>1. ASSUME InPending(p, x), InPending(r, x) PROVE p = r
  <2>1. PICK d \in Descriptors, k \in Kinds : \E i : AtPending(p, x, d, k, i)
    BY <1>1 DEF InPending
  <2>2. PICK i : AtPending(p, x, d, k, i)
    BY <2>1
  <2>3. PICK e \in Descriptors, l \in Kinds : \E j : AtPending(r, x, e, l, j)
    BY <1>1 DEF InPending
  <2>4. PICK j : AtPending(r, x, e, l, j)
    BY <2>3
  <2>5. x \in Range(desc[d].pending[k]) /\ x \in Range(desc[e].pending[l])
    BY <2>2, <2>4 DEF AtPending, Range
  <2>6. d = e /\ k = l
    BY <2>5 DEF PlaceInv, DescOK
  <2>7. i = j
    BY <2>2, <2>4, <2>6 DEF AtPending, PlaceInv, DescOK, NoneTwice
  <2> QED BY <2>2, <2>4, <2>6, <2>7 DEF AtPending
<1>2. ASSUME InQueue(p, x), InQueue(r, x) PROVE p = r
  BY <1>2 DEF InQueue, AtQueue, PlaceInv, NoneTwice
<1>3. ASSUME InThread(p, x), InThread(r, x) PROVE p = r
  <2>1. PICK t \in Threads : \E i : AtPrivate(p, x, t, i)
    BY <1>3 DEF InThread
  <2>2. PICK i : AtPrivate(p, x, t, i)
    BY <2>1
  <2>3. PICK u \in Threads : \E j : AtPrivate(r, x, u, j)
    BY <1>3 DEF InThread
  <2>4. PICK j : AtPrivate(r, x, u, j)
    BY <2>3
  <2>5. x \in Range(th[t].queue) /\ x \in Range(th[u].queue)
    BY <2>2, <2>4 DEF AtPrivate, Range
  <2>6. t = u
    BY <2>5 DEF PlaceInv, ThreadsOK
  <2>7. i = j
    BY <2>2, <2>4, <2>6 DEF AtPrivate, PlaceInv, ThreadsOK, ThreadOK, NoneTwice
  <2> QED BY <2>2, <2>4, <2>6, <2>7 DEF AtPrivate
<1>4. ASSUME InCaller(p, x), InCaller(r, x) PROVE p = r
  <2>1. PICK c \in Callers : \E i : AtPosting(p, x, c, i)
    BY <1>4 DEF InCaller
  <2>2. PICK i : AtPosting(p, x, c, i)
    BY <2>1
  <2>3. PICK e \in Callers : \E j : AtPosting(r, x, e, j)
    BY <1>4 DEF InCaller
  <2>4. PICK j : AtPosting(r, x, e, j)
    BY <2>3
  <2>5. x \in Range(posting[c].ops) /\ x \in Range(posting[e].ops)
    BY <2>2, <2>4 DEF AtPosting, Range
  <2>6. c = e
    BY <2>5 DEF PlaceInv, PostingOK
  <2>7. i = j
    BY <2>2, <2>4, <2>6 DEF AtPosting, PlaceInv, PostingOK, NoneTwice
  <2> QED BY <2>2, <2>4, <2>6, <2>7 DEF AtPosting
<1> QED BY <1>1, <1>2, <1>3, <1>4

(* An operation, or a descriptor, has at most one place.                   *)
LEMMA OnePlace ==
  ASSUME TypeOK, PlaceInv, NEW x
  PROVE  Cardinality(Places(x)) = IF Places(x) = {} THEN 0 ELSE 1
<1>1. ASSUME NEW p \in Places(x), NEW r \in Places(x) PROVE p = r
  <2>1. /\ InPending(p, x) \/ InQueue(p, x) \/ InThread(p, x) \/ InCaller(p, x)
        /\ InPending(r, x) \/ InQueue(r, x) \/ InThread(r, x) \/ InCaller(r, x)
    BY PlaceIs
  <2> DEFINE D == InDesc(desc)  Q == Range(op_queue_)  P == InPosting(posting)
             V == InPrivate(th)  S == StartedOps(status)
  <2>2. /\ InPending(p, x) => x \in D
        /\ InQueue(p, x) => x \in Q
        /\ InThread(p, x) => x \in V
        /\ InCaller(p, x) => x \in P
    BY PlaceSets
  <2>3. /\ InPending(r, x) => x \in D
        /\ InQueue(r, x) => x \in Q
        /\ InThread(r, x) => x \in V
        /\ InCaller(r, x) => x \in P
    BY PlaceSets
  <2>4. Apart(D, Q, P, V, S)
    BY DEF PlaceInv, Spread
  <2> HIDE DEF D, Q, P, V, S
  <2>5. D \cap Q = {} /\ D \cap P = {} /\ D \cap V = {}
        /\ Q \cap P = {} /\ Q \cap V = {} /\ P \cap V = {}
    BY <2>4 DEF Apart
  <2>6. /\ InPending(p, x) /\ InPending(r, x) => p = r
        /\ InQueue(p, x) /\ InQueue(r, x) => p = r
        /\ InThread(p, x) /\ InThread(r, x) => p = r
        /\ InCaller(p, x) /\ InCaller(r, x) => p = r
    BY PlaceOnce
  <2> QED BY <2>1, <2>2, <2>3, <2>5, <2>6
<1> DEFINE S == Places(x)
<1>2. \A p, r \in S : p = r
  BY <1>1
<1> HIDE DEF S
<1>3. Cardinality(S) = IF S = {} THEN 0 ELSE 1
  BY <1>2, AtMostOne
<1> QED BY <1>3 DEF S

(* Every operation of one of the lists has a place.                        *)
LEMMA SomePlace ==
  ASSUME TypeOK, PlaceInv, NEW x \in Ops
  PROVE  /\ x \in InDesc(desc) \cup Range(op_queue_) \cup InPosting(posting)
                  \cup InPrivate(th)
              => Places(x) # {}
         /\ Places(x) # {} => x \in StartedOps(status)
<1>1. ASSUME x \in InDesc(desc) PROVE Places(x) # {}
  <2>1. Desc[x] \in Descriptors /\ Kind[x] \in Kinds
    BY Names
  <2>2. PICK i \in DOMAIN desc[Desc[x]].pending[Kind[x]] :
          desc[Desc[x]].pending[Kind[x]][i] = x
    BY <1>1 DEF InDesc, Range
  <2> DEFINE p == <<<<"pending", desc[Desc[x]].pending[Kind[x]], Desc[x], Kind[x]>>, i>>
  <2>3. AtPending(p, x, Desc[x], Kind[x], i)
    BY <2>2 DEF AtPending
  <2> HIDE DEF p
  <2>4. InPending(p, x)
    BY <2>1, <2>3 DEF InPending
  <2> QED BY <2>4, PlaceIs
<1>2. ASSUME x \in Range(op_queue_) PROVE Places(x) # {}
  <2>2. PICK i \in DOMAIN op_queue_ : op_queue_[i] = x
    BY <1>2 DEF Range
  <2> DEFINE p == <<<<"op_queue_", op_queue_>>, i>>
  <2>3. InQueue(p, x)
    BY <2>2 DEF AtQueue, InQueue
  <2> HIDE DEF p
  <2> QED BY <2>3, PlaceIs
<1>3. ASSUME x \in InPosting(posting) PROVE Places(x) # {}
  <2>1. PICK c \in Callers : x \in Range(posting[c].ops)
    BY <1>3 DEF InPosting
  <2>2. PICK i \in DOMAIN posting[c].ops : posting[c].ops[i] = x
    BY <2>1 DEF Range
  <2> DEFINE p == <<<<"posting", posting[c].ops, c>>, i>>
  <2>3. AtPosting(p, x, c, i)
    BY <2>2 DEF AtPosting
  <2> HIDE DEF p
  <2>4. InCaller(p, x)
    BY <2>3 DEF InCaller
  <2> QED BY <2>4, PlaceIs
<1>5. ASSUME x \in InPrivate(th) PROVE Places(x) # {}
  <2>1. PICK t \in Threads : x \in Range(th[t].queue)
    BY <1>5 DEF InPrivate
  <2>2. PICK i \in DOMAIN th[t].queue : th[t].queue[i] = x
    BY <2>1 DEF Range
  <2> DEFINE p == <<<<"private", th[t].queue, t>>, i>>
  <2>3. AtPrivate(p, x, t, i)
    BY <2>2 DEF AtPrivate
  <2> HIDE DEF p
  <2>4. InThread(p, x)
    BY <2>3 DEF InThread
  <2> QED BY <2>4, PlaceIs
<1>4. ASSUME Places(x) # {} PROVE x \in StartedOps(status)
  <2>1. PICK p : p \in Places(x)
    BY <1>4
  <2>2. InPending(p, x) \/ InQueue(p, x) \/ InThread(p, x) \/ InCaller(p, x)
    BY <2>1, PlaceIs
  <2> DEFINE D == InDesc(desc)  Q == Range(op_queue_)  P == InPosting(posting)
             V == InPrivate(th)  S == StartedOps(status)
  <2>3. x \in D \/ x \in Q \/ x \in V \/ x \in P
    BY <2>2, PlaceSets
  <2>4. Apart(D, Q, P, V, S)
    BY DEF PlaceInv, Spread
  <2> HIDE DEF D, Q, P, V, S
  <2>5. x \in S
    BY <2>3, <2>4 DEF Apart
  <2> QED BY <2>5 DEF S
<1> QED BY <1>1, <1>2, <1>3, <1>4, <1>5

-----------------------------------------------------------------------------
(* The inductive invariant.                                                *)
ReactorInv ==
  TypeOK /\ PlaceInv /\ NoneLost /\ WorkCounted /\ EnoughWork /\ StopInv

(* The initial state: only the task is queued, and the guard is counted.   *)
LEMMA InitLists ==
  ASSUME Init
  PROVE  /\ InDesc(desc) = {} /\ Range(op_queue_) = {TaskOp} /\ InPosting(posting) = {}
         /\ InPrivate(th) = {} /\ StartedOps(status) = {} /\ Refused(posting) = {}
         /\ NoneTwice(op_queue_)
<1>1. InDesc(desc) = {}
  <2>1. \A o \in Ops : desc[Desc[o]].pending[Kind[o]] = <<>>
    BY Names DEF Init, NonePending
  <2> QED BY <2>1, EmptyList DEF InDesc
<1>2. Range(op_queue_) = {TaskOp} /\ NoneTwice(op_queue_)
  <2>1. op_queue_ = <<TaskOp>>
    BY DEF Init
  <2> QED BY <2>1, OneList
<1>3. \A c \in Callers : posting[c].how = "none" /\ posting[c].ops = <<>>
  BY DEF Init, Idle
<1>4. InPosting(posting) = {} /\ Refused(posting) = {}
  BY <1>3, EmptyList DEF InPosting, Refused
<1>5. InPrivate(th) = {}
  <2>1. \A t \in Threads : th[t].queue = <<>>
    BY DEF Init
  <2> QED BY <2>1, EmptyList DEF InPrivate
<1>6. StartedOps(status) = {}
  BY DEF Init, StartedOps
<1> QED BY <1>1, <1>2, <1>4, <1>5, <1>6

(* Nothing is started or held when the program begins.                     *)
LEMMA InitPlaces == Init => TypeOK /\ PlaceInv /\ NoneLost
<1> SUFFICES ASSUME Init PROVE TypeOK /\ PlaceInv /\ NoneLost
  OBVIOUS
<1>1. TypeOK
  <2> USE DEF Init
  <2>1. desc \in [Descriptors -> DescType]
    BY DEF DescType, NonePending
  <2>2. kern \in [Descriptors -> KernType]
    BY DEF KernType
  <2>3. th \in [Threads -> ThType]
    BY DEF ThType
  <2>4. posting \in [Callers -> PostType]
    BY DEF PostType, Idle
  <2>5. op_queue_ \in Seq(Descriptors \cup Ops \cup {TaskOp})
    OBVIOUS
  <2>6. /\ outstanding_work_ \in Nat /\ stopped_ \in BOOLEAN /\ guard \in BOOLEAN
        /\ status \in [Ops -> {"idle", "started", "done"}]
        /\ fate \in {"running", "aborted", "hung", "destroyed"}
    OBVIOUS
  <2> HIDE DEF Init
  <2> QED BY <2>1, <2>2, <2>3, <2>4, <2>5, <2>6
          DEF TypeOK, DescType, KernType, ThType, PostType
<1>2. DescOK(desc)
  <2>1. \A d \in Descriptors, k \in Kinds : desc[d].pending[k] = <<>>
    BY DEF Init, NonePending
  <2> QED BY <2>1, EmptyList DEF DescOK
<1>3. PostingOK(posting, th, guard)
  <2>1. \A c \in Callers : posting[c].how = "none" /\ posting[c].ops = <<>>
    BY DEF Init, Idle
  <2> QED BY <2>1, EmptyList DEF PostingOK
<1>4. ThreadsOK(th)
  <2>1. \A t \in Threads : th[t].pc = "loop" /\ th[t].queue = <<>> /\ th[t].work = 0
    BY DEF Init
  <2>2. \A t \in Threads : ThreadOK(th[t])
    BY <2>1, EmptyList DEF ThreadOK
  <2> QED BY <2>1, <2>2, EmptyList DEF ThreadsOK
<1>5. TaskOK(op_queue_, th)
  <2>1. op_queue_ = <<TaskOp>> /\ \A t \in Threads : th[t].pc = "loop"
    BY DEF Init
  <2>2. \A i, j \in DOMAIN op_queue_ : ~(i < j)
    BY <2>1
  <2> QED BY <2>1, <2>2 DEF TaskOK, RunsTask
<1>6. Spread(desc, op_queue_, posting, th, status) /\ NoneTwice(op_queue_) /\ NoneLost
  BY InitLists, Names DEF Spread, Apart, NoneLost
<1> QED BY <1>1, <1>2, <1>3, <1>4, <1>5, <1>6 DEF PlaceInv

(* The guard's unit is all the work there is when the program begins.      *)
LEMMA InitWork == Init => WorkCounted /\ EnoughWork /\ StopInv
<1> SUFFICES ASSUME Init PROVE WorkCounted /\ EnoughWork /\ StopInv
  OBVIOUS
<1>1. Size({}) = 0
  BY FS_EmptySet DEF Size
<1>2. \A t \in Threads : th[t].pc = "loop" /\ th[t].work = 0
  BY DEF Init
<1>3. Units(th) = {}
  <2>1. 1 .. 0 = {}
    OBVIOUS
  <2> QED BY <1>2, <2>1 DEF Units
<1>4. Owing(th) = {} /\ Handling(th) = {}
  BY <1>2 DEF Owing, Handling
<1>5. Counted(status, posting) = {} /\ Shared(desc, op_queue_, posting) = {}
  BY InitLists, Names DEF Counted, Shared
<1>6. outstanding_work_ = 1 /\ One(guard) = 1 /\ ~stopped_
  BY DEF Init, One
<1>7. Balance /\ Suffices
  BY <1>1, <1>3, <1>4, <1>5, <1>6 DEF Balance, Suffices
<1> QED BY <1>6, <1>7, BalanceIs, SufficesIs DEF StopInv

(* Every action of the reactor, its users and its threads keeps it.        *)
THEOREM ReactorInvariant == Spec => []ReactorInv
<1>1. Init => ReactorInv
  BY InitPlaces, InitWork DEF ReactorInv
<1>2. ReactorInv /\ [Next]_vars => ReactorInv'
  <2> SUFFICES ASSUME ReactorInv, [Next]_vars PROVE ReactorInv'
    OBVIOUS
  <2>1. CASE Next
    BY <2>1, TypeNext, PlaceNext, NoneLostNext, WorkNext, StopNext DEF ReactorInv
  <2>2. CASE UNCHANGED vars
    <3>1. /\ UNCHANGED <<desc, kern, th, posting, op_queue_, outstanding_work_, stopped_>>
          /\ UNCHANGED <<guard, status, fate>>
      BY <2>2 DEF vars
    <3>2. TypeOK'
      BY <3>1 DEF ReactorInv, TypeOK
    <3>3. PlaceInv' /\ NoneLost'
      BY <3>1 DEF ReactorInv, PlaceInv, NoneLost
    <3>4. Balance' /\ Suffices'
      BY <3>1, BalanceIs, SufficesIs DEF ReactorInv, Balance, Suffices
    <3>5. (WorkCounted <=> Balance)' /\ (EnoughWork <=> Suffices)'
      BY BalanceIs, SufficesIs, PTL
    <3>6. StopInv'
      BY <3>1 DEF ReactorInv, StopInv
    <3> QED BY <3>2, <3>3, <3>4, <3>5, <3>6 DEF ReactorInv
  <2> QED BY <2>1, <2>2
<1> QED BY <1>1, <1>2, PTL DEF Spec

-----------------------------------------------------------------------------
(* What follows.                                                           *)

(* Every handler and system call of the reactor: its variables keep their  *)
(* types, and the shared work count never goes below zero.                 *)
THEOREM ReactorTypes == Spec => []TypeOK
BY ReactorInvariant, PTL DEF ReactorInv

(* start_op, cancel_ops, deregister_descriptor, perform_io and the posts:  *)
(* a started operation is in one list until its handler is run.  With      *)
(* one_thread_ post_deferred_completions drops operations (scheduler.cc:   *)
(* 219), and the hypothesis is needed.                                     *)
THEOREM OneEach ==
  ASSUME ~OneThread
  PROVE  Spec => []EachOpInOnePlace
<1>1. ReactorInv => EachOpInOnePlace
  <2> SUFFICES ASSUME TypeOK, PlaceInv, NoneLost, NEW o \in Ops
               PROVE  Cardinality(Places(o)) = IF status[o] = "started" THEN 1 ELSE 0
    BY DEF ReactorInv, EachOpInOnePlace
  <2>1. Places(o) # {} <=> o \in StartedOps(status)
    BY SomePlace DEF NoneLost
  <2> QED BY <2>1, OnePlace DEF StartedOps
<1> QED BY <1>1, ReactorInvariant, PTL

(* With one_thread_ too no operation is in two lists, and none that is     *)
(* not started is in any: nothing is completed twice.                      *)
NeverTwice ==
  \A o \in Ops : Cardinality(Places(o)) <= IF status[o] = "started" THEN 1 ELSE 0

(* start_op, perform_io, cancel_ops and the posts, whatever one_thread_    *)
(* is: no operation is in two lists, and one that is not started is in     *)
(* none, so that nothing is completed twice.                               *)
THEOREM CompletedOnce == Spec => []NeverTwice
<1>1. ReactorInv => NeverTwice
  <2> SUFFICES ASSUME TypeOK, PlaceInv, NEW o \in Ops
               PROVE  Cardinality(Places(o)) <= IF status[o] = "started" THEN 1 ELSE 0
    BY DEF ReactorInv, NeverTwice
  <2>1. Places(o) # {} => o \in StartedOps(status)
    BY SomePlace
  <2> QED BY <2>1, OnePlace DEF StartedOps
<1> QED BY <1>1, ReactorInvariant, PTL

(* epoll_reactor::run and the task's place behind its descriptors in       *)
(* task_cleanup: no descriptor is queued twice.                            *)
THEOREM QueuedOnce == Spec => []DescriptorQueuedOnce
<1>1. ReactorInv => DescriptorQueuedOnce
  <2> SUFFICES ASSUME TypeOK, PlaceInv, NEW d \in Descriptors
               PROVE  Cardinality(Places(d)) <= 1
    BY DEF ReactorInv, DescriptorQueuedOnce
  <2> QED BY OnePlace
<1> QED BY <1>1, ReactorInvariant, PTL

(* The shutdown_ flag that start_op tests under the descriptor's mutex:    *)
(* nothing waits in a descriptor once deregister_descriptor has run.       *)
THEOREM NoneLeftWaiting == Spec => []NothingWaitsInShutDescriptor
<1>1. ReactorInv => NothingWaitsInShutDescriptor
  <2> SUFFICES ASSUME TypeOK, DescOK(desc), NEW d \in Descriptors, desc[d].state = "shut"
               PROVE  Waiting(desc[d]) = <<>>
    BY DEF ReactorInv, PlaceInv, NothingWaitsInShutDescriptor
  <2>1. \A k \in Kinds : desc[d].pending[k] = <<>>
    BY DEF DescOK
  <2>2. <<>> \o <<>> \o <<>> = <<>>
    OBVIOUS
  <2> QED BY <2>1, <2>2 DEF Waiting, Kinds
<1> QED BY <1>1, ReactorInvariant, PTL

(* work_started, compensating_work_started and ~work_cleanup: the count is *)
(* what there is to do.                                                    *)
THEOREM WorkIsCounted == Spec => []WorkCounted
BY ReactorInvariant, PTL DEF ReactorInv

(* work_finished stops the scheduler only when no operation is left.       *)
THEOREM StopsDone == Spec => []StopsOnlyWhenDone
<1>1. ReactorInv => StopsOnlyWhenDone
  BY DEF ReactorInv, StopInv, StartedOps, StopsOnlyWhenDone
<1> QED BY <1>1, ReactorInvariant, PTL

-----------------------------------------------------------------------------
(***************************************************************************)
(* Edges.  epoll_wait reports an edge once.  An operation that could be    *)
(* performed is safe as long as the edge is still to be reported, or       *)
(* somebody is on the way to perform_io with it.  EdgeOK says so not only  *)
(* of the kinds an operation waits for, but also of those that start_op    *)
(* will not try at once because an operation has exhausted the descriptor: *)
(* the next operation waits for an edge that must not have been used up.   *)
(***************************************************************************)

(* What makes operations of the kind k succeed.                            *)
Enabling(n, k) == n.ready \cap {Flag[k], "hup"}

(* An operation of the kind waits, or will wait for the next edge.         *)
Wanted(s, n, k) ==
  /\ s.state = "live" /\ k \notin n.told
  /\ s.pending[k] # <<>> \/ (~s.speculative[k] /\ Flag[k] \in n.interest)

(* What epoll_wait has reported and perform_io has not looked at.          *)
Queued(q, h, d)    == d \in Range(q) \/ d \in InPrivate(h)
IsPopped(x, d)     == x.pc = "popped" /\ x.base = d
Looks(x, d, conds) == x.pc = "perform" /\ x.base = d /\ x.events \cap conds # {}

Popped(h, d)            == \E t \in Threads : IsPopped(h[t], d)
Performing(h, d, conds) == \E t \in Threads : Looks(h[t], d, conds)

InTransit(s, q, h, d, conds) ==
  \/ s.result \cap conds # {} /\ (Queued(q, h, d) \/ Popped(h, d))
  \/ Performing(h, d, conds)

Reported(n, conds) == Deliverable(n) /\ Mask(n) \cap conds # {}

(* Of one kind of operation, and of a descriptor.                          *)
KindOK(s, n, q, h, d, k) ==
  Wanted(s, n, k) /\ Enabling(n, k) # {}
    => Reported(n, Enabling(n, k)) \/ InTransit(s, q, h, d, Enabling(n, k))

EdgeOK(s, n, q, h, d) == \A k \in Kinds : KindOK(s, n, q, h, d, k)

(* What the descriptor has registered epoll watches, an operation waits    *)
(* only for what is watched, and only a stream is ever exhausted.          *)
WatchOK(s, n) ==
  /\ s.state = "none" => n.interest = {}
  /\ s.state = "live" /\ s.handle =>
       /\ s.registered \subseteq n.interest
       /\ s.registered = {} => /\ n.interest = {}
                               /\ \A k \in Kinds : s.pending[k] = <<>>
       /\ s.registered # {} => {"in", "pri", "et"} \subseteq s.registered
       /\ s.pending["write"] # <<>> => "out" \in n.interest
  /\ ~(s.state = "live" /\ s.handle) => \A k \in Kinds : s.pending[k] = <<>>
  /\ s.state = "live" /\ ~Stream => \A k \in Kinds : s.speculative[k]

EdgeInv ==
  \A d \in Descriptors : /\ EdgeOK(desc[d], kern[d], op_queue_, th, d)
                         /\ WatchOK(desc[d], kern[d])

(* Operations are started with allow_speculative, as all but connects are. *)
(* If EPOLL_CTL_MOD may fail none of them waits for priority data: a read  *)
(* behind one of those is not speculative, and start_op does not look at   *)
(* whether epoll_ctl failed (epoll_reactor.cc:206).                        *)
Speculates ==
  /\ \A o \in Ops : Speculative[o]
  /\ "MOD" \in Failures => \A o \in Ops : Kind[o] # "except"

(* The conditions of the kinds.                                            *)
LEMMA Flags ==
  /\ Flag["read"] = "in" /\ Flag["write"] = "out" /\ Flag["except"] = "pri"
  /\ \A k \in Kinds : Flag[k] \in {"in", "out", "pri"}
  /\ \A k, l \in Kinds : k # l => Flag[k] # Flag[l]
BY DEF Flag, Kinds

(* An operation that waits is one that epoll watches for.                  *)
LEMMA WatchedFor ==
  ASSUME NEW s, NEW n, NEW k \in Kinds, WatchOK(s, n), Wanted(s, n, k)
  PROVE  Flag[k] \in n.interest
<1>1. CASE s.pending[k] = <<>>
  BY <1>1 DEF Wanted
<1>2. CASE s.pending[k] # <<>>
  <2>1. s.state = "live" /\ s.handle /\ s.registered # {}
    BY <1>2 DEF WatchOK
  <2>2. {"in", "pri", "et"} \subseteq n.interest
    BY <2>1 DEF WatchOK
  <2>3. k = "write" => "out" \in n.interest
    BY <1>2, <2>1 DEF WatchOK
  <2> QED BY <2>2, <2>3, Flags DEF Kinds
<1> QED BY <1>1, <1>2

(* Once epoll looks again at what is ready, whoever waits is reported.     *)
LEMMA WatchReports ==
  ASSUME NEW n \in KernType, NEW bits \in SUBSET EventBits, NEW k \in Kinds,
         Flag[k] \in bits, Enabling(n, k) # {}
  PROVE  Reported(Watch(n, bits), Enabling(Watch(n, bits), k))
<1> DEFINE m == Watch(n, bits)
<1>1. m.ready = n.ready /\ m.interest = bits
      /\ m.armed = (n.ready \cap (bits \cup {"hup"}) # {})
  BY DEF Watch, KernType
<1>2. PICK c \in n.ready : c \in {Flag[k], "hup"}
  BY DEF Enabling
<1> HIDE DEF m
<1>3. c \in Mask(m) /\ c \in Enabling(m, k)
  BY <1>1, <1>2 DEF Mask, Enabling
<1>4. Deliverable(m)
  BY <1>1, <1>2, <1>3 DEF Deliverable
<1> QED BY <1>3, <1>4 DEF Reported, m

(* Nothing that is ready and watched is lost when more becomes ready.      *)
LEMMA ReportedGrows ==
  ASSUME NEW n \in KernType, NEW m \in KernType, NEW conds,
         m.interest = n.interest, n.armed => m.armed,
         Mask(n) \cap conds \subseteq Mask(m), Reported(n, conds)
  PROVE  Reported(m, conds)
BY DEF Reported, Deliverable

(* One thread moves, the others stay where they are.                       *)
LEMMA OthersKeep ==
  ASSUME NEW h, NEW i, NEW t \in Threads, NEW d, NEW conds,
         \A u \in Threads : u # t => i[u] = h[u]
  PROVE  /\ Popped(h, d) => Popped(i, d) \/ IsPopped(h[t], d)
         /\ Performing(h, d, conds) => Performing(i, d, conds) \/ Looks(h[t], d, conds)
         /\ d \in InPrivate(h) => d \in InPrivate(i) \/ d \in Range(h[t].queue)
         /\ IsPopped(i[t], d) => Popped(i, d)
         /\ Looks(i[t], d, conds) => Performing(i, d, conds)
         /\ d \in Range(i[t].queue) => d \in InPrivate(i)
BY DEF Popped, Performing, InPrivate

(* From epoll_wait to perform_io: what has been reported is passed on by   *)
(* ~task_cleanup, do_run_one and descriptor_state::do_complete, and not    *)
(* lost by ~work_cleanup.                                                  *)
LEMMA TransitThread ==
  ASSUME TypeOK, PlaceInv, NEW t \in Threads,
         Take(t) \/ TaskCleanup(t) \/ ReadResult(t) \/ Finish(t),
         NEW d \in Descriptors, NEW conds,
         InTransit(desc[d], op_queue_, th, d, conds)
  PROVE  InTransit(desc'[d], op_queue_', th', d, conds)
<1> DEFINE s == desc[d]
<1>1. desc' = desc
  BY DEF Take, TaskCleanup, ReadResult, Finish
<1>2. /\ op_queue_ \in Seq(All) /\ th \in [Threads -> ThType]
      /\ th[t].queue \in Seq(Descriptors \cup Ops)
      /\ Descriptors \cup Ops \subseteq All
  BY TypesOf DEF ThType, All
<1>3. th[t].queue \in Seq(All)
  BY <1>2
<1>4. SUFFICES InTransit(s, op_queue_', th', d, conds)
  BY <1>1
<1>5. CASE Take(t)
  <2>1. /\ \A u \in Threads : u # t => th'[u] = th[u]
        /\ th[t].pc = "loop" /\ op_queue_ # <<>> /\ op_queue_' = Tail(op_queue_)
        /\ th'[t].queue = th[t].queue
        /\ th'[t].base = IF Head(op_queue_) \in Descriptors THEN Head(op_queue_) ELSE NoOp
        /\ th'[t].pc = IF Head(op_queue_) = TaskOp THEN "task"
                       ELSE IF Head(op_queue_) \in Ops THEN "handler" ELSE "popped"
    BY <1>2, <1>5 DEF Take, At, ThType
  <2>2. d # TaskOp /\ d \notin Ops
    BY Names
  <2>3. Range(op_queue_) = {Head(op_queue_)} \cup Range(op_queue_')
    BY <1>2, <2>1, TailList
  <2>4. d = Head(op_queue_) => IsPopped(th'[t], d)
    BY <2>1, <2>2 DEF IsPopped
  <2>5. ~IsPopped(th[t], d) /\ ~Looks(th[t], d, conds)
    BY <2>1 DEF IsPopped, Looks
  <2>6. Queued(op_queue_, th, d) => Queued(op_queue_', th', d) \/ Popped(th', d)
    BY <2>1, <2>3, <2>4, OthersKeep DEF Queued
  <2>7. /\ Popped(th, d) => Popped(th', d)
        /\ Performing(th, d, conds) => Performing(th', d, conds)
    BY <2>1, <2>5, OthersKeep
  <2> HIDE DEF s
  <2> QED BY <2>6, <2>7 DEF InTransit, s
<1>6. CASE TaskCleanup(t) \/ Finish(t)
  <2>1. /\ \A u \in Threads : u # t => th'[u] = th[u]
        /\ th[t].pc \notin {"popped", "perform"}
    BY <1>2, <1>6 DEF TaskCleanup, Finish, At, ThType
  <2>2. Range(op_queue_) \cup Range(th[t].queue) \subseteq Range(op_queue_')
    <3>1. CASE Finish(t)
      <4>1. op_queue_' = op_queue_ \o th[t].queue
        BY <3>1 DEF Finish
      <4> QED BY <1>2, <1>3, <4>1, ConcatList
    <3>2. CASE TaskCleanup(t)
      <4> DEFINE r == op_queue_ \o th[t].queue
                 y == <<TaskOp>>
      <4>1. op_queue_' = r \o y
        BY <3>2 DEF TaskCleanup
      <4>2. r \in Seq(All) /\ Range(r) = Range(op_queue_) \cup Range(th[t].queue)
        BY <1>2, <1>3, ConcatList
      <4>3. y \in Seq(All)
        BY OneList DEF All
      <4> HIDE DEF r, y
      <4>4. Range(r \o y) = Range(r) \cup Range(y)
        BY <4>2, <4>3, ConcatList
      <4> QED BY <4>1, <4>2, <4>4
    <3> QED BY <1>6, <3>1, <3>2
  <2>3. ~IsPopped(th[t], d) /\ ~Looks(th[t], d, conds)
    BY <2>1 DEF IsPopped, Looks
  <2>4. Queued(op_queue_, th, d) => Queued(op_queue_', th', d)
    BY <2>1, <2>2, OthersKeep DEF Queued
  <2>5. /\ Popped(th, d) => Popped(th', d)
        /\ Performing(th, d, conds) => Performing(th', d, conds)
    BY <2>1, <2>3, OthersKeep
  <2> HIDE DEF s
  <2> QED BY <2>4, <2>5 DEF InTransit, s
<1>7. CASE ReadResult(t)
  <2>1. /\ \A u \in Threads : u # t => th'[u] = th[u]
        /\ th[t].pc = "popped" /\ th'[t].pc = "perform" /\ th'[t].base = th[t].base
        /\ th'[t].events = desc[th[t].base].result /\ op_queue_' = op_queue_
        /\ th'[t].queue = th[t].queue
    <3> DEFINE x == desc[th[t].base].result
    <3>1. /\ th' = [th EXCEPT ![t].pc = "perform", ![t].events = x]
          /\ th[t].pc = "popped" /\ op_queue_' = op_queue_
      BY <1>7 DEF ReadResult, At, sched
    <3> HIDE DEF x
    <3>2. /\ \A u \in Threads : u # t => th'[u] = th[u]
          /\ th[t].pc = "popped" /\ th'[t].pc = "perform" /\ th'[t].base = th[t].base
          /\ th'[t].events = x /\ th'[t].queue = th[t].queue
      BY <1>2, <3>1 DEF ThType
    <3> QED BY <3>1, <3>2 DEF x
  <2>2. IsPopped(th[t], d) /\ s.result \cap conds # {} => Looks(th'[t], d, conds)
    BY <2>1 DEF IsPopped, Looks
  <2>3. ~Looks(th[t], d, conds)
    BY <2>1 DEF Looks
  <2>4. Queued(op_queue_, th, d) => Queued(op_queue_', th', d)
    BY <2>1, OthersKeep DEF Queued
  <2>5. /\ Popped(th, d) => Popped(th', d) \/ IsPopped(th[t], d)
        /\ Performing(th, d, conds) => Performing(th', d, conds)
        /\ Looks(th'[t], d, conds) => Performing(th', d, conds)
    BY <2>1, <2>3, OthersKeep
  <2> HIDE DEF s
  <2> QED BY <2>2, <2>4, <2>5 DEF InTransit, s
<1> QED BY <1>5, <1>6, <1>7

(* A caller that posts leaves descriptors where they are: the private      *)
(* queue that post_deferred_completions drops with one_thread_ is that of  *)
(* a handler, which has operations only.                                   *)
LEMMA TransitPost ==
  ASSUME TypeOK, PlaceInv, NEW c \in Callers, PostStep(c),
         NEW d \in Descriptors, NEW conds,
         InTransit(desc[d], op_queue_, th, d, conds)
  PROVE  InTransit(desc'[d], op_queue_', th', d, conds)
<1> DEFINE s == desc[d]
<1>1. desc' = desc
  BY DEF PostStep, PostImmediate, PostDeferred
<1>2. /\ op_queue_ \in Seq(All) /\ th \in [Threads -> ThType]
      /\ posting[c].ops \in Seq(Ops) /\ Ops \subseteq Descriptors \cup Ops
      /\ Descriptors \cup Ops \subseteq All
  BY TypesOf DEF PostType, All
<1>3. posting[c].ops \in Seq(All) /\ posting[c].ops \in Seq(Descriptors \cup Ops)
  BY <1>2
<1>4. d \notin Ops
  BY Names
<1>5. SUFFICES InTransit(s, op_queue_', th', d, conds)
  BY <1>1
<1>6. /\ \A t \in Threads : /\ th'[t].pc = th[t].pc /\ th'[t].base = th[t].base
                            /\ th'[t].events = th[t].events
                            /\ d \in Range(th[t].queue) => d \in Range(th'[t].queue)
      /\ Range(op_queue_) \subseteq Range(op_queue_')
  <2>1. CASE UNCHANGED th /\ op_queue_' = op_queue_ \o posting[c].ops
    BY <1>2, <1>3, <2>1, ConcatList
  <2>2. CASE /\ c \in Threads /\ UNCHANGED op_queue_
             /\ th' = [th EXCEPT ![c].work = @ + 1,
                                 ![c].queue = @ \o posting[c].ops]
    <3>1. /\ \A t \in Threads : /\ th'[t].pc = th[t].pc /\ th'[t].base = th[t].base
                                /\ th'[t].events = th[t].events
                                /\ t # c => th'[t] = th[t]
          /\ th'[c].queue = th[c].queue \o posting[c].ops
          /\ th[c].queue \in Seq(Descriptors \cup Ops)
      BY <1>2, <2>2 DEF ThType
    <3>2. Range(th[c].queue) \subseteq Range(th'[c].queue)
      BY <1>3, <3>1, ConcatList
    <3> QED BY <2>2, <3>1, <3>2
  <2>3. CASE /\ c \in Threads /\ posting[c].how = "deferred" /\ UNCHANGED op_queue_
             /\ th' = [th EXCEPT ![c].queue = <<>>]
    <3>1. th[c].pc = "handler"
      BY <2>3 DEF PlaceInv, PostingOK
    <3>2. Range(th[c].queue) \subseteq Ops
      BY <2>3, <3>1 DEF PlaceInv, ThreadsOK, ThreadOK
    <3>3. \A t \in Threads : /\ th'[t].pc = th[t].pc /\ th'[t].base = th[t].base
                             /\ th'[t].events = th[t].events
                             /\ t # c => th'[t] = th[t]
      BY <1>2, <2>3 DEF ThType
    <3> QED BY <1>4, <2>3, <3>2, <3>3
  <2> QED BY <2>1, <2>2, <2>3 DEF PostStep, PostImmediate, PostDeferred,
                                  UsesPrivateQueue, sched
<1>7. Queued(op_queue_, th, d) => Queued(op_queue_', th', d)
  BY <1>6 DEF Queued, InPrivate
<1>8. /\ Popped(th, d) => Popped(th', d)
      /\ Performing(th, d, conds) => Performing(th', d, conds)
  BY <1>6 DEF Popped, Performing, IsPopped, Looks
<1> HIDE DEF s
<1> QED BY <1>7, <1>8 DEF InTransit, s

(* A step on one descriptor that touches neither queues nor threads.       *)
LEMMA EdgeOfOne ==
  ASSUME EdgeInv, NEW d \in Descriptors, UNCHANGED <<op_queue_, th>>,
         \A e \in Descriptors : e # d => desc'[e] = desc[e] /\ kern'[e] = kern[e],
         EdgeOK(desc'[d], kern'[d], op_queue_, th, d), WatchOK(desc'[d], kern'[d])
  PROVE  EdgeInv'
<1> SUFFICES ASSUME NEW e \in Descriptors
             PROVE  /\ EdgeOK(desc'[e], kern'[e], op_queue_', th', e)
                    /\ WatchOK(desc'[e], kern'[e])
  BY DEF EdgeInv
<1>1. CASE e = d
  BY <1>1
<1>2. CASE e # d
  BY <1>2 DEF EdgeInv
<1> QED BY <1>1, <1>2

(* A step that takes nothing from the kind k and makes nobody wait.        *)
LEMMA KindKept ==
  ASSUME NEW s, NEW n \in KernType, NEW q, NEW h, NEW d, NEW k \in Kinds,
         KindOK(s, n, q, h, d, k),
         NEW u, NEW m \in KernType, u.result = s.result,
         Wanted(u, m, k) => Wanted(s, n, k),
         m.interest = n.interest, n.armed => m.armed, Enabling(m, k) = Enabling(n, k)
  PROVE  KindOK(u, m, q, h, d, k)
<1> DEFINE C == Enabling(n, k)
<1> SUFFICES ASSUME Wanted(u, m, k), C # {}
             PROVE  Reported(m, C) \/ InTransit(u, q, h, d, C)
  BY DEF KindOK
<1>1. Reported(n, C) \/ InTransit(s, q, h, d, C)
  BY DEF KindOK
<1>2. ASSUME Reported(n, C) PROVE Reported(m, C)
  <2>1. Mask(n) \cap C \subseteq Mask(m)
    BY DEF Mask, Enabling
  <2> HIDE DEF C
  <2> QED BY <1>2, <2>1, ReportedGrows
<1> HIDE DEF C
<1>3. InTransit(s, q, h, d, C) => InTransit(u, q, h, d, C)
  BY DEF InTransit
<1> QED BY <1>1, <1>2, <1>3

(* register_descriptor: nothing waits, and the first operation of each     *)
(* kind is tried at once.                                                  *)
LEMMA EdgeRegister ==
  ASSUME TypeOK, EdgeInv, NEW c \in Callers, NEW d \in Descriptors,
         NEW error \in {"none", "EPERM", "ADD"}, Register(c, d, error)
  PROVE  EdgeInv'
<1> DEFINE bits == {"in", "pri", "et"}
           s == desc'[d]
           n == kern'[d]
<1>1. kern \in [Descriptors -> KernType] /\ desc \in [Descriptors -> DescType]
  BY TypesOf
<1>2. /\ s.state = "live" /\ (s.handle <=> error # "ADD")
      /\ s.registered = (IF error = "EPERM" THEN {} ELSE bits)
      /\ \A k \in Kinds : s.pending[k] = <<>> /\ s.speculative[k]
      /\ \A e \in Descriptors : e # d => desc'[e] = desc[e]
  BY <1>1 DEF Register
<1>3. /\ \A e \in Descriptors : e # d => kern'[e] = kern[e]
      /\ n.interest = IF error = "none" THEN bits ELSE kern[d].interest
  <2>1. Watch(kern[d], bits).interest = bits
    BY <1>1 DEF Watch, KernType
  <2> QED BY <1>1, <2>1 DEF Register
<1>4. kern[d].interest = {}
  BY DEF Register, EdgeInv, WatchOK
<1>5. UNCHANGED <<op_queue_, th>>
  BY DEF Register, sched
<1> HIDE DEF s, n
<1>6. EdgeOK(s, n, op_queue_, th, d)
  BY <1>2 DEF EdgeOK, KindOK, Wanted
<1>7. WatchOK(s, n)
  BY <1>2, <1>3, <1>4 DEF WatchOK, Kinds
<1> QED BY <1>2, <1>3, <1>5, <1>6, <1>7, EdgeOfOne DEF s, n

(* cancel_ops and deregister_descriptor: nothing waits any more.           *)
LEMMA EdgeCancel ==
  ASSUME TypeOK, PlaceInv, EdgeInv, NEW c \in Callers, NEW d \in Descriptors,
         \/ CancelOps(c, d) \/ DropHandle(c, d)
         \/ \E closing \in BOOLEAN : Deregister(c, d, closing)
  PROVE  EdgeInv'
<1> DEFINE s == desc'[d]
           n == kern'[d]
<1>1. kern \in [Descriptors -> KernType] /\ desc \in [Descriptors -> DescType]
  BY TypesOf
<1>2. EdgeOK(desc[d], kern[d], op_queue_, th, d) /\ WatchOK(desc[d], kern[d])
  BY DEF EdgeInv
<1>3. UNCHANGED <<op_queue_, th>>
  BY DEF CancelOps, DropHandle, Deregister, sched
<1>4. CASE CancelOps(c, d)
  <2>1. /\ \A e \in Descriptors : e # d => desc'[e] = desc[e]
        /\ UNCHANGED kern
        /\ s.state = desc[d].state /\ s.handle = desc[d].handle
        /\ s.registered = desc[d].registered /\ s.speculative = desc[d].speculative
        /\ s.result = desc[d].result /\ \A k \in Kinds : s.pending[k] = <<>>
    BY <1>1, <1>4 DEF CancelOps, DescType, NonePending
  <2> HIDE DEF s
  <2>2. WatchOK(s, n)
    BY <1>2, <2>1 DEF WatchOK, Kinds
  <2>3. ASSUME NEW k \in Kinds PROVE KindOK(s, n, op_queue_, th, d, k)
    <3>1. Wanted(s, n, k) => Wanted(desc[d], kern[d], k)
      BY <2>1 DEF Wanted
    <3>2. KindOK(desc[d], kern[d], op_queue_, th, d, k)
      BY <1>2 DEF EdgeOK
    <3>3. n = kern[d] /\ n \in KernType
      BY <1>1, <2>1
    <3> QED BY <2>1, <3>1, <3>2, <3>3, KindKept
  <2> QED BY <1>3, <2>1, <2>2, <2>3, EdgeOfOne DEF s, EdgeOK
<1>5. CASE DropHandle(c, d) \/ \E closing \in BOOLEAN : Deregister(c, d, closing)
  <2>1. /\ \A e \in Descriptors : e # d => desc'[e] = desc[e] /\ kern'[e] = kern[e]
        /\ s.state = "shut" /\ \A k \in Kinds : s.pending[k] = <<>>
    <3>1. CASE DropHandle(c, d)
      <4>1. \A k \in Kinds : desc[d].pending[k] = <<>>
        BY <3>1 DEF DropHandle, PlaceInv, DescOK
      <4> QED BY <1>1, <3>1, <4>1 DEF DropHandle, DescType
    <3>2. ASSUME NEW closing \in BOOLEAN, Deregister(c, d, closing)
          PROVE  /\ \A e \in Descriptors : e # d => desc'[e] = desc[e] /\ kern'[e] = kern[e]
                 /\ s.state = "shut" /\ \A k \in Kinds : s.pending[k] = <<>>
      BY <1>1, <3>2 DEF Deregister, DescType, NonePending
    <3> QED BY <1>5, <3>1, <3>2
  <2> HIDE DEF s, n
  <2>2. EdgeOK(s, n, op_queue_, th, d) /\ WatchOK(s, n)
    BY <2>1 DEF EdgeOK, KindOK, Wanted, WatchOK, Kinds
  <2> QED BY <1>3, <2>1, <2>2, EdgeOfOne DEF s, n
<1> QED BY <1>4, <1>5

(* More becomes ready: the kernel notes the edge if it is watched for.     *)
LEMMA EdgeEnvironment ==
  ASSUME TypeOK, PlaceInv, EdgeInv, Environment
  PROVE  EdgeInv'
<1>1. kern \in [Descriptors -> KernType] /\ desc \in [Descriptors -> DescType]
  BY TypesOf
<1>2. UNCHANGED <<op_queue_, th, desc>>
  BY DEF Environment, BecomesReady, CloseDescriptor, ReleaseGuard, Shutdown, sched
<1>3. ASSUME NEW d \in Descriptors, NEW c \in Raised, BecomesReady(d, c) PROVE EdgeInv'
  <2> DEFINE s == desc[d]
             n == kern[d]
             m == kern'[d]
             a == n.armed \/ (n.interest # {} /\ c \in n.interest \cup {"hup"})
  <2>1. EdgeOK(s, n, op_queue_, th, d) /\ WatchOK(s, n)
    BY DEF EdgeInv
  <2>2. /\ m.ready = n.ready \cup {c} /\ m.interest = n.interest /\ m.told = n.told
        /\ m.armed = a /\ n \in KernType /\ m \in KernType
        /\ \A e \in Descriptors : e # d => kern'[e] = kern[e]
    <3>1. c \in Conditions /\ n.armed \in BOOLEAN
      BY <1>1, ReactorAssumption DEF KernType
    <3>2. a \in BOOLEAN
      BY <3>1
    <3>3. kern' = [kern EXCEPT ![d].ready = @ \cup {c}, ![d].armed = a]
      BY <1>3 DEF BecomesReady
    <3> HIDE DEF a
    <3> QED BY <1>1, <3>1, <3>2, <3>3 DEF KernType
  <2> HIDE DEF s, n, m
  <2>3. ASSUME NEW k \in Kinds PROVE KindOK(s, m, op_queue_, th, d, k)
    <3>1. KindOK(s, n, op_queue_, th, d, k) /\ (Wanted(s, m, k) => Wanted(s, n, k))
      BY <2>1, <2>2 DEF EdgeOK, Wanted
    <3>2. CASE c \notin {Flag[k], "hup"}
      <4>1. Enabling(m, k) = Enabling(n, k)
        BY <2>2, <3>2 DEF Enabling
      <4> QED BY <2>2, <3>1, <4>1, KindKept
    <3>3. CASE c \in {Flag[k], "hup"}
      <4> SUFFICES ASSUME Wanted(s, m, k) PROVE Reported(m, Enabling(m, k))
        BY DEF KindOK
      <4>1. Flag[k] \in n.interest
        BY <2>1, <3>1, WatchedFor
      <4>2. c \in Mask(m) /\ c \in Enabling(m, k) /\ m.armed /\ m.interest # {}
        BY <2>2, <3>3, <4>1 DEF Mask, Enabling
      <4> QED BY <4>2 DEF Reported, Deliverable
    <3> QED BY <3>2, <3>3
  <2>4. WatchOK(s, m)
    BY <2>1, <2>2 DEF WatchOK
  <2> QED BY <1>2, <2>2, <2>3, <2>4, EdgeOfOne DEF s, m, EdgeOK
<1>4. ASSUME NEW d \in Descriptors, CloseDescriptor(d) PROVE EdgeInv'
  <2>1. /\ desc[d].state = "shut" /\ \A e \in Descriptors : e # d => kern'[e] = kern[e]
    BY <1>1, <1>4 DEF CloseDescriptor
  <2>2. \A k \in Kinds : desc[d].pending[k] = <<>>
    BY <2>1 DEF PlaceInv, DescOK
  <2>3. EdgeOK(desc[d], kern'[d], op_queue_, th, d) /\ WatchOK(desc[d], kern'[d])
    BY <2>1, <2>2 DEF EdgeOK, KindOK, Wanted, WatchOK, Kinds
  <2> QED BY <1>2, <2>1, <2>3, EdgeOfOne
<1>5. CASE ReleaseGuard \/ Shutdown
  BY <1>2, <1>5 DEF ReleaseGuard, Shutdown, EdgeInv
<1> QED BY <1>3, <1>4, <1>5 DEF Environment

(* An outcome takes away the condition of its own kind at most.            *)
LEMMA OutcomeLeaves ==
  ASSUME NEW d \in Descriptors, NEW k \in Kinds, NEW count,
         NEW o \in Outcomes(d, k, count)
  PROVE  o.left = kern[d].ready \/ o.left = kern[d].ready \ {Flag[k]}
BY DEF Outcomes

(* Only an operation of a stream is done_and_exhausted.                    *)
LEMMA OutcomeExhausts ==
  ASSUME NEW d \in Descriptors, NEW k \in Kinds, NEW count,
         NEW o \in Outcomes(d, k, count), o.exhausted
  PROVE  Stream
<1> DEFINE ready == kern[d].ready
           drained == ready \ {Flag[k]}
<1>1. CASE count = 0 \/ ready \cap {Flag[k], "hup"} = {}
  <2>1. o = [done |-> 0, exhausted |-> FALSE, left |-> ready]
    BY <1>1 DEF Outcomes
  <2> QED BY <2>1
<1>2. CASE ~(count = 0 \/ ready \cap {Flag[k], "hup"} = {}) /\ "hup" \in ready
  <2>1. o = [done |-> IF Stream THEN 1 ELSE count, exhausted |-> Stream, left |-> ready]
    BY <1>2 DEF Outcomes
  <2>2. o.exhausted = Stream
    BY <2>1
  <2> QED BY <2>2
<1>3. CASE ~(count = 0 \/ ready \cap {Flag[k], "hup"} = {}) /\ "hup" \notin ready
  <2>1. o.exhausted => Stream
    BY <1>3 DEF Outcomes
  <2> QED BY <2>1
<1> QED BY <1>1, <1>2, <1>3

(* What comes of operations that are performed: the edge is used up, and   *)
(* nothing is left ready, or the hangup has been told, or none waits and   *)
(* the next is tried at once.                                              *)
LEMMA OutcomeSettles ==
  ASSUME NEW d \in Descriptors, NEW k \in Kinds, NEW count \in Nat \ {0},
         NEW o \in Outcomes(d, k, count)
  PROVE  \/ o.left \cap {Flag[k], "hup"} = {}
         \/ Stream /\ "hup" \in kern[d].ready /\ o.done > 0
         \/ o.done = count /\ ~o.exhausted
<1> DEFINE ready == kern[d].ready
           drained == ready \ {Flag[k]}
<1>1. CASE ready \cap {Flag[k], "hup"} = {}
  <2>1. o.left = ready
    BY <1>1 DEF Outcomes
  <2> QED BY <1>1, <2>1
<1>2. CASE "hup" \in ready
  <2>1. o \in {[done |-> IF Stream THEN 1 ELSE count,
                exhausted |-> Stream, left |-> ready]}
    BY <1>2 DEF Outcomes
  <2>2. o.done = (IF Stream THEN 1 ELSE count) /\ o.exhausted = Stream
    BY <2>1
  <2> QED BY <1>2, <2>2
<1>3. CASE "hup" \notin ready /\ ready \cap {Flag[k], "hup"} # {}
  <2>1. o \in {x \in [done : 1..count, exhausted : BOOLEAN,
                      left : {ready, drained}] :
                 /\ x.exhausted => Stream
                 /\ x.exhausted \/ x.done < count => x.left = drained}
    BY <1>3 DEF Outcomes
  <2>2. /\ o.done \in 1 .. count /\ o.exhausted \in BOOLEAN
        /\ o.exhausted \/ o.done < count => o.left = drained
    BY <2>1
  <2>3. o.done < count \/ o.done = count
    BY <2>2
  <2> QED BY <1>3, <2>2, <2>3
<1> QED BY <1>1, <1>2, <1>3

(* start_op performs an operation at once.                                 *)
LEMMA EdgePerformed ==
  ASSUME TypeOK, EdgeInv, NEW c \in Callers, NEW op \in Ops, StartPerformed(c, op)
  PROVE  EdgeInv'
<1> DEFINE d == Desc[op]
           l == Kind[op]
           s == desc[d]
           n == kern[d]
           u == desc'[d]
           m == kern'[d]
<1>1. kern \in [Descriptors -> KernType] /\ desc \in [Descriptors -> DescType]
      /\ d \in Descriptors /\ l \in Kinds
  BY TypesOf, Names
<1>2. PICK o \in Outcomes(d, l, 1) :
       /\ kern' = [kern EXCEPT ![d].ready = o.left,
                               ![d].told = @ \cup Told(d, {l})]
       /\ desc' = [desc EXCEPT ![d].speculative[l] =
                     ~(o.exhausted /\ desc[d].registered # {})]
  BY DEF StartPerformed
<1>3. UNCHANGED <<op_queue_, th>> /\ s.pending[l] = <<>>
  BY DEF StartPerformed, sched
<1>4. EdgeOK(s, n, op_queue_, th, d) /\ WatchOK(s, n)
  BY <1>1 DEF EdgeInv
<1>5. /\ o.left = n.ready \/ o.left = n.ready \ {Flag[l]}
      /\ \/ o.left \cap {Flag[l], "hup"} = {}
         \/ Stream /\ "hup" \in n.ready
         \/ ~o.exhausted
      /\ o.exhausted => Stream
  BY <1>1, OutcomeLeaves, OutcomeSettles, OutcomeExhausts
<1>6. /\ m.ready = o.left /\ m.interest = n.interest /\ m.armed = n.armed
      /\ m.told = n.told \cup Told(d, {l}) /\ n \in KernType /\ m \in KernType
      /\ \A e \in Descriptors : e # d => kern'[e] = kern[e]
  <2> DEFINE tl == n.told \cup Told(d, {l})
             x == [n EXCEPT !.ready = o.left, !.told = tl]
  <2>1. n \in KernType
    BY <1>1
  <2>2. tl \in SUBSET Kinds /\ o.left \in SUBSET Conditions
    <3>1. n.told \in SUBSET Kinds /\ n.ready \in SUBSET Conditions
      BY <2>1 DEF KernType
    <3> QED BY <1>1, <1>5, <3>1 DEF Told
  <2>3. kern' = [kern EXCEPT ![d] = x]
    BY <1>1, <1>2
  <2> HIDE DEF tl
  <2>4. /\ x \in KernType /\ x.ready = o.left /\ x.told = tl
        /\ x.interest = n.interest /\ x.armed = n.armed
    BY <2>1, <2>2 DEF KernType
  <2> HIDE DEF x
  <2> QED BY <1>1, <2>1, <2>3, <2>4 DEF tl
<1>7. /\ \A e \in Descriptors : e # d => desc'[e] = desc[e]
      /\ u.state = s.state /\ u.handle = s.handle /\ u.registered = s.registered
      /\ u.pending = s.pending /\ u.result = s.result
      /\ \A k \in Kinds : k # l => u.speculative[k] = s.speculative[k]
      /\ u.speculative[l] = ~(o.exhausted /\ s.registered # {})
  <2> DEFINE b == ~(o.exhausted /\ desc[d].registered # {})
             sp == [s.speculative EXCEPT ![l] = b]
             x == [s EXCEPT !.speculative = sp]
  <2>1. s \in DescType /\ s.speculative \in [Kinds -> BOOLEAN]
    BY <1>1 DEF DescType
  <2>2. desc' = [desc EXCEPT ![d] = x]
    BY <1>1, <1>2
  <2> HIDE DEF b
  <2>3. sp[l] = b /\ \A k \in Kinds : k # l => sp[k] = s.speculative[k]
    BY <1>1, <2>1
  <2> HIDE DEF sp
  <2>4. /\ x.state = s.state /\ x.handle = s.handle /\ x.registered = s.registered
        /\ x.pending = s.pending /\ x.result = s.result /\ x.speculative = sp
    BY <2>1 DEF DescType
  <2> HIDE DEF x
  <2> QED BY <1>1, <2>2, <2>3, <2>4 DEF b
<1>8. Told(d, {l}) = IF Stream /\ "hup" \in n.ready THEN {l} ELSE {}
  BY DEF Told
<1> HIDE DEF s, n, u, m, d, l
<1>9. ASSUME NEW k \in Kinds PROVE KindOK(u, m, op_queue_, th, d, k)
  <2>1. CASE k = l
    <3>1. \/ Enabling(m, k) = {}
          \/ k \in m.told
          \/ u.speculative[k]
      BY <1>5, <1>6, <1>7, <1>8, <2>1 DEF Enabling
    <3> QED BY <1>3, <1>7, <2>1, <3>1 DEF KindOK, Wanted
  <2>2. CASE k # l
    <3>1. Flag[k] # Flag[l] /\ Flag[l] # "hup"
      BY <1>1, <2>2, Flags
    <3>2. Enabling(m, k) = Enabling(n, k)
      BY <1>5, <1>6, <3>1 DEF Enabling
    <3>3. Wanted(u, m, k) => Wanted(s, n, k)
      BY <1>6, <1>7, <2>2 DEF Wanted
    <3>4. KindOK(s, n, op_queue_, th, d, k)
      BY <1>4 DEF EdgeOK
    <3> QED BY <1>6, <1>7, <3>2, <3>3, <3>4, KindKept
  <2> QED BY <2>1, <2>2
<1>10. WatchOK(u, m)
  <2>1. ASSUME s.state = "live", ~Stream, NEW k \in Kinds PROVE u.speculative[k]
    <3>1. s.speculative[k]
      BY <1>4, <2>1 DEF WatchOK
    <3> QED BY <1>5, <1>7, <2>1, <3>1
  <2> QED BY <1>4, <1>6, <1>7, <2>1 DEF WatchOK
<1> QED BY <1>1, <1>3, <1>6, <1>7, <1>9, <1>10, EdgeOfOne DEF u, m, EdgeOK

(* start_op when the operation has to wait, is tried as a speculative      *)
(* operation or not, and asks epoll for its events or not.                 *)
LEMMA EdgeWaits ==
  ASSUME TypeOK, PlaceInv, EdgeInv, Speculates,
         NEW c \in Callers, NEW op \in Ops, StartWaits(c, op)
  PROVE  EdgeInv'
<1> DEFINE d == Desc[op]
           l == Kind[op]
           s == desc[d]
           n == kern[d]
           u == desc'[d]
           m == kern'[d]
           empty == s.pending[l] = <<>>
           modifies == empty /\ Modifies(op)
           spec == MaySpeculate(op)
           adds == l = "write" /\ "out" \notin s.registered
           asked == s.registered \cup {"out"}
<1>1. kern \in [Descriptors -> KernType] /\ desc \in [Descriptors -> DescType]
      /\ d \in Descriptors /\ l \in Kinds
  BY TypesOf, Names
<1>2. /\ UNCHANGED <<op_queue_, th>> /\ s.handle /\ s.state = "live"
      /\ empty => s.registered # {} /\ ~Succeeds(op)
  BY DEF StartWaits, sched, Open
<1>3. EdgeOK(s, n, op_queue_, th, d) /\ WatchOK(s, n)
  BY <1>1 DEF EdgeInv
<1>4. /\ spec <=> (l = "read" => s.pending["except"] = <<>>)
      /\ Modifies(op) <=> ~spec \/ adds
      /\ Succeeds(op) <=> /\ spec /\ s.speculative[l]
                          /\ Enabling(n, l) # {}
      /\ "MOD" \in Failures => spec
  <2>1. spec <=> (l = "read" => s.pending["except"] = <<>>)
    BY DEF MaySpeculate, Speculates
  <2>2. ASSUME "MOD" \in Failures PROVE s.pending["except"] = <<>>
    <3>1. \A o \in Range(s.pending["except"]) : Kind[o] = "except"
      BY <1>1 DEF PlaceInv, DescOK, Kinds
    <3>2. s.pending["except"] \in Seq(Ops)
      BY <1>1 DEF DescType, Kinds
    <3>3. Range(s.pending["except"]) \subseteq Ops
      BY <3>2 DEF Range
    <3>4. Range(s.pending["except"]) = {}
      BY <2>2, <3>1, <3>3 DEF Speculates
    <3> QED BY <3>2, <3>4, NothingIn
  <2> QED BY <2>1, <2>2 DEF Modifies, Succeeds, Enabling
<1>5. modifies => /\ NewInterest(op)[2] = asked
                  /\ NewInterest(op)[1] \in {s.registered, asked}
                  /\ adds => NewInterest(op)[1] = asked
  <2> DEFINE i == n.interest
  <2>1. CASE spec /\ modifies
    <3>1. NewInterest(op) = <<asked, asked>>
      BY <1>4, <2>1 DEF NewInterest
    <3> QED BY <3>1
  <2>2. CASE ~spec
    <3>1. l = "read"
      BY <1>4, <2>2
    <3>2. NewInterest(op) = <<s.registered, asked>>
      BY <2>2, <3>1 DEF NewInterest
    <3> QED BY <3>1, <3>2
  <2> QED BY <2>1, <2>2
<1> DEFINE reg == IF modifies THEN NewInterest(op)[1] ELSE s.registered
<1>6. /\ desc' = [desc EXCEPT ![d].registered = reg,
                              ![d].pending[l] = Append(@, op)]
      /\ kern' = IF modifies THEN [kern EXCEPT ![d] = Watch(n, asked)] ELSE kern
  <2>1. PICK fails \in BOOLEAN :
          /\ fails => modifies /\ ~spec /\ "MOD" \in Failures
          /\ desc' = [desc EXCEPT
               ![d].registered = IF modifies THEN NewInterest(op)[1] ELSE @,
               ![d].pending[l] = Append(@, op)]
          /\ kern' = IF modifies /\ ~fails
                       THEN [kern EXCEPT ![d] = Watch(@, NewInterest(op)[2])]
                       ELSE kern
    BY DEF StartWaits
  <2>2. ~fails
    BY <1>4, <2>1
  <2>3. desc' = [desc EXCEPT ![d].registered = reg, ![d].pending[l] = Append(@, op)]
    BY <2>1
  <2>4. kern' = IF modifies THEN [kern EXCEPT ![d] = Watch(@, NewInterest(op)[2])]
                ELSE kern
    BY <2>1, <2>2
  <2>5. modifies => Watch(n, NewInterest(op)[2]) = Watch(n, asked)
    BY <1>5
  <2>6. [kern EXCEPT ![d] = Watch(@, NewInterest(op)[2])]
          = [kern EXCEPT ![d] = Watch(n, NewInterest(op)[2])]
    BY <1>1
  <2> HIDE DEF reg, modifies, n, asked
  <2> QED BY <2>3, <2>4, <2>5, <2>6
<1>7. /\ \A e \in Descriptors : e # d => desc'[e] = desc[e] /\ kern'[e] = kern[e]
      /\ u.state = s.state /\ u.handle = s.handle /\ u.result = s.result
      /\ u.speculative = s.speculative /\ u.registered = reg
      /\ u.pending[l] # <<>>
      /\ \A k \in Kinds : k # l => u.pending[k] = s.pending[k]
      /\ m = IF modifies THEN Watch(n, asked) ELSE n
  <2> DEFINE p == s.pending[l]
             pn == [s.pending EXCEPT ![l] = Append(p, op)]
             x == [s EXCEPT !.registered = reg, !.pending = pn]
  <2>1. s \in DescType /\ s.pending \in [Kinds -> Seq(Ops)] /\ p \in Seq(Ops)
    BY <1>1 DEF DescType
  <2>2. desc' = [desc EXCEPT ![d] = x]
    <3> HIDE DEF reg
    <3> QED BY <1>1, <1>6 DEF DescType
  <2>3. pn[l] = Append(p, op) /\ \A k \in Kinds : k # l => pn[k] = s.pending[k]
    BY <1>1, <2>1
  <2>4. Append(p, op) # <<>>
    <3> HIDE DEF p
    <3>1. Len(Append(p, op)) = Len(p) + 1 /\ Len(p) \in Nat
      BY <2>1, AppendProperties, LenProperties
    <3>2. Len(<<>>) = 0
      OBVIOUS
    <3>3. ASSUME Append(p, op) = <<>> PROVE FALSE
      BY <3>1, <3>2, <3>3
    <3> QED BY <3>3
  <2> HIDE DEF pn, reg
  <2>5. /\ x.state = s.state /\ x.handle = s.handle /\ x.registered = reg
        /\ x.pending = pn /\ x.result = s.result /\ x.speculative = s.speculative
    BY <2>1 DEF DescType
  <2>6. /\ \A e \in Descriptors : e # d => kern'[e] = kern[e]
        /\ m = IF modifies THEN Watch(n, asked) ELSE n
    <3> HIDE DEF modifies, asked
    <3> QED BY <1>1, <1>6
  <2> HIDE DEF x, p, modifies
  <2>7. u = x /\ \A e \in Descriptors : e # d => desc'[e] = desc[e]
    BY <1>1, <2>2
  <2> HIDE DEF u
  <2> QED BY <2>3, <2>4, <2>5, <2>6, <2>7 DEF p
<1>8. /\ n \in KernType /\ s.registered \in SUBSET EventBits
      /\ asked \in SUBSET EventBits /\ Watch(n, asked) \in KernType
  <2>1. n \in KernType /\ s.registered \in SUBSET EventBits
    BY <1>1 DEF DescType
  <2>2. asked \in SUBSET EventBits
    BY <2>1 DEF EventBits
  <2> QED BY <2>1, <2>2, WatchType
<1>9. /\ Watch(n, asked).interest = asked /\ Watch(n, asked).ready = n.ready
      /\ Watch(n, asked).told = n.told
  BY <1>8 DEF Watch, KernType
<1>10. s.registered # {}
  <2>1. s.pending[l] # <<>> => s.registered # {}
    BY <1>1, <1>2, <1>3 DEF WatchOK
  <2> QED BY <1>2, <2>1
<1>11. modifies <=> empty /\ (~spec \/ adds)
  BY <1>4
<1>12. reg \in {s.registered, asked} /\ (modifies /\ adds => reg = asked)
       /\ (~modifies => reg = s.registered)
  BY <1>5
<1> HIDE DEF u, m, spec, modifies, reg
<1>13. WatchOK(u, m)
  <2>1. s.registered \subseteq n.interest /\ {"in", "pri", "et"} \subseteq s.registered
        /\ (s.pending["write"] # <<>> => "out" \in n.interest)
    BY <1>2, <1>3, <1>10 DEF WatchOK
  <2>2. u.state = "live" /\ u.handle
    BY <1>2, <1>7
  <2>3. s.registered \subseteq u.registered /\ u.registered # {}
    BY <1>7, <1>10, <1>12
  <2>6. ~Stream => \A k \in Kinds : u.speculative[k]
    BY <1>2, <1>3, <1>7 DEF WatchOK
  <2>4. CASE modifies
    <3>1. m.interest = asked
      BY <1>7, <1>9, <2>4
    <3>2. u.registered \subseteq m.interest
      BY <1>7, <1>12, <3>1
    <3> QED BY <2>1, <2>2, <2>3, <2>6, <3>1, <3>2 DEF WatchOK
  <2>5. CASE ~modifies
    <3>1. u.registered = s.registered /\ m = n
      BY <1>7, <1>12, <2>5
    <3>2. u.pending["write"] # <<>> => "out" \in n.interest
      <4>1. CASE l = "write" /\ empty
        BY <1>11, <2>1, <2>5, <4>1
      <4>2. CASE l # "write" \/ ~empty
        BY <1>7, <2>1, <4>2 DEF Kinds
      <4> QED BY <4>1, <4>2
    <3> QED BY <2>1, <2>2, <2>3, <2>6, <3>1, <3>2 DEF WatchOK
  <2> QED BY <2>4, <2>5
<1>14. ASSUME NEW k \in Kinds PROVE KindOK(u, m, op_queue_, th, d, k)
  <2> SUFFICES ASSUME Wanted(u, m, k), Enabling(m, k) # {}
               PROVE  KindOK(u, m, op_queue_, th, d, k)
    BY DEF KindOK
  <2>1. Flag[k] \in m.interest
    BY <1>13, WatchedFor
  <2>2. CASE modifies
    <3>1. m = Watch(n, asked) /\ Flag[k] \in asked /\ Enabling(n, k) # {}
      BY <1>7, <1>9, <2>1, <2>2 DEF Enabling
    <3>2. Reported(m, Enabling(m, k))
      <4> HIDE DEF n, asked
      <4> QED BY <1>8, <3>1, WatchReports
    <3> QED BY <3>2 DEF KindOK
  <2>3. CASE ~modifies
    <3>1. m = n
      BY <1>7, <2>3
    <3>2. Wanted(s, n, k)
      <4>1. CASE k = l /\ empty
        <5>1. ~s.speculative[l]
          BY <1>2, <1>4, <1>11, <2>3, <3>1, <4>1 DEF spec
        <5> QED BY <1>2, <2>1, <3>1, <4>1, <5>1 DEF Wanted
      <4>2. CASE k # l \/ ~empty
        BY <1>7, <3>1, <4>2 DEF Wanted
      <4> QED BY <4>1, <4>2
    <3>3. KindOK(s, n, op_queue_, th, d, k)
      BY <1>3 DEF EdgeOK
    <3>4. n \in KernType /\ m \in KernType /\ u.result = s.result
      BY <1>7, <1>8, <3>1
    <3> HIDE DEF n, s
    <3> QED BY <3>1, <3>2, <3>3, <3>4, KindKept
  <2> QED BY <2>2, <2>3
<1> HIDE DEF d, s, n, l
<1> QED BY <1>1, <1>2, <1>7, <1>13, <1>14, EdgeOfOne DEF u, m, EdgeOK

(* start_op, whatever comes of it.                                         *)
LEMMA EdgeStart ==
  ASSUME TypeOK, PlaceInv, EdgeInv, Speculates,
         NEW c \in Callers, NEW op \in Ops, StartOp(c, op)
  PROVE  EdgeInv'
<1>1. CASE StartRefused(c, op) \/ StartModFails(c, op)
  <2>1. UNCHANGED <<desc, kern, op_queue_, th>>
    BY <1>1 DEF StartRefused, StartModFails, sched
  <2> QED BY <2>1 DEF EdgeInv
<1> QED BY <1>1, EdgePerformed, EdgeWaits DEF StartOp

(* epoll_reactor::run queues all that epoll_wait has reported.             *)
LEMMA AllReported ==
  ASSUME NEW S, IsFiniteSet(S), NEW order \in SetToSeqs(S)
  PROVE  Range(order) = S
<1> DEFINE n == Cardinality(S)
           D == 1 .. n
<1>1. n \in Nat
  BY FS_CardinalityType
<1> HIDE DEF n
<1>2. IsFiniteSet(D) /\ Cardinality(D) = n
  BY <1>1, FS_Interval
<1>3. order \in [D -> S] /\ \A i, j \in D : order[i] = order[j] => i = j
  BY DEF SetToSeqs, n
<1> HIDE DEF D
<1>4. order \in Injection(D, S)
  BY <1>3 DEF Injection, IsInjective
<1>5. order \in Surjection(D, S)
  BY <1>2, <1>4, FS_Injection DEF n
<1> QED BY <1>3, <1>5 DEF Surjection, Range

(* epoll_reactor::run: what is reported is noted in task_result_, and the  *)
(* descriptor is on its way to the queue.                                  *)
LEMMA EdgeTask ==
  ASSUME TypeOK, PlaceInv, EdgeInv, NEW t \in Threads, TaskRuns(t)
  PROVE  EdgeInv'
<1>r. PICK reported \in SUBSET Descriptors :
        \E order \in SetToSeqs(reported) : TaskReports(t, reported, order)
  BY TaskIs
<1>0. PICK order \in SetToSeqs(reported) : TaskReports(t, reported, order)
  BY <1>r
<1>1. /\ th[t].pc = "task" /\ UNCHANGED op_queue_
      /\ desc' = [d \in Descriptors |->
             IF d \in reported THEN [desc[d] EXCEPT !.result = Mask(kern[d])]
                               ELSE desc[d]]
      /\ kern' = [d \in Descriptors |->
             IF d \in reported THEN [kern[d] EXCEPT !.armed = FALSE] ELSE kern[d]]
  BY <1>0 DEF TaskReports, At, sched
<1>2. th' = [th EXCEPT ![t].pc = "cleanup", ![t].queue = order]
  BY <1>0 DEF TaskReports
<1>3. Range(order) = reported
  <2>1. IsFiniteSet(reported)
    BY ReactorAssumption, FS_Subset
  <2> QED BY <2>1, AllReported
<1>4. /\ th'[t].queue = order /\ \A u \in Threads : u # t => th'[u] = th[u]
  BY <1>2, TypesOf DEF ThType
<1>5. Range(th[t].queue) = {}
  BY <1>1, NothingHeld DEF PlaceInv, ThreadsOK
<1> SUFFICES ASSUME NEW d \in Descriptors
             PROVE  /\ EdgeOK(desc'[d], kern'[d], op_queue_, th', d)
                    /\ WatchOK(desc'[d], kern'[d])
  BY <1>1 DEF EdgeInv
<1> DEFINE s == desc[d]
           n == kern[d]
           u == desc'[d]
           m == kern'[d]
<1>6. s \in DescType /\ n \in KernType
      /\ EdgeOK(s, n, op_queue_, th, d) /\ WatchOK(s, n)
  BY TypesOf DEF EdgeInv
<1>7. CASE d \notin reported
  <2>1. u = s /\ m = n
    BY <1>1, <1>7
  <2> HIDE DEF s, n, u, m
  <2>2. ASSUME NEW k \in Kinds PROVE KindOK(s, n, op_queue_, th', d, k)
    <3> DEFINE C == Enabling(n, k)
    <3> SUFFICES ASSUME Wanted(s, n, k), C # {}
                 PROVE  Reported(n, C) \/ InTransit(s, op_queue_, th', d, C)
      BY DEF KindOK
    <3>1. Reported(n, C) \/ InTransit(s, op_queue_, th, d, C)
      BY <1>6 DEF EdgeOK, KindOK
    <3> HIDE DEF C
    <3>2. ~IsPopped(th[t], d) /\ ~Looks(th[t], d, C)
      BY <1>1 DEF IsPopped, Looks
    <3>3. /\ Popped(th, d) => Popped(th', d)
          /\ Performing(th, d, C) => Performing(th', d, C)
          /\ d \in InPrivate(th) => d \in InPrivate(th')
      BY <1>4, <1>5, <3>2, OthersKeep
    <3> QED BY <3>1, <3>3 DEF InTransit, Queued
  <2> QED BY <1>6, <2>1, <2>2 DEF EdgeOK, u, m
<1>8. CASE d \in reported
  <2>1. /\ u.result = Mask(n) /\ u.state = s.state /\ u.handle = s.handle
        /\ u.registered = s.registered /\ u.pending = s.pending
        /\ u.speculative = s.speculative
        /\ m.interest = n.interest /\ m.ready = n.ready /\ m.told = n.told
    <3> DEFINE x == [s EXCEPT !.result = Mask(n)]
               y == [n EXCEPT !.armed = FALSE]
    <3>1. /\ x.result = Mask(n) /\ x.state = s.state /\ x.handle = s.handle
          /\ x.registered = s.registered /\ x.pending = s.pending
          /\ x.speculative = s.speculative
          /\ y.interest = n.interest /\ y.ready = n.ready /\ y.told = n.told
      BY <1>6 DEF DescType, KernType
    <3>2. u = x /\ m = y
      BY <1>1, <1>8
    <3> QED BY <3>1, <3>2
  <2>2. Queued(op_queue_, th', d)
    <3> QED BY <1>3, <1>4, <1>8 DEF Queued, InPrivate
  <2> HIDE DEF s, n, u, m
  <2>3. ASSUME NEW k \in Kinds PROVE KindOK(u, m, op_queue_, th', d, k)
    <3> SUFFICES ASSUME Wanted(u, m, k), Enabling(m, k) # {}
                 PROVE  InTransit(u, op_queue_, th', d, Enabling(m, k))
      BY DEF KindOK
    <3>1. Wanted(s, n, k)
      BY <2>1 DEF Wanted
    <3>2. Flag[k] \in n.interest
      BY <1>6, <3>1, WatchedFor
    <3>3. Enabling(m, k) \subseteq u.result
      BY <2>1, <3>2 DEF Enabling, Mask
    <3>4. u.result \cap Enabling(m, k) # {}
      BY <3>3
    <3> QED BY <2>2, <3>4 DEF InTransit
  <2>4. WatchOK(u, m)
    BY <1>6, <2>1 DEF WatchOK
  <2> QED BY <2>3, <2>4 DEF EdgeOK, u, m
<1> QED BY <1>7, <1>8

(* What perform_io makes of the operations of each kind.                   *)
PerformsAs(t, of) ==
  LET d == th[t].base
      events == th[t].events
      p == desc[d].pending
  IN /\ \A k \in Kinds : of[k] \in Performed(d, events, k)
     /\ \A e \in Descriptors : e # d => desc'[e] = desc[e] /\ kern'[e] = kern[e]
     /\ desc'[d].state = desc[d].state /\ desc'[d].handle = desc[d].handle
     /\ desc'[d].registered = desc[d].registered
     /\ desc'[d].result = desc[d].result
     /\ \A k \in Kinds :
          /\ desc'[d].pending[k] = SubSeq(p[k], of[k].done + 1, Len(p[k]))
          /\ desc'[d].speculative[k] = IF k \in Due(events) THEN ~of[k].exhausted
                                       ELSE desc[d].speculative[k]
     /\ kern'[d] \in KernType
     /\ kern'[d].interest = kern[d].interest /\ kern'[d].armed = kern[d].armed
     /\ kern'[d].ready = of["read"].left \cap of["write"].left \cap of["except"].left
     /\ kern'[d].told = kern[d].told \cup Told(d, {k \in Kinds : of[k].done > 0})

(* perform_io does so, whatever comes of each operation.                   *)
LEMMA PerformsEach ==
  ASSUME TypeOK, NEW t \in Threads, th[t].base \in Descriptors, PerformIo(t)
  PROVE  \E of : PerformsAs(t, of)
<1> DEFINE d == th[t].base
           events == th[t].events
           p == desc[d].pending
           Outs(k) == Performed(d, events, k)
<1>1. PICK r \in Outs("read"), w \in Outs("write"), x \in Outs("except") :
        LET o == [read |-> r, write |-> w, except |-> x]
            Some(k) == SubSeq(desc[d].pending[k], 1, o[k].done)
            done == Some("except") \o Some("write") \o Some("read")
        IN /\ desc' = [desc EXCEPT
                  ![d].pending = [k \in Kinds |->
                     SubSeq(@[k], o[k].done + 1, Len(@[k]))],
                  ![d].speculative = [k \in Kinds |->
                     IF k \in Due(events) THEN ~o[k].exhausted ELSE @[k]]]
           /\ kern' = [kern EXCEPT
                  ![d].ready = r.left \cap w.left \cap x.left,
                  ![d].told = @ \cup Told(d, {k \in Kinds : o[k].done > 0})]
           /\ IF done = <<>> THEN NothingDone(t) ELSE SomeDone(t, done)
  BY DEF PerformIo
<1> DEFINE of == [read |-> r, write |-> w, except |-> x]
           p2 == [k \in Kinds |-> SubSeq(p[k], of[k].done + 1, Len(p[k]))]
           sp == [k \in Kinds |-> IF k \in Due(events) THEN ~of[k].exhausted
                                  ELSE desc[d].speculative[k]]
           rd == r.left \cap w.left \cap x.left
           tl == kern[d].told \cup Told(d, {k \in Kinds : of[k].done > 0})
<1>2. /\ desc[d] \in DescType /\ kern[d] \in KernType /\ d \in Descriptors
      /\ desc \in [Descriptors -> DescType] /\ kern \in [Descriptors -> KernType]
  BY TypesOf
<1>3. of["read"] = r /\ of["write"] = w /\ of["except"] = x
  OBVIOUS
<1>4. \A k \in Kinds : of[k] \in Outs(k)
  <2> HIDE DEF of, Outs
  <2> QED BY <1>1, <1>3 DEF Kinds
<1>5. desc' = [desc EXCEPT ![d] = [desc[d] EXCEPT !.pending = p2, !.speculative = sp]]
  <2>1. desc' = [desc EXCEPT
                  ![d].pending = [k \in Kinds |->
                     SubSeq(@[k], of[k].done + 1, Len(@[k]))],
                  ![d].speculative = [k \in Kinds |->
                     IF k \in Due(events) THEN ~of[k].exhausted ELSE @[k]]]
    BY <1>1
  <2> HIDE DEF of
  <2> QED BY <1>2, <2>1 DEF DescType
<1>6. kern' = [kern EXCEPT ![d] = [kern[d] EXCEPT !.ready = rd, !.told = tl]]
  <2>1. kern' = [kern EXCEPT ![d].ready = rd, ![d].told = tl]
    BY <1>1
  <2> HIDE DEF rd, tl
  <2> QED BY <1>2, <2>1
<1>7. \A k \in Kinds :
        /\ p2[k] = SubSeq(p[k], of[k].done + 1, Len(p[k]))
        /\ sp[k] = IF k \in Due(events) THEN ~of[k].exhausted
                   ELSE desc[d].speculative[k]
  OBVIOUS
<1>8. rd = of["read"].left \cap of["write"].left \cap of["except"].left
  BY <1>3
<1>9. rd \in SUBSET Conditions /\ tl \in SUBSET Kinds
  <2>1. r.left = kern[d].ready \/ r.left = kern[d].ready \ {Flag["read"]}
    BY <1>2, OutcomeLeaves DEF Performed, Kinds
  <2>2. r.left \subseteq Conditions
    BY <1>2, <2>1 DEF KernType
  <2> HIDE DEF of
  <2>3. tl \in SUBSET Kinds
    BY <1>2 DEF KernType, Told
  <2> QED BY <2>2, <2>3
<1> HIDE DEF p2, sp, rd, tl, of, Outs
<1>10. /\ \A e \in Descriptors : e # d => desc'[e] = desc[e] /\ kern'[e] = kern[e]
       /\ desc'[d].state = desc[d].state /\ desc'[d].handle = desc[d].handle
       /\ desc'[d].registered = desc[d].registered
       /\ desc'[d].result = desc[d].result
       /\ desc'[d].pending = p2 /\ desc'[d].speculative = sp
  BY <1>2, <1>5, <1>6 DEF DescType
<1>11. /\ kern'[d] \in KernType
       /\ kern'[d].interest = kern[d].interest /\ kern'[d].armed = kern[d].armed
       /\ kern'[d].ready = rd /\ kern'[d].told = tl
  BY <1>2, <1>6, <1>9 DEF KernType
<1>12. PerformsAs(t, of)
  BY <1>4, <1>7, <1>8, <1>10, <1>11 DEF PerformsAs, tl, Outs
<1> QED BY <1>12

(* descriptor_state::perform_io: the kinds it was told to look at have     *)
(* nothing left that is ready, or nothing that waits, and of the others    *)
(* nothing is taken.                                                       *)
LEMMA EdgePerform ==
  ASSUME TypeOK, PlaceInv, EdgeInv, NEW t \in Threads, PerformIo(t)
  PROVE  EdgeInv'
<1> DEFINE d == th[t].base
           events == th[t].events
           p == desc[d].pending
           s == desc[d]
           n == kern[d]
           u == desc'[d]
           m == kern'[d]
<1>1. /\ th[t].pc = "perform" /\ UNCHANGED op_queue_
      /\ NothingDone(t) \/ \E done : SomeDone(t, done)
  BY DEF PerformIo, At, sched
<1>2. d \in Descriptors /\ s \in DescType /\ n \in KernType
  <2>1. d \in Descriptors
    BY <1>1 DEF PlaceInv, ThreadsOK, ThreadOK
  <2> QED BY <2>1, TypesOf
<1>3. /\ \A v \in Threads : v # t => th'[v] = th[v]
      /\ th'[t].queue = th[t].queue
  <2> DEFINE w == th[t].work + 1
  <2>1. \/ th' = [th EXCEPT ![t].pc = "finish", ![t].base = NoOp, ![t].events = {},
                            ![t].work = w]
        \/ th' = [th EXCEPT ![t].pc = "handler", ![t].base = NoOp, ![t].events = {}]
    BY <1>1 DEF NothingDone, SomeDone
  <2> HIDE DEF w
  <2> QED BY <2>1, TypesOf DEF ThType
<1>4. PICK of : PerformsAs(t, of)
  BY <1>2, PerformsEach
<1>15. /\ \A k \in Kinds : of[k] \in Performed(d, events, k)
       /\ \A e \in Descriptors : e # d => desc'[e] = desc[e] /\ kern'[e] = kern[e]
       /\ u.state = s.state /\ u.handle = s.handle
       /\ u.registered = s.registered /\ u.result = s.result
       /\ \A k \in Kinds :
            /\ u.pending[k] = SubSeq(p[k], of[k].done + 1, Len(p[k]))
            /\ u.speculative[k] = IF k \in Due(events) THEN ~of[k].exhausted
                                   ELSE s.speculative[k]
       /\ m \in KernType /\ m.interest = n.interest /\ m.armed = n.armed
       /\ m.ready = of["read"].left \cap of["write"].left \cap of["except"].left
       /\ m.told = n.told \cup Told(d, {k \in Kinds : of[k].done > 0})
  BY <1>4 DEF PerformsAs
<1>5. \A k \in Kinds :
        /\ of[k].left = n.ready \/ of[k].left = n.ready \ {Flag[k]}
        /\ of[k].done \in 0 .. Len(p[k]) /\ of[k].exhausted \in BOOLEAN
        /\ p[k] \in Seq(Ops) /\ Len(p[k]) \in Nat
  <2> SUFFICES ASSUME NEW k \in Kinds
               PROVE  /\ of[k].left = n.ready \/ of[k].left = n.ready \ {Flag[k]}
                      /\ of[k].done \in 0 .. Len(p[k]) /\ of[k].exhausted \in BOOLEAN
                      /\ p[k] \in Seq(Ops) /\ Len(p[k]) \in Nat
    OBVIOUS
  <2>1. p[k] \in Seq(Ops) /\ Len(p[k]) \in Nat
    BY <1>2, LenProperties DEF DescType
  <2> DEFINE count == IF k \in Due(events) THEN Len(p[k]) ELSE 0
  <2>2. count \in Nat /\ count \in {0, Len(p[k])}
    BY <2>1
  <2>3. of[k] \in Outcomes(d, k, count)
    BY <1>15 DEF Performed
  <2> HIDE DEF count, d, p
  <2>4. of[k].done \in 0 .. count /\ of[k].exhausted \in BOOLEAN
    BY <1>2, <2>2, <2>3, OutcomesType
  <2>5. of[k].left = kern[d].ready \/ of[k].left = kern[d].ready \ {Flag[k]}
    BY <1>2, <2>3, OutcomeLeaves
  <2> QED BY <2>1, <2>2, <2>4, <2>5
<1>6. EdgeOK(s, n, op_queue_, th, d) /\ WatchOK(s, n)
  BY <1>2 DEF EdgeInv
<1>7. ASSUME NEW e \in Descriptors, NEW conds,
             InTransit(desc[e], op_queue_, th, e, conds),
             ~Looks(th[t], e, conds)
      PROVE  InTransit(desc[e], op_queue_, th', e, conds)
  <2>1. ~IsPopped(th[t], e)
    BY <1>1 DEF IsPopped
  <2>2. /\ Popped(th, e) => Popped(th', e)
        /\ Performing(th, e, conds) => Performing(th', e, conds)
        /\ e \in InPrivate(th) => e \in InPrivate(th')
    BY <1>3, <1>7, <2>1, OthersKeep
  <2> QED BY <1>7, <2>2 DEF InTransit, Queued
<1>8. ASSUME NEW e \in Descriptors, e # d
      PROVE  EdgeOK(desc[e], kern[e], op_queue_, th', e)
  <2> SUFFICES ASSUME NEW k \in Kinds PROVE KindOK(desc[e], kern[e], op_queue_, th', e, k)
    BY DEF EdgeOK
  <2>1. KindOK(desc[e], kern[e], op_queue_, th, e, k)
    BY DEF EdgeInv, EdgeOK
  <2>2. ~Looks(th[t], e, Enabling(kern[e], k))
    BY <1>8 DEF Looks
  <2> QED BY <1>7, <2>1, <2>2 DEF KindOK
<1>9. ASSUME NEW k \in Kinds PROVE Enabling(m, k) = of[k].left \cap {Flag[k], "hup"}
  <2> HIDE DEF m, n, d
  <2>1. \A l \in Kinds : l # k =>
          of[l].left \cap {Flag[k], "hup"} = n.ready \cap {Flag[k], "hup"}
    <3> SUFFICES ASSUME NEW l \in Kinds, l # k
                 PROVE  of[l].left \cap {Flag[k], "hup"} = n.ready \cap {Flag[k], "hup"}
      OBVIOUS
    <3>1. Flag[l] # Flag[k] /\ Flag[l] # "hup"
      BY Flags
    <3> QED BY <1>5, <3>1
  <2>2. of[k].left \subseteq n.ready
    BY <1>5
  <2>3. m.ready = of["read"].left \cap of["write"].left \cap of["except"].left
    BY <1>15
  <2>4. CASE k = "read"
    <3>1. /\ of["write"].left \cap {Flag[k], "hup"} = n.ready \cap {Flag[k], "hup"}
          /\ of["except"].left \cap {Flag[k], "hup"} = n.ready \cap {Flag[k], "hup"}
      BY <2>1, <2>4 DEF Kinds
    <3> QED BY <2>2, <2>3, <2>4, <3>1 DEF Enabling
  <2>5. CASE k = "write"
    <3>1. /\ of["read"].left \cap {Flag[k], "hup"} = n.ready \cap {Flag[k], "hup"}
          /\ of["except"].left \cap {Flag[k], "hup"} = n.ready \cap {Flag[k], "hup"}
      BY <2>1, <2>5 DEF Kinds
    <3> QED BY <2>2, <2>3, <2>5, <3>1 DEF Enabling
  <2>6. CASE k = "except"
    <3>1. /\ of["write"].left \cap {Flag[k], "hup"} = n.ready \cap {Flag[k], "hup"}
          /\ of["read"].left \cap {Flag[k], "hup"} = n.ready \cap {Flag[k], "hup"}
      BY <2>1, <2>6 DEF Kinds
    <3> QED BY <2>2, <2>3, <2>6, <3>1 DEF Enabling
  <2> QED BY <2>4, <2>5, <2>6 DEF Kinds
<1>10. ASSUME NEW k \in Kinds
       PROVE  u.pending[k] # <<>> => of[k].done < Len(p[k])
  <2>1. u.pending[k] = SubSeq(p[k], of[k].done + 1, Len(p[k]))
    BY <1>15
  <2> DEFINE l == p[k]
             b == of[k].done
  <2>2. l \in Seq(Ops) /\ b \in 0 .. Len(l) /\ Len(l) \in Nat
    BY <1>5
  <2> HIDE DEF l, b
  <2>3. b = Len(l) => SubSeq(l, b + 1, Len(l)) = <<>>
    BY <2>2
  <2> QED BY <2>1, <2>2, <2>3 DEF l, b
<1>11. ASSUME NEW k \in Kinds PROVE KindOK(u, m, op_queue_, th', d, k)
  <2> SUFFICES ASSUME Wanted(u, m, k), Enabling(m, k) # {}
               PROVE  KindOK(u, m, op_queue_, th', d, k)
    BY DEF KindOK
  <2> DEFINE count == Len(p[k])
  <2>1. /\ u.pending[k] # <<>> \/ ~u.speculative[k]
        /\ k \notin n.told /\ k \notin Told(d, {l \in Kinds : of[l].done > 0})
    BY <1>15 DEF Wanted
  <2>2. CASE k \in Due(events)
    <3>1. u.speculative[k] = ~of[k].exhausted /\ of[k] \in Outcomes(d, k, count)
      BY <1>15, <2>2 DEF Performed
    <3>4. u.speculative[k] <=> ~of[k].exhausted
      BY <3>1
    <3>2. CASE count = 0
      <4>1. of[k].done = 0 /\ ~of[k].exhausted
        BY <3>1, <3>2 DEF Outcomes
      <4>2. u.pending[k] # <<>> => of[k].done < count
        BY <1>10
      <4> HIDE DEF count, u
      <4> QED BY <2>1, <3>2, <3>4, <4>1, <4>2
    <3>3. CASE count # 0
      <4>1. count \in Nat \ {0}
        BY <1>5, <3>3
      <4> HIDE DEF count
      <4>2. \/ of[k].left \cap {Flag[k], "hup"} = {}
            \/ Stream /\ "hup" \in kern[d].ready /\ of[k].done > 0
            \/ of[k].done = count /\ ~of[k].exhausted
        BY <1>2, <3>1, <4>1, OutcomeSettles
      <4>3. of[k].left \cap {Flag[k], "hup"} # {}
        BY <1>9
      <4>4. ~(Stream /\ "hup" \in kern[d].ready /\ of[k].done > 0)
        BY <2>1 DEF Told
      <4>5. of[k].done = count /\ ~of[k].exhausted
        BY <4>2, <4>3, <4>4
      <4>6. u.pending[k] # <<>> => of[k].done < count
        BY <1>10 DEF count
      <4> HIDE DEF u
      <4> QED BY <2>1, <3>4, <4>1, <4>5, <4>6
    <3> QED BY <3>2, <3>3
  <2>3. CASE k \notin Due(events)
    <3>1. u.speculative[k] = s.speculative[k] /\ of[k] \in Outcomes(d, k, 0)
      BY <1>15, <2>3 DEF Performed
    <3>2. of[k].done = 0 /\ of[k].left = n.ready
      BY <3>1 DEF Outcomes
    <3>3. Enabling(m, k) = Enabling(n, k)
      BY <1>9, <3>2 DEF Enabling
    <3>4. u.pending[k] # <<>> => s.pending[k] # <<>>
      <4>1. u.pending[k] # <<>> => 0 < Len(p[k])
        BY <1>10, <3>2
      <4>2. p[k] = <<>> => Len(p[k]) = 0
        OBVIOUS
      <4> QED BY <4>1, <4>2
    <3>5. Wanted(s, n, k)
      BY <1>15, <2>1, <3>1, <3>4 DEF Wanted
    <3>6. ~Looks(th[t], d, Enabling(n, k))
      BY <2>3 DEF Looks, Due, Enabling
    <3>7. KindOK(s, n, op_queue_, th', d, k)
      <4>1. KindOK(s, n, op_queue_, th, d, k)
        BY <1>6 DEF EdgeOK
      <4> QED BY <1>2, <1>7, <3>6, <4>1 DEF KindOK
    <3> HIDE DEF s, n, u, m, d
    <3> QED BY <1>2, <1>15, <3>3, <3>5, <3>7, KindKept
  <2> QED BY <2>2, <2>3
<1>12. WatchOK(u, m)
  <2>1. ASSUME NEW k \in Kinds PROVE s.pending[k] = <<>> => u.pending[k] = <<>>
    <3>1. s.pending[k] = <<>> => Len(p[k]) = 0
      OBVIOUS
    <3>2. of[k].done \in 0 .. Len(p[k])
      BY <1>5
    <3> QED BY <1>10, <3>1, <3>2
  <2>2. ASSUME s.state = "live", ~Stream, NEW k \in Kinds PROVE u.speculative[k]
    <3>1. s.speculative[k]
      BY <1>6, <2>2 DEF WatchOK
    <3>2. CASE k \in Due(events)
      <4> DEFINE count == Len(p[k])
      <4>1. of[k] \in Outcomes(d, k, count) /\ u.speculative[k] = ~of[k].exhausted
        BY <1>15, <3>2 DEF Performed
      <4> HIDE DEF count, d, u
      <4>2. ~of[k].exhausted
        BY <1>2, <2>2, <4>1, OutcomeExhausts
      <4> QED BY <4>1, <4>2
    <3>3. CASE k \notin Due(events)
      BY <1>15, <3>1, <3>3
    <3> QED BY <3>2, <3>3
  <2> HIDE DEF s, n, u, m, d
  <2> QED BY <1>15, <1>6, <2>1, <2>2 DEF WatchOK, Kinds
<1> SUFFICES ASSUME NEW e \in Descriptors
             PROVE  /\ EdgeOK(desc'[e], kern'[e], op_queue_, th', e)
                    /\ WatchOK(desc'[e], kern'[e])
  BY <1>1 DEF EdgeInv
<1>13. CASE e = d
  BY <1>11, <1>12, <1>13 DEF EdgeOK
<1>14. CASE e # d
  <2>1. WatchOK(desc[e], kern[e])
    BY DEF EdgeInv
  <2> QED BY <1>15, <1>8, <1>14, <2>1
<1> QED BY <1>13, <1>14

(* Every step keeps the edges.                                             *)
LEMMA EdgeNext ==
  ASSUME TypeOK, PlaceInv, EdgeInv, Speculates, Next
  PROVE  EdgeInv'
<1>1. ASSUME NEW c \in Callers, Call(c) PROVE EdgeInv'
  <2>1. ASSUME NEW op \in Ops, StartOp(c, op) PROVE EdgeInv'
    BY <2>1, EdgeStart
  <2>2. ASSUME NEW d \in Descriptors, NEW error \in {"none", "EPERM", "ADD"},
               Register(c, d, error)
        PROVE  EdgeInv'
    BY <2>2, EdgeRegister
  <2>3. ASSUME NEW d \in Descriptors,
               \/ CancelOps(c, d) \/ DropHandle(c, d)
               \/ \E closing \in BOOLEAN : Deregister(c, d, closing)
        PROVE  EdgeInv'
    BY <2>3, EdgeCancel
  <2> QED BY <1>1, <2>1, <2>2, <2>3 DEF Call
<1>2. ASSUME UNCHANGED <<desc, kern>>,
             \A d \in Descriptors : \A conds :
               InTransit(desc[d], op_queue_, th, d, conds)
                 => InTransit(desc'[d], op_queue_', th', d, conds)
      PROVE  EdgeInv'
  BY <1>2 DEF EdgeInv, EdgeOK, KindOK
<1>3. ASSUME NEW c \in Callers, PostStep(c) PROVE EdgeInv'
  <2>1. UNCHANGED <<desc, kern>>
    BY <1>3 DEF PostStep, PostImmediate, PostDeferred
  <2> QED BY <1>2, <1>3, <2>1, TransitPost
<1>4. ASSUME NEW t \in Threads, ThreadStep(t) PROVE EdgeInv'
  <2>1. ASSUME Take(t) \/ TaskCleanup(t) \/ ReadResult(t) \/ Finish(t) PROVE EdgeInv'
    <3>1. UNCHANGED <<desc, kern>>
      BY <2>1 DEF Take, TaskCleanup, ReadResult, Finish
    <3> QED BY <1>2, <2>1, <3>1, TransitThread
  <2> QED BY <1>4, <2>1, EdgeTask, EdgePerform DEF ThreadStep
<1> QED BY <1>1, <1>3, <1>4, EdgeEnvironment DEF Next

(* The edge-triggered protocol of start_op, epoll_reactor::run and         *)
(* perform_io, with interleaved threads, full and hung-up descriptors and  *)
(* calls of epoll_ctl that fail: an operation that waits and could be      *)
(* performed is attended to.  Operations are speculative; for those that   *)
(* are not, start_op drops EPOLLIN from what it registers.                 *)
THEOREM ReadyAttended ==
  ASSUME Speculates
  PROVE  Spec => []ReadyOpsAttended
<1>1. Init => EdgeInv
  <2> SUFFICES ASSUME Init, NEW d \in Descriptors
               PROVE  /\ EdgeOK(desc[d], kern[d], op_queue_, th, d)
                      /\ WatchOK(desc[d], kern[d])
    BY DEF EdgeInv
  <2>1. /\ desc[d].state = "none" /\ kern[d].interest = {}
        /\ \A k \in Kinds : desc[d].pending[k] = <<>>
    BY DEF Init, NonePending
  <2> QED BY <2>1 DEF EdgeOK, KindOK, Wanted, WatchOK, Kinds
<1>2. ReactorInv /\ EdgeInv /\ [Next]_vars => EdgeInv'
  <2> SUFFICES ASSUME TypeOK, PlaceInv, EdgeInv, [Next]_vars PROVE EdgeInv'
    BY DEF ReactorInv
  <2>1. CASE UNCHANGED vars
    BY <2>1 DEF vars, EdgeInv
  <2> QED BY <2>1, EdgeNext
<1>3. ReactorInv /\ EdgeInv => ReadyOpsAttended
  <2> SUFFICES ASSUME TypeOK, PlaceInv, EdgeInv, NEW d \in Descriptors, NEW k \in Kinds,
                      desc[d].pending[k] # <<>>, Enabling(kern[d], k) # {},
                      k \notin kern[d].told
               PROVE  Attended(d, Enabling(kern[d], k))
    BY DEF ReactorInv, ReadyOpsAttended, Enabling
  <2> DEFINE C == Enabling(kern[d], k)
  <2>1. Wanted(desc[d], kern[d], k)
    BY DEF PlaceInv, DescOK, Wanted
  <2>2. Reported(kern[d], C) \/ InTransit(desc[d], op_queue_, th, d, C)
    BY <2>1 DEF EdgeInv, EdgeOK, KindOK
  <2>3. Queued(op_queue_, th, d) => Places(d) # {}
    <3>1. ASSUME d \in Range(op_queue_) PROVE Places(d) # {}
      <4>1. PICK i \in DOMAIN op_queue_ : op_queue_[i] = d
        BY <3>1 DEF Range
      <4> DEFINE q == <<<<"op_queue_", op_queue_>>, i>>
      <4>2. InQueue(q, d)
        BY <4>1 DEF AtQueue, InQueue
      <4> HIDE DEF q
      <4> QED BY <4>2, PlaceIs
    <3>2. ASSUME d \in InPrivate(th) PROVE Places(d) # {}
      <4>1. PICK t \in Threads : d \in Range(th[t].queue)
        BY <3>2 DEF InPrivate
      <4>2. PICK i \in DOMAIN th[t].queue : th[t].queue[i] = d
        BY <4>1 DEF Range
      <4> DEFINE q == <<<<"private", th[t].queue, t>>, i>>
      <4>3. AtPrivate(q, d, t, i)
        BY <4>2 DEF AtPrivate
      <4> HIDE DEF q
      <4>4. InThread(q, d)
        BY <4>3 DEF InThread
      <4> QED BY <4>4, PlaceIs
    <3> QED BY <3>1, <3>2 DEF Queued
  <2> SUFFICES Attended(d, C)
    OBVIOUS
  <2> HIDE DEF C
  <2>4. CASE Reported(kern[d], C)
    BY <2>4 DEF Attended, Reported
  <2>5. CASE desc[d].result \cap C # {} /\ (Queued(op_queue_, th, d) \/ Popped(th, d))
    <3>1. Places(d) # {} \/ \E t \in Threads : th[t].pc = "popped" /\ th[t].base = d
      BY <2>3, <2>5 DEF Popped, IsPopped
    <3> QED BY <2>5, <3>1 DEF Attended
  <2>6. CASE Performing(th, d, C)
    BY <2>6 DEF Attended, Performing, Looks
  <2> QED BY <2>2, <2>4, <2>5, <2>6 DEF InTransit
<1> QED BY <1>1, <1>2, <1>3, ReactorInvariant, PTL DEF Spec

=============================================================================
