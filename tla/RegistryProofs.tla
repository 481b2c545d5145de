--------------------------- MODULE RegistryProofs ----------------------------
(***************************************************************************)
(* That use_service gives everybody the one instance of a service, that    *)
(* every instance has one owner until it is deleted, and that none         *)
(* outlives one it uses when the keys are ordered so, also while the       *)
(* services are torn down: for any number of threads and any services      *)
(* whose constructors use each other.                                      *)
(***************************************************************************)
EXTENDS ServiceRegistry, FiniteSetTheorems, TLAPS

(* How far a service is from one that uses none.                           *)
IsDepth(d) == \A s \in Services : Uses[s] # NoService => d[Uses[s]] < d[s]
Depth == CHOOSE d \in [Services -> 1 .. Cardinality(Services)] : IsDepth(d)

(* The calls of a thread: each waits in the constructor of its own         *)
(* instance for the next, and is of another service than those below it.   *)
StackOK(t, s) ==
  \A n \in 1 .. Len(s) :
    /\ s[n].step = "find" => s[n].instance = NoInstance
    /\ s[n].step # "find" => s[n].instance = <<s[n].service, t>>
    /\ n # Len(s) => s[n].step = "insert"
    /\ \A m \in 1 .. n - 1 : Depth[s[n].service] < Depth[s[m].service]

StacksOK == \A t \in Threads : StackOK(t, stack[t])

(* What a call constructs is alive and not registered, and a call that     *)
(* lost the race has a winner.                                             *)
CallOK(c, alive, keys) ==
  /\ c.step # "find" =>
       alive[c.instance] = "made" /\ keys[c.service] # c.instance
  /\ c.step = "discard" => keys[c.service] # NoInstance

CallsOK ==
  \A t \in Threads : \A n \in 1 .. Len(stack[t]) :
    CallOK(stack[t][n], life, services_)

(* Every instance is held by its constructor's call or registered.         *)
Held(i, calls) == \E n \in 1 .. Len(calls) : calls[n].instance = i
Registered(i) == services_[i[1]] = i
Owned == \A i \in Instances : life[i] # "none" =>
           Held(i, stack[i[2]]) \/ Registered(i)

(* What is registered is registered under its key, and alive.              *)
KeysOK ==
  \A s \in Services : services_[s] # NoInstance =>
    /\ services_[s][1] = s
    /\ phase \in {"new", "open"} => life[services_[s]] = "made"
    /\ phase # "deleting" => life[services_[s]] # "none"

(* The life of the context.                                                *)
PhasesOK ==
  /\ phase # "open" => \A t \in Threads : stack[t] = <<>>
  /\ phase \in {"new", "gone"} => \A s \in Services : services_[s] = NoInstance
  /\ phase = "new" => handed = {} /\ task_ = NoInstance
                      /\ \A i \in Instances : member[i] = NoInstance
  /\ phase = "deleting" => \A n \in 1 .. at - 1 :
       services_[KeyOrder[n]] # NoInstance =>
         life[services_[KeyOrder[n]]] = "none"

(* Every reference is to the registered instance.                          *)
RefsOK ==
  phase = "open" =>
    /\ \A i \in handed : Registered(i)
    /\ task_ # NoInstance => Registered(task_)
    /\ \A i \in Instances :
         life[i] # "none" /\ member[i] # NoInstance => Registered(member[i])

RegistryInv ==
  TypeOK /\ StacksOK /\ CallsOK /\ Owned /\ KeysOK /\ PhasesOK /\ RefsOK

-----------------------------------------------------------------------------
(* Services and stacks.                                                    *)

(* The list of service_registry's first_service_ has a place for each key. *)
LEMMA KeyPlaced ==
  ASSUME NEW s \in Services
  PROVE  \E n \in 1 .. Len(KeyOrder) : KeyOrder[n] = s
<1>1. Range(KeyOrder) = Services
  BY RegistryAssumption
<1>2. DOMAIN KeyOrder = 1 .. Len(KeyOrder)
  BY RegistryAssumption
<1> QED
  BY <1>1, <1>2 DEF Range

LEMMA DepthFalls ==
  /\ \A s \in Services : Depth[s] \in Int
  /\ \A s \in Services : Uses[s] # NoService =>
       Uses[s] \in Services /\ Depth[Uses[s]] < Depth[s]
<1>1. \E d \in [Services -> 1 .. Cardinality(Services)] : IsDepth(d)
  BY RegistryAssumption DEF IsDepth
<1>2. Depth \in [Services -> 1 .. Cardinality(Services)] /\ IsDepth(Depth)
  BY <1>1 DEF Depth
<1>3. Uses \in [Services -> Services \cup {NoService}]
  BY RegistryAssumption
<1> QED
  BY <1>2, <1>3 DEF IsDepth

LEMMA FrontFacts ==
  ASSUME NEW S, NEW s \in Seq(S), s # <<>>
  PROVE  /\ Front(s) \in Seq(S) /\ Len(s) \in Nat \ {0}
         /\ Len(Front(s)) = Len(s) - 1
         /\ \A n \in 1 .. Len(s) - 1 : Front(s)[n] = s[n]
         /\ Last(s) = s[Len(s)] /\ Last(s) \in S
<1>1. Len(s) \in Nat \ {0} /\ s[Len(s)] \in S
  OBVIOUS
<1> DEFINE k == Len(s) - 1
<1>2. k \in Nat /\ k < Len(s)
  BY <1>1
<1>3. Front(s) = SubSeq(s, 1, k) /\ Last(s) = s[Len(s)]
  BY DEF Front, Last
<1> HIDE DEF k
<1>4. /\ SubSeq(s, 1, k) \in Seq(S) /\ Len(SubSeq(s, 1, k)) = k
      /\ \A n \in 1 .. k : SubSeq(s, 1, k)[n] = s[n]
  BY <1>2
<1> QED
  BY <1>1, <1>3, <1>4 DEF k

LEMMA AppendFacts ==
  ASSUME NEW S, NEW s \in Seq(S), NEW c \in S
  PROVE  /\ Append(s, c) \in Seq(S) /\ Len(Append(s, c)) = Len(s) + 1
         /\ Append(s, c)[Len(s) + 1] = c
         /\ \A n \in 1 .. Len(s) : Append(s, c)[n] = s[n]
         /\ s \o <<c>> = Append(s, c) /\ s \o <<>> = s
OBVIOUS

LEMMA FrontOK ==
  ASSUME NEW t, NEW s \in Seq(Frames), s # <<>>, StackOK(t, s)
  PROVE  StackOK(t, Front(s))
<1>1. /\ Len(s) \in Nat \ {0} /\ Len(Front(s)) = Len(s) - 1
      /\ \A n \in 1 .. Len(s) - 1 : Front(s)[n] = s[n]
  BY FrontFacts
<1> QED
  BY <1>1 DEF StackOK

(* A call that constructs is known by its instance.                        *)
LEMMA CallKnown ==
  ASSUME TypeOK, StacksOK, NEW t \in Threads, NEW n \in 1 .. Len(stack[t])
  PROVE  /\ stack[t][n] \in Frames
         /\ stack[t][n].instance # NoInstance =>
              /\ stack[t][n].instance = <<stack[t][n].service, t>>
              /\ stack[t][n].instance \in Instances
         /\ stack[t][n].step = "find" <=> stack[t][n].instance = NoInstance
         /\ stack[t][n].service \in Services
         /\ \A m \in 1 .. Len(stack[t]) :
              stack[t][m].service = stack[t][n].service => m = n
<1>1. stack[t] \in Seq(Frames) /\ StackOK(t, stack[t])
  BY DEF TypeOK, StacksOK
<1>2. \A m \in 1 .. Len(stack[t]) :
        stack[t][m] \in Frames /\ stack[t][m].service \in Services
  <2>1. \A m \in 1 .. Len(stack[t]) : stack[t][m] \in Frames
    BY <1>1
  <2> QED
    BY <2>1 DEF Frames
<1>3. stack[t][n].step # "find" =>
        stack[t][n].instance = <<stack[t][n].service, t>>
  BY <1>1 DEF StackOK
<1>4. <<stack[t][n].service, t>> \in Instances
  BY <1>2 DEF Instances
<1>5. stack[t][n].step = "find" => stack[t][n].instance = NoInstance
  BY <1>1 DEF StackOK
<1>6. ASSUME NEW m \in 1 .. Len(stack[t]), stack[t][m].service = stack[t][n].service
      PROVE  m = n
  <2> DEFINE depth == Depth[stack[t][n].service]
  <2>1. depth \in Int
    BY <1>2, DepthFalls
  <2>2. m \in 1 .. n - 1 => depth < depth
    BY <1>1, <1>6 DEF StackOK
  <2>3. n \in 1 .. m - 1 => depth < depth
    BY <1>1, <1>6 DEF StackOK
  <2>4. m \in Int /\ n \in Int /\ m >= 1 /\ n >= 1
    OBVIOUS
  <2> HIDE DEF depth
  <2> QED
    BY <2>1, <2>2, <2>3, <2>4
<1>7. NoInstance \notin Instances
  BY RegistryAssumption
<1> QED
  BY <1>2, <1>3, <1>4, <1>5, <1>6, <1>7

(* A call that constructs owns its instance, alone.                        *)
LEMMA CallOwns ==
  ASSUME RegistryInv, NEW t \in Threads, NEW n \in 1 .. Len(stack[t]),
         stack[t][n].step # "find"
  PROVE  /\ stack[t][n].instance = <<stack[t][n].service, t>>
         /\ stack[t][n].instance \in Instances
         /\ life[stack[t][n].instance] = "made"
         /\ \A s \in Services : services_[s] # stack[t][n].instance
         /\ \A u \in Threads : \A m \in 1 .. Len(stack[u]) :
              stack[u][m].instance = stack[t][n].instance => u = t /\ m = n
<1>1. TypeOK /\ StacksOK /\ CallsOK /\ KeysOK
  BY DEF RegistryInv
<1>2. /\ stack[t][n].instance = <<stack[t][n].service, t>>
      /\ stack[t][n].instance \in Instances
      /\ stack[t][n].instance # NoInstance
  BY <1>1, CallKnown
<1>3. /\ life[stack[t][n].instance] = "made"
      /\ services_[stack[t][n].service] # stack[t][n].instance
  BY <1>1 DEF CallsOK, CallOK
<1>4. ASSUME NEW s \in Services
      PROVE  services_[s] # stack[t][n].instance
  BY <1>1, <1>2, <1>3 DEF KeysOK
<1>5. ASSUME NEW u \in Threads, NEW m \in 1 .. Len(stack[u]),
             stack[u][m].instance = stack[t][n].instance
      PROVE  u = t /\ m = n
  <2>1. stack[u][m].instance = <<stack[u][m].service, u>>
    BY <1>1, <1>2, <1>5, CallKnown
  <2>2. u = t /\ stack[u][m].service = stack[t][n].service
    BY <1>2, <1>5, <2>1
  <2> QED
    BY <1>1, <2>2, CallKnown
<1> QED
  BY <1>2, <1>3, <1>4, <1>5

(* The call a thread is in.                                                *)
LEMMA TopKnown ==
  ASSUME RegistryInv, NEW t \in Threads, Calling(t)
  PROVE  /\ phase = "open"
         /\ Len(stack[t]) \in 1 .. Len(stack[t])
         /\ Top(t) = stack[t][Len(stack[t])] /\ Top(t) \in Frames
         /\ Top(t).service \in Services
         /\ Callers(t) \in Seq(Frames) /\ Len(Callers(t)) = Len(stack[t]) - 1
         /\ \A n \in 1 .. Len(stack[t]) - 1 : Callers(t)[n] = stack[t][n]
<1>1. stack[t] \in Seq(Frames) /\ stack[t] # <<>>
  BY DEF RegistryInv, TypeOK, Calling
<1>2. phase = "open"
  BY <1>1 DEF RegistryInv, PhasesOK
<1>3. /\ Callers(t) \in Seq(Frames) /\ Len(stack[t]) \in Nat \ {0}
      /\ Len(Callers(t)) = Len(stack[t]) - 1
      /\ \A n \in 1 .. Len(stack[t]) - 1 : Callers(t)[n] = stack[t][n]
      /\ Top(t) = stack[t][Len(stack[t])] /\ Top(t) \in Frames
  BY <1>1, FrontFacts DEF Top, Callers
<1>4. Top(t).service \in Services
  BY <1>3 DEF Frames
<1> QED
  BY <1>2, <1>3, <1>4

-----------------------------------------------------------------------------
(* What the steps have in common.                                          *)

(* The references that the return of a call gives out.                     *)
LEMMA ReturnFacts ==
  ASSUME RegistryInv, NEW t \in Threads, Calling(t), NEW i \in Instances,
         Return(t, i)
  PROVE  /\ stack' = [stack EXCEPT ![t] = Callers(t)]
         /\ task_mutex' \in Threads \cup {NoThread}
         /\ task_' \in {task_, i} /\ handed' \subseteq handed \cup {i}
         /\ member' \in [Instances -> Instances \cup {NoInstance}]
         /\ \A j \in Instances : member'[j] \in {member[j], i}
<1>1. /\ member \in [Instances -> Instances \cup {NoInstance}]
      /\ task_mutex \in Threads \cup {NoThread}
  BY DEF RegistryInv, TypeOK
<1>2. CASE Callers(t) # <<>>
  <2>1. /\ stack' = [stack EXCEPT ![t] = Callers(t)]
        /\ member' = [member EXCEPT ![Last(Callers(t)).instance] = i]
        /\ UNCHANGED <<handed, task_, task_mutex>>
    BY <1>2 DEF Return
  <2> QED
    BY <1>1, <2>1
<1>3. CASE Callers(t) = <<>>
  <2>1. /\ stack' = [stack EXCEPT ![t] = Callers(t)]
        /\ handed' = handed \cup {i} /\ member' = member
        /\ task_' \in {task_, i} /\ task_mutex' \in {task_mutex, NoThread}
    BY <1>3 DEF Return
  <2> QED
    BY <1>1, <2>1
<1> QED
  BY <1>2, <1>3

(* References stay right when they are copies of old ones or of one that   *)
(* is registered, and nothing is taken out of services_.                   *)
LEMMA RefsKept ==
  ASSUME RegistryInv, phase = "open", NEW i \in Instances, services_'[i[1]] = i,
         task_' \in {task_, i}, handed' \subseteq handed \cup {i},
         \A j \in Instances : life'[j] # "none" =>
           \/ life[j] # "none" /\ member'[j] \in {member[j], i}
           \/ member'[j] = NoInstance,
         \A s \in Services : services_[s] # NoInstance => services_'[s] = services_[s]
  PROVE  RefsOK'
<1>1. \A j \in Instances : Registered(j) => services_'[j[1]] = j
  <2>1. \A j \in Instances : j[1] \in Services /\ j # NoInstance
    BY RegistryAssumption DEF Instances
  <2> QED
    BY <2>1 DEF Registered
<1>2. /\ handed \subseteq Instances /\ task_ \in Instances \cup {NoInstance}
      /\ member \in [Instances -> Instances \cup {NoInstance}]
  BY DEF RegistryInv, TypeOK
<1>3. /\ \A j \in handed : Registered(j)
      /\ task_ # NoInstance => Registered(task_)
      /\ \A j \in Instances :
           life[j] # "none" /\ member[j] # NoInstance => Registered(member[j])
  BY DEF RegistryInv, RefsOK
<1>4. \A j \in handed' : services_'[j[1]] = j
  BY <1>1, <1>2, <1>3
<1>5. task_' # NoInstance => services_'[task_'[1]] = task_'
  BY <1>1, <1>2, <1>3
<1>6. \A j \in Instances : life'[j] # "none" /\ member'[j] # NoInstance =>
        services_'[member'[j][1]] = member'[j]
  BY <1>1, <1>2, <1>3
<1> QED
  BY <1>4, <1>5, <1>6 DEF RefsOK, Registered

(* The other calls stay as they were when one returns.                     *)
LEMMA PopStacks ==
  ASSUME RegistryInv, NEW t \in Threads, Calling(t), NEW i \in Instances,
         Return(t, i)
  PROVE  /\ stack' \in [Threads -> Seq(Frames)] /\ StacksOK'
         /\ \A u \in Threads : \A n \in 1 .. Len(stack'[u]) :
              /\ n \in 1 .. Len(stack[u]) /\ stack'[u][n] = stack[u][n]
              /\ u = t => n # Len(stack[t])
         /\ \A j \in Instances : Held(j, stack[j[2]]) /\ j # Top(t).instance
              => Held(j, stack'[j[2]])
<1>1. stack' = [stack EXCEPT ![t] = Callers(t)]
  BY ReturnFacts
<1>2. stack \in [Threads -> Seq(Frames)] /\ StacksOK
  BY DEF RegistryInv, TypeOK
<1>3. /\ stack'[t] = Callers(t)
      /\ \A u \in Threads \ {t} : stack'[u] = stack[u]
  BY <1>1, <1>2
<1>4. /\ Callers(t) \in Seq(Frames) /\ Len(Callers(t)) = Len(stack[t]) - 1
      /\ \A n \in 1 .. Len(stack[t]) - 1 : Callers(t)[n] = stack[t][n]
      /\ Len(stack[t]) \in Nat /\ Top(t) = stack[t][Len(stack[t])]
  BY <1>2, TopKnown
<1>5. stack' \in [Threads -> Seq(Frames)]
  BY <1>1, <1>2, <1>4
<1>6. StacksOK'
  <2>1. StackOK(t, Callers(t))
    BY <1>2, FrontOK DEF StacksOK, Callers, Calling
  <2>2. \A u \in Threads : StackOK(u, stack'[u])
    BY <1>2, <1>3, <2>1 DEF StacksOK
  <2> QED
    BY <2>2 DEF StacksOK, StackOK
<1>7. \A u \in Threads : \A n \in 1 .. Len(stack'[u]) :
        /\ n \in 1 .. Len(stack[u]) /\ stack'[u][n] = stack[u][n]
        /\ u = t => n # Len(stack[t])
  BY <1>3, <1>4
<1>8. ASSUME NEW j \in Instances, Held(j, stack[j[2]]), j # Top(t).instance
      PROVE  Held(j, stack'[j[2]])
  <2>1. j[2] \in Threads
    BY DEF Instances
  <2>2. PICK n \in 1 .. Len(stack[j[2]]) : stack[j[2]][n].instance = j
    BY <1>8 DEF Held
  <2>3. j[2] = t => n # Len(stack[t])
    BY <1>4, <1>8, <2>2
  <2>4. n \in 1 .. Len(stack'[j[2]]) /\ stack'[j[2]][n] = stack[j[2]][n]
    BY <1>3, <1>4, <2>1, <2>2, <2>3
  <2> QED
    BY <2>2, <2>4 DEF Held
<1> QED
  BY <1>5, <1>6, <1>7, <1>8

-----------------------------------------------------------------------------
(* The steps of use_service.                                               *)

LEMMA FindHit ==
  ASSUME RegistryInv, NEW t \in Threads, At(t, "find"),
         services_[Top(t).service] # NoInstance,
         Return(t, services_[Top(t).service]),
         UNCHANGED <<life, mutex_, services_, contextVars>>
  PROVE  RegistryInv'
<1> DEFINE i == services_[Top(t).service]
<1>1. /\ TypeOK /\ StacksOK /\ CallsOK /\ Owned /\ KeysOK /\ PhasesOK
      /\ Calling(t) /\ Top(t).step = "find"
      /\ UNCHANGED <<life, mutex_, services_, phase, at>>
  BY DEF RegistryInv, At, contextVars
<1>2. /\ phase = "open" /\ Top(t).service \in Services
      /\ Len(stack[t]) \in 1 .. Len(stack[t])
      /\ Top(t) = stack[t][Len(stack[t])]
  BY <1>1, TopKnown
<1>3. i \in Instances /\ services_[i[1]] = i
  BY <1>1, <1>2 DEF TypeOK, KeysOK
<1>4. Top(t).instance \notin Instances
  <2>1. Top(t).instance = NoInstance
    BY <1>1, <1>2 DEF StacksOK, StackOK
  <2> QED
    BY <2>1, RegistryAssumption
<1>5. /\ task_mutex' \in Threads \cup {NoThread}
      /\ task_' \in {task_, i} /\ handed' \subseteq handed \cup {i}
      /\ member' \in [Instances -> Instances \cup {NoInstance}]
      /\ \A j \in Instances : member'[j] \in {member[j], i}
  BY <1>1, <1>3, ReturnFacts
<1>6. /\ stack' \in [Threads -> Seq(Frames)] /\ StacksOK'
      /\ \A u \in Threads : \A n \in 1 .. Len(stack'[u]) :
           n \in 1 .. Len(stack[u]) /\ stack'[u][n] = stack[u][n]
      /\ \A j \in Instances : Held(j, stack[j[2]]) => Held(j, stack'[j[2]])
  BY <1>1, <1>3, <1>4, PopStacks
<1>7. TypeOK'
  BY <1>1, <1>3, <1>5, <1>6 DEF TypeOK
<1>8. CallsOK'
  BY <1>1, <1>6 DEF CallsOK, CallOK
<1>9. Owned'
  BY <1>1, <1>6 DEF Owned, Registered
<1>10. KeysOK' /\ PhasesOK'
  BY <1>1, <1>2 DEF KeysOK, PhasesOK
<1>11. RefsOK'
  BY <1>1, <1>2, <1>3, <1>5, RefsKept
<1> QED
  BY <1>6, <1>7, <1>8, <1>9, <1>10, <1>11 DEF RegistryInv

(* The stack after the construction of c has begun, over the calls below.  *)
Begun(below, c) ==
  Append(below, c) \o (IF Uses[c.service] = NoService
                       THEN <<>> ELSE <<Lookup(Uses[c.service])>>)

LEMMA ConstructStack ==
  ASSUME RegistryInv, NEW t \in Threads, Calling(t), Top(t).step = "find",
         NEW c \in Frames, c.step = "insert", c.service = Top(t).service,
         c.instance = <<c.service, t>>, NEW s,
         s = Begun(Callers(t), c)
  PROVE  /\ s \in Seq(Frames) /\ StackOK(t, s)
         /\ Len(stack[t]) <= Len(s) /\ Len(stack[t]) \in 1 .. Len(s)
         /\ s[Len(stack[t])] = c
         /\ \A n \in 1 .. Len(stack[t]) - 1 : s[n] = stack[t][n]
         /\ \A n \in 1 .. Len(s) : n > Len(stack[t]) =>
              s[n].step = "find" /\ s[n].instance = NoInstance
<1> DEFINE k == Len(stack[t])  b == Append(Callers(t), c)  u == Uses[c.service]
<1>1. /\ Callers(t) \in Seq(Frames) /\ k \in Nat \ {0} /\ Len(Callers(t)) = k - 1
      /\ \A n \in 1 .. k - 1 : Callers(t)[n] = stack[t][n]
      /\ Top(t) = stack[t][k] /\ c.service \in Services
  BY TopKnown
<1>2. /\ stack[t] \in Seq(Frames) /\ StackOK(t, stack[t])
  BY DEF RegistryInv, TypeOK, StacksOK
<1>3. /\ b \in Seq(Frames) /\ Len(b) = k /\ b[k] = c
      /\ \A n \in 1 .. k - 1 : b[n] = stack[t][n]
  <2> DEFINE p == Callers(t)
  <2>1. p \in Seq(Frames) /\ Len(p) = k - 1
    BY <1>1
  <2> HIDE DEF p
  <2>2. /\ Append(p, c) \in Seq(Frames) /\ Len(Append(p, c)) = Len(p) + 1
        /\ Append(p, c)[Len(p) + 1] = c
        /\ \A n \in 1 .. Len(p) : Append(p, c)[n] = p[n]
    BY <2>1, AppendFacts
  <2> QED
    BY <1>1, <2>1, <2>2 DEF p
<1> HIDE DEF k, b
<1>4. \A n \in 1 .. k : b[n] \in Frames /\ b[n].service = stack[t][n].service
  BY <1>1, <1>3
<1>5. StackOK(t, b)
  <2>1. ASSUME NEW n \in 1 .. k, NEW m \in 1 .. n - 1
        PROVE  Depth[b[n].service] < Depth[b[m].service]
    <3>1. m \in 1 .. k /\ n \in 1 .. Len(stack[t])
      BY <1>1 DEF k
    <3> QED
      BY <1>2, <1>4, <3>1 DEF StackOK
  <2>2. ASSUME NEW n \in 1 .. k
        PROVE  /\ b[n].step = "find" => b[n].instance = NoInstance
               /\ b[n].step # "find" => b[n].instance = <<b[n].service, t>>
               /\ n # k => b[n].step = "insert"
    <3>1. CASE n = k
      BY <1>3, <3>1
    <3>2. CASE n # k
      <4>1. n \in 1 .. k - 1 /\ n \in 1 .. Len(stack[t])
        BY <1>1, <3>2 DEF k
      <4> QED
        BY <1>2, <1>3, <3>2, <4>1 DEF StackOK, k
    <3> QED
      BY <3>1, <3>2
  <2> QED
    BY <1>3, <2>1, <2>2 DEF StackOK
<1>6. CASE u = NoService
  <2>1. s = b
    BY <1>3, <1>6, AppendFacts DEF b, Begun
  <2>2. k \in Nat \ {0}
    BY <1>1
  <2>3. \A n \in 1 .. Len(s) : ~(n > k)
    BY <1>3, <2>1, <2>2
  <2>4. k <= Len(s) /\ k \in 1 .. Len(s)
    BY <1>3, <2>1, <2>2
  <2> QED
    BY <1>3, <1>5, <2>1, <2>3, <2>4 DEF k
<1>7. CASE u # NoService
  <2> DEFINE l == Lookup(u)
  <2>1. u \in Services /\ Depth[u] < Depth[c.service]
    BY <1>1, <1>7, DepthFalls
  <2>2. /\ l \in Frames /\ l.service = u /\ l.step = "find"
        /\ l.instance = NoInstance
    BY <2>1 DEF Lookup, Frame, Frames
  <2>3. s = b \o <<l>>
    BY <1>7 DEF b, Begun
  <2> HIDE DEF l
  <2>4. /\ s \in Seq(Frames) /\ Len(s) = k + 1 /\ s[k + 1] = l
        /\ \A n \in 1 .. k : s[n] = b[n]
    BY <1>1, <1>3, <2>2, <2>3
  <2>5. StackOK(t, s)
    <3>1. ASSUME NEW m \in 1 .. k
          PROVE  Depth[u] < Depth[b[m].service]
      <4>1. CASE m = k
        BY <1>3, <2>1, <4>1
      <4>2. CASE m # k
        <5>1. k \in 1 .. k /\ m \in 1 .. k - 1
          BY <1>1, <4>2
        <5>2. Depth[b[k].service] < Depth[b[m].service]
          BY <1>3, <1>5, <5>1 DEF StackOK
        <5>3. /\ Depth[u] \in Int /\ Depth[c.service] \in Int
              /\ b[m].service \in Services /\ Depth[b[m].service] \in Int
          BY <1>1, <1>4, <2>1, DepthFalls DEF Frames
        <5> QED
          BY <1>3, <2>1, <5>2, <5>3
      <4> QED
        BY <4>1, <4>2
    <3>2. ASSUME NEW n \in 1 .. k + 1
          PROVE  /\ s[n].step = "find" => s[n].instance = NoInstance
                 /\ s[n].step # "find" => s[n].instance = <<s[n].service, t>>
                 /\ n # k + 1 => s[n].step = "insert"
                 /\ \A m \in 1 .. n - 1 : Depth[s[n].service] < Depth[s[m].service]
      <4>1. CASE n = k + 1
        <5>1. k \in Nat
          BY <1>1
        <5>2. n - 1 = k /\ s[n] = l
          BY <2>4, <4>1, <5>1
        <5> QED
          BY <2>2, <2>4, <3>1, <4>1, <5>2
      <4>2. CASE n # k + 1
        <5>1. n \in 1 .. k /\ \A m \in 1 .. n - 1 : m \in 1 .. k
          BY <1>1, <4>2
        <5>2. n = k => s[n].step = "insert"
          BY <1>3, <2>4, <5>1
        <5> QED
          BY <1>3, <1>5, <2>4, <5>1, <5>2 DEF StackOK
      <4> QED
        BY <4>1, <4>2
    <3> QED
      BY <2>4, <3>2 DEF StackOK
  <2>6. ASSUME NEW n \in 1 .. Len(s), n > k
        PROVE  s[n] = l
    <3>1. k \in Nat
      BY <1>1
    <3>2. n = k + 1
      BY <2>4, <2>6, <3>1
    <3> QED
      BY <2>4, <3>2
  <2>7. \A n \in 1 .. k - 1 : s[n] = stack[t][n]
    BY <1>1, <1>3, <2>4
  <2>8. s[k] = c /\ k \in 1 .. Len(s) /\ k <= Len(s)
    BY <1>1, <1>3, <2>4
  <2> QED
    BY <2>2, <2>4, <2>5, <2>6, <2>7, <2>8 DEF k
<1> QED
  BY <1>6, <1>7

LEMMA FindMiss ==
  ASSUME RegistryInv, NEW t \in Threads, At(t, "find"),
         services_[Top(t).service] = NoInstance,
         Construct(t, Top(t).service),
         UNCHANGED <<mutex_, services_, contextVars>>
  PROVE  RegistryInv'
<1> DEFINE k == Len(stack[t])  i == <<Top(t).service, t>>
           c == Frame(Top(t).service, i, "insert")
<1>1. /\ TypeOK /\ StacksOK /\ CallsOK /\ Owned /\ KeysOK /\ PhasesOK
      /\ Calling(t) /\ Top(t).step = "find"
      /\ UNCHANGED <<mutex_, services_, phase, at, handed, task_, task_mutex>>
      /\ life' = [life EXCEPT ![i] = "made"]
      /\ member' = [member EXCEPT ![i] = NoInstance]
      /\ stack' = [stack EXCEPT ![t] = stack'[t]]
      /\ stack'[t] = Append(Callers(t), c)
            \o (IF Uses[c.service] = NoService
                THEN <<>> ELSE <<Lookup(Uses[c.service])>>)
  BY DEF RegistryInv, At, contextVars, Construct, TypeOK, Frame
<1>2. /\ phase = "open" /\ Top(t).service \in Services
      /\ k \in 1 .. k /\ Top(t) = stack[t][k]
  BY <1>1, TopKnown
<1>3. /\ i \in Instances /\ c \in Frames /\ c.step = "insert"
      /\ c.service = Top(t).service /\ c.instance = i /\ i # NoInstance
  BY <1>2, RegistryAssumption DEF Instances, Frame, Frames
<1> DEFINE s == stack'[t]
<1>4. s = Begun(Callers(t), c)
  BY <1>1 DEF Begun
<1>5. c.instance = <<c.service, t>>
  BY <1>3
<1> HIDE DEF c, s
<1>6. /\ s \in Seq(Frames) /\ StackOK(t, s)
      /\ k \in 1 .. Len(s) /\ s[k] = c
      /\ \A n \in 1 .. k - 1 : s[n] = stack[t][n]
      /\ \A n \in 1 .. Len(s) : n > k =>
           s[n].step = "find" /\ s[n].instance = NoInstance
  <2>1. /\ Calling(t) /\ Top(t).step = "find" /\ c \in Frames
        /\ c.step = "insert" /\ c.service = Top(t).service
        /\ c.instance = <<c.service, t>>
    BY <1>1, <1>3, <1>5
  <2>2. /\ s \in Seq(Frames) /\ StackOK(t, s)
        /\ Len(stack[t]) <= Len(s) /\ Len(stack[t]) \in 1 .. Len(s)
        /\ s[Len(stack[t])] = c
        /\ \A n \in 1 .. Len(stack[t]) - 1 : s[n] = stack[t][n]
        /\ \A n \in 1 .. Len(s) : n > Len(stack[t]) =>
             s[n].step = "find" /\ s[n].instance = NoInstance
    BY <1>4, <2>1, ConstructStack
  <2> QED
    BY <2>2
<1>7. \A u \in Threads \ {t} : stack'[u] = stack[u]
  BY <1>1 DEF TypeOK
<1>8. \A j \in Instances : life'[j] = IF j = i THEN "made" ELSE life[j]
  BY <1>1 DEF TypeOK
<1>9. TypeOK'
  <2>1. stack' \in [Threads -> Seq(Frames)]
    BY <1>1, <1>6 DEF TypeOK, s
  <2>2. life' \in [Instances -> {"none", "made", "shut"}]
    BY <1>1 DEF TypeOK
  <2>3. member' \in [Instances -> Instances \cup {NoInstance}]
    BY <1>1 DEF TypeOK
  <2> QED
    BY <1>1, <2>1, <2>2, <2>3 DEF TypeOK
<1>10. StacksOK'
  <2>1. \A u \in Threads : StackOK(u, stack'[u])
    BY <1>1, <1>6, <1>7 DEF StacksOK, s
  <2> QED
    BY <2>1 DEF StacksOK, StackOK
<1>11. CallsOK'
  <2>1. ASSUME NEW d, CallOK(d, life, services_), d.step # "find" => d.instance \in Instances
        PROVE  CallOK(d, life', services_')
    BY <1>1, <1>8, <2>1 DEF CallOK
  <2>2. CallOK(c, life', services_')
    BY <1>1, <1>3, <1>8 DEF CallOK
  <2>3. ASSUME NEW n \in 1 .. Len(s)
        PROVE  CallOK(s[n], life', services_')
    <3>1. CASE n = k
      BY <1>6, <2>2, <3>1
    <3>2. CASE n > k
      BY <1>6, <3>2 DEF CallOK
    <3>3. CASE n < k
      <4>1. n \in 1 .. k - 1 /\ n \in 1 .. k
        BY <1>2, <3>3
      <4>2. CallOK(stack[t][n], life, services_)
        BY <1>1, <4>1 DEF CallsOK
      <4>3. stack[t][n].step # "find" => stack[t][n].instance \in Instances
        BY <1>1, <4>1, CallKnown
      <4> QED
        BY <1>6, <2>1, <4>1, <4>2, <4>3
    <3> QED
      BY <1>2, <3>1, <3>2, <3>3
  <2>4. \A u \in Threads \ {t} : \A n \in 1 .. Len(stack[u]) :
         CallOK(stack[u][n], life', services_')
    BY <1>1, <2>1, CallKnown DEF CallsOK
  <2>5. \A u \in Threads : \A n \in 1 .. Len(stack'[u]) :
         CallOK(stack'[u][n], life', services_')
    BY <1>7, <2>3, <2>4 DEF s
  <2> QED
    BY <2>5 DEF CallsOK
<1>12. Owned'
  <2>1. Held(i, stack'[i[2]])
    <3>1. Held(i, s)
      BY <1>3, <1>6 DEF Held
    <3> QED
      BY <3>1 DEF s
  <2>2. ASSUME NEW j \in Instances, Held(j, stack[j[2]]), j # i
        PROVE  Held(j, stack'[j[2]])
    <3>1. PICK n \in 1 .. Len(stack[j[2]]) : stack[j[2]][n].instance = j
      BY <2>2 DEF Held
    <3>2. CASE j[2] = t
      <4>1. stack[t][k].instance = NoInstance
        BY <1>1, <1>2 DEF StacksOK, StackOK
      <4>2. n # k /\ n \in 1 .. k
        BY <3>1, <3>2, <4>1, RegistryAssumption
      <4>3. n \in 1 .. k - 1 /\ n \in 1 .. Len(s)
        BY <1>6, <4>2
      <4>4. s[n].instance = j
        BY <1>6, <3>1, <3>2, <4>3
      <4> QED
        BY <3>2, <4>3, <4>4 DEF Held, s
    <3>3. CASE j[2] # t
      <4>1. stack'[j[2]] = stack[j[2]]
        BY <1>7, <3>3 DEF Instances
      <4> QED
        BY <3>1, <4>1 DEF Held
    <3> QED
      BY <3>2, <3>3
  <2> QED
    BY <1>1, <1>8, <2>1, <2>2 DEF Owned, Registered
<1>13. KeysOK' /\ PhasesOK'
  <2>1. \A r \in Services : services_[r] # NoInstance => services_[r] \in Instances
    BY <1>1 DEF TypeOK
  <2> QED
    BY <1>1, <1>2, <1>8, <2>1 DEF KeysOK, PhasesOK
<1>14. RefsOK'
  <2>1. \A j \in Instances : member'[j] = IF j = i THEN NoInstance ELSE member[j]
    BY <1>1 DEF TypeOK
  <2> QED
    BY <1>1, <1>2, <1>8, <2>1 DEF RegistryInv, RefsOK, Registered
<1> QED
  BY <1>9, <1>10, <1>11, <1>12, <1>13, <1>14 DEF RegistryInv

LEMMA FindKeeps ==
  ASSUME RegistryInv, NEW t \in Threads, Find(t)
  PROVE  RegistryInv'
<1>1. /\ At(t, "find")
      /\ UNCHANGED <<mutex_, services_, contextVars>>
  BY DEF Find
<1>2. CASE services_[Top(t).service] # NoInstance
  BY <1>1, <1>2, FindHit DEF Find
<1>3. CASE services_[Top(t).service] = NoInstance
  BY <1>1, <1>3, FindMiss DEF Find
<1> QED
  BY <1>2, <1>3

LEMMA ThrowKeeps ==
  ASSUME RegistryInv, NEW t \in Threads, ConstructorThrows(t)
  PROVE  RegistryInv'
<1> DEFINE undone == {stack[t][n].instance : n \in DOMAIN stack[t]}
<1>1. /\ TypeOK /\ StacksOK /\ CallsOK /\ Owned /\ KeysOK /\ PhasesOK /\ RefsOK
      /\ Calling(t)
      /\ UNCHANGED <<mutex_, services_, task_, handed, member, phase, at>>
      /\ life' = [i \in Instances |-> IF i \in undone THEN "none" ELSE life[i]]
      /\ stack' = [stack EXCEPT ![t] = <<>>]
      /\ task_mutex' \in {task_mutex, NoThread}
  BY DEF RegistryInv, ConstructorThrows, At, contextVars
<1>2. phase = "open"
  BY <1>1, TopKnown
<1>3. stack'[t] = <<>> /\ \A u \in Threads \ {t} : stack'[u] = stack[u]
  BY <1>1 DEF TypeOK
<1>4. \A i \in Instances : life'[i] = IF i \in undone THEN "none" ELSE life[i]
  BY <1>1
<1>5. DOMAIN stack[t] = 1 .. Len(stack[t])
  BY <1>1 DEF TypeOK
<1>6. ASSUME NEW i \in Instances, i \in undone
      PROVE  i[2] = t /\ \A s \in Services : services_[s] # i
  <2>1. PICK n \in 1 .. Len(stack[t]) : stack[t][n].instance = i
    BY <1>5, <1>6
  <2>2. stack[t][n].step # "find"
    <3>1. i # NoInstance
      BY <1>6, RegistryAssumption
    <3> QED
      BY <1>1, <2>1, <3>1, CallKnown
  <2>3. /\ stack[t][n].instance = <<stack[t][n].service, t>>
        /\ \A s \in Services : services_[s] # stack[t][n].instance
    BY <2>2, CallOwns
  <2> QED
    BY <2>1, <2>3
<1> HIDE DEF undone
<1>7. TypeOK'
  <2>1. stack' \in [Threads -> Seq(Frames)]
    BY <1>1 DEF TypeOK
  <2>2. life' \in [Instances -> {"none", "made", "shut"}]
    BY <1>1 DEF TypeOK
  <2> QED
    BY <1>1, <2>1, <2>2 DEF TypeOK
<1>8. StacksOK'
  <2>1. \A u \in Threads : StackOK(u, stack'[u])
    BY <1>1, <1>3 DEF StacksOK, StackOK
  <2> QED
    BY <2>1 DEF StacksOK
<1>9. CallsOK'
  <2>1. ASSUME NEW u \in Threads \ {t}, NEW n \in 1 .. Len(stack[u])
        PROVE  CallOK(stack[u][n], life', services_')
    <3>1. CASE stack[u][n].step = "find"
      BY <3>1 DEF CallOK
    <3>2. CASE stack[u][n].step # "find"
      <4> DEFINE i == stack[u][n].instance
      <4>1. i \in Instances /\ i[2] = u
        BY <3>2, CallOwns
      <4>2. life'[i] = life[i]
        BY <1>4, <1>6, <4>1
      <4> QED
        BY <1>1, <4>2 DEF CallsOK, CallOK
    <3> QED
      BY <3>1, <3>2
  <2>2. \A u \in Threads : \A n \in 1 .. Len(stack'[u]) :
         CallOK(stack'[u][n], life', services_')
    BY <1>3, <2>1
  <2> QED
    BY <2>2 DEF CallsOK
<1>10. Owned'
  <2>1. ASSUME NEW i \in Instances, life'[i] # "none"
        PROVE  Held(i, stack'[i[2]]) \/ services_[i[1]] = i
    <3>1. i \notin undone /\ life[i] # "none" /\ i[2] \in Threads
      BY <1>4, <2>1 DEF Instances
    <3>2. ~Held(i, stack[t])
      BY <1>5, <3>1 DEF Held, undone
    <3> QED
      BY <1>1, <1>3, <3>1, <3>2 DEF Owned, Registered
  <2> QED
    BY <1>1, <2>1 DEF Owned, Registered
<1>11. KeysOK' /\ PhasesOK'
  <2>1. ASSUME NEW s \in Services, services_[s] # NoInstance
        PROVE  life'[services_[s]] = life[services_[s]]
    <3>1. services_[s] \in Instances
      BY <1>1, <2>1 DEF TypeOK
    <3> QED
      BY <1>4, <1>6, <3>1
  <2> QED
    BY <1>1, <1>2, <2>1 DEF KeysOK, PhasesOK
<1>12. RefsOK'
  BY <1>1, <1>4 DEF RefsOK, Registered
<1> QED
  BY <1>7, <1>8, <1>9, <1>10, <1>11, <1>12 DEF RegistryInv

(* The second lookup, won.                                                 *)
LEMMA InsertWins ==
  ASSUME RegistryInv, NEW t \in Threads, At(t, "insert"),
         services_[Top(t).service] = NoInstance,
         services_' = [services_ EXCEPT ![Top(t).service] = Top(t).instance],
         Return(t, Top(t).instance),
         UNCHANGED <<mutex_, life, contextVars>>
  PROVE  RegistryInv'
<1> DEFINE k == Len(stack[t])  s == Top(t).service  i == Top(t).instance
<1>1. /\ TypeOK /\ StacksOK /\ CallsOK /\ Owned /\ KeysOK /\ PhasesOK
      /\ Calling(t) /\ Top(t).step = "insert"
      /\ UNCHANGED <<life, mutex_, phase, at>>
  BY DEF RegistryInv, At, contextVars
<1>2. phase = "open" /\ s \in Services /\ k \in 1 .. k /\ Top(t) = stack[t][k]
  BY <1>1, TopKnown
<1>3. /\ i = <<s, t>> /\ i \in Instances /\ i # NoInstance /\ life[i] = "made"
      /\ \A u \in Threads : \A m \in 1 .. Len(stack[u]) :
           stack[u][m].instance = i => u = t /\ m = k
  <2>1. k \in 1 .. Len(stack[t]) /\ stack[t][k].step # "find"
    BY <1>1, <1>2
  <2>2. /\ stack[t][k].instance = <<stack[t][k].service, t>>
        /\ stack[t][k].instance \in Instances
        /\ life[stack[t][k].instance] = "made"
        /\ \A u \in Threads : \A m \in 1 .. Len(stack[u]) :
             stack[u][m].instance = stack[t][k].instance => u = t /\ m = k
    BY <2>1, CallOwns
  <2>3. i \in Instances => i # NoInstance
    BY RegistryAssumption
  <2> QED
    BY <1>2, <2>2, <2>3
<1>4. /\ task_mutex' \in Threads \cup {NoThread}
      /\ task_' \in {task_, i} /\ handed' \subseteq handed \cup {i}
      /\ member' \in [Instances -> Instances \cup {NoInstance}]
      /\ \A j \in Instances : member'[j] \in {member[j], i}
  BY <1>1, <1>3, ReturnFacts
<1>5. /\ stack' \in [Threads -> Seq(Frames)] /\ StacksOK'
      /\ \A u \in Threads : \A n \in 1 .. Len(stack'[u]) :
           /\ n \in 1 .. Len(stack[u]) /\ stack'[u][n] = stack[u][n]
           /\ u = t => n # k
      /\ \A j \in Instances : Held(j, stack[j[2]]) /\ j # i => Held(j, stack'[j[2]])
  BY <1>1, <1>3, PopStacks
<1>6. \A r \in Services : services_'[r] = IF r = s THEN i ELSE services_[r]
  BY <1>1, <1>2 DEF TypeOK
<1> HIDE DEF i, s
<1>7. TypeOK'
  <2>1. services_' \in [Services -> Instances \cup {NoInstance}]
    BY <1>1, <1>3 DEF TypeOK, i
  <2> QED
    BY <1>1, <1>3, <1>4, <1>5, <2>1 DEF TypeOK
<1>8. CallsOK'
  <2>1. ASSUME NEW u \in Threads, NEW n \in 1 .. Len(stack'[u])
        PROVE  CallOK(stack[u][n], life', services_')
    <3>1. n \in 1 .. Len(stack[u]) /\ (u = t => n # k)
      BY <1>5
    <3>2. CallOK(stack[u][n], life, services_) /\ stack[u][n].service \in Services
      BY <1>1, <3>1, CallKnown DEF CallsOK
    <3>3. stack[u][n].instance # i
      BY <1>3, <3>1
    <3> QED
      BY <1>1, <1>3, <1>6, <3>2, <3>3 DEF CallOK
  <2>2. \A u \in Threads : \A n \in 1 .. Len(stack'[u]) :
          CallOK(stack'[u][n], life', services_')
    BY <1>5, <2>1
  <2> QED
    BY <2>2 DEF CallsOK
<1>9. Owned'
  <2>1. ASSUME NEW j \in Instances, life[j] # "none"
        PROVE  Held(j, stack'[j[2]]) \/ services_'[j[1]] = j
    <3>1. j[1] \in Services /\ j # NoInstance
      BY RegistryAssumption DEF Instances
    <3>2. i[1] = s
      BY <1>3
    <3>3. CASE j = i
      BY <1>6, <3>1, <3>2, <3>3
    <3>4. CASE j # i
      <4>1. Held(j, stack[j[2]]) \/ services_[j[1]] = j
        BY <1>1, <2>1 DEF Owned, Registered
      <4>2. services_[j[1]] = j => j[1] # s
        BY <3>1 DEF s
      <4> QED
        BY <1>5, <1>6, <3>1, <3>4, <4>1, <4>2
    <3> QED
      BY <3>3, <3>4
  <2> QED
    BY <1>1, <2>1 DEF Owned, Registered
<1>10. KeysOK' /\ PhasesOK'
  BY <1>1, <1>2, <1>3, <1>6 DEF KeysOK, PhasesOK
<1>11. RefsOK'
  <2>1. services_'[i[1]] = i
    BY <1>2, <1>3, <1>6
  <2>2. \A r \in Services : services_[r] # NoInstance => services_'[r] = services_[r]
    BY <1>6 DEF s
  <2> QED
    BY <1>1, <1>2, <1>3, <1>4, <2>1, <2>2, RefsKept
<1> QED
  BY <1>5, <1>7, <1>8, <1>9, <1>10, <1>11 DEF RegistryInv

(* The second lookup, lost: the call goes on to destroy its instance.      *)
LEMMA InsertLoses ==
  ASSUME RegistryInv, NEW t \in Threads, At(t, "insert"),
         services_[Top(t).service] # NoInstance, mutex_' = t,
         stack' = [stack EXCEPT ![t] =
           Append(Callers(t), Frame(Top(t).service, Top(t).instance, "discard"))],
         UNCHANGED <<services_, task_mutex, task_, handed, member, life, contextVars>>
  PROVE  RegistryInv'
<1> DEFINE k == Len(stack[t])
           c == Frame(Top(t).service, Top(t).instance, "discard")
           s == Append(Callers(t), c)
<1>1. /\ TypeOK /\ StacksOK /\ CallsOK /\ Owned /\ KeysOK /\ PhasesOK /\ RefsOK
      /\ Calling(t) /\ Top(t).step = "insert"
      /\ UNCHANGED <<services_, task_mutex, task_, handed, member, life, phase, at>>
      /\ stack' = [stack EXCEPT ![t] = s]
  BY DEF RegistryInv, At, contextVars
<1>2. /\ phase = "open" /\ k \in 1 .. k
      /\ Top(t) = stack[t][k] /\ Top(t) \in Frames
      /\ Callers(t) \in Seq(Frames) /\ Len(Callers(t)) = k - 1
      /\ \A n \in 1 .. k - 1 : Callers(t)[n] = stack[t][n]
  BY <1>1, TopKnown
<1>3. /\ c \in Frames /\ c.step = "discard" /\ c.service = stack[t][k].service
      /\ c.instance = stack[t][k].instance
  BY <1>2 DEF Frame, Frames
<1> HIDE DEF c
<1>4. /\ s \in Seq(Frames) /\ Len(s) = k /\ s[k] = c
      /\ \A n \in 1 .. k - 1 : s[n] = stack[t][n]
  <2> DEFINE b == Callers(t)
  <2>1. b \in Seq(Frames) /\ Len(b) = k - 1
    BY <1>2
  <2> HIDE DEF b
  <2>2. /\ Append(b, c) \in Seq(Frames) /\ Len(Append(b, c)) = Len(b) + 1
        /\ Append(b, c)[Len(b) + 1] = c
        /\ \A n \in 1 .. Len(b) : Append(b, c)[n] = b[n]
    BY <1>3, <2>1, AppendFacts
  <2> QED
    BY <1>2, <2>1, <2>2 DEF b
<1>5. stack'[t] = s /\ \A u \in Threads \ {t} : stack'[u] = stack[u]
  BY <1>1 DEF TypeOK
<1>6. stack' \in [Threads -> Seq(Frames)]
  BY <1>1, <1>4 DEF TypeOK
<1> HIDE DEF s
<1>7. \A n \in 1 .. k :
        /\ s[n].service = stack[t][n].service
        /\ s[n].instance = stack[t][n].instance
        /\ IF n = k THEN s[n].step = "discard" ELSE s[n].step = stack[t][n].step
  BY <1>2, <1>3, <1>4
<1>8. stack[t][k].step = "insert"
  BY <1>1, <1>2
<1>9. TypeOK'
  BY <1>1, <1>6 DEF TypeOK
<1>10. StacksOK'
  <2>1. StackOK(t, stack[t])
    BY <1>1 DEF StacksOK
  <2>2. \A n \in 1 .. k : \A m \in 1 .. n - 1 : m \in 1 .. k
    BY <1>2
  <2>3. StackOK(t, s)
    BY <1>4, <1>7, <1>8, <2>1, <2>2 DEF StackOK
  <2>4. \A u \in Threads : StackOK(u, stack'[u])
    BY <1>1, <1>5, <2>3 DEF StacksOK
  <2> QED
    BY <2>4 DEF StacksOK
<1>11. CallsOK'
  <2>1. \A n \in 1 .. k : CallOK(stack[t][n], life, services_)
    BY <1>1 DEF CallsOK
  <2>2. services_[stack[t][k].service] # NoInstance
    BY <1>2
  <2>3. \A n \in 1 .. k : CallOK(s[n], life, services_)
    BY <1>7, <1>8, <2>1, <2>2 DEF CallOK
  <2>4. \A u \in Threads : \A n \in 1 .. Len(stack'[u]) :
          CallOK(stack'[u][n], life', services_')
    BY <1>1, <1>4, <1>5, <2>3 DEF CallsOK
  <2> QED
    BY <2>4 DEF CallsOK
<1>12. Owned'
  <2>1. \A j \in Instances : Held(j, stack[j[2]]) => Held(j, stack'[j[2]])
    <3>1. \A j : Held(j, stack[t]) => Held(j, s)
      BY <1>4, <1>7 DEF Held
    <3>2. \A j \in Instances : j[2] \in Threads
      BY DEF Instances
    <3> QED
      BY <1>5, <3>1, <3>2
  <2> QED
    BY <1>1, <2>1 DEF Owned, Registered
<1>13. KeysOK' /\ PhasesOK' /\ RefsOK'
  BY <1>1, <1>2 DEF KeysOK, PhasesOK, RefsOK, Registered
<1> QED
  BY <1>9, <1>10, <1>11, <1>12, <1>13 DEF RegistryInv

LEMMA InsertKeeps ==
  ASSUME RegistryInv, NEW t \in Threads, Insert(t)
  PROVE  RegistryInv'
<1>1. At(t, "insert") /\ UNCHANGED <<life, contextVars>>
  BY DEF Insert
<1>2. CASE services_[Top(t).service] # NoInstance
  <2>1. /\ mutex_' = t
        /\ stack' = [stack EXCEPT ![t] =
             Append(Callers(t), Frame(Top(t).service, Top(t).instance, "discard"))]
        /\ UNCHANGED <<services_, task_mutex, task_, handed, member>>
    BY <1>2 DEF Insert
  <2> QED
    BY <1>1, <1>2, <2>1, InsertLoses
<1>3. CASE services_[Top(t).service] = NoInstance
  <2>1. /\ services_' = [services_ EXCEPT ![Top(t).service] = Top(t).instance]
        /\ Return(t, Top(t).instance) /\ mutex_' = mutex_
    BY <1>3 DEF Insert
  <2> QED
    BY <1>1, <1>3, <2>1, InsertWins
<1> QED
  BY <1>2, <1>3

LEMMA DiscardKeeps ==
  ASSUME RegistryInv, NEW t \in Threads, Discard(t)
  PROVE  RegistryInv'
<1> DEFINE k == Len(stack[t])  i == Top(t).instance
           r == services_[Top(t).service]
<1>1. /\ TypeOK /\ StacksOK /\ CallsOK /\ Owned /\ KeysOK /\ PhasesOK
      /\ Calling(t) /\ Top(t).step = "discard"
      /\ life' = [life EXCEPT ![i] = "none"] /\ mutex_' = NoThread
      /\ Return(t, r) /\ UNCHANGED <<services_, phase, at>>
  BY DEF RegistryInv, Discard, At, contextVars
<1>2. /\ phase = "open" /\ Top(t).service \in Services
      /\ k \in 1 .. Len(stack[t]) /\ k \in Nat
      /\ Top(t) = stack[t][k] /\ stack[t][k].step # "find"
  BY <1>1, TopKnown
<1>3. /\ i \in Instances
      /\ \A s \in Services : services_[s] # i
      /\ \A u \in Threads : \A m \in 1 .. Len(stack[u]) :
           stack[u][m].instance = i => u = t /\ m = k
  <2>1. /\ stack[t][k].instance \in Instances
        /\ \A s \in Services : services_[s] # stack[t][k].instance
        /\ \A u \in Threads : \A m \in 1 .. Len(stack[u]) :
             stack[u][m].instance = stack[t][k].instance => u = t /\ m = k
    BY <1>2, CallOwns
  <2> QED
    BY <1>2, <2>1
<1>4. r \in Instances /\ services_[r[1]] = r
  <2>1. CallOK(stack[t][k], life, services_)
    BY <1>1, <1>2 DEF CallsOK
  <2>2. r # NoInstance
    BY <1>1, <1>2, <2>1 DEF CallOK
  <2> QED
    BY <1>1, <1>2, <2>2 DEF TypeOK, KeysOK
<1> HIDE DEF i, r
<1>5. /\ task_mutex' \in Threads \cup {NoThread}
      /\ task_' \in {task_, r} /\ handed' \subseteq handed \cup {r}
      /\ member' \in [Instances -> Instances \cup {NoInstance}]
      /\ \A j \in Instances : member'[j] \in {member[j], r}
  BY <1>1, <1>4, ReturnFacts
<1>6. /\ stack' \in [Threads -> Seq(Frames)] /\ StacksOK'
      /\ \A u \in Threads : \A n \in 1 .. Len(stack'[u]) :
           /\ n \in 1 .. Len(stack[u]) /\ stack'[u][n] = stack[u][n]
           /\ u = t => n # k
      /\ \A j \in Instances : Held(j, stack[j[2]]) /\ j # i => Held(j, stack'[j[2]])
  BY <1>1, <1>4, PopStacks DEF i
<1>7. \A j \in Instances : life'[j] = IF j = i THEN "none" ELSE life[j]
  BY <1>1 DEF TypeOK
<1>8. TypeOK'
  <2>1. life' \in [Instances -> {"none", "made", "shut"}]
    BY <1>1 DEF TypeOK
  <2> QED
    BY <1>1, <1>4, <1>5, <1>6, <2>1 DEF TypeOK
<1>9. CallsOK'
  <2>1. ASSUME NEW u \in Threads, NEW n \in 1 .. Len(stack'[u])
        PROVE  CallOK(stack[u][n], life', services_')
    <3>1. n \in 1 .. Len(stack[u]) /\ (u = t => n # k)
      BY <1>6
    <3>2. /\ CallOK(stack[u][n], life, services_) /\ stack[u][n].instance # i
      BY <1>1, <1>3, <3>1 DEF CallsOK
    <3>3. stack[u][n].step # "find" => stack[u][n].instance \in Instances
      BY <3>1, CallOwns
    <3> QED
      BY <1>1, <1>7, <3>2, <3>3 DEF CallOK
  <2>2. \A u \in Threads : \A n \in 1 .. Len(stack'[u]) :
          CallOK(stack'[u][n], life', services_')
    BY <1>6, <2>1
  <2> QED
    BY <2>2 DEF CallsOK
<1>10. Owned'
  BY <1>1, <1>6, <1>7 DEF Owned, Registered
<1>11. KeysOK' /\ PhasesOK'
  <2>1. \A s \in Services : services_[s] # NoInstance =>
          life'[services_[s]] = life[services_[s]]
    BY <1>1, <1>3, <1>7 DEF TypeOK
  <2> QED
    BY <1>1, <1>2, <2>1 DEF KeysOK, PhasesOK
<1>12. RefsOK'
  <2>1. services_'[r[1]] = r
    BY <1>1, <1>4
  <2>2. \A j \in Instances : life'[j] # "none" =>
          life[j] # "none" /\ member'[j] \in {member[j], r}
    BY <1>5, <1>7
  <2>3. \A s \in Services : services_[s] # NoInstance => services_'[s] = services_[s]
    BY <1>1
  <2> QED
    BY <1>2, <1>4, <1>5, <2>1, <2>2, <2>3, RefsKept
<1> QED
  BY <1>6, <1>8, <1>9, <1>10, <1>11, <1>12 DEF RegistryInv

(* A thread that was in no call makes one.                                 *)
LEMMA StartKeeps ==
  ASSUME RegistryInv, NEW t \in Threads, ~Calling(t), phase = "open",
         NEW s \in Services, stack' = [stack EXCEPT ![t] = <<Lookup(s)>>],
         task_mutex' \in {task_mutex, t},
         UNCHANGED <<mutex_, services_, task_, handed, member, life, contextVars>>
  PROVE  RegistryInv'
<1>1. /\ TypeOK /\ StacksOK /\ CallsOK /\ Owned /\ KeysOK /\ PhasesOK /\ RefsOK
      /\ UNCHANGED <<mutex_, services_, task_, handed, member, life, phase, at>>
      /\ stack[t] = <<>>
  BY DEF RegistryInv, contextVars, Calling
<1> DEFINE c == Lookup(s)
<1>2. c \in Frames /\ c.step = "find" /\ c.instance = NoInstance
  BY DEF Lookup, Frame, Frames
<1>3. /\ stack'[t] = <<c>> /\ stack' = [stack EXCEPT ![t] = <<c>>]
      /\ \A u \in Threads \ {t} : stack'[u] = stack[u]
  BY <1>1 DEF TypeOK
<1> HIDE DEF c
<1>4. <<c>> \in Seq(Frames) /\ Len(<<c>>) = 1 /\ <<c>>[1] = c
  BY <1>2
<1>5. TypeOK'
  <2>1. stack' \in [Threads -> Seq(Frames)]
    BY <1>1, <1>3, <1>4 DEF TypeOK
  <2> QED
    BY <1>1, <2>1 DEF TypeOK
<1>6. StacksOK'
  <2>1. StackOK(t, <<c>>)
    BY <1>2, <1>4 DEF StackOK
  <2>2. \A u \in Threads : StackOK(u, stack'[u])
    BY <1>1, <1>3, <2>1 DEF StacksOK
  <2> QED
    BY <2>2 DEF StacksOK
<1>7. CallsOK'
  <2>1. \A n \in 1 .. Len(<<c>>) : CallOK(<<c>>[n], life, services_)
    BY <1>2, <1>4 DEF CallOK
  <2>2. \A u \in Threads : \A n \in 1 .. Len(stack'[u]) :
          CallOK(stack'[u][n], life', services_')
    BY <1>1, <1>3, <2>1 DEF CallsOK
  <2> QED
    BY <2>2 DEF CallsOK
<1>8. Owned'
  <2>1. \A j : ~Held(j, stack[t])
    BY <1>1 DEF Held
  <2>2. \A j \in Instances : Held(j, stack[j[2]]) => Held(j, stack'[j[2]])
    BY <1>3, <2>1 DEF Instances
  <2> QED
    BY <1>1, <2>2 DEF Owned, Registered
<1>9. KeysOK' /\ PhasesOK' /\ RefsOK'
  BY <1>1 DEF KeysOK, PhasesOK, RefsOK, Registered
<1> QED
  BY <1>5, <1>6, <1>7, <1>8, <1>9 DEF RegistryInv

-----------------------------------------------------------------------------
(* The life of the context.                                                *)

LEMMA NothingHeld ==
  ASSUME RegistryInv, phase # "open"
  PROVE  /\ \A t \in Threads : stack[t] = <<>>
         /\ \A i \in Instances : life[i] # "none" => Registered(i)
<1>1. \A t \in Threads : stack[t] = <<>>
  BY DEF RegistryInv, PhasesOK
<1>2. \A i \in Instances : ~Held(i, stack[i[2]])
  BY <1>1 DEF Held, Instances
<1> QED
  BY <1>1, <1>2 DEF RegistryInv, Owned

LEMMA InitHolds == Init => RegistryInv
<1> SUFFICES ASSUME Init PROVE RegistryInv
  OBVIOUS
<1>1. TypeOK
  <2>1. Len(KeyOrder) \in Nat
    BY RegistryAssumption
  <2>2. 1 \in 1 .. Len(KeyOrder) + 1
    BY <2>1
  <2> QED
    BY <2>2 DEF Init, TypeOK
<1>2. StacksOK /\ CallsOK /\ Owned
  BY DEF Init, StacksOK, StackOK, CallsOK, Owned
<1>3. KeysOK /\ PhasesOK /\ RefsOK
  BY DEF Init, KeysOK, PhasesOK, RefsOK
<1> QED
  BY <1>1, <1>2, <1>3 DEF RegistryInv

LEMMA AddImplKeeps ==
  ASSUME RegistryInv, NEW t \in Threads, AddImpl(t)
  PROVE  RegistryInv'
<1> DEFINE i == <<Scheduler, t>>
<1>1. /\ TypeOK /\ PhasesOK /\ phase = "new" /\ phase' = "open"
      /\ services_' = [services_ EXCEPT ![Scheduler] = i]
      /\ life' = [life EXCEPT ![i] = "made"]
      /\ UNCHANGED <<mutex_, task_mutex, task_, stack, member, handed, at>>
  BY DEF RegistryInv, AddImpl
<1>2. i \in Instances /\ i # NoInstance /\ Scheduler \in Services
  BY RegistryAssumption DEF Instances
<1>3. /\ \A u \in Threads : stack[u] = <<>>
      /\ \A s \in Services : services_[s] = NoInstance
      /\ \A j \in Instances : member[j] = NoInstance
      /\ handed = {} /\ task_ = NoInstance
  BY <1>1 DEF PhasesOK
<1>4. /\ \A s \in Services : services_'[s] = IF s = Scheduler THEN i ELSE NoInstance
      /\ \A j \in Instances : life'[j] = IF j = i THEN "made" ELSE life[j]
  BY <1>1, <1>3 DEF TypeOK
<1>5. \A j \in Instances \ {i} : life[j] = "none"
  <2>1. \A j \in Instances : j[1] \in Services /\ j # NoInstance
    BY RegistryAssumption DEF Instances
  <2> QED
    BY <1>1, <1>3, <2>1, NothingHeld DEF Registered
<1>6. TypeOK'
  <2>1. services_' \in [Services -> Instances \cup {NoInstance}]
    BY <1>1, <1>2 DEF TypeOK
  <2>2. life' \in [Instances -> {"none", "made", "shut"}]
    BY <1>1 DEF TypeOK
  <2> QED
    BY <1>1, <2>1, <2>2 DEF TypeOK
<1>7. StacksOK' /\ CallsOK'
  BY <1>1, <1>3 DEF StacksOK, StackOK, CallsOK
<1>8. Owned'
  <2>1. \A j \in Instances : life'[j] # "none" => services_'[j[1]] = j
    BY <1>2, <1>4, <1>5
  <2> QED
    BY <2>1 DEF Owned, Registered
<1>9. KeysOK' /\ PhasesOK'
  BY <1>1, <1>2, <1>4 DEF KeysOK, PhasesOK
<1>10. RefsOK'
  BY <1>1, <1>3 DEF RefsOK
<1> QED
  BY <1>6, <1>7, <1>8, <1>9, <1>10 DEF RegistryInv

LEMMA ShutdownKeeps == RegistryInv /\ Shutdown => RegistryInv'
<1> SUFFICES ASSUME RegistryInv, Shutdown PROVE RegistryInv'
  OBVIOUS
<1>1. /\ TypeOK /\ StacksOK /\ CallsOK /\ Owned /\ KeysOK
      /\ \A t \in Threads : stack[t] = <<>>
      /\ phase = "open" /\ phase' = "shutting" /\ at' = 1
      /\ UNCHANGED <<mutex_, services_, task_mutex, task_, stack, member, handed,
                     life>>
  BY DEF RegistryInv, Shutdown, registryVars, Calling
<1>2. TypeOK'
  <2>1. Len(KeyOrder) \in Nat
    BY RegistryAssumption
  <2>2. 1 \in 1 .. Len(KeyOrder) + 1
    BY <2>1
  <2> QED
    BY <1>1, <2>2 DEF TypeOK
<1>3. StacksOK' /\ CallsOK' /\ Owned'
  BY <1>1 DEF StacksOK, CallsOK, Owned, Registered
<1>4. KeysOK' /\ PhasesOK' /\ RefsOK'
  BY <1>1 DEF KeysOK, PhasesOK, RefsOK
<1> QED
  BY <1>2, <1>3, <1>4 DEF RegistryInv

(* A loop over services_ comes to the next key.                            *)
LEMMA VisitFacts ==
  ASSUME RegistryInv, phase # "open", NEW becomes \in {"none", "shut"},
         Visit(KeyOrder, becomes)
  PROVE  /\ KeyOrder[at] \in Services /\ at \in Nat
         /\ at' = at + 1 /\ at' \in 1 .. Len(KeyOrder) + 1
         /\ life' \in [Instances -> {"none", "made", "shut"}]
         /\ \A j \in Instances :
              life'[j] = IF services_[KeyOrder[at]] = j THEN becomes ELSE life[j]
<1>1. /\ TypeOK /\ at <= Len(KeyOrder) /\ at' = at + 1
      /\ life' = IF services_[KeyOrder[at]] = NoInstance THEN life
                 ELSE [life EXCEPT ![services_[KeyOrder[at]]] = becomes]
  BY DEF RegistryInv, Visit
<1>2. Len(KeyOrder) \in Nat /\ at \in 1 .. Len(KeyOrder)
  <2>1. Len(KeyOrder) \in Nat
    BY RegistryAssumption
  <2>2. at \in 1 .. Len(KeyOrder) + 1
    BY <1>1 DEF TypeOK
  <2> QED
    BY <1>1, <2>1, <2>2
<1>3. KeyOrder[at] \in Services
  BY <1>2, RegistryAssumption
<1>4. services_[KeyOrder[at]] \in Instances \cup {NoInstance}
  BY <1>1, <1>3 DEF TypeOK
<1>5. life \in [Instances -> {"none", "made", "shut"}] /\ NoInstance \notin Instances
  BY <1>1, RegistryAssumption DEF TypeOK
<1>6. at \in Nat /\ at' = at + 1 /\ at' \in 1 .. Len(KeyOrder) + 1
  BY <1>1, <1>2
<1>7. /\ life' \in [Instances -> {"none", "made", "shut"}]
      /\ \A j \in Instances :
           life'[j] = IF services_[KeyOrder[at]] = j THEN becomes ELSE life[j]
  <2>1. CASE services_[KeyOrder[at]] = NoInstance
    BY <1>1, <1>5, <2>1
  <2>2. CASE services_[KeyOrder[at]] # NoInstance
    BY <1>1, <1>4, <1>5, <2>2
  <2> QED
    BY <2>1, <2>2
<1> QED
  BY <1>3, <1>6, <1>7

LEMMA ShutdownServicesKeeps == RegistryInv /\ ShutdownServices => RegistryInv'
<1> SUFFICES ASSUME RegistryInv, ShutdownServices PROVE RegistryInv'
  OBVIOUS
<1>1. /\ TypeOK /\ StacksOK /\ CallsOK /\ Owned /\ KeysOK /\ PhasesOK
      /\ phase = "shutting"
      /\ UNCHANGED <<mutex_, services_, task_mutex, stack, member, handed>>
      /\ \/ /\ Visit(KeyOrder, "shut") /\ phase' = "shutting"
            /\ task_' \in {task_, NoInstance}
         \/ phase' = "deleting" /\ at' = 1 /\ UNCHANGED <<life, task_>>
  BY DEF RegistryInv, ShutdownServices
<1>2. /\ \A t \in Threads : stack[t] = <<>>
      /\ \A i \in Instances : life[i] # "none" => services_[i[1]] = i
  BY <1>1, NothingHeld DEF Registered
<1>3. StacksOK' /\ CallsOK'
  BY <1>1, <1>2 DEF StacksOK, StackOK, CallsOK
<1>4. CASE Visit(KeyOrder, "shut") /\ phase' = "shutting" /\ task_' \in {task_, NoInstance}
  <2> DEFINE v == services_[KeyOrder[at]]
  <2>1. /\ at' \in 1 .. Len(KeyOrder) + 1 /\ KeyOrder[at] \in Services
        /\ life' \in [Instances -> {"none", "made", "shut"}]
        /\ \A j \in Instances : life'[j] = IF v = j THEN "shut" ELSE life[j]
    BY <1>1, <1>4, VisitFacts
  <2>2. TypeOK'
    BY <1>1, <1>4, <2>1 DEF TypeOK
  <2>3. v # NoInstance => services_[v[1]] = v
    BY <1>1, <2>1 DEF KeysOK
  <2>4. \A j \in Instances : j # NoInstance
    BY RegistryAssumption
  <2>5. \A s \in Services : services_[s] \in Instances \cup {NoInstance}
    BY <1>1 DEF TypeOK
  <2> HIDE DEF v
  <2>6. Owned'
    BY <1>1, <1>2, <2>1, <2>3, <2>4 DEF Owned, Registered
  <2>7. KeysOK' /\ PhasesOK' /\ RefsOK'
    BY <1>1, <1>2, <1>4, <2>1, <2>5 DEF KeysOK, PhasesOK, RefsOK
  <2> QED
    BY <1>3, <2>2, <2>6, <2>7 DEF RegistryInv
<1>5. CASE phase' = "deleting" /\ at' = 1 /\ UNCHANGED <<life, task_>>
  <2>1. TypeOK'
    <3>1. Len(KeyOrder) \in Nat
      BY RegistryAssumption
    <3>2. 1 \in 1 .. Len(KeyOrder) + 1
      BY <3>1
    <3> QED
      BY <1>1, <1>5, <3>2 DEF TypeOK
  <2>2. Owned' /\ KeysOK'
    BY <1>1, <1>2, <1>5 DEF Owned, Registered, KeysOK
  <2>3. PhasesOK' /\ RefsOK'
    BY <1>1, <1>2, <1>5 DEF PhasesOK, RefsOK
  <2> QED
    BY <1>3, <2>1, <2>2, <2>3 DEF RegistryInv
<1> QED
  BY <1>1, <1>4, <1>5

LEMMA DestroyServicesKeeps == RegistryInv /\ DestroyServices => RegistryInv'
<1> SUFFICES ASSUME RegistryInv, DestroyServices PROVE RegistryInv'
  OBVIOUS
<1>1. /\ TypeOK /\ StacksOK /\ CallsOK /\ Owned /\ KeysOK /\ PhasesOK
      /\ phase = "deleting"
      /\ UNCHANGED <<mutex_, task_mutex, task_, stack, member, handed>>
      /\ \/ Visit(KeyOrder, "none") /\ UNCHANGED <<phase, services_>>
         \/ /\ at > Len(KeyOrder) /\ services_' = [s \in Services |-> NoInstance]
            /\ phase' = "gone" /\ UNCHANGED <<at, life>>
  BY DEF RegistryInv, DestroyServices
<1>2. /\ \A t \in Threads : stack[t] = <<>>
      /\ \A i \in Instances : life[i] # "none" => services_[i[1]] = i
  BY <1>1, NothingHeld DEF Registered
<1>3. StacksOK' /\ CallsOK'
  BY <1>1, <1>2 DEF StacksOK, StackOK, CallsOK
<1>4. /\ \A s \in Services : services_[s] \in Instances \cup {NoInstance}
      /\ \A j \in Instances : j # NoInstance
      /\ \A n \in 1 .. at - 1 : services_[KeyOrder[n]] # NoInstance =>
           life[services_[KeyOrder[n]]] = "none"
  BY <1>1, RegistryAssumption DEF TypeOK, PhasesOK
<1>5. CASE Visit(KeyOrder, "none") /\ UNCHANGED <<phase, services_>>
  <2> DEFINE v == services_[KeyOrder[at]]
  <2>1. /\ at' \in 1 .. Len(KeyOrder) + 1 /\ KeyOrder[at] \in Services
        /\ at \in Nat /\ at' = at + 1
        /\ life' \in [Instances -> {"none", "made", "shut"}]
        /\ \A j \in Instances : life'[j] = IF v = j THEN "none" ELSE life[j]
    BY <1>1, <1>5, VisitFacts
  <2>2. TypeOK'
    BY <1>1, <1>5, <2>1 DEF TypeOK
  <2>3. Owned' /\ KeysOK' /\ RefsOK'
    BY <1>1, <1>2, <1>5, <2>1 DEF Owned, Registered, KeysOK, RefsOK
  <2>4. PhasesOK'
    <3>1. ASSUME NEW n \in 1 .. at' - 1, services_[KeyOrder[n]] # NoInstance
          PROVE  life'[services_[KeyOrder[n]]] = "none"
      <4>1. n \in 1 .. Len(KeyOrder)
        <5>1. Len(KeyOrder) \in Nat
          BY RegistryAssumption
        <5> QED
          BY <2>1, <5>1
      <4>2. KeyOrder[n] \in Services
        BY <4>1, RegistryAssumption
      <4>3. services_[KeyOrder[n]] \in Instances
        BY <1>4, <3>1, <4>2
      <4>4. n = at \/ n \in 1 .. at - 1
        BY <2>1
      <4> QED
        BY <1>4, <2>1, <3>1, <4>3, <4>4
    <3> QED
      BY <1>1, <1>2, <1>5, <3>1 DEF PhasesOK
  <2> QED
    BY <1>3, <2>2, <2>3, <2>4 DEF RegistryInv
<1>6. CASE /\ at > Len(KeyOrder) /\ services_' = [s \in Services |-> NoInstance]
           /\ phase' = "gone" /\ UNCHANGED <<at, life>>
  <2>1. \A j \in Instances : life[j] = "none"
    <3> SUFFICES ASSUME NEW j \in Instances, life[j] # "none" PROVE FALSE
      BY DEF TypeOK
    <3>1. services_[j[1]] = j /\ j[1] \in Services /\ j # NoInstance
      BY <1>2, <1>4 DEF Instances
    <3>2. PICK n \in 1 .. Len(KeyOrder) : KeyOrder[n] = j[1]
      BY <3>1, KeyPlaced
    <3>3. Len(KeyOrder) \in Nat /\ at \in Nat
      BY <1>1, RegistryAssumption DEF TypeOK
    <3>4. n \in 1 .. at - 1
      BY <1>6, <3>3
    <3> QED
      BY <1>4, <3>1, <3>2, <3>4
  <2>2. TypeOK'
    BY <1>1, <1>6 DEF TypeOK
  <2>3. \A s \in Services : services_'[s] = NoInstance
    BY <1>6
  <2>4. Owned' /\ KeysOK' /\ RefsOK' /\ PhasesOK'
    BY <1>1, <1>2, <1>6, <2>1, <2>3 DEF Owned, KeysOK, RefsOK, PhasesOK
  <2> QED
    BY <1>3, <2>2, <2>4 DEF RegistryInv
<1> QED
  BY <1>1, <1>5, <1>6

LEMMA NextKeeps == RegistryInv /\ [Next]_vars => RegistryInv'
<1> SUFFICES ASSUME RegistryInv, [Next]_vars PROVE RegistryInv'
  OBVIOUS
<1>1. CASE UNCHANGED vars
  <2>1. UNCHANGED <<mutex_, services_, task_mutex, task_, stack, member, handed,
                    life, phase, at>>
    BY <1>1 DEF vars, registryVars, contextVars
  <2> QED
    BY <2>1 DEF RegistryInv, TypeOK, StacksOK, CallsOK, Owned, KeysOK, PhasesOK,
                RefsOK, Registered
<1>2. ASSUME NEW t \in Threads, Continue(t) PROVE RegistryInv'
  BY <1>2, FindKeeps, InsertKeeps, DiscardKeeps DEF Continue
<1>3. ASSUME NEW t \in Threads, InitTask(t) PROVE RegistryInv'
  <2>1. Reactor \in Services
    BY RegistryAssumption
  <2> QED
    BY <1>3, <2>1, StartKeeps DEF InitTask
<1>4. ASSUME NEW t \in Threads, NEW s \in Services, UseService(t, s)
      PROVE  RegistryInv'
  BY <1>4, StartKeeps DEF UseService
<1> QED
  BY <1>1, <1>2, <1>3, <1>4, ThrowKeeps, AddImplKeeps, ShutdownKeeps,
     ShutdownServicesKeeps, DestroyServicesKeeps DEF Next

-----------------------------------------------------------------------------
(* The theorems.                                                           *)

(* The registry keeps its inductive invariant.                             *)
THEOREM RegistryInvariant == Spec => []RegistryInv
BY InitHolds, NextKeeps, PTL DEF Spec

(* Every variable of the registry has its type: use_service never returns  *)
(* a reference to nothing.                                                 *)
THEOREM RegistryTyped == Spec => []TypeOK
<1>1. RegistryInv => TypeOK
  BY DEF RegistryInv
<1> QED
  BY RegistryInvariant, <1>1, PTL

(* use_service: however many threads construct a service at once, every    *)
(* reference it has returned is to the instance that is registered.        *)
THEOREM EverybodyGetsTheOne == Spec => []OneInstance
<1>1. RegistryInv => OneInstance
  <2> SUFFICES ASSUME RegistryInv, phase = "open",
                      NEW i \in (handed \cup {task_} \cup
                        {member[j] : j \in {k \in Instances : life[k] # "none"}})
                          \ {NoInstance}
               PROVE  services_[i[1]] = i /\ life[i] = "made"
    BY DEF OneInstance
  <2>1. i \in Instances
    BY DEF RegistryInv, TypeOK
  <2>2. services_[i[1]] = i
    BY <2>1 DEF RegistryInv, RefsOK, Registered
  <2>3. i[1] \in Services /\ i # NoInstance
    BY <2>1 DEF Instances
  <2>4. life[i] = "made"
    BY <2>2, <2>3 DEF RegistryInv, KeysOK
  <2> QED
    BY <2>2, <2>4
<1> QED
  BY RegistryInvariant, <1>1, PTL

(* use_service, destroy_services: whatever loses a race or throws, an      *)
(* instance is owned by one call or by the registry until it is deleted.   *)
THEOREM InstancesStayOwned == Spec => []EachInstanceOwned
<1>1. RegistryInv => EachInstanceOwned
  <2> SUFFICES ASSUME RegistryInv, phase # "deleting", NEW i \in Instances
               PROVE  Cardinality({c \in UNION {{t} \X DOMAIN stack[t] : t \in Threads} :
                                     stack[c[1]][c[2]].instance = i})
                        + (IF services_[i[1]] = i THEN 1 ELSE 0)
                      = IF life[i] = "none" THEN 0 ELSE 1
    BY DEF EachInstanceOwned
  <2> DEFINE calls == {c \in UNION {{t} \X DOMAIN stack[t] : t \in Threads} :
                         stack[c[1]][c[2]].instance = i}
  <2>1. /\ i[1] \in Services /\ i[2] \in Threads /\ i # NoInstance
        /\ \A t \in Threads : DOMAIN stack[t] = 1 .. Len(stack[t])
    BY RegistryAssumption DEF Instances, RegistryInv, TypeOK
  <2>2. ASSUME NEW t \in Threads, NEW n \in 1 .. Len(stack[t]),
               stack[t][n].instance = i
        PROVE  /\ stack[t][n].step # "find"
               /\ life[i] = "made" /\ services_[i[1]] # i
               /\ calls = {<<t, n>>}
    <3>1. stack[t][n].step # "find"
      BY <2>1, <2>2 DEF RegistryInv, StacksOK, StackOK
    <3>2. /\ life[stack[t][n].instance] = "made"
          /\ \A s \in Services : services_[s] # stack[t][n].instance
          /\ \A u \in Threads : \A m \in 1 .. Len(stack[u]) :
               stack[u][m].instance = stack[t][n].instance => u = t /\ m = n
      BY <3>1, CallOwns
    <3>3. <<t, n>> \in calls
      BY <2>1, <2>2
    <3>4. \A c \in calls : c = <<t, n>>
      BY <2>1, <2>2, <3>2
    <3> QED
      BY <2>1, <2>2, <3>1, <3>2, <3>3, <3>4
  <2>3. services_[i[1]] = i => life[i] # "none"
    BY <2>1 DEF RegistryInv, KeysOK
  <2>4. CASE \E t \in Threads : \E n \in 1 .. Len(stack[t]) : stack[t][n].instance = i
    <3>1. PICK t \in Threads : \E n \in 1 .. Len(stack[t]) : stack[t][n].instance = i
      BY <2>4
    <3>2. PICK n \in 1 .. Len(stack[t]) : stack[t][n].instance = i
      BY <3>1
    <3>3. calls = {<<t, n>>} /\ life[i] = "made" /\ services_[i[1]] # i
      BY <2>2, <3>2
    <3>4. Cardinality(calls) = 1
      BY <3>3, FS_Singleton
    <3> QED
      BY <3>3, <3>4
  <2>5. CASE \A t \in Threads : \A n \in 1 .. Len(stack[t]) : stack[t][n].instance # i
    <3>1. calls = {}
      BY <2>1, <2>5
    <3>2. Cardinality(calls) = 0
      BY <3>1, FS_EmptySet
    <3>3. life[i] # "none" => services_[i[1]] = i
      BY <2>1, <2>5 DEF RegistryInv, Owned, Held, Registered
    <3> QED
      BY <2>3, <3>2, <3>3
  <2> QED
    BY <2>4, <2>5
<1> QED
  BY RegistryInvariant, <1>1, PTL

-----------------------------------------------------------------------------
(* Teardown.                                                               *)

(* The keys are ordered so that a service comes before the one it uses.    *)
(* That is how the mangled names of the services happen to compare; with   *)
(* another order destroy_services would leave references to the deleted.   *)
KeysFollowUses ==
  \A m, n \in 1 .. Len(KeyOrder) : Uses[KeyOrder[m]] = KeyOrder[n] => m < n

(* A call waits for the service that its constructor uses.                 *)
Chain(s) == \A m, n \in 1 .. Len(s) :
              m = n + 1 => s[m].service = Uses[s[n].service]
ChainsOK == \A t \in Threads : Chain(stack[t])

(* What an instance keeps is an instance of the service it uses.           *)
MembersOK == \A i \in Instances :
               member[i] # NoInstance => member[i][1] = Uses[i[1]]

(* How far the loops of the teardown are.                                  *)
TeardownOK ==
  /\ phase \in {"shutting", "deleting"} => \A i \in Instances :
       life[i] # "none" /\ member[i] # NoInstance => Registered(member[i])
  /\ phase = "shutting" => \A n \in 1 .. at - 1 :
       services_[KeyOrder[n]] # NoInstance =>
         life[services_[KeyOrder[n]]] = "shut"
  /\ phase = "deleting" =>
       /\ \A s \in Services :
            services_[s] # NoInstance => life[services_[s]] # "made"
       /\ \A n \in at .. Len(KeyOrder) : services_[KeyOrder[n]] # NoInstance =>
            life[services_[KeyOrder[n]]] # "none"

TeardownInv == RegistryInv /\ ChainsOK /\ MembersOK /\ TeardownOK

(* The innermost call returns.                                             *)
LEMMA ChainFront ==
  ASSUME NEW s \in Seq(Frames), s # <<>>, Chain(s)
  PROVE  Chain(Front(s))
<1>1. /\ Len(s) \in Nat \ {0} /\ Len(Front(s)) = Len(s) - 1
      /\ \A n \in 1 .. Len(s) - 1 : Front(s)[n] = s[n]
  BY FrontFacts
<1> QED
  BY <1>1 DEF Chain

(* The innermost call c is replaced by one of the same service, which may  *)
(* call the service that its constructor uses.                             *)
LEMMA ChainAppend ==
  ASSUME NEW s \in Seq(Frames), s # <<>>, Chain(s), NEW c \in Frames,
         c.service = Last(s).service,
         NEW r, \/ r = <<>>
                \/ Uses[c.service] # NoService /\ r = <<Lookup(Uses[c.service])>>
  PROVE  Chain(Append(Front(s), c) \o r)
<1> DEFINE k == Len(s)  p == Front(s)
<1>1. /\ k \in Nat \ {0} /\ Len(p) = k - 1 /\ p \in Seq(Frames)
      /\ \A n \in 1 .. k - 1 : p[n] = s[n]
      /\ Last(s) = s[k]
  BY FrontFacts
<1>2. \A m, n \in 1 .. k : m = n + 1 => s[m].service = Uses[s[n].service]
  BY DEF Chain
<1> HIDE DEF p
<1> DEFINE b == Append(p, c)
<1>3. b \in Seq(Frames) /\ Len(b) = k /\ b[k] = c
      /\ \A n \in 1 .. k - 1 : b[n] = p[n]
  <2>1. /\ Append(p, c) \in Seq(Frames) /\ Len(Append(p, c)) = Len(p) + 1
        /\ Append(p, c)[Len(p) + 1] = c
        /\ \A n \in 1 .. Len(p) : Append(p, c)[n] = p[n]
    BY <1>1, AppendFacts
  <2> QED
    BY <1>1, <2>1
<1> HIDE DEF b, k
<1>4. \A n \in 1 .. k : b[n].service = s[n].service
  <2>1. \A n \in 1 .. k : n = k \/ n \in 1 .. k - 1
    BY <1>1
  <2> QED
    BY <1>1, <1>3, <2>1
<1>5. CASE r = <<>>
  <2>1. b \o r = b
    BY <1>3, <1>5
  <2>2. Chain(b)
    BY <1>2, <1>3, <1>4 DEF Chain
  <2>3. Chain(b \o r)
    BY <2>1, <2>2
  <2> QED
    BY <2>3 DEF b, p
<1>6. CASE r # <<>>
  <2> DEFINE u == Uses[c.service]
  <2>1. r = <<Lookup(u)>> /\ Lookup(u).service = u
    BY <1>6 DEF Lookup, Frame
  <2> DEFINE f == Lookup(u)
  <2>7. f \in Frames
    <3>1. u \in Services
      <4>1. Uses \in [Services -> Services \cup {NoService}]
        BY RegistryAssumption
      <4>2. c.service \in Services
        BY DEF Frames
      <4> QED
        BY <1>6, <4>1, <4>2
    <3> QED
      BY <3>1 DEF Lookup, Frame, Frames
  <2> HIDE DEF u, f
  <2>2. /\ Len(b \o <<f>>) = k + 1 /\ (b \o <<f>>)[k + 1] = f
        /\ \A n \in 1 .. k : (b \o <<f>>)[n] = b[n]
    <3>1. /\ Len(Append(b, f)) = Len(b) + 1 /\ Append(b, f)[Len(b) + 1] = f
          /\ \A n \in 1 .. Len(b) : Append(b, f)[n] = b[n]
          /\ b \o <<f>> = Append(b, f)
      BY <1>3, <2>7, AppendFacts
    <3> QED
      BY <1>3, <3>1
  <2> DEFINE w == b \o <<f>>
  <2> HIDE DEF w
  <2>3. /\ Len(w) = k + 1 /\ w[k + 1].service = Uses[c.service]
        /\ \A n \in 1 .. k : w[n].service = s[n].service
    BY <1>4, <2>1, <2>2 DEF w, u, f
  <2>4. s[k].service = c.service
    BY <1>1
  <2>5. ASSUME NEW m \in 1 .. Len(w), NEW n \in 1 .. Len(w), m = n + 1
        PROVE  w[m].service = Uses[w[n].service]
    <3>1. n \in 1 .. k
      BY <1>1, <2>3, <2>5
    <3>2. CASE n = k
      BY <1>1, <2>3, <2>4, <2>5, <3>1, <3>2
    <3>3. CASE n # k
      <4>1. m \in 1 .. k
        BY <1>1, <2>3, <2>5, <3>1, <3>3
      <4> QED
        BY <1>2, <2>3, <2>5, <3>1, <4>1
    <3> QED
      BY <3>2, <3>3
  <2>6. Chain(w)
    BY <2>5 DEF Chain
  <2> QED
    BY <2>1, <2>6 DEF w, b, p, f
<1> QED
  BY <1>5, <1>6

(* The other threads are not disturbed.                                    *)
LEMMA ChainsKept ==
  ASSUME RegistryInv, ChainsOK, NEW t \in Threads, NEW s, Chain(s),
         stack' = [stack EXCEPT ![t] = s]
  PROVE  ChainsOK'
<1>1. \A u \in Threads : stack'[u] = IF u = t THEN s ELSE stack[u]
  BY DEF RegistryInv, TypeOK
<1>2. \A u \in Threads : Chain(stack'[u])
  BY <1>1 DEF ChainsOK
<1> QED
  BY <1>2 DEF ChainsOK, Chain

(* A call returns an instance of its service: the constructor that waits   *)
(* for it keeps one of the service it uses.                                *)
LEMMA ReturnChained ==
  ASSUME RegistryInv, ChainsOK, MembersOK, NEW t \in Threads, Calling(t),
         NEW i \in Instances, i[1] = Top(t).service, Return(t, i)
  PROVE  ChainsOK' /\ MembersOK'
<1> DEFINE k == Len(stack[t])
<1>1. /\ stack[t] \in Seq(Frames) /\ stack[t] # <<>> /\ Chain(stack[t])
      /\ member \in [Instances -> Instances \cup {NoInstance}]
      /\ TypeOK /\ StacksOK
  BY DEF RegistryInv, TypeOK, ChainsOK, Calling
<1>2. ChainsOK'
  <2>1. Chain(Callers(t))
    BY <1>1, ChainFront DEF Callers
  <2>2. stack' = [stack EXCEPT ![t] = Callers(t)]
    BY ReturnFacts
  <2> QED
    BY <2>1, <2>2, ChainsKept
<1>3. CASE Callers(t) = <<>>
  <2>1. member' = member
    BY <1>3 DEF Return
  <2> QED
    BY <1>2, <2>1 DEF MembersOK
<1>4. CASE Callers(t) # <<>>
  <2>1. member' = [member EXCEPT ![Last(Callers(t)).instance] = i]
    BY <1>4 DEF Return
  <2>2. /\ Callers(t) \in Seq(Frames) /\ Len(Callers(t)) = k - 1 /\ k \in Nat \ {0}
        /\ \A n \in 1 .. k - 1 : Callers(t)[n] = stack[t][n]
        /\ Top(t) = stack[t][k]
    BY <1>1, FrontFacts DEF Top, Callers
  <2>3. /\ Len(Callers(t)) \in Nat \ {0}
        /\ Last(Callers(t)) = Callers(t)[Len(Callers(t))]
    <3> DEFINE p == Callers(t)
    <3> HIDE DEF p
    <3>1. p \in Seq(Frames) /\ p # <<>>
      BY <1>4, <2>2 DEF p
    <3>2. Len(p) \in Nat \ {0} /\ Last(p) = p[Len(p)]
      BY <3>1, FrontFacts
    <3> QED
      BY <3>2 DEF p
  <2> DEFINE n == k - 1
  <2>10. k - 1 \in Nat \ {0} /\ k \in Nat
    BY <2>2, <2>3
  <2>4. n \in 1 .. k /\ n \in 1 .. k - 1 /\ k \in 1 .. k /\ k = n + 1 /\ n # k
    <3> HIDE DEF k
    <3> QED
      BY <2>10
  <2>5. Last(Callers(t)) = stack[t][n]
    BY <2>2, <2>3, <2>4
  <2>6. stack[t][n].step # "find"
    BY <1>1, <2>4 DEF StacksOK, StackOK
  <2>7. stack[t][n].instance = <<stack[t][n].service, t>>
        /\ stack[t][n].instance \in Instances
    BY <1>1, <2>4, <2>6, CallKnown
  <2>8. i[1] = Uses[stack[t][n].service]
    BY <1>1, <2>2, <2>4 DEF Chain
  <2>9. \A j \in Instances :
          member'[j] = IF j = stack[t][n].instance THEN i ELSE member[j]
    BY <1>1, <2>1, <2>5
  <2> QED
    BY <1>2, <2>7, <2>8, <2>9 DEF MembersOK
<1> QED
  BY <1>3, <1>4

(* The steps of use_service, while the context is open.                    *)
LEMMA CallsChained ==
  ASSUME RegistryInv, ChainsOK, MembersOK, NEW t \in Threads,
         Continue(t) \/ ConstructorThrows(t)
  PROVE  ChainsOK' /\ MembersOK' /\ phase' = "open"
<1>1. /\ stack \in [Threads -> Seq(Frames)] /\ TypeOK /\ StacksOK /\ CallsOK /\ KeysOK
      /\ member \in [Instances -> Instances \cup {NoInstance}]
      /\ \A s \in Services : services_[s] \in Instances \cup {NoInstance}
  BY DEF RegistryInv, TypeOK
<1>2. Calling(t) /\ phase' = phase
  BY DEF Continue, Find, Insert, Discard, ConstructorThrows, At, contextVars
<1>3. /\ phase = "open" /\ Top(t) \in Frames /\ Top(t).service \in Services
      /\ Len(stack[t]) \in 1 .. Len(stack[t])
      /\ Top(t) = stack[t][Len(stack[t])] /\ Top(t) = Last(stack[t])
      /\ stack[t] \in Seq(Frames) /\ stack[t] # <<>> /\ Chain(stack[t])
  BY <1>1, <1>2, TopKnown DEF Top, Calling, ChainsOK
<1>4. Top(t).step # "find" =>
        Top(t).instance = <<Top(t).service, t>> /\ Top(t).instance \in Instances
  BY <1>1, <1>3, CallKnown
<1>5. \A s \in Services : services_[s] # NoInstance =>
        services_[s] \in Instances /\ services_[s][1] = s
  BY <1>1 DEF KeysOK
<1> DEFINE s == Top(t).service
<1>6. ASSUME Find(t) PROVE ChainsOK' /\ MembersOK'
  <2>1. CASE services_[s] # NoInstance
    <3>1. Return(t, services_[s])
      BY <1>6, <2>1 DEF Find
    <3>2. services_[s] \in Instances /\ services_[s][1] = Top(t).service
      BY <1>3, <1>5, <2>1
    <3> QED
      BY <1>2, <3>1, <3>2, ReturnChained
  <2>2. CASE services_[s] = NoInstance
    <3> DEFINE c == Frame(s, <<s, t>>, "insert")
               r == IF Uses[s] = NoService THEN <<>> ELSE <<Lookup(Uses[s])>>
    <3>1. /\ stack' = [stack EXCEPT ![t] = Append(Callers(t), c) \o r]
          /\ member' = [member EXCEPT ![<<s, t>>] = NoInstance]
      BY <1>6, <2>2 DEF Find, Construct
    <3>2. c \in Frames /\ c.service = Last(stack[t]).service /\ c.service = s
      BY <1>3 DEF Frame, Frames, Instances
    <3>3. \/ r = <<>>
          \/ Uses[c.service] # NoService /\ r = <<Lookup(Uses[c.service])>>
      BY <3>2
    <3> HIDE DEF c, r
    <3>4. Chain(Append(Front(stack[t]), c) \o r)
      BY <1>3, <3>2, <3>3, ChainAppend
    <3>5. ChainsOK'
      BY <3>1, <3>4, ChainsKept DEF Callers
    <3>6. MembersOK'
      BY <1>1, <3>1 DEF MembersOK
    <3> QED
      BY <3>5, <3>6
  <2> QED
    BY <2>1, <2>2
<1>7. ASSUME Insert(t) PROVE ChainsOK' /\ MembersOK'
  <2>1. CASE services_[s] # NoInstance
    <3> DEFINE c == Frame(s, Top(t).instance, "discard")
    <3>1. /\ stack' = [stack EXCEPT ![t] = Append(Callers(t), c)]
          /\ member' = member
      BY <1>7, <2>1 DEF Insert
    <3>2. c \in Frames /\ c.service = Last(stack[t]).service
      BY <1>3 DEF Frame, Frames
    <3> HIDE DEF c
    <3>3. /\ Chain(Append(Front(stack[t]), c) \o <<>>)
      BY <1>3, <3>2, ChainAppend
    <3>4. Append(Front(stack[t]), c) \o <<>> = Append(Front(stack[t]), c)
      <4>1. Front(stack[t]) \in Seq(Frames)
        BY <1>3, FrontFacts
      <4> DEFINE p == Front(stack[t])
      <4> HIDE DEF p
      <4>2. p \in Seq(Frames)
        BY <4>1 DEF p
      <4>3. Append(p, c) \o <<>> = Append(p, c)
        BY <3>2, <4>2
      <4> QED
        BY <4>3 DEF p
    <3>5. Chain(Append(Front(stack[t]), c))
      BY <3>3, <3>4
    <3>6. ChainsOK'
      BY <3>1, <3>5, ChainsKept DEF Callers
    <3>7. MembersOK'
      BY <3>1 DEF MembersOK
    <3> QED
      BY <3>6, <3>7
  <2>2. CASE services_[s] = NoInstance
    <3>1. Return(t, Top(t).instance)
      BY <1>7, <2>2 DEF Insert
    <3>2. Top(t).step # "find"
      BY <1>7 DEF Insert, At
    <3>3. Top(t).instance \in Instances /\ Top(t).instance[1] = Top(t).service
      BY <1>4, <3>2
    <3> QED
      BY <1>2, <3>1, <3>3, ReturnChained
  <2> QED
    BY <2>1, <2>2
<1>8. ASSUME Discard(t) PROVE ChainsOK' /\ MembersOK'
  <2>1. Return(t, services_[s]) /\ Top(t).step = "discard"
    BY <1>8 DEF Discard, At
  <2>2. services_[s] # NoInstance
    BY <1>1, <1>3, <2>1 DEF CallsOK, CallOK
  <2>3. services_[s] \in Instances /\ services_[s][1] = Top(t).service
    BY <1>3, <1>5, <2>2
  <2> QED
    BY <1>2, <2>1, <2>3, ReturnChained
<1>9. ASSUME ConstructorThrows(t) PROVE ChainsOK' /\ MembersOK'
  <2>1. stack' = [stack EXCEPT ![t] = <<>>] /\ member' = member
    BY <1>9 DEF ConstructorThrows
  <2>2. Chain(<<>>)
    BY DEF Chain
  <2>3. ChainsOK'
    BY <2>1, <2>2, ChainsKept
  <2> QED
    BY <2>1, <2>3 DEF MembersOK
<1> QED
  BY <1>2, <1>3, <1>6, <1>7, <1>8, <1>9 DEF Continue

(* A thread calls use_service, for itself or for init_task.                *)
LEMMA StartChained ==
  ASSUME RegistryInv, ChainsOK, MembersOK, NEW t \in Threads, NEW s \in Services,
         stack' = [stack EXCEPT ![t] = <<Lookup(s)>>], member' = member
  PROVE  ChainsOK' /\ MembersOK'
<1>1. Chain(<<Lookup(s)>>)
  BY DEF Chain
<1>2. ChainsOK'
  BY <1>1, ChainsKept
<1> QED
  BY <1>2 DEF MembersOK

(* No key comes twice.                                                     *)
LEMMA KeysDiffer ==
  ASSUME NEW m \in 1 .. Len(KeyOrder), NEW n \in 1 .. Len(KeyOrder),
         KeyOrder[m] = KeyOrder[n]
  PROVE  m = n
<1> DEFINE D == 1 .. Len(KeyOrder)
<1>1. /\ KeyOrder \in [D -> Services] /\ Len(KeyOrder) \in Nat
      /\ \A s \in Services : \E k \in D : KeyOrder[k] = s
      /\ Len(KeyOrder) = Cardinality(Services)
  <2>1. KeyOrder \in Seq(Services) /\ Range(KeyOrder) = Services
    BY RegistryAssumption
  <2>2. DOMAIN KeyOrder = D /\ KeyOrder \in [D -> Services] /\ Len(KeyOrder) \in Nat
    BY <2>1
  <2>3. \A s \in Services : \E k \in D : KeyOrder[k] = s
    BY <2>1, <2>2 DEF Range
  <2>4. Len(KeyOrder) = Cardinality(Services)
    BY RegistryAssumption
  <2> QED
    BY <2>2, <2>3, <2>4
<1>2. KeyOrder \in Surjection(D, Services)
  BY <1>1 DEF Surjection
<1>3. IsFiniteSet(D) /\ Cardinality(D) = Len(KeyOrder)
  <2>1. \A a, b \in Int :
          /\ IsFiniteSet(a .. b)
          /\ Cardinality(a .. b) = IF a > b THEN 0 ELSE b - a + 1
    BY FS_Interval
  <2> QED
    BY <1>1, <2>1
<1>4. KeyOrder \in Injection(D, Services)
  BY <1>1, <1>2, <1>3, FS_SurjSameCardinalityImpliesInj
<1> QED
  BY <1>4 DEF Injection, IsInjective

(* Where the loop is, nothing has been done to the services at other keys. *)
LEMMA VisitOne ==
  ASSUME RegistryInv, phase # "open", NEW becomes \in {"none", "shut"},
         Visit(KeyOrder, becomes)
  PROVE  /\ at' = at + 1 /\ at \in 1 .. Len(KeyOrder) /\ Len(KeyOrder) \in Nat
         /\ \A n \in 1 .. Len(KeyOrder) : services_[KeyOrder[n]] # NoInstance =>
              life'[services_[KeyOrder[n]]] =
                IF n = at THEN becomes ELSE life[services_[KeyOrder[n]]]
         /\ \A j \in Instances : life'[j] \in {life[j], becomes}
<1>1. /\ at' = at + 1 /\ KeyOrder[at] \in Services /\ at \in Nat
      /\ \A j \in Instances :
           life'[j] = IF services_[KeyOrder[at]] = j THEN becomes ELSE life[j]
  BY VisitFacts
<1>2. Len(KeyOrder) \in Nat /\ \A n \in 1 .. Len(KeyOrder) : KeyOrder[n] \in Services
  BY RegistryAssumption
<1>3. at \in 1 .. Len(KeyOrder)
  <2>1. at <= Len(KeyOrder) /\ at \in 1 .. Len(KeyOrder) + 1
    BY DEF Visit, RegistryInv, TypeOK
  <2> QED
    BY <1>2, <2>1
<1>4. \A s \in Services : services_[s] # NoInstance =>
        services_[s] \in Instances /\ services_[s][1] = s
  BY DEF RegistryInv, TypeOK, KeysOK
<1>5. ASSUME NEW n \in 1 .. Len(KeyOrder), services_[KeyOrder[n]] # NoInstance
      PROVE  life'[services_[KeyOrder[n]]] =
               IF n = at THEN becomes ELSE life[services_[KeyOrder[n]]]
  <2>1. KeyOrder[n] \in Services /\ services_[KeyOrder[n]] \in Instances
        /\ services_[KeyOrder[n]][1] = KeyOrder[n]
    BY <1>2, <1>4, <1>5
  <2>2. CASE n = at
    BY <1>1, <2>1, <2>2
  <2>3. CASE n # at
    <3>1. KeyOrder[n] # KeyOrder[at]
      BY <1>3, <2>3, KeysDiffer
    <3>2. services_[KeyOrder[n]] # services_[KeyOrder[at]]
      BY <1>1, <1>4, <1>5, <2>1, <3>1
    <3> QED
      BY <1>1, <2>1, <2>3, <3>2
  <2> QED
    BY <2>2, <2>3
<1> QED
  BY <1>1, <1>2, <1>3, <1>5

(* shutdown_services shuts the services down from the newest to the        *)
(* oldest.                                                                 *)
LEMMA ShutdownServicesOrdered ==
  ASSUME TeardownInv, ShutdownServices
  PROVE  TeardownOK'
<1>1. /\ RegistryInv /\ TypeOK /\ Owned /\ KeysOK /\ TeardownOK
      /\ phase = "shutting" /\ UNCHANGED <<services_, member>>
      /\ \/ Visit(KeyOrder, "shut") /\ phase' = "shutting"
         \/ at > Len(KeyOrder) /\ phase' = "deleting" /\ at' = 1 /\ life' = life
  BY DEF TeardownInv, RegistryInv, ShutdownServices
<1>2. /\ \A i \in Instances : life[i] # "none" /\ member[i] # NoInstance =>
           Registered(member[i])
      /\ \A n \in 1 .. at - 1 : services_[KeyOrder[n]] # NoInstance =>
           life[services_[KeyOrder[n]]] = "shut"
  BY <1>1 DEF TeardownOK
<1>3. \A s \in Services : services_[s] # NoInstance =>
        /\ services_[s] \in Instances /\ services_[s][1] = s
        /\ life[services_[s]] # "none"
  BY <1>1 DEF TypeOK, KeysOK
<1>4. CASE Visit(KeyOrder, "shut") /\ phase' = "shutting"
  <2>1. /\ at' = at + 1 /\ at \in 1 .. Len(KeyOrder) /\ Len(KeyOrder) \in Nat
        /\ \A n \in 1 .. Len(KeyOrder) : services_[KeyOrder[n]] # NoInstance =>
             life'[services_[KeyOrder[n]]] =
               IF n = at THEN "shut" ELSE life[services_[KeyOrder[n]]]
        /\ \A j \in Instances :
             life'[j] = IF services_[KeyOrder[at]] = j THEN "shut" ELSE life[j]
    BY <1>1, <1>4, VisitOne, VisitFacts
  <2>2. ASSUME NEW i \in Instances, life'[i] # "none"
        PROVE  life[i] # "none"
    <3>1. KeyOrder[at] \in Services
      BY <1>1, <1>4, VisitFacts
    <3> QED
      BY <1>3, <2>1, <2>2, <3>1, RegistryAssumption
  <2>3. \A n \in 1 .. at' - 1 : n \in 1 .. Len(KeyOrder) /\ (n = at \/ n \in 1 .. at - 1)
    BY <2>1
  <2>4. \A n \in 1 .. at' - 1 : services_[KeyOrder[n]] # NoInstance =>
          life'[services_[KeyOrder[n]]] = "shut"
    BY <1>2, <2>1, <2>3
  <2> QED
    BY <1>1, <1>2, <1>4, <2>2, <2>4 DEF TeardownOK, Registered
<1>5. CASE at > Len(KeyOrder) /\ phase' = "deleting" /\ at' = 1 /\ life' = life
  <2>1. ASSUME NEW s \in Services, services_[s] # NoInstance
        PROVE  life[services_[s]] = "shut"
    <3>1. PICK n \in 1 .. Len(KeyOrder) : KeyOrder[n] = s
      BY KeyPlaced
    <3>2. Len(KeyOrder) \in Nat /\ at \in Nat
      BY <1>1, RegistryAssumption DEF TypeOK
    <3>3. n \in 1 .. at - 1
      BY <1>5, <3>2
    <3> QED
      BY <1>2, <2>1, <3>1, <3>3
  <2>2. \A n \in 1 .. Len(KeyOrder) : KeyOrder[n] \in Services
    BY RegistryAssumption
  <2> QED
    BY <1>1, <1>2, <1>5, <2>1, <2>2 DEF TeardownOK, Registered
<1> QED
  BY <1>1, <1>4, <1>5

(* destroy_services destroys them in the same order, after all are shut    *)
(* down.                                                                   *)
LEMMA DestroyServicesOrdered ==
  ASSUME TeardownInv, DestroyServices
  PROVE  TeardownOK'
<1>1. /\ RegistryInv /\ TeardownOK /\ phase = "deleting" /\ member' = member
      /\ \/ Visit(KeyOrder, "none") /\ UNCHANGED <<phase, services_>>
         \/ phase' = "gone"
  BY DEF TeardownInv, DestroyServices
<1>2. CASE phase' = "gone"
  BY <1>2 DEF TeardownOK
<1>3. CASE Visit(KeyOrder, "none") /\ UNCHANGED <<phase, services_>>
  <2>1. /\ at' = at + 1 /\ at \in 1 .. Len(KeyOrder) /\ Len(KeyOrder) \in Nat
        /\ \A n \in 1 .. Len(KeyOrder) : services_[KeyOrder[n]] # NoInstance =>
             life'[services_[KeyOrder[n]]] =
               IF n = at THEN "none" ELSE life[services_[KeyOrder[n]]]
        /\ \A j \in Instances : life'[j] \in {life[j], "none"}
    BY <1>1, <1>3, VisitOne
  <2>2. /\ \A i \in Instances : life[i] # "none" /\ member[i] # NoInstance =>
             Registered(member[i])
        /\ \A s \in Services : services_[s] # NoInstance =>
             services_[s] \in Instances /\ life[services_[s]] # "made"
        /\ \A n \in at .. Len(KeyOrder) : services_[KeyOrder[n]] # NoInstance =>
             life[services_[KeyOrder[n]]] # "none"
    BY <1>1 DEF RegistryInv, TypeOK, TeardownOK
  <2>3. \A s \in Services : services_[s] # NoInstance => life'[services_[s]] # "made"
    BY <2>1, <2>2
  <2>4. ASSUME NEW n \in at' .. Len(KeyOrder), services_[KeyOrder[n]] # NoInstance
        PROVE  life'[services_[KeyOrder[n]]] # "none"
    <3>1. n \in 1 .. Len(KeyOrder) /\ n # at /\ n \in at .. Len(KeyOrder)
      BY <2>1
    <3> QED
      BY <2>1, <2>2, <2>4, <3>1
  <2>5. \A i \in Instances : life'[i] # "none" => life[i] # "none"
    BY <2>1
  <2> QED
    BY <1>1, <1>3, <2>2, <2>3, <2>4, <2>5 DEF TeardownOK, Registered
<1> QED
  BY <1>1, <1>2, <1>3

(* Every step keeps the order of the list, and of what has been torn down. *)
LEMMA TeardownNext == TeardownInv /\ [Next]_vars => TeardownInv'
<1> SUFFICES ASSUME TeardownInv, [Next]_vars PROVE TeardownInv'
  OBVIOUS
<1>1. RegistryInv /\ ChainsOK /\ MembersOK /\ TeardownOK /\ RegistryInv'
  BY NextKeeps DEF TeardownInv
<1>2. CASE UNCHANGED vars
  <2>1. UNCHANGED <<services_, stack, member, life, phase, at>>
    BY <1>2 DEF vars, registryVars, contextVars
  <2> QED
    BY <1>1, <2>1 DEF TeardownInv, ChainsOK, MembersOK, TeardownOK, Registered
<1>3. ASSUME NEW t \in Threads, Continue(t) \/ ConstructorThrows(t)
      PROVE  TeardownInv'
  <2>1. ChainsOK' /\ MembersOK' /\ phase' = "open"
    BY <1>1, <1>3, CallsChained
  <2> QED
    BY <1>1, <2>1 DEF TeardownInv, TeardownOK
<1>4. ASSUME NEW t \in Threads, InitTask(t) \/ \E s \in Services : UseService(t, s)
      PROVE  TeardownInv'
  <2>1. phase' = "open" /\ \E s \in Services :
          stack' = [stack EXCEPT ![t] = <<Lookup(s)>>] /\ member' = member
    BY <1>4, RegistryAssumption DEF InitTask, UseService, contextVars
  <2>2. ChainsOK' /\ MembersOK'
    BY <1>1, <2>1, StartChained
  <2> QED
    BY <1>1, <2>1, <2>2 DEF TeardownInv, TeardownOK
<1>5. ASSUME NEW t \in Threads, AddImpl(t) PROVE TeardownInv'
  <2>1. phase' = "open" /\ UNCHANGED <<stack, member>>
    BY <1>5 DEF AddImpl
  <2> QED
    BY <1>1, <2>1 DEF TeardownInv, ChainsOK, MembersOK, TeardownOK
<1>6. ASSUME Shutdown PROVE TeardownInv'
  <2>1. /\ phase = "open" /\ phase' = "shutting" /\ at' = 1
        /\ UNCHANGED <<services_, stack, member, life>>
    BY <1>6 DEF Shutdown, registryVars
  <2>2. TeardownOK'
    BY <1>1, <2>1 DEF RegistryInv, RefsOK, TeardownOK, Registered
  <2> QED
    BY <1>1, <2>1, <2>2 DEF TeardownInv, ChainsOK, MembersOK
<1>7. ASSUME ShutdownServices \/ DestroyServices PROVE TeardownInv'
  <2>1. UNCHANGED <<stack, member>>
    BY <1>7 DEF ShutdownServices, DestroyServices
  <2>2. TeardownOK'
    BY <1>7, ShutdownServicesOrdered, DestroyServicesOrdered
  <2> QED
    BY <1>1, <2>1, <2>2 DEF TeardownInv, ChainsOK, MembersOK
<1> QED
  BY <1>2, <1>3, <1>4, <1>5, <1>6, <1>7 DEF Next

(* The registry keeps the inductive invariant of its teardown.             *)
THEOREM TeardownInvariant == Spec => []TeardownInv
<1>1. Init => TeardownInv
  <2> SUFFICES ASSUME Init PROVE TeardownInv
    OBVIOUS
  <2>1. ChainsOK /\ MembersOK /\ TeardownOK
    BY DEF Init, ChainsOK, Chain, MembersOK, TeardownOK
  <2> QED
    BY <2>1, InitHolds DEF TeardownInv
<1> QED
  BY <1>1, TeardownNext, PTL DEF Spec

(* ~execution_context: every service is shut down before the first is      *)
(* deleted, and no service outlives one that it uses, when the keys are    *)
(* ordered so.                                                             *)
THEOREM TeardownInOrder ==
  ASSUME KeysFollowUses
  PROVE  Spec => []TeardownOrder
<1>1. TeardownInv => TeardownOrder
  <2> SUFFICES ASSUME TeardownInv PROVE TeardownOrder
    OBVIOUS
  <2>1. /\ RegistryInv /\ TypeOK /\ Owned /\ KeysOK /\ PhasesOK /\ RefsOK
        /\ MembersOK /\ TeardownOK
    BY DEF TeardownInv, RegistryInv
  <2>2. ASSUME NEW i \in Instances, life[i] # "none", member[i] # NoInstance
        PROVE  life[member[i]] # "none"
    <3> DEFINE j == member[i]
    <3>1. /\ j \in Instances /\ j # NoInstance /\ j[1] \in Services
          /\ i[1] \in Services /\ i # NoInstance
          /\ j[1] = Uses[i[1]]
      BY <2>1, <2>2, RegistryAssumption DEF TypeOK, Instances, MembersOK
    <3> HIDE DEF j
    <3>2. phase # "new"
      BY <2>1, <2>2, <3>1 DEF PhasesOK
    <3>3. CASE phase \in {"open", "shutting"}
      <4>1. services_[j[1]] = j
        BY <2>1, <2>2, <3>3 DEF RefsOK, TeardownOK, Registered, j
      <4>2. life[j] # "none"
        BY <2>1, <3>1, <3>3, <4>1 DEF KeysOK
      <4> QED
        BY <4>2 DEF j
    <3>4. phase \in {"deleting", "gone"} => services_[i[1]] = i
      <4> SUFFICES ASSUME phase # "open" PROVE services_[i[1]] = i
        OBVIOUS
      <4> QED
        BY <2>1, <2>2, NothingHeld DEF Registered
    <3>5. CASE phase = "gone"
      BY <2>1, <3>1, <3>4, <3>5 DEF PhasesOK
    <3>6. CASE phase = "deleting"
      <4>1. services_[j[1]] = j
        BY <2>1, <2>2, <3>6 DEF TeardownOK, Registered, j
      <4>2. PICK m \in 1 .. Len(KeyOrder) : KeyOrder[m] = i[1]
        BY <3>1, KeyPlaced
      <4>3. PICK n \in 1 .. Len(KeyOrder) : KeyOrder[n] = j[1]
        BY <3>1, KeyPlaced
      <4>4. m < n
        BY <3>1, <4>2, <4>3 DEF KeysFollowUses
      <4>5. at \in Nat /\ Len(KeyOrder) \in Nat
        BY <2>1, RegistryAssumption DEF TypeOK
      <4>6. m \notin 1 .. at - 1
        BY <2>1, <2>2, <3>1, <3>4, <3>6, <4>2 DEF PhasesOK
      <4>7. n \in at .. Len(KeyOrder)
        BY <4>4, <4>5, <4>6
      <4>8. life[j] # "none"
        BY <2>1, <3>1, <3>6, <4>1, <4>3, <4>7 DEF TeardownOK
      <4> QED
        BY <4>8 DEF j
    <3>7. phase \in {"new", "open", "shutting", "deleting", "gone"}
      BY <2>1 DEF TypeOK
    <3> QED
      BY <3>2, <3>3, <3>5, <3>6, <3>7
  <2>3. phase = "deleting" => \A s \in Services :
          services_[s] # NoInstance => life[services_[s]] # "made"
    BY <2>1 DEF TeardownOK
  <2> QED
    BY <2>2, <2>3 DEF TeardownOrder
<1> QED
  BY <1>1, TeardownInvariant, PTL

(* ~execution_context: whatever the order of the keys, every service is    *)
(* shut down before the first is deleted.                                  *)
THEOREM AllShutFirst ==
  Spec => [](phase = "deleting" => \A s \in Services :
               services_[s] # NoInstance => life[services_[s]] # "made")
<1>1. TeardownInv => (phase = "deleting" => \A s \in Services :
        services_[s] # NoInstance => life[services_[s]] # "made")
  BY DEF TeardownInv, TeardownOK
<1> QED
  BY <1>1, TeardownInvariant, PTL

=============================================================================
