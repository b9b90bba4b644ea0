---------------------- MODULE InstrumentProfileProofs ----------------------
(***************************************************************************)
(* Proofs about the update listeners of InstrumentProfileCollector, for    *)
(* any threads, collectors, listeners and updates. The one word a Java     *)
(* listener is given tells every pair of ids apart (PackInverse, from      *)
(* CollectorAssumption); the rest is the inductive invariant IInv. At the  *)
(* end ConnectionInv is that of an InstrumentProfileConnection.            *)
(***************************************************************************)
EXTENDS InstrumentProfileConnection, SequenceTheorems, NaturalsInduction,
        WellFoundedInduction, TLAPS

(* Quotient and remainder of a product and a smaller rest.                 *)
LEMMA Division ==
  ASSUME NEW H \in Nat, NEW q \in Nat, NEW r \in Nat, r < H
  PROVE  /\ (q * H + r) \div H = q
         /\ (q * H + r) % H = r
<1> DEFINE x == q * H + r
<1>1. H > 0 /\ x \in Nat
  OBVIOUS
<1>2. /\ x \div H \in Int /\ x % H \in 0..(H - 1)
      /\ x = H * (x \div H) + (x % H)
  BY <1>1
<1> DEFINE p == x \div H  s == x % H
<1>3. p \in Int /\ s \in Int /\ 0 <= s /\ s < H /\ x = H * p + s
  BY <1>2
<1> HIDE DEF p, s
<1>4. ~ p > q
  <2> SUFFICES ASSUME p > q PROVE FALSE
    OBVIOUS
  <2>1. p >= q + 1
    BY <1>3
  <2>2. H * p >= H * (q + 1)
    BY <2>1, <1>3, <1>1
  <2>3. H * (q + 1) = q * H + H
    OBVIOUS
  <2> QED
    BY <2>2, <2>3, <1>3
<1>5. ~ p < q
  <2> SUFFICES ASSUME p < q PROVE FALSE
    OBVIOUS
  <2>1. p + 1 <= q
    BY <1>3
  <2>2. H * (p + 1) <= H * q
    BY <2>1, <1>3, <1>1
  <2>3. H * (p + 1) = H * p + H
    BY <1>3
  <2> QED
    BY <2>2, <2>3, <1>3
<1>6. p = q
  BY <1>3, <1>4, <1>5
<1>7. s = r
  BY <1>6, <1>3
<1> QED
  BY <1>6, <1>7 DEF p, s

(* What was packed is unpacked, ...                                        *)
LEMMA PackInverse ==
  ASSUME NEW c \in Collector, NEW l \in Listener
  PROVE  Pack(c, l) \in Nat /\ Unpack(Pack(c, l)) = <<c, l>>
<1>1. c \in Nat /\ l \in Nat /\ l < HalfWord /\ HalfWord \in Nat
  BY CollectorAssumption DEF Collector, Listener
<1>2. (c * HalfWord + l) \div HalfWord = c /\ (c * HalfWord + l) % HalfWord = l
  BY <1>1, Division
<1> QED
  BY <1>1, <1>2 DEF Pack, Unpack

(* ... so that two listeners' words differ.                                *)
LEMMA PackInjective ==
  ASSUME NEW c \in Collector, NEW l \in Listener, NEW d \in Collector, NEW m \in Listener,
         Pack(c, l) = Pack(d, m)
  PROVE  c = d /\ l = m
<1>1. <<c, l>> = <<d, m>>
  BY PackInverse
<1> QED
  BY <1>1

-----------------------------------------------------------------------------
(* The invariant. Who is inside a call or a notification holds the mutex.  *)
LockInv ==
  /\ \A t \in Thread : pc[t] # "idle" =>
       arg[t] \in Collector \X Listener /\ mutex[arg[t][1]] = t
  /\ \A c \in Collector : running[c] # "idle" =>
       target[c] \in Target /\ target[c][1] = c
  /\ \A c \in Collector : running[c] = "call" => mutex[c] = Java

(* A listener belongs to one collector; until it is added to Java, it has  *)
(* not been sent anything.                                                 *)
IdsInv ==
  /\ ids \subseteq 1..lastId
  /\ \A c \in Collector : handlers[c] \subseteq 1..lastId
  /\ \A c, d \in Collector : \A l \in handlers[c] : l \in handlers[d] => c = d
  /\ \A t \in Thread : pc[t] \in {"create", "add"} =>
       /\ arg[t][1] <= collectors
       /\ arg[t][2] \in handlers[arg[t][1]] /\ arg[t][2] \notin ids
       /\ due[arg[t][2]] = {} /\ heard[arg[t][2]] = {}
  /\ \A t \in Thread : pc[t] \in {"return", "remove"} => arg[t][2] \in handlers[arg[t][1]]

(* AgreesWithJava, one listener at a time.                                 *)
JavaInv ==
  /\ \A c \in Collector : \A data \in javaListeners[c] :
       \E l \in Listener : data = Pack(c, l)
  /\ \A c \in Collector, l \in Listener :
       Pack(c, l) \in javaListeners[c] <=> l \in ids /\ l \in handlers[c]
  /\ \A l \in ids : \E c \in Collector : l \in handlers[c]

UpdatesInv ==
  /\ \A c \in Collector : profiles[c] <= updates
  /\ \A l \in Listener : \A n \in due[l] \union heard[l] : n <= updates
  /\ \A l \in Listener : l > lastId => due[l] = {} /\ heard[l] = {}

Comes(c, l, n) ==
  \/ <<c, Pack(c, l), n>> \in jobs
  \/ running[c] # "idle" /\ target[c] = <<c, l, n>>

(* What is on its way is for a listener of that collector, or one that     *)
(* was removed and never returns.                                          *)
WayInv ==
  /\ \A job \in jobs : \E l \in Listener : job[2] = Pack(job[1], l)
  /\ \A c \in Collector, l \in Listener, n \in Update : Comes(c, l, n) =>
       /\ l <= lastId /\ n <= updates /\ c <= collectors
       /\ \A d \in Collector : l \in handlers[d] => d = c /\ l \in ids
  /\ \A l \in Listener, n \in Update : <<l, n>> \in called => \E c \in Collector :
       /\ running[c] = "call" /\ target[c] = <<c, l, n>>
       /\ l \in handlers[c]

(* Later updates come later.                                               *)
OrderInv ==
  /\ \A c \in Collector, l \in Listener, n \in Update : <<c, Pack(c, l), n>> \in jobs =>
       /\ \A m \in heard[l] : m < n
       /\ \A m \in Update : running[c] # "idle" /\ target[c] = <<c, l, m>> => m < n
  /\ \A c \in Collector, l \in Listener, n \in Update :
       running[c] = "lock" /\ target[c] = <<c, l, n>> => \A m \in heard[l] : m < n
  /\ \A l \in Listener, n \in Update : <<l, n>> \in called => \A m \in heard[l] : m < n

(* EveryUpdateHeard, one update at a time.                                 *)
HeardInv ==
  \A l \in ids : \A n \in Update :
    (n \in due[l] /\ n \notin heard[l]) <=>
      \/ \E c \in Collector : <<c, Pack(c, l), n>> \in jobs
      \/ \E c \in Collector : running[c] = "lock" /\ target[c] = <<c, l, n>>
      \/ <<l, n>> \in called

IInv == TypeOK /\ LockInv /\ IdsInv /\ JavaInv /\ UpdatesInv /\ WayInv /\ OrderInv /\ HeardInv


-----------------------------------------------------------------------------
(* A part of the invariant stays while nothing it is about changes.        *)
LEMMA LockFrame ==
  ASSUME LockInv, UNCHANGED <<pc, arg, mutex, running, target>>
  PROVE  LockInv'
BY DEF LockInv

LEMMA IdsFrame ==
  ASSUME IdsInv, UNCHANGED <<collectors, ids, lastId, handlers, pc, arg, due, heard>>
  PROVE  IdsInv'
BY DEF IdsInv

LEMMA JavaFrame ==
  ASSUME JavaInv, UNCHANGED <<javaListeners, ids, handlers>>
  PROVE  JavaInv'
BY DEF JavaInv

LEMMA UpdatesFrame ==
  ASSUME UpdatesInv, UNCHANGED <<profiles, updates, due, heard, lastId>>
  PROVE  UpdatesInv'
BY DEF UpdatesInv

LEMMA WayFrame ==
  ASSUME WayInv,
         UNCHANGED <<jobs, running, target, lastId, updates, collectors, handlers, ids, called>>
  PROVE  WayInv'
BY DEF WayInv, Comes

LEMMA OrderFrame ==
  ASSUME OrderInv, UNCHANGED <<jobs, heard, running, target, called>>
  PROVE  OrderInv'
BY DEF OrderInv

LEMMA HeardFrame ==
  ASSUME HeardInv, UNCHANGED <<ids, due, heard, jobs, running, target, called>>
  PROVE  HeardInv'
BY DEF HeardInv

(* What the threads are about.                                             *)
LEMMA Arguments ==
  ASSUME IInv, NEW t \in Thread, pc[t] # "idle"
  PROVE  \E c \in Collector, l \in Listener :
           /\ arg[t] = <<c, l>> /\ arg[t][1] = c /\ arg[t][2] = l
           /\ mutex[c] = t
           /\ \A u \in Thread : pc[u] # "idle" /\ arg[u][1] = c => u = t
BY DEF IInv, LockInv

LEMMA Targets ==
  ASSUME IInv, NEW c \in Collector, running[c] # "idle"
  PROVE  \E l \in Listener, n \in Update :
           /\ target[c] = <<c, l, n>>
           /\ target[c][1] = c /\ target[c][2] = l /\ target[c][3] = n
BY DEF IInv, LockInv, Target

LEMMA Constants ==
  /\ None # Java /\ None \notin Thread /\ Java \notin Thread
  /\ \A c \in Collector : c \in Nat
  /\ \A l \in Listener : l \in Nat
  /\ \A n \in Update : n \in Nat
BY CollectorAssumption DEF Collector, Listener, Update

-----------------------------------------------------------------------------

(* A call that returns leaves its thread idle and its mutex free.          *)
LEMMA ReturnUnlocks ==
  ASSUME IInv, NEW t \in Thread, pc[t] # "idle", NEW c \in Collector,
         arg[t][1] = c, mutex[c] = t,
         pc' = [pc EXCEPT ![t] = "idle"], arg' = [arg EXCEPT ![t] = NoListener],
         mutex' = [mutex EXCEPT ![c] = None], UNCHANGED <<running, target>>
  PROVE  LockInv'
<1>1. /\ \A u \in Thread : pc'[u] = IF u = t THEN "idle" ELSE pc[u]
      /\ \A u \in Thread : u # t => arg'[u] = arg[u]
      /\ \A d \in Collector : mutex'[d] = IF d = c THEN None ELSE mutex[d]
  BY DEF IInv, TypeOK
<1>2. \A u \in Thread : pc'[u] # "idle" =>
        arg'[u] \in Collector \X Listener /\ mutex'[arg'[u][1]] = u
  <2> SUFFICES ASSUME NEW u \in Thread, pc'[u] # "idle"
               PROVE  arg'[u] \in Collector \X Listener /\ mutex'[arg'[u][1]] = u
    OBVIOUS
  <2>1. u # t /\ pc[u] # "idle" /\ arg'[u] = arg[u]
    BY <1>1
  <2>2. arg[u] \in Collector \X Listener /\ mutex[arg[u][1]] = u
    BY <2>1 DEF IInv, LockInv
  <2>3. arg[u][1] \in Collector /\ arg[u][1] # c
    BY <2>1, <2>2
  <2> QED
    BY <2>1, <2>2, <2>3, <1>1
<1>3. \A d \in Collector : running[d] = "call" => mutex'[d] = Java
  BY <1>1, Constants DEF IInv, LockInv
<1> QED
  BY <1>2, <1>3 DEF IInv, LockInv

LEMMA ReturnForgets ==
  ASSUME IdsInv, TypeOK, NEW t \in Thread,
         pc' = [pc EXCEPT ![t] = "idle"], arg' = [arg EXCEPT ![t] = NoListener],
         UNCHANGED <<collectors, ids, lastId, handlers, due, heard>>
  PROVE  IdsInv'
<1>1. /\ \A u \in Thread : pc'[u] = IF u = t THEN "idle" ELSE pc[u]
      /\ \A u \in Thread : u # t => arg'[u] = arg[u]
  BY DEF TypeOK
<1> QED
  BY <1>1 DEF IdsInv

LEMMA CreateStep ==
  ASSUME IInv, Create
  PROVE  IInv'
<1>1. TypeOK'
  BY CollectorAssumption DEF IInv, TypeOK, Create, cpp, callers, java, thread, known
<1>2. /\ collectors \in Nat /\ collectors' = collectors + 1
      /\ UNCHANGED <<mutex, handlers, lastId, pc, arg, ids, javaListeners, profiles, updates,
                     jobs, running, target, called, due, heard>>
  BY DEF IInv, TypeOK, Create, callers, java, thread, known
<1>3. IdsInv'
  <2>1. \A t \in Thread : pc[t] \in {"create", "add"} => arg[t][1] \in Nat
    BY Arguments, Constants
  <2> QED
    BY <1>2, <2>1 DEF IInv, IdsInv
<1>4. WayInv'
  <2>1. \A c \in Collector, l \in Listener, n \in Update : Comes(c, l, n)' = Comes(c, l, n)
    BY <1>2 DEF Comes
  <2>2. \A c \in Collector, l \in Listener, n \in Update : Comes(c, l, n)' =>
          /\ l <= lastId' /\ n <= updates' /\ c <= collectors'
          /\ \A d \in Collector : l \in handlers'[d] => d = c /\ l \in ids'
    <3> SUFFICES ASSUME NEW c \in Collector, NEW l \in Listener, NEW n \in Update,
                        Comes(c, l, n)
                 PROVE  /\ l <= lastId /\ n <= updates /\ c <= collectors + 1
                        /\ \A d \in Collector : l \in handlers[d] => d = c /\ l \in ids
      BY <2>1, <1>2
    <3>1. /\ l <= lastId /\ n <= updates /\ c <= collectors
          /\ \A d \in Collector : l \in handlers[d] => d = c /\ l \in ids
      BY DEF IInv, WayInv
    <3> QED
      BY <3>1, <1>2, Constants
  <2>3. \A job \in jobs' : \E l \in Listener : job[2] = Pack(job[1], l)
    BY <1>2 DEF IInv, WayInv
  <2>4. \A l \in Listener, n \in Update : <<l, n>> \in called' => \E c \in Collector :
          running'[c] = "call" /\ target'[c] = <<c, l, n>> /\ l \in handlers'[c]
    BY <1>2 DEF IInv, WayInv
  <2> QED
    BY <2>2, <2>3, <2>4 DEF WayInv
<1> QED
  BY <1>1, <1>2, <1>3, <1>4, LockFrame, JavaFrame, UpdatesFrame, OrderFrame, HeardFrame DEF IInv

LEMMA AddUpdateListenerStep ==
  ASSUME IInv, NEW t \in Thread, NEW c \in Collector, AddUpdateListener(t, c)
  PROVE  IInv'
<1> DEFINE l == lastId + 1
<1>1. lastId \in Nat /\ l \in Listener /\ l \in Nat /\ c <= collectors
  BY CollectorAssumption DEF IInv, TypeOK, AddUpdateListener, Listener
<1>2. /\ mutex[c] = None /\ pc[t] = "idle" /\ lastId' = l
      /\ mutex' = [mutex EXCEPT ![c] = t]
      /\ handlers' = [handlers EXCEPT ![c] = @ \union {l}]
      /\ arg' = [arg EXCEPT ![t] = <<c, l>>]
      /\ pc' = [pc EXCEPT ![t] = "create"]
      /\ UNCHANGED <<collectors, listenerHandles, ids, javaListeners, profiles, updates,
                     jobs, running, target, called, due, heard, reentered>>
  BY DEF AddUpdateListener, Lock, java, thread, known
<1> HIDE DEF l
<1>3. /\ \A d \in Collector : mutex'[d] = IF d = c THEN t ELSE mutex[d]
      /\ \A d \in Collector, m \in Listener :
           m \in handlers'[d] <=> m \in handlers[d] \/ (d = c /\ m = l)
      /\ \A u \in Thread : pc'[u] = IF u = t THEN "create" ELSE pc[u]
      /\ \A u \in Thread : arg'[u] = IF u = t THEN <<c, l>> ELSE arg[u]
  BY <1>2 DEF IInv, TypeOK
<1>4. TypeOK'
  <2>1. lastId' \in 0..MaxListeners
    BY <1>1, <1>2 DEF Listener
  <2>2. mutex' \in [Collector -> Thread \union {Java, None}]
    BY <1>2 DEF IInv, TypeOK
  <2>3. handlers' \in [Collector -> SUBSET Listener]
    BY <1>1, <1>2 DEF IInv, TypeOK
  <2>4. arg' \in [Thread -> (Collector \X Listener) \union {NoListener}]
    BY <1>1, <1>2 DEF IInv, TypeOK
  <2>5. pc' \in [Thread -> {"idle", "create", "add", "return", "remove"}]
    BY <1>2 DEF IInv, TypeOK
  <2> QED
    BY <2>1, <2>2, <2>3, <2>4, <2>5, <1>2 DEF IInv, TypeOK
<1>5. \A u \in Thread : pc[u] # "idle" => u # t /\ arg[u][1] # c
  <2> SUFFICES ASSUME NEW u \in Thread, pc[u] # "idle" PROVE u # t /\ arg[u][1] # c
    OBVIOUS
  <2> QED
    BY <1>2, Arguments, Constants
<1>6. LockInv'
  <2>1. \A u \in Thread : pc'[u] # "idle" =>
          arg'[u] \in Collector \X Listener /\ mutex'[arg'[u][1]] = u
    BY <1>1, <1>3, <1>5 DEF IInv, LockInv
  <2>2. \A d \in Collector : running[d] = "call" => mutex'[d] = Java
    BY <1>2, <1>3, Constants DEF IInv, LockInv
  <2> QED
    BY <2>1, <2>2, <1>2 DEF IInv, LockInv
<1>7. l \notin ids /\ due[l] = {} /\ heard[l] = {} /\ \A d \in Collector : l \notin handlers[d]
  BY <1>1 DEF IInv, IdsInv, UpdatesInv, l
<1>8. IdsInv'
  <2>1. ids' \subseteq 1..lastId' /\ \A d \in Collector : handlers'[d] \subseteq 1..lastId'
    BY <1>1, <1>2 DEF IInv, IdsInv, TypeOK, l
  <2>2. \A d, e \in Collector : \A m \in handlers'[d] : m \in handlers'[e] => d = e
    <3> SUFFICES ASSUME NEW d \in Collector, NEW e \in Collector, NEW m \in handlers'[d],
                        m \in handlers'[e]
                 PROVE  d = e
      OBVIOUS
    <3>1. m \in Listener
      BY <1>4 DEF TypeOK
    <3> QED
      BY <3>1, <1>3, <1>7 DEF IInv, IdsInv
  <2>3. ASSUME NEW u \in Thread, pc'[u] \in {"create", "add"}
        PROVE  /\ arg'[u][1] <= collectors'
               /\ arg'[u][2] \in handlers'[arg'[u][1]] /\ arg'[u][2] \notin ids'
               /\ due'[arg'[u][2]] = {} /\ heard'[arg'[u][2]] = {}
    <3>1. CASE u = t
      BY <3>1, <1>1, <1>2, <1>3, <1>7
    <3>2. CASE u # t
      <4>1. pc[u] = pc'[u] /\ arg'[u] = arg[u]
        BY <3>2, <1>3
      <4>2. /\ arg[u][1] <= collectors /\ arg[u][1] # c
            /\ arg[u][2] \in handlers[arg[u][1]] /\ arg[u][2] \notin ids
            /\ due[arg[u][2]] = {} /\ heard[arg[u][2]] = {}
        BY <4>1, <2>3, <1>5 DEF IInv, IdsInv
      <4>3. arg[u][1] \in Collector /\ arg[u][2] \in Listener
        BY <4>1, <2>3, Arguments
      <4> QED
        BY <4>1, <4>2, <4>3, <1>2, <1>3
    <3> QED
      BY <3>1, <3>2
  <2>4. ASSUME NEW u \in Thread, pc'[u] \in {"return", "remove"}
        PROVE  arg'[u][2] \in handlers'[arg'[u][1]]
    <3>1. pc[u] \in {"return", "remove"} /\ arg'[u] = arg[u]
      BY <2>4, <1>3
    <3>2. arg[u][1] \in Collector /\ arg[u][2] \in Listener
      BY <3>1, Arguments
    <3> QED
      BY <3>1, <3>2, <1>3 DEF IInv, IdsInv
  <2> QED
    BY <2>1, <2>2, <2>3, <2>4 DEF IdsInv
<1>9. JavaInv'
  BY <1>2, <1>3, <1>7 DEF IInv, JavaInv, TypeOK
<1>10. UpdatesInv'
  BY <1>1, <1>2, Constants DEF IInv, UpdatesInv, l
<1>11. WayInv'
  <2>0. \A d \in Collector, m \in Listener, n \in Update : Comes(d, m, n)' = Comes(d, m, n)
    BY <1>2 DEF Comes
  <2>1. \A d \in Collector, m \in Listener, n \in Update : Comes(d, m, n)' =>
          /\ m <= lastId' /\ n <= updates' /\ d <= collectors'
          /\ \A e \in Collector : m \in handlers'[e] => e = d /\ m \in ids'
    <3> SUFFICES ASSUME NEW d \in Collector, NEW m \in Listener, NEW n \in Update,
                        Comes(d, m, n)
                 PROVE  /\ m <= lastId' /\ n <= updates' /\ d <= collectors'
                        /\ \A e \in Collector : m \in handlers'[e] => e = d /\ m \in ids'
      BY <2>0
    <3> QED
      BY <1>1, <1>2, <1>3, Constants DEF IInv, WayInv, l
  <2>2. \A m \in Listener, n \in Update : <<m, n>> \in called => \E d \in Collector :
          running[d] = "call" /\ target[d] = <<d, m, n>> /\ m \in handlers'[d]
    <3> SUFFICES ASSUME NEW m \in Listener, NEW n \in Update, <<m, n>> \in called
                 PROVE  \E d \in Collector : /\ running[d] = "call" /\ target[d] = <<d, m, n>>
                                             /\ m \in handlers'[d]
      OBVIOUS
    <3>1. PICK d \in Collector :
            running[d] = "call" /\ target[d] = <<d, m, n>> /\ m \in handlers[d]
      BY DEF IInv, WayInv
    <3> QED
      BY <3>1, <1>3
  <2>4. \A job \in jobs : \E m \in Listener : job[2] = Pack(job[1], m)
    BY DEF IInv, WayInv
  <2>5. UNCHANGED <<jobs, running, target, called, ids, updates, collectors>>
    BY <1>2
  <2>6. \A job \in jobs' : \E m \in Listener : job[2] = Pack(job[1], m)
    BY <2>4, <2>5
  <2>7. \A m \in Listener, n \in Update : <<m, n>> \in called' => \E d \in Collector :
          running'[d] = "call" /\ target'[d] = <<d, m, n>> /\ m \in handlers'[d]
    BY <2>2, <2>5
  <2> QED
    BY <2>1, <2>6, <2>7 DEF WayInv
<1> QED
  BY <1>2, <1>4, <1>6, <1>8, <1>9, <1>10, <1>11, OrderFrame, HeardFrame DEF IInv

LEMMA CreateListenerStep ==
  ASSUME IInv, NEW t \in Thread, CreateListener(t)
  PROVE  IInv'
<1>1. PICK c \in Collector, l \in Listener :
        /\ arg[t] = <<c, l>> /\ arg[t][1] = c /\ arg[t][2] = l /\ mutex[c] = t
        /\ \A u \in Thread : pc[u] # "idle" /\ arg[u][1] = c => u = t
  BY Arguments DEF CreateListener
<1>2. /\ pc[t] = "create"
      /\ UNCHANGED <<collectors, handlers, lastId, ids, javaListeners, profiles, updates,
                     jobs, running, target, called, due, heard, reentered>>
  BY DEF CreateListener, java, thread, known
<1>3. CASE /\ listenerHandles' = [listenerHandles EXCEPT ![c] = @ \union {l}]
           /\ pc' = [pc EXCEPT ![t] = "add"]
           /\ UNCHANGED <<mutex, arg>>
  <2>1. TypeOK'
    BY <1>2, <1>3 DEF IInv, TypeOK
  <2>2. \A u \in Thread : pc'[u] = IF u = t THEN "add" ELSE pc[u]
    BY <1>3 DEF IInv, TypeOK
  <2>3. LockInv'
    BY <1>2, <1>3, <2>2 DEF IInv, LockInv
  <2>4. IdsInv'
    BY <1>2, <1>3, <2>2 DEF IInv, IdsInv
  <2> QED
    BY <1>2, <2>1, <2>3, <2>4, JavaFrame, UpdatesFrame, WayFrame, OrderFrame, HeardFrame
    DEF IInv
<1>4. CASE Return(t) /\ UNCHANGED listenerHandles
  <2>1. /\ pc' = [pc EXCEPT ![t] = "idle"] /\ arg' = [arg EXCEPT ![t] = NoListener]
        /\ mutex' = [mutex EXCEPT ![c] = None]
    BY <1>1, <1>4 DEF Return, Unlock
  <2>2. TypeOK'
    BY <1>2, <1>4, <2>1 DEF IInv, TypeOK
  <2>3. LockInv'
    BY <1>1, <1>2, <2>1, ReturnUnlocks
  <2>4. IdsInv'
    BY <1>2, <2>1, ReturnForgets DEF IInv
  <2> QED
    BY <1>2, <2>2, <2>3, <2>4, JavaFrame, UpdatesFrame, WayFrame, OrderFrame, HeardFrame
    DEF IInv
<1> QED
  BY <1>1, <1>3, <1>4 DEF CreateListener

LEMMA RemoveUpdateListenerStep ==
  ASSUME IInv, NEW t \in Thread, NEW c \in Collector, NEW l \in Listener,
         RemoveUpdateListener(t, c, l)
  PROVE  IInv'
<1>1. /\ mutex[c] = None /\ pc[t] = "idle" /\ l \in handlers[c]
      /\ mutex' = [mutex EXCEPT ![c] = t]
      /\ arg' = [arg EXCEPT ![t] = <<c, l>>]
      /\ pc' = [pc EXCEPT ![t] = "remove"]
      /\ UNCHANGED <<collectors, handlers, listenerHandles, lastId, ids, javaListeners,
                     profiles, updates, jobs, running, target, called, due, heard, reentered>>
  BY DEF RemoveUpdateListener, Lock, java, thread, known
<1>2. /\ \A d \in Collector : mutex'[d] = IF d = c THEN t ELSE mutex[d]
      /\ \A u \in Thread : pc'[u] = IF u = t THEN "remove" ELSE pc[u]
      /\ \A u \in Thread : arg'[u] = IF u = t THEN <<c, l>> ELSE arg[u]
  BY <1>1 DEF IInv, TypeOK
<1>3. TypeOK'
  BY <1>1 DEF IInv, TypeOK
<1>4. \A u \in Thread : pc[u] # "idle" => u # t /\ arg[u][1] # c
  <2> SUFFICES ASSUME NEW u \in Thread, pc[u] # "idle" PROVE u # t /\ arg[u][1] # c
    OBVIOUS
  <2> QED
    BY <1>1, Arguments, Constants
<1>5. LockInv'
  <2>1. \A u \in Thread : pc'[u] # "idle" =>
          arg'[u] \in Collector \X Listener /\ mutex'[arg'[u][1]] = u
    BY <1>2, <1>4 DEF IInv, LockInv
  <2>2. \A d \in Collector : running[d] = "call" => mutex'[d] = Java
    BY <1>1, <1>2, Constants DEF IInv, LockInv
  <2> QED
    BY <2>1, <2>2, <1>1 DEF IInv, LockInv
<1>6. IdsInv'
  BY <1>1, <1>2 DEF IInv, IdsInv
<1> QED
  BY <1>1, <1>3, <1>5, <1>6, JavaFrame, UpdatesFrame, WayFrame, OrderFrame, HeardFrame
  DEF IInv


LEMMA AddToJavaStep ==
  ASSUME IInv, NEW t \in Thread, AddToJava(t)
  PROVE  IInv'
<1>1. PICK c \in Collector, l \in Listener :
        /\ arg[t] = <<c, l>> /\ arg[t][1] = c /\ arg[t][2] = l /\ mutex[c] = t
        /\ \A u \in Thread : pc[u] # "idle" /\ arg[u][1] = c => u = t
  BY Arguments DEF AddToJava
<1>2. /\ pc[t] = "add"
      /\ UNCHANGED <<collectors, handlers, listenerHandles, lastId, profiles, updates,
                     running, target, called, heard, reentered>>
  BY DEF AddToJava
<1>3. CASE AddThrows(t)
  <2>1. /\ pc' = [pc EXCEPT ![t] = "idle"] /\ arg' = [arg EXCEPT ![t] = NoListener]
        /\ mutex' = [mutex EXCEPT ![c] = None]
        /\ UNCHANGED <<ids, javaListeners, jobs, due>>
    BY <1>1, <1>3 DEF AddThrows, Return, Unlock
  <2>2. TypeOK'
    BY <1>2, <2>1 DEF IInv, TypeOK
  <2>3. LockInv'
    BY <1>1, <1>2, <2>1, ReturnUnlocks
  <2>4. IdsInv'
    BY <1>2, <2>1, ReturnForgets DEF IInv
  <2> QED
    BY <1>2, <2>1, <2>2, <2>3, <2>4, JavaFrame, UpdatesFrame, WayFrame, OrderFrame, HeardFrame
    DEF IInv
<1>4. CASE /\ javaListeners' = [javaListeners EXCEPT ![c] = @ \union {Pack(c, l)}]
           /\ ids' = ids \union {l}
           /\ jobs' = jobs \union {<<c, Pack(c, l), n>> : n \in {profiles[c]} \ {0}}
           /\ due' = [due EXCEPT ![l] = {profiles[c]} \ {0}]
           /\ pc' = [pc EXCEPT ![t] = "return"]
           /\ UNCHANGED <<mutex, arg>>
  <2> DEFINE Fresh == {profiles[c]} \ {0}
  <2>1. pc' = [pc EXCEPT ![t] = "return"] /\ mutex' = mutex /\ arg' = arg
    BY <1>4
  <2>2. /\ Fresh \subseteq Update /\ Pack(c, l) \in Nat
        /\ \A n \in Fresh : n <= updates
    BY PackInverse DEF IInv, TypeOK, UpdatesInv, Update
  <2>3. /\ \A d \in Collector : \A data : data \in javaListeners'[d] <=>
             data \in javaListeners[d] \/ (d = c /\ data = Pack(c, l))
        /\ \A m \in Listener : due'[m] = IF m = l THEN Fresh ELSE due[m]
        /\ \A u \in Thread : pc'[u] = IF u = t THEN "return" ELSE pc[u]
    BY <1>4, <2>1 DEF IInv, TypeOK
  <2>4. \A d \in Collector, m \in Listener, n \in Update : <<d, Pack(d, m), n>> \in jobs' <=>
          <<d, Pack(d, m), n>> \in jobs \/ (d = c /\ m = l /\ n \in Fresh)
    BY <1>4, PackInjective
  <2>5. \A job \in jobs' : job \in jobs \/ \E n \in Fresh : job = <<c, Pack(c, l), n>>
    BY <1>4
  <2>6. TypeOK'
    <3>1. javaListeners' \in [Collector -> SUBSET Nat]
      BY <1>4, <2>2 DEF IInv, TypeOK
    <3>2. jobs' \subseteq Collector \X Nat \X Update
      BY <2>5, <2>2 DEF IInv, TypeOK
    <3>3. due' \in [Listener -> SUBSET Update]
      BY <1>4, <2>2 DEF IInv, TypeOK
    <3>4. /\ mutex' \in [Collector -> Thread \union {Java, None}]
          /\ pc' \in [Thread -> {"idle", "create", "add", "return", "remove"}]
          /\ arg' \in [Thread -> (Collector \X Listener) \union {NoListener}]
          /\ ids' \subseteq Listener
      BY <1>4, <2>1 DEF IInv, TypeOK
    <3> QED
      BY <3>1, <3>2, <3>3, <3>4, <1>2 DEF IInv, TypeOK
  <2> HIDE DEF Fresh
  <2>7. /\ c <= collectors /\ l \in handlers[c] /\ l \notin ids
        /\ due[l] = {} /\ heard[l] = {}
        /\ l \in 1..lastId /\ l <= lastId
    BY <1>1, <1>2 DEF IInv, IdsInv, TypeOK
  <2>8. /\ \A d \in Collector, n \in Update : ~Comes(d, l, n)
        /\ \A n \in Update : <<l, n>> \notin called
    <3>1. \A d \in Collector, n \in Update : ~Comes(d, l, n)
      BY <2>7 DEF IInv, WayInv
    <3>2. ASSUME NEW n \in Update, <<l, n>> \in called PROVE FALSE
      <4>1. PICK d \in Collector : running[d] = "call" /\ target[d] = <<d, l, n>>
        BY <3>2 DEF IInv, WayInv
      <4> QED
        BY <4>1, <3>1 DEF Comes
    <3> QED
      BY <3>1, <3>2
  <2>9. LockInv'
    <3>1. \A u \in Thread : pc'[u] # "idle" => pc[u] # "idle"
      BY <1>2, <2>3
    <3> QED
      BY <1>2, <2>1, <3>1 DEF IInv, LockInv
  <2>10. \A d \in Collector : l \in handlers[d] => d = c
    BY <2>7 DEF IInv, IdsInv
  <2>11. IdsInv'
    <3>1. ids' \subseteq 1..lastId
      BY <1>4, <2>7 DEF IInv, IdsInv
    <3>2. ASSUME NEW u \in Thread, pc'[u] \in {"create", "add"}
          PROVE  /\ arg'[u][1] <= collectors
                 /\ arg'[u][2] \in handlers[arg'[u][1]] /\ arg'[u][2] \notin ids'
                 /\ due'[arg'[u][2]] = {} /\ heard[arg'[u][2]] = {}
      <4>1. u # t /\ pc[u] = pc'[u] /\ pc[u] # "idle" /\ arg'[u] = arg[u]
        BY <3>2, <2>1, <2>3
      <4>2. /\ arg[u][1] <= collectors
            /\ arg[u][2] \in handlers[arg[u][1]] /\ arg[u][2] \notin ids
            /\ due[arg[u][2]] = {} /\ heard[arg[u][2]] = {}
        BY <4>1, <3>2 DEF IInv, IdsInv
      <4>3. arg[u][1] \in Collector /\ arg[u][2] \in Listener /\ arg[u][1] # c
        BY <4>1, <1>1, Arguments
      <4>4. arg[u][2] # l
        BY <4>2, <4>3, <2>10
      <4> QED
        BY <4>1, <4>2, <4>3, <4>4, <1>4, <2>3
    <3>3. ASSUME NEW u \in Thread, pc'[u] \in {"return", "remove"}
          PROVE  arg'[u][2] \in handlers[arg'[u][1]]
      <4>1. CASE u = t
        BY <4>1, <1>1, <2>1, <2>7
      <4>2. CASE u # t
        BY <3>3, <4>2, <2>1, <2>3 DEF IInv, IdsInv
      <4> QED
        BY <4>1, <4>2
    <3> QED
      BY <3>1, <3>2, <3>3, <1>2 DEF IInv, IdsInv
  <2>12. JavaInv'
    <3>1. \A d \in Collector : \A data \in javaListeners'[d] : \E m \in Listener : data = Pack(d, m)
      BY <2>3 DEF IInv, JavaInv
    <3>2. ASSUME NEW d \in Collector, NEW m \in Listener
          PROVE  Pack(d, m) \in javaListeners'[d] <=> m \in ids' /\ m \in handlers[d]
      <4>1. Pack(d, m) \in javaListeners'[d] <=>
              Pack(d, m) \in javaListeners[d] \/ (d = c /\ m = l)
        BY <2>3, PackInjective
      <4>2. Pack(d, m) \in javaListeners[d] <=> m \in ids /\ m \in handlers[d]
        BY DEF IInv, JavaInv
      <4>3. m \in ids' <=> m \in ids \/ m = l
        BY <1>4
      <4> QED
        BY <4>1, <4>2, <4>3, <2>7, <2>10
    <3>3. \A m \in ids' : \E d \in Collector : m \in handlers[d]
      BY <1>4, <2>7 DEF IInv, JavaInv
    <3> QED
      BY <3>1, <3>2, <3>3, <1>2 DEF JavaInv
  <2>13. UpdatesInv'
    <3>1. ASSUME NEW m \in Listener
          PROVE  /\ \A n \in due'[m] \union heard[m] : n <= updates
                 /\ m > lastId => due'[m] = {} /\ heard[m] = {}
      <4>1. CASE m = l
        BY <4>1, <2>2, <2>3, <2>7, Constants DEF IInv, UpdatesInv, TypeOK
      <4>2. CASE m # l
        BY <4>2, <2>3 DEF IInv, UpdatesInv
      <4> QED
        BY <4>1, <4>2
    <3> QED
      BY <3>1, <1>2 DEF IInv, UpdatesInv
  <2>14. WayInv'
    <3>1. \A job \in jobs' : \E m \in Listener : job[2] = Pack(job[1], m)
      BY <2>5 DEF IInv, WayInv
    <3>2. \A d \in Collector, m \in Listener, n \in Update :
            Comes(d, m, n)' <=> Comes(d, m, n) \/ (d = c /\ m = l /\ n \in Fresh)
      BY <1>2, <2>4 DEF Comes
    <3>3. \A d \in Collector, m \in Listener, n \in Update : Comes(d, m, n)' =>
            /\ m <= lastId' /\ n <= updates' /\ d <= collectors'
            /\ \A e \in Collector : m \in handlers'[e] => e = d /\ m \in ids'
      <4> SUFFICES ASSUME NEW d \in Collector, NEW m \in Listener, NEW n \in Update,
                          Comes(d, m, n) \/ (d = c /\ m = l /\ n \in Fresh)
                   PROVE  /\ m <= lastId /\ n <= updates /\ d <= collectors
                          /\ \A e \in Collector : m \in handlers[e] => e = d /\ m \in ids'
        BY <3>2, <1>2
      <4>1. CASE Comes(d, m, n)
        BY <4>1, <1>4 DEF IInv, WayInv
      <4>2. CASE d = c /\ m = l /\ n \in Fresh
        BY <4>2, <1>4, <2>2, <2>7, <2>10
      <4> QED
        BY <4>1, <4>2
    <3>4. \A m \in Listener, n \in Update : <<m, n>> \in called' => \E d \in Collector :
            running'[d] = "call" /\ target'[d] = <<d, m, n>> /\ m \in handlers'[d]
      BY <1>2 DEF IInv, WayInv
    <3> QED
      BY <3>1, <3>3, <3>4 DEF WayInv
  <2>15. OrderInv'
    <3>1. ASSUME NEW d \in Collector, NEW m \in Listener, NEW n \in Update,
                 <<d, Pack(d, m), n>> \in jobs'
          PROVE  /\ \A k \in heard[m] : k < n
                 /\ \A k \in Update : running[d] # "idle" /\ target[d] = <<d, m, k>> => k < n
      <4>1. CASE <<d, Pack(d, m), n>> \in jobs
        BY <4>1 DEF IInv, OrderInv
      <4>2. CASE d = c /\ m = l
        BY <4>2, <2>7, <2>8 DEF Comes
      <4> QED
        BY <3>1, <4>1, <4>2, <2>4
    <3> QED
      BY <3>1, <1>2 DEF IInv, OrderInv
  <2>16. HeardInv'
    <3> SUFFICES ASSUME NEW m \in ids', NEW n \in Update
                 PROVE  (n \in due'[m] /\ n \notin heard[m]) <=>
                          \/ \E d \in Collector : <<d, Pack(d, m), n>> \in jobs'
                          \/ \E d \in Collector : running[d] = "lock" /\ target[d] = <<d, m, n>>
                          \/ <<m, n>> \in called
      BY <1>2 DEF HeardInv
    <3>1. CASE m = l
      <4>1. n \in due'[l] /\ n \notin heard[l] <=> n \in Fresh
        BY <2>3, <2>7
      <4>2. (\E d \in Collector : <<d, Pack(d, l), n>> \in jobs') <=> n \in Fresh
        BY <2>4, <2>8 DEF Comes
      <4>3. ~\E d \in Collector : running[d] = "lock" /\ target[d] = <<d, l, n>>
        BY <2>8 DEF Comes
      <4> QED
        BY <3>1, <4>1, <4>2, <4>3, <2>8
    <3>2. CASE m # l
      <4>1. m \in ids /\ m \in Listener /\ due'[m] = due[m]
        BY <3>2, <1>4, <2>3 DEF IInv, TypeOK
      <4>2. \A d \in Collector : <<d, Pack(d, m), n>> \in jobs' <=> <<d, Pack(d, m), n>> \in jobs
        BY <3>2, <4>1, <2>4
      <4> QED
        BY <4>1, <4>2 DEF IInv, HeardInv
    <3> QED
      BY <3>1, <3>2
  <2> QED
    BY <2>6, <2>9, <2>11, <2>12, <2>13, <2>14, <2>15, <2>16 DEF IInv
<1> QED
  BY <1>1, <1>3, <1>4 DEF AddToJava

LEMMA ReturnIdStep ==
  ASSUME IInv, NEW t \in Thread, ReturnId(t)
  PROVE  IInv'
<1>1. PICK c \in Collector, l \in Listener :
        arg[t] = <<c, l>> /\ arg[t][1] = c /\ mutex[c] = t
  BY Arguments DEF ReturnId
<1>2. /\ pc[t] # "idle"
      /\ pc' = [pc EXCEPT ![t] = "idle"] /\ arg' = [arg EXCEPT ![t] = NoListener]
      /\ mutex' = [mutex EXCEPT ![c] = None]
      /\ UNCHANGED <<collectors, handlers, listenerHandles, lastId, ids, javaListeners,
                     profiles, updates, jobs, running, target, called, due, heard, reentered>>
  BY <1>1 DEF ReturnId, Return, Unlock, java, thread, known
<1>3. TypeOK'
  BY <1>2 DEF IInv, TypeOK
<1>4. LockInv'
  BY <1>1, <1>2, ReturnUnlocks
<1>5. IdsInv'
  BY <1>2, ReturnForgets DEF IInv
<1> QED
  BY <1>2, <1>3, <1>4, <1>5, JavaFrame, UpdatesFrame, WayFrame, OrderFrame, HeardFrame DEF IInv

LEMMA RemoveUpdateListenerImplStep ==
  ASSUME IInv, NEW t \in Thread, RemoveUpdateListenerImpl(t)
  PROVE  IInv'
<1>1. PICK c \in Collector, l \in Listener :
        /\ arg[t] = <<c, l>> /\ arg[t][1] = c /\ arg[t][2] = l /\ mutex[c] = t
        /\ \A u \in Thread : pc[u] # "idle" /\ arg[u][1] = c => u = t
  BY Arguments DEF RemoveUpdateListenerImpl
<1>2. /\ pc[t] = "remove"
      /\ pc' = [pc EXCEPT ![t] = "idle"] /\ arg' = [arg EXCEPT ![t] = NoListener]
      /\ mutex' = [mutex EXCEPT ![c] = None]
      /\ UNCHANGED <<collectors, listenerHandles, lastId, profiles, updates, jobs, running,
                     target, called, due, heard, reentered>>
  BY <1>1 DEF RemoveUpdateListenerImpl, Return, Unlock, thread, known
<1>3. LockInv'
  BY <1>1, <1>2, ReturnUnlocks
<1>4. CASE UNCHANGED <<javaListeners, handlers, ids>>
  <2>1. TypeOK'
    BY <1>2, <1>4 DEF IInv, TypeOK
  <2>2. IdsInv'
    BY <1>2, <1>4, ReturnForgets DEF IInv
  <2> QED
    BY <1>2, <1>3, <1>4, <2>1, <2>2, JavaFrame, UpdatesFrame, WayFrame, OrderFrame, HeardFrame
    DEF IInv
<1>5. CASE /\ javaListeners' = [javaListeners EXCEPT ![c] = @ \ {Pack(c, l)}]
           /\ handlers' = [handlers EXCEPT ![c] = @ \ {l}]
           /\ ids' = ids \ {l}
  <2>1. TypeOK'
    BY <1>2, <1>5 DEF IInv, TypeOK
  <2>2. /\ \A d \in Collector : \A data : data \in javaListeners'[d] <=>
             data \in javaListeners[d] /\ ~(d = c /\ data = Pack(c, l))
        /\ \A d \in Collector : \A m : m \in handlers'[d] <=>
             m \in handlers[d] /\ ~(d = c /\ m = l)
        /\ \A u \in Thread : pc'[u] = IF u = t THEN "idle" ELSE pc[u]
        /\ \A u \in Thread : u # t => arg'[u] = arg[u]
    BY <1>2, <1>5 DEF IInv, TypeOK
  <2>3. /\ l \in handlers[c] /\ \A d \in Collector : l \in handlers[d] => d = c
        /\ running[c] # "call"
    BY <1>1, <1>2, Constants DEF IInv, IdsInv, LockInv
  <2>4. IdsInv'
    <3>1. ids' \subseteq 1..lastId /\ \A d \in Collector : handlers'[d] \subseteq 1..lastId
      BY <1>5, <2>2 DEF IInv, IdsInv
    <3>2. \A d, e \in Collector : \A m \in handlers'[d] : m \in handlers'[e] => d = e
      BY <2>2 DEF IInv, IdsInv
    <3>3. ASSUME NEW u \in Thread, pc'[u] # "idle"
          PROVE  pc[u] = pc'[u] /\ arg'[u] = arg[u] /\ handlers'[arg[u][1]] = handlers[arg[u][1]]
      <4>1. u # t /\ pc[u] = pc'[u] /\ arg'[u] = arg[u]
        BY <3>3, <2>2
      <4>2. arg[u][1] \in Collector /\ arg[u][1] # c
        BY <4>1, <3>3, <1>1, Arguments
      <4> QED
        BY <4>1, <4>2, <1>5 DEF IInv, TypeOK
    <3>4. ASSUME NEW u \in Thread, pc'[u] \in {"create", "add"}
          PROVE  /\ arg'[u][1] <= collectors
                 /\ arg'[u][2] \in handlers'[arg'[u][1]] /\ arg'[u][2] \notin ids'
                 /\ due[arg'[u][2]] = {} /\ heard[arg'[u][2]] = {}
      <4>1. pc[u] = pc'[u] /\ arg'[u] = arg[u] /\ handlers'[arg[u][1]] = handlers[arg[u][1]]
        BY <3>3, <3>4
      <4>2. /\ arg[u][1] <= collectors
            /\ arg[u][2] \in handlers[arg[u][1]] /\ arg[u][2] \notin ids
            /\ due[arg[u][2]] = {} /\ heard[arg[u][2]] = {}
        BY <4>1, <3>4 DEF IInv, IdsInv
      <4> QED
        BY <4>1, <4>2, <1>5
    <3>5. \A u \in Thread : pc'[u] \in {"return", "remove"} => arg'[u][2] \in handlers'[arg'[u][1]]
      BY <3>3 DEF IInv, IdsInv
    <3> QED
      BY <3>1, <3>2, <3>4, <3>5, <1>2 DEF IdsInv
  <2>5. JavaInv'
    <3>1. \A d \in Collector : \A data \in javaListeners'[d] : \E m \in Listener : data = Pack(d, m)
      BY <2>2 DEF IInv, JavaInv
    <3>2. ASSUME NEW d \in Collector, NEW m \in Listener
          PROVE  Pack(d, m) \in javaListeners'[d] <=> m \in ids' /\ m \in handlers'[d]
      <4>1. Pack(d, m) \in javaListeners'[d] <=>
              Pack(d, m) \in javaListeners[d] /\ ~(d = c /\ m = l)
        BY <2>2, PackInjective
      <4>2. Pack(d, m) \in javaListeners[d] <=> m \in ids /\ m \in handlers[d]
        BY DEF IInv, JavaInv
      <4>3. m \in ids' <=> m \in ids /\ m # l
        BY <1>5
      <4> QED
        BY <4>1, <4>2, <4>3, <2>2, <2>3
    <3>3. \A m \in ids' : \E d \in Collector : m \in handlers'[d]
      BY <1>5, <2>2 DEF IInv, JavaInv
    <3> QED
      BY <3>1, <3>2, <3>3 DEF JavaInv
  <2>6. WayInv'
    <3>1. \A job \in jobs' : \E m \in Listener : job[2] = Pack(job[1], m)
      BY <1>2 DEF IInv, WayInv
    <3>2. \A d \in Collector, m \in Listener, n \in Update : Comes(d, m, n)' = Comes(d, m, n)
      BY <1>2 DEF Comes
    <3>3. \A d \in Collector, m \in Listener, n \in Update : Comes(d, m, n)' =>
            /\ m <= lastId' /\ n <= updates' /\ d <= collectors'
            /\ \A e \in Collector : m \in handlers'[e] => e = d /\ m \in ids'
      <4> SUFFICES ASSUME NEW d \in Collector, NEW m \in Listener, NEW n \in Update,
                          Comes(d, m, n)
                   PROVE  /\ m <= lastId /\ n <= updates /\ d <= collectors
                          /\ \A e \in Collector : m \in handlers'[e] => e = d /\ m \in ids'
        BY <3>2, <1>2
      <4>1. /\ m <= lastId /\ n <= updates /\ d <= collectors
            /\ \A e \in Collector : m \in handlers[e] => e = d /\ m \in ids
        BY DEF IInv, WayInv
      <4> QED
        BY <4>1, <1>5, <2>2, <2>3
    <3>4. \A m \in Listener, n \in Update : <<m, n>> \in called' => \E d \in Collector :
            running'[d] = "call" /\ target'[d] = <<d, m, n>> /\ m \in handlers'[d]
      <4> SUFFICES ASSUME NEW m \in Listener, NEW n \in Update, <<m, n>> \in called
                   PROVE  \E d \in Collector : /\ running[d] = "call" /\ target[d] = <<d, m, n>>
                                               /\ m \in handlers'[d]
        BY <1>2
      <4>1. PICK d \in Collector :
              running[d] = "call" /\ target[d] = <<d, m, n>> /\ m \in handlers[d]
        BY DEF IInv, WayInv
      <4> QED
        BY <4>1, <2>2, <2>3
    <3> QED
      BY <3>1, <3>3, <3>4 DEF WayInv
  <2>7. HeardInv'
    BY <1>2, <1>5 DEF IInv, HeardInv
  <2> QED
    BY <1>2, <1>3, <2>1, <2>4, <2>5, <2>6, <2>7, UpdatesFrame, OrderFrame DEF IInv
<1> QED
  BY <1>1, <1>4, <1>5 DEF RemoveUpdateListenerImpl

LEMMA UpdateProfilesStep ==
  ASSUME IInv, NEW c \in Collector, UpdateProfiles(c)
  PROVE  IInv'
<1> DEFINE now == updates + 1
           Told(m) == m \in ids /\ m \in handlers[c]
<1>1. /\ c <= collectors /\ updates' = now
      /\ profiles' = [profiles EXCEPT ![c] = now]
      /\ jobs' = jobs \union {<<c, data, now>> : data \in javaListeners[c]}
      /\ UNCHANGED <<collectors, mutex, handlers, listenerHandles, lastId, pc, arg, ids,
                     javaListeners, running, target, called, heard, reentered>>
  BY DEF UpdateProfiles, cpp, callers
<1>2. updates \in Nat /\ now \in Update /\ now \in 0..MaxUpdates /\ now > updates
  BY CollectorAssumption DEF IInv, TypeOK, UpdateProfiles, Update
<1>3. \A m \in Listener : Pack(c, m) \in javaListeners[c] <=> Told(m)
  BY DEF IInv, JavaInv
<1>4. \A m \in Listener : due'[m] = IF Told(m) THEN due[m] \union {now} ELSE due[m]
  BY <1>3 DEF UpdateProfiles
<1> HIDE DEF now
<1>5. \A d \in Collector, m \in Listener, n \in Update : <<d, Pack(d, m), n>> \in jobs' <=>
        <<d, Pack(d, m), n>> \in jobs \/ (d = c /\ n = now /\ Told(m))
  BY <1>1, <1>3
<1>6. TypeOK'
  <2>1. due' \in [Listener -> SUBSET Update]
    <3>1. due' = [m \in Listener |-> IF Pack(c, m) \in javaListeners[c]
                                       THEN due[m] \union {now} ELSE due[m]]
      BY DEF UpdateProfiles, now
    <3> QED
      BY <3>1, <1>2 DEF IInv, TypeOK
  <2>2. jobs' \subseteq Collector \X Nat \X Update
    BY <1>1, <1>2 DEF IInv, TypeOK
  <2>3. profiles' \in [Collector -> 0..MaxUpdates] /\ updates' \in 0..MaxUpdates
    BY <1>1, <1>2 DEF IInv, TypeOK
  <2> QED
    BY <2>1, <2>2, <2>3, <1>1 DEF IInv, TypeOK
<1>7. \A d \in Collector, m \in Listener, n \in Update : Comes(d, m, n) => n <= updates
  BY DEF IInv, WayInv
<1>8. IdsInv'
  <2>1. ASSUME NEW u \in Thread, pc[u] \in {"create", "add"}
        PROVE  /\ arg[u][1] <= collectors
               /\ arg[u][2] \in handlers[arg[u][1]] /\ arg[u][2] \notin ids
               /\ due'[arg[u][2]] = {} /\ heard[arg[u][2]] = {}
    <3>1. /\ arg[u][1] <= collectors
          /\ arg[u][2] \in handlers[arg[u][1]] /\ arg[u][2] \notin ids
          /\ due[arg[u][2]] = {} /\ heard[arg[u][2]] = {}
      BY <2>1 DEF IInv, IdsInv
    <3>2. arg[u][2] \in Listener
      BY <2>1, Arguments
    <3> QED
      BY <3>1, <3>2, <1>4
  <2> QED
    BY <2>1, <1>1 DEF IInv, IdsInv
<1>9. UpdatesInv'
  <2>1. \A d \in Collector : profiles'[d] <= updates'
    <3>1. \A d \in Collector : profiles'[d] = IF d = c THEN now ELSE profiles[d]
      BY <1>1 DEF IInv, TypeOK
    <3>2. \A d \in Collector : profiles[d] \in Nat /\ profiles[d] <= updates
      BY DEF IInv, TypeOK, UpdatesInv
    <3> QED
      BY <3>1, <3>2, <1>1, <1>2, Constants
  <2>2. ASSUME NEW m \in Listener, NEW n \in due'[m] \union heard[m]
        PROVE  n <= updates'
    <3>1. n \in due[m] \union heard[m] \/ n = now
      BY <1>4
    <3>2. CASE n \in due[m] \union heard[m]
      <4>1. n \in Nat /\ n <= updates
        BY <3>2, Constants DEF IInv, TypeOK, UpdatesInv
      <4> QED
        BY <4>1, <1>1, <1>2, Constants
    <3>3. CASE n = now
      BY <3>3, <1>1, <1>2, Constants
    <3> QED
      BY <3>1, <3>2, <3>3
  <2>3. ASSUME NEW m \in Listener, m > lastId
        PROVE  due'[m] = {} /\ heard[m] = {}
    <3>1. m \notin ids
      BY <2>3, Constants DEF IInv, TypeOK, IdsInv
    <3> QED
      BY <3>1, <2>3, <1>4 DEF IInv, UpdatesInv
  <2> QED
    BY <2>1, <2>2, <2>3, <1>1 DEF UpdatesInv
<1>10. WayInv'
  <2>1. \A job \in jobs' : \E m \in Listener : job[2] = Pack(job[1], m)
    BY <1>1 DEF IInv, WayInv, JavaInv
  <2>2. \A d \in Collector, m \in Listener, n \in Update :
          Comes(d, m, n)' <=> Comes(d, m, n) \/ (d = c /\ n = now /\ Told(m))
    BY <1>1, <1>5 DEF Comes
  <2>3. \A d \in Collector, m \in Listener, n \in Update : Comes(d, m, n)' =>
          /\ m <= lastId' /\ n <= updates' /\ d <= collectors'
          /\ \A e \in Collector : m \in handlers'[e] => e = d /\ m \in ids'
    <3> SUFFICES ASSUME NEW d \in Collector, NEW m \in Listener, NEW n \in Update,
                        Comes(d, m, n) \/ (d = c /\ n = now /\ Told(m))
                 PROVE  /\ m <= lastId /\ n <= now /\ d <= collectors
                        /\ \A e \in Collector : m \in handlers[e] => e = d /\ m \in ids
      BY <2>2, <1>1
    <3>1. CASE Comes(d, m, n)
      <4>1. /\ m <= lastId /\ n <= updates /\ d <= collectors
            /\ \A e \in Collector : m \in handlers[e] => e = d /\ m \in ids
        BY <3>1 DEF IInv, WayInv
      <4>2. n <= now
        BY <4>1, <1>2, Constants
      <4> QED
        BY <4>1, <4>2
    <3>2. CASE d = c /\ n = now /\ Told(m)
      <4>1. m <= lastId /\ \A e \in Collector : m \in handlers[e] => e = c
        BY <3>2 DEF IInv, IdsInv, TypeOK
      <4> QED
        BY <3>2, <4>1, <1>1, <1>2, Constants
    <3> QED
      BY <3>1, <3>2
  <2>4. \A m \in Listener, n \in Update : <<m, n>> \in called' => \E d \in Collector :
          running'[d] = "call" /\ target'[d] = <<d, m, n>> /\ m \in handlers'[d]
    BY <1>1 DEF IInv, WayInv
  <2> QED
    BY <2>1, <2>3, <2>4 DEF WayInv
<1>11. OrderInv'
  <2>1. ASSUME NEW d \in Collector, NEW m \in Listener, NEW n \in Update,
               <<d, Pack(d, m), n>> \in jobs'
        PROVE  /\ \A k \in heard[m] : k < n
               /\ \A k \in Update : running[d] # "idle" /\ target[d] = <<d, m, k>> => k < n
    <3>1. CASE <<d, Pack(d, m), n>> \in jobs
      BY <3>1 DEF IInv, OrderInv
    <3>2. CASE n = now
      <4>1. \A k \in heard[m] : k \in Nat /\ k <= updates
        BY Constants DEF IInv, TypeOK, UpdatesInv
      <4>2. \A k \in Update : running[d] # "idle" /\ target[d] = <<d, m, k>> => k <= updates
        BY <1>7 DEF Comes
      <4> QED
        BY <3>2, <4>1, <4>2, <1>2, Constants
    <3> QED
      BY <2>1, <3>1, <3>2, <1>5
  <2> QED
    BY <2>1, <1>1 DEF IInv, OrderInv
<1>12. HeardInv'
  <2> SUFFICES ASSUME NEW m \in ids, NEW n \in Update
               PROVE  (n \in due'[m] /\ n \notin heard[m]) <=>
                        \/ \E d \in Collector : <<d, Pack(d, m), n>> \in jobs'
                        \/ \E d \in Collector : running[d] = "lock" /\ target[d] = <<d, m, n>>
                        \/ <<m, n>> \in called
    BY <1>1 DEF HeardInv
  <2>1. m \in Listener
    BY DEF IInv, TypeOK
  <2>2. CASE n # now
    <3>1. n \in due'[m] <=> n \in due[m]
      BY <2>1, <2>2, <1>4
    <3>2. \A d \in Collector : <<d, Pack(d, m), n>> \in jobs' <=> <<d, Pack(d, m), n>> \in jobs
      BY <2>1, <2>2, <1>5
    <3> QED
      BY <3>1, <3>2 DEF IInv, HeardInv
  <2>3. CASE n = now
    <3>1. n \notin heard[m] /\ n \notin due[m]
      BY <2>1, <2>3, <1>2, Constants DEF IInv, UpdatesInv
    <3>2. n \in due'[m] <=> Told(m)
      BY <2>1, <2>3, <3>1, <1>4
    <3>3. \A d \in Collector : ~Comes(d, m, n)
      BY <2>1, <2>3, <1>2, <1>7, Constants
    <3>4. (\E d \in Collector : <<d, Pack(d, m), n>> \in jobs') <=> Told(m)
      BY <2>1, <2>3, <3>3, <1>5 DEF Comes
    <3>5. ~\E d \in Collector : running[d] = "lock" /\ target[d] = <<d, m, n>>
      BY <3>3 DEF Comes
    <3>6. <<m, n>> \notin called
      <4> SUFFICES ASSUME <<m, n>> \in called PROVE FALSE
        OBVIOUS
      <4>1. PICK d \in Collector : running[d] = "call" /\ target[d] = <<d, m, n>>
        BY <2>1 DEF IInv, WayInv
      <4> QED
        BY <4>1, <3>3 DEF Comes
    <3> QED
      BY <3>1, <3>2, <3>4, <3>5, <3>6
  <2> QED
    BY <2>2, <2>3
<1> QED
  BY <1>1, <1>6, <1>8, <1>9, <1>10, <1>11, <1>12, LockFrame, JavaFrame DEF IInv

LEMMA OnInstrumentProfilesUpdateStep ==
  ASSUME IInv, NEW c \in Collector, OnInstrumentProfilesUpdate(c)
  PROVE  IInv'
<1>1. PICK job \in jobs :
        /\ running[c] = "idle" /\ job[1] = c
        /\ \A other \in jobs : other[2] = job[2] => job[3] <= other[3]
        /\ jobs' = jobs \ {job}
        /\ IF Unpack(job[2])[1] \in 1..collectors
             THEN /\ running' = [running EXCEPT ![c] = "lock"]
                  /\ target' = [target EXCEPT ![c] =
                                  <<Unpack(job[2])[1], Unpack(job[2])[2], job[3]>>]
             ELSE UNCHANGED <<running, target>>
        /\ UNCHANGED <<cpp, callers, java, known>>
  BY DEF OnInstrumentProfilesUpdate
<1>2. UNCHANGED <<collectors, mutex, handlers, listenerHandles, lastId, pc, arg, ids,
                  javaListeners, profiles, updates, called, due, heard, reentered>>
  BY <1>1 DEF cpp, callers, java, known
<1>3. PICK l \in Listener : job[2] = Pack(c, l)
  BY <1>1 DEF IInv, WayInv
<1>4. PICK n \in Update : job = <<c, Pack(c, l), n>> /\ job[3] = n
  BY <1>1, <1>3 DEF IInv, TypeOK
<1>5. Unpack(job[2])[1] = c /\ Unpack(job[2])[2] = l
  BY <1>3, PackInverse
<1>6. Comes(c, l, n) /\ c <= collectors
  BY <1>4 DEF IInv, WayInv, Comes
<1>7. c \in 1..collectors
  BY <1>6, Constants DEF IInv, TypeOK, Collector
<1>8. /\ running' = [running EXCEPT ![c] = "lock"]
      /\ target' = [target EXCEPT ![c] = <<c, l, n>>]
  BY <1>1, <1>4, <1>5, <1>7
<1>9. /\ \A d \in Collector : running'[d] = IF d = c THEN "lock" ELSE running[d]
      /\ \A d \in Collector : target'[d] = IF d = c THEN <<c, l, n>> ELSE target[d]
  BY <1>8 DEF IInv, TypeOK
<1>10. \A d \in Collector, m \in Listener, k \in Update : <<d, Pack(d, m), k>> \in jobs' <=>
         <<d, Pack(d, m), k>> \in jobs /\ ~(d = c /\ m = l /\ k = n)
  BY <1>1, <1>4, PackInjective
<1>11. TypeOK'
  <2>1. target' \in [Collector -> Target \union {NoTarget}]
    BY <1>8 DEF IInv, TypeOK, Target
  <2>2. running' \in [Collector -> {"idle", "lock", "call"}]
    BY <1>8 DEF IInv, TypeOK
  <2>3. jobs' \subseteq Collector \X Nat \X Update
    BY <1>1 DEF IInv, TypeOK
  <2> QED
    BY <2>1, <2>2, <2>3, <1>2 DEF IInv, TypeOK
<1>12. LockInv'
  <2>1. \A d \in Collector : running'[d] # "idle" => target'[d] \in Target /\ target'[d][1] = d
    BY <1>9 DEF IInv, LockInv, Target
  <2>2. \A d \in Collector : running'[d] = "call" => mutex[d] = Java
    BY <1>9 DEF IInv, LockInv
  <2> QED
    BY <2>1, <2>2, <1>2 DEF IInv, LockInv
<1>13. WayInv'
  <2>1. \A other \in jobs' : \E m \in Listener : other[2] = Pack(other[1], m)
    BY <1>1 DEF IInv, WayInv
  <2>2. ASSUME NEW d \in Collector, NEW m \in Listener, NEW k \in Update, Comes(d, m, k)'
        PROVE  Comes(d, m, k)
    BY <2>2, <1>4, <1>9, <1>10 DEF Comes
  <2>3. \A d \in Collector, m \in Listener, k \in Update : Comes(d, m, k)' =>
          /\ m <= lastId' /\ k <= updates' /\ d <= collectors'
          /\ \A e \in Collector : m \in handlers'[e] => e = d /\ m \in ids'
    BY <2>2, <1>2 DEF IInv, WayInv
  <2>4. \A m \in Listener, k \in Update : <<m, k>> \in called' => \E d \in Collector :
          running'[d] = "call" /\ target'[d] = <<d, m, k>> /\ m \in handlers'[d]
    <3> SUFFICES ASSUME NEW m \in Listener, NEW k \in Update, <<m, k>> \in called
                 PROVE  \E d \in Collector : /\ running'[d] = "call" /\ target'[d] = <<d, m, k>>
                                             /\ m \in handlers[d]
      BY <1>2
    <3>1. PICK d \in Collector :
            running[d] = "call" /\ target[d] = <<d, m, k>> /\ m \in handlers[d]
      BY DEF IInv, WayInv
    <3>2. d # c
      BY <3>1, <1>1
    <3> QED
      BY <3>1, <3>2, <1>9
  <2> QED
    BY <2>1, <2>3, <2>4 DEF WayInv
<1>14. OrderInv'
  <2>1. ASSUME NEW d \in Collector, NEW m \in Listener, NEW k \in Update,
               <<d, Pack(d, m), k>> \in jobs'
        PROVE  /\ \A i \in heard[m] : i < k
               /\ \A i \in Update : running'[d] # "idle" /\ target'[d] = <<d, m, i>> => i < k
    <3>1. <<d, Pack(d, m), k>> \in jobs
      BY <2>1, <1>10
    <3>2. \A i \in heard[m] : i < k
      BY <3>1 DEF IInv, OrderInv
    <3>3. ASSUME NEW i \in Update, running'[d] # "idle", target'[d] = <<d, m, i>>
          PROVE  i < k
      <4>1. CASE d # c
        BY <4>1, <3>1, <3>3, <1>9 DEF IInv, OrderInv
      <4>2. CASE d = c
        <5>1. m = l /\ i = n
          BY <4>2, <3>3, <1>9
        <5>2. n <= k /\ k # n
          BY <5>1, <4>2, <2>1, <3>1, <1>1, <1>4, <1>10
        <5> QED
          BY <5>1, <5>2, Constants
      <4> QED
        BY <4>1, <4>2
    <3> QED
      BY <3>2, <3>3
  <2>2. ASSUME NEW d \in Collector, NEW m \in Listener, NEW k \in Update,
               running'[d] = "lock", target'[d] = <<d, m, k>>
        PROVE  \A i \in heard[m] : i < k
    <3>1. CASE d # c
      BY <3>1, <2>2, <1>9 DEF IInv, OrderInv
    <3>2. CASE d = c
      <4>1. m = l /\ k = n
        BY <3>2, <2>2, <1>9
      <4> QED
        BY <4>1, <1>4 DEF IInv, OrderInv
    <3> QED
      BY <3>1, <3>2
  <2> QED
    BY <2>1, <2>2, <1>2 DEF IInv, OrderInv
<1>15. HeardInv'
  <2> SUFFICES ASSUME NEW m \in ids, NEW k \in Update
               PROVE  (k \in due[m] /\ k \notin heard[m]) <=>
                        \/ \E d \in Collector : <<d, Pack(d, m), k>> \in jobs'
                        \/ \E d \in Collector : running'[d] = "lock" /\ target'[d] = <<d, m, k>>
                        \/ <<m, k>> \in called
    BY <1>2 DEF HeardInv
  <2>1. m \in Listener
    BY DEF IInv, TypeOK
  <2>2. (k \in due[m] /\ k \notin heard[m]) <=>
          \/ \E d \in Collector : <<d, Pack(d, m), k>> \in jobs
          \/ \E d \in Collector : running[d] = "lock" /\ target[d] = <<d, m, k>>
          \/ <<m, k>> \in called
    BY DEF IInv, HeardInv
  <2>3. CASE m = l /\ k = n
    BY <2>2, <2>3, <1>4, <1>9
  <2>4. CASE ~(m = l /\ k = n)
    <3>1. \A d \in Collector : <<d, Pack(d, m), k>> \in jobs' <=> <<d, Pack(d, m), k>> \in jobs
      BY <2>1, <2>4, <1>10
    <3>2. \A d \in Collector : running'[d] = "lock" /\ target'[d] = <<d, m, k>> <=>
                               running[d] = "lock" /\ target[d] = <<d, m, k>>
      BY <2>4, <1>1, <1>9
    <3> QED
      BY <2>2, <3>1, <3>2
  <2> QED
    BY <2>3, <2>4
<1> QED
  BY <1>2, <1>11, <1>12, <1>13, <1>14, <1>15, IdsFrame, JavaFrame, UpdatesFrame DEF IInv

LEMMA CallHandlerStep ==
  ASSUME IInv, NEW c \in Collector, CallHandler(c)
  PROVE  IInv'
<1>1. running[c] = "lock"
  BY DEF CallHandler
<1>2. PICK l \in Listener, n \in Update :
        /\ target[c] = <<c, l, n>>
        /\ target[c][1] = c /\ target[c][2] = l /\ target[c][3] = n
  BY <1>1, Targets
<1>3. /\ mutex[c] = None
      /\ UNCHANGED <<collectors, handlers, listenerHandles, lastId, pc, arg, ids,
                     javaListeners, profiles, updates, jobs, due, heard, reentered>>
  BY <1>2 DEF CallHandler, callers, java
<1>4. Comes(c, l, n) /\ (\A d \in Collector : l \in handlers[d] => d = c /\ l \in ids)
  <2>1. Comes(c, l, n)
    BY <1>1, <1>2 DEF Comes
  <2> QED
    BY <2>1 DEF IInv, WayInv
<1>5. CASE l \in handlers[c]
  <2>1. /\ mutex' = [mutex EXCEPT ![c] = Java]
        /\ called' = called \union {<<l, n>>}
        /\ running' = [running EXCEPT ![c] = "call"]
        /\ target' = target
    BY <1>2, <1>5 DEF CallHandler, Lock
  <2>2. /\ \A d \in Collector : mutex'[d] = IF d = c THEN Java ELSE mutex[d]
        /\ \A d \in Collector : running'[d] = IF d = c THEN "call" ELSE running[d]
        /\ \A m \in Listener, k \in Update : <<m, k>> \in called' <=>
             <<m, k>> \in called \/ (m = l /\ k = n)
    BY <2>1 DEF IInv, TypeOK
  <2>3. TypeOK'
    BY <1>3, <2>1 DEF IInv, TypeOK
  <2>4. LockInv'
    <3>1. ASSUME NEW u \in Thread, pc[u] # "idle"
          PROVE  arg[u] \in Collector \X Listener /\ mutex'[arg[u][1]] = u
      <4>1. arg[u] \in Collector \X Listener /\ mutex[arg[u][1]] = u /\ arg[u][1] # c
        BY <3>1, <1>3, Constants DEF IInv, LockInv
      <4> QED
        BY <4>1, <2>2
    <3>2. \A d \in Collector : running'[d] = "call" => mutex'[d] = Java
      BY <2>2 DEF IInv, LockInv
    <3>3. \A d \in Collector : running'[d] # "idle" => target'[d] \in Target /\ target'[d][1] = d
      BY <1>1, <2>1, <2>2 DEF IInv, LockInv
    <3> QED
      BY <3>1, <3>2, <3>3, <1>3 DEF LockInv
  <2>5. WayInv'
    <3>1. \A job \in jobs' : \E m \in Listener : job[2] = Pack(job[1], m)
      BY <1>3 DEF IInv, WayInv
    <3>2. \A d \in Collector, m \in Listener, k \in Update : Comes(d, m, k)' <=> Comes(d, m, k)
      BY <1>1, <1>3, <2>1, <2>2 DEF Comes
    <3>3. \A d \in Collector, m \in Listener, k \in Update : Comes(d, m, k)' =>
            /\ m <= lastId' /\ k <= updates' /\ d <= collectors'
            /\ \A e \in Collector : m \in handlers'[e] => e = d /\ m \in ids'
      BY <3>2, <1>3 DEF IInv, WayInv
    <3>4. \A m \in Listener, k \in Update : <<m, k>> \in called' => \E d \in Collector :
            running'[d] = "call" /\ target'[d] = <<d, m, k>> /\ m \in handlers'[d]
      <4> SUFFICES ASSUME NEW m \in Listener, NEW k \in Update, <<m, k>> \in called'
                   PROVE  \E d \in Collector : /\ running'[d] = "call" /\ target[d] = <<d, m, k>>
                                               /\ m \in handlers[d]
        BY <1>3, <2>1
      <4>1. CASE m = l /\ k = n
        BY <4>1, <1>2, <1>5, <2>2
      <4>2. CASE <<m, k>> \in called
        <5>1. PICK d \in Collector :
                running[d] = "call" /\ target[d] = <<d, m, k>> /\ m \in handlers[d]
          BY <4>2 DEF IInv, WayInv
        <5> QED
          BY <5>1, <2>2
      <4> QED
        BY <4>1, <4>2, <2>2
    <3> QED
      BY <3>1, <3>3, <3>4 DEF WayInv
  <2>6. OrderInv'
    <3>1. \A m \in heard[l] : m < n
      BY <1>1, <1>2 DEF IInv, OrderInv
    <3>2. \A m \in Listener, k \in Update : <<m, k>> \in called' => \A i \in heard[m] : i < k
      BY <3>1, <2>2 DEF IInv, OrderInv
    <3>3. \A d \in Collector, m \in Listener, k \in Update : <<d, Pack(d, m), k>> \in jobs' =>
            /\ \A i \in heard[m] : i < k
            /\ \A i \in Update : running'[d] # "idle" /\ target'[d] = <<d, m, i>> => i < k
      BY <1>1, <1>3, <2>1, <2>2 DEF IInv, OrderInv
    <3>4. \A d \in Collector, m \in Listener, k \in Update :
            running'[d] = "lock" /\ target'[d] = <<d, m, k>> => \A i \in heard[m] : i < k
      BY <2>1, <2>2 DEF IInv, OrderInv
    <3> QED
      BY <3>2, <3>3, <3>4, <1>3 DEF OrderInv
  <2>7. HeardInv'
    <3> SUFFICES ASSUME NEW m \in ids, NEW k \in Update
                 PROVE  (k \in due[m] /\ k \notin heard[m]) <=>
                          \/ \E d \in Collector : <<d, Pack(d, m), k>> \in jobs
                          \/ \E d \in Collector : running'[d] = "lock" /\ target[d] = <<d, m, k>>
                          \/ <<m, k>> \in called'
      BY <1>3, <2>1 DEF HeardInv
    <3>1. m \in Listener
      BY DEF IInv, TypeOK
    <3>2. (k \in due[m] /\ k \notin heard[m]) <=>
            \/ \E d \in Collector : <<d, Pack(d, m), k>> \in jobs
            \/ \E d \in Collector : running[d] = "lock" /\ target[d] = <<d, m, k>>
            \/ <<m, k>> \in called
      BY DEF IInv, HeardInv
    <3>3. CASE m = l /\ k = n
      BY <3>1, <3>2, <3>3, <1>1, <1>2, <2>2
    <3>4. CASE ~(m = l /\ k = n)
      <4>1. \A d \in Collector : running'[d] = "lock" /\ target[d] = <<d, m, k>> <=>
                                 running[d] = "lock" /\ target[d] = <<d, m, k>>
        BY <3>4, <1>2, <2>2
      <4> QED
        BY <3>1, <3>2, <3>4, <4>1, <2>2
    <3> QED
      BY <3>3, <3>4
  <2> QED
    BY <1>3, <2>3, <2>4, <2>5, <2>6, <2>7, IdsFrame, JavaFrame, UpdatesFrame DEF IInv
<1>6. CASE l \notin handlers[c]
  <2>1. /\ running' = [running EXCEPT ![c] = "idle"]
        /\ target' = [target EXCEPT ![c] = NoTarget]
        /\ UNCHANGED <<mutex, called>>
    BY <1>2, <1>6 DEF CallHandler, Done
  <2>2. /\ \A d \in Collector : running'[d] = IF d = c THEN "idle" ELSE running[d]
        /\ \A d \in Collector : d # c => target'[d] = target[d]
    BY <2>1 DEF IInv, TypeOK
  <2>3. TypeOK'
    BY <1>3, <2>1 DEF IInv, TypeOK
  <2>4. l \notin ids
    BY <1>4, <1>6 DEF IInv, JavaInv
  <2>5. LockInv'
    BY <1>3, <2>1, <2>2 DEF IInv, LockInv
  <2>6. WayInv'
    <3>1. \A job \in jobs' : \E m \in Listener : job[2] = Pack(job[1], m)
      BY <1>3 DEF IInv, WayInv
    <3>2. \A d \in Collector, m \in Listener, k \in Update : Comes(d, m, k)' => Comes(d, m, k)
      BY <1>3, <2>2 DEF Comes
    <3>3. \A d \in Collector, m \in Listener, k \in Update : Comes(d, m, k)' =>
            /\ m <= lastId' /\ k <= updates' /\ d <= collectors'
            /\ \A e \in Collector : m \in handlers'[e] => e = d /\ m \in ids'
      BY <3>2, <1>3 DEF IInv, WayInv
    <3>4. \A m \in Listener, k \in Update : <<m, k>> \in called' => \E d \in Collector :
            running'[d] = "call" /\ target'[d] = <<d, m, k>> /\ m \in handlers'[d]
      <4> SUFFICES ASSUME NEW m \in Listener, NEW k \in Update, <<m, k>> \in called
                   PROVE  \E d \in Collector : /\ running'[d] = "call" /\ target'[d] = <<d, m, k>>
                                               /\ m \in handlers[d]
        BY <1>3, <2>1
      <4>1. PICK d \in Collector :
              running[d] = "call" /\ target[d] = <<d, m, k>> /\ m \in handlers[d]
        BY DEF IInv, WayInv
      <4>2. d # c
        BY <4>1, <1>1
      <4> QED
        BY <4>1, <4>2, <2>2
    <3> QED
      BY <3>1, <3>3, <3>4 DEF WayInv
  <2>7. OrderInv'
    BY <1>3, <2>1, <2>2 DEF IInv, OrderInv
  <2>8. HeardInv'
    <3> SUFFICES ASSUME NEW m \in ids, NEW k \in Update
                 PROVE  (k \in due[m] /\ k \notin heard[m]) <=>
                          \/ \E d \in Collector : <<d, Pack(d, m), k>> \in jobs
                          \/ \E d \in Collector : running'[d] = "lock" /\ target'[d] = <<d, m, k>>
                          \/ <<m, k>> \in called
      BY <1>3, <2>1 DEF HeardInv
    <3>1. m \in Listener /\ m # l
      BY <2>4 DEF IInv, TypeOK
    <3>2. \A d \in Collector : running'[d] = "lock" /\ target'[d] = <<d, m, k>> <=>
                               running[d] = "lock" /\ target[d] = <<d, m, k>>
      BY <3>1, <1>2, <2>2
    <3> QED
      BY <3>2 DEF IInv, HeardInv
  <2> QED
    BY <1>3, <2>3, <2>5, <2>6, <2>7, <2>8, IdsFrame, JavaFrame, UpdatesFrame DEF IInv
<1> QED
  BY <1>5, <1>6

LEMMA FinishUpdateStep ==
  ASSUME IInv, NEW c \in Collector, FinishUpdate(c)
  PROVE  IInv'
<1>1. running[c] = "call"
  BY DEF FinishUpdate
<1>2. PICK l \in Listener, n \in Update :
        /\ target[c] = <<c, l, n>>
        /\ target[c][1] = c /\ target[c][2] = l /\ target[c][3] = n
  BY <1>1, Targets
<1>3. /\ <<l, n>> \notin called
      /\ mutex' = [mutex EXCEPT ![c] = None]
      /\ running' = [running EXCEPT ![c] = "idle"]
      /\ target' = [target EXCEPT ![c] = NoTarget]
      /\ UNCHANGED <<collectors, handlers, listenerHandles, lastId, pc, arg, ids,
                     javaListeners, profiles, updates, jobs, called, due, heard, reentered>>
  BY <1>2 DEF FinishUpdate, Waited, Unlock, Done, callers, java, known
<1>4. /\ \A d \in Collector : mutex'[d] = IF d = c THEN None ELSE mutex[d]
      /\ \A d \in Collector : running'[d] = IF d = c THEN "idle" ELSE running[d]
      /\ \A d \in Collector : d # c => target'[d] = target[d]
  BY <1>3 DEF IInv, TypeOK
<1>5. TypeOK'
  BY <1>3 DEF IInv, TypeOK
<1>6. LockInv'
  <2>1. ASSUME NEW u \in Thread, pc[u] # "idle"
        PROVE  arg[u] \in Collector \X Listener /\ mutex'[arg[u][1]] = u
    <3>1. arg[u] \in Collector \X Listener /\ mutex[arg[u][1]] = u /\ arg[u][1] # c
      BY <2>1, <1>1, Constants DEF IInv, LockInv
    <3> QED
      BY <3>1, <1>4
  <2>2. \A d \in Collector : running'[d] = "call" => mutex'[d] = Java
    BY <1>4 DEF IInv, LockInv
  <2>3. \A d \in Collector : running'[d] # "idle" => target'[d] \in Target /\ target'[d][1] = d
    BY <1>4 DEF IInv, LockInv
  <2> QED
    BY <2>1, <2>2, <2>3, <1>3 DEF LockInv
<1>7. WayInv'
  <2>1. \A job \in jobs' : \E m \in Listener : job[2] = Pack(job[1], m)
    BY <1>3 DEF IInv, WayInv
  <2>2. \A d \in Collector, m \in Listener, k \in Update : Comes(d, m, k)' => Comes(d, m, k)
    BY <1>3, <1>4 DEF Comes
  <2>3. \A d \in Collector, m \in Listener, k \in Update : Comes(d, m, k)' =>
          /\ m <= lastId' /\ k <= updates' /\ d <= collectors'
          /\ \A e \in Collector : m \in handlers'[e] => e = d /\ m \in ids'
    BY <2>2, <1>3 DEF IInv, WayInv
  <2>4. \A m \in Listener, k \in Update : <<m, k>> \in called' => \E d \in Collector :
          running'[d] = "call" /\ target'[d] = <<d, m, k>> /\ m \in handlers'[d]
    <3> SUFFICES ASSUME NEW m \in Listener, NEW k \in Update, <<m, k>> \in called
                 PROVE  \E d \in Collector : /\ running'[d] = "call" /\ target'[d] = <<d, m, k>>
                                             /\ m \in handlers[d]
      BY <1>3
    <3>1. PICK d \in Collector :
            running[d] = "call" /\ target[d] = <<d, m, k>> /\ m \in handlers[d]
      BY DEF IInv, WayInv
    <3>2. d # c
      BY <3>1, <1>2, <1>3
    <3> QED
      BY <3>1, <3>2, <1>4
  <2> QED
    BY <2>1, <2>3, <2>4 DEF WayInv
<1>8. OrderInv'
  BY <1>3, <1>4 DEF IInv, OrderInv
<1>9. HeardInv'
  <2>1. \A d \in Collector : running'[d] = "lock" <=> running[d] = "lock"
    BY <1>1, <1>4
  <2>2. \A d \in Collector : running[d] = "lock" => target'[d] = target[d]
    BY <1>1, <1>4
  <2>3. \A m \in ids, k \in Update :
          (\E d \in Collector : running'[d] = "lock" /\ target'[d] = <<d, m, k>>) <=>
          (\E d \in Collector : running[d] = "lock" /\ target[d] = <<d, m, k>>)
    BY <2>1, <2>2
  <2>4. UNCHANGED <<ids, due, heard, jobs, called>>
    BY <1>3
  <2> SUFFICES ASSUME NEW m \in ids, NEW k \in Update
               PROVE  (k \in due[m] /\ k \notin heard[m]) <=>
                        \/ \E d \in Collector : <<d, Pack(d, m), k>> \in jobs
                        \/ \E d \in Collector : running'[d] = "lock" /\ target'[d] = <<d, m, k>>
                        \/ <<m, k>> \in called
    BY <2>4 DEF HeardInv
  <2> QED
    BY <2>3 DEF IInv, HeardInv
<1> QED
  BY <1>3, <1>5, <1>6, <1>7, <1>8, <1>9, IdsFrame, JavaFrame, UpdatesFrame DEF IInv

LEMMA ListenerReturnsStep ==
  ASSUME IInv, ListenerReturns
  PROVE  IInv'
<1>1. PICK call \in called :
        /\ called' = called \ {call}
        /\ heard' = [heard EXCEPT ![call[1]] = @ \union {call[2]}]
        /\ UNCHANGED <<cpp, callers, java, thread, due, reentered>>
  BY DEF ListenerReturns
<1>2. UNCHANGED <<collectors, mutex, handlers, listenerHandles, lastId, pc, arg, ids,
                  javaListeners, profiles, updates, jobs, running, target, due, reentered>>
  BY <1>1 DEF cpp, callers, java, thread
<1>3. PICK l \in Listener, n \in Update : call = <<l, n>> /\ call[1] = l /\ call[2] = n
  BY DEF IInv, TypeOK
<1>4. PICK c \in Collector : running[c] = "call" /\ target[c] = <<c, l, n>> /\ l \in handlers[c]
  BY <1>3 DEF IInv, WayInv
<1>5. Comes(c, l, n)
  BY <1>4 DEF Comes
<1>6. /\ l <= lastId /\ n <= updates /\ l \in ids
      /\ \A d \in Collector, k \in Update : Comes(d, l, k) => d = c
  BY <1>4, <1>5 DEF IInv, WayInv
<1>7. /\ heard' = [heard EXCEPT ![l] = @ \union {n}]
      /\ \A m \in Listener : heard'[m] = IF m = l THEN heard[l] \union {n} ELSE heard[m]
      /\ \A m \in Listener, k \in Update : <<m, k>> \in called' <=>
           <<m, k>> \in called /\ ~(m = l /\ k = n)
  BY <1>1, <1>3 DEF IInv, TypeOK
<1>8. TypeOK'
  BY <1>1, <1>2, <1>7 DEF IInv, TypeOK
<1>9. IdsInv'
  <2>1. ASSUME NEW u \in Thread, pc[u] \in {"create", "add"}
        PROVE  /\ arg[u][1] <= collectors
               /\ arg[u][2] \in handlers[arg[u][1]] /\ arg[u][2] \notin ids
               /\ due[arg[u][2]] = {} /\ heard'[arg[u][2]] = {}
    <3>1. /\ arg[u][1] <= collectors
          /\ arg[u][2] \in handlers[arg[u][1]] /\ arg[u][2] \notin ids
          /\ due[arg[u][2]] = {} /\ heard[arg[u][2]] = {}
      BY <2>1 DEF IInv, IdsInv
    <3>2. arg[u][2] \in Listener
      BY <2>1, Arguments
    <3> QED
      BY <3>1, <3>2, <1>6, <1>7
  <2> QED
    BY <2>1, <1>2 DEF IInv, IdsInv
<1>10. UpdatesInv'
  <2>1. \A m \in Listener : \A k \in due[m] \union heard'[m] : k <= updates
    BY <1>6, <1>7 DEF IInv, UpdatesInv
  <2>2. \A m \in Listener : m > lastId => due[m] = {} /\ heard'[m] = {}
    BY <1>6, <1>7, Constants DEF IInv, UpdatesInv, TypeOK
  <2> QED
    BY <2>1, <2>2, <1>2 DEF IInv, UpdatesInv
<1>11. WayInv'
  <2>1. \A d \in Collector, m \in Listener, k \in Update : Comes(d, m, k)' = Comes(d, m, k)
    BY <1>2 DEF Comes
  <2>2. \A job \in jobs' : \E m \in Listener : job[2] = Pack(job[1], m)
    BY <1>2 DEF IInv, WayInv
  <2>3. \A d \in Collector, m \in Listener, k \in Update : Comes(d, m, k)' =>
          /\ m <= lastId' /\ k <= updates' /\ d <= collectors'
          /\ \A e \in Collector : m \in handlers'[e] => e = d /\ m \in ids'
    BY <2>1, <1>2 DEF IInv, WayInv
  <2>4. \A m \in Listener, k \in Update : <<m, k>> \in called' => \E d \in Collector :
          running'[d] = "call" /\ target'[d] = <<d, m, k>> /\ m \in handlers'[d]
    BY <1>2, <1>7 DEF IInv, WayInv
  <2> QED
    BY <2>2, <2>3, <2>4 DEF WayInv
<1>12. OrderInv'
  <2>1. ASSUME NEW d \in Collector, NEW m \in Listener, NEW k \in Update,
               <<d, Pack(d, m), k>> \in jobs
        PROVE  /\ \A i \in heard'[m] : i < k
               /\ \A i \in Update : running[d] # "idle" /\ target[d] = <<d, m, i>> => i < k
    <3>1. /\ \A i \in heard[m] : i < k
          /\ \A i \in Update : running[d] # "idle" /\ target[d] = <<d, m, i>> => i < k
      BY <2>1 DEF IInv, OrderInv
    <3>2. m = l => n < k
      <4> SUFFICES ASSUME m = l PROVE n < k
        OBVIOUS
      <4>1. d = c
        BY <2>1, <1>6 DEF Comes
      <4> QED
        BY <4>1, <3>1, <1>4
    <3> QED
      BY <3>1, <3>2, <1>7
  <2>2. ASSUME NEW d \in Collector, NEW m \in Listener, NEW k \in Update,
               running[d] = "lock", target[d] = <<d, m, k>>
        PROVE  \A i \in heard'[m] : i < k
    <3>1. m # l
      BY <2>2, <1>4, <1>6 DEF Comes
    <3> QED
      BY <2>2, <3>1, <1>7 DEF IInv, OrderInv
  <2>3. ASSUME NEW m \in Listener, NEW k \in Update, <<m, k>> \in called'
        PROVE  \A i \in heard'[m] : i < k
    <3>1. <<m, k>> \in called
      BY <2>3, <1>7
    <3>2. PICK d \in Collector : running[d] = "call" /\ target[d] = <<d, m, k>>
      BY <3>1 DEF IInv, WayInv
    <3>3. m # l
      <4> SUFFICES ASSUME m = l PROVE FALSE
        OBVIOUS
      <4>1. d = c
        BY <3>2, <1>6 DEF Comes
      <4>2. k = n
        BY <4>1, <3>2, <1>4
      <4> QED
        BY <4>2, <2>3, <1>7
    <3> QED
      BY <3>1, <3>3, <1>7 DEF IInv, OrderInv
  <2> QED
    BY <2>1, <2>2, <2>3, <1>2 DEF OrderInv
<1>13. HeardInv'
  <2> SUFFICES ASSUME NEW m \in ids, NEW k \in Update
               PROVE  (k \in due[m] /\ k \notin heard'[m]) <=>
                        \/ \E d \in Collector : <<d, Pack(d, m), k>> \in jobs
                        \/ \E d \in Collector : running[d] = "lock" /\ target[d] = <<d, m, k>>
                        \/ <<m, k>> \in called'
    BY <1>2 DEF HeardInv
  <2>1. m \in Listener
    BY DEF IInv, TypeOK
  <2>2. CASE m = l /\ k = n
    <3>1. k \in heard'[m] /\ <<m, k>> \notin called'
      BY <2>2, <1>7
    <3>2. ~\E d \in Collector : <<d, Pack(d, l), n>> \in jobs
      <4> SUFFICES ASSUME NEW d \in Collector, <<d, Pack(d, l), n>> \in jobs PROVE FALSE
        OBVIOUS
      <4>1. d = c
        BY <1>6 DEF Comes
      <4>2. n < n
        BY <4>1, <1>4 DEF IInv, OrderInv
      <4> QED
        BY <4>2, Constants
    <3>3. ~\E d \in Collector : running[d] = "lock" /\ target[d] = <<d, l, n>>
      BY <1>4, <1>6 DEF Comes
    <3> QED
      BY <2>2, <3>1, <3>2, <3>3
  <2>3. CASE ~(m = l /\ k = n)
    <3>1. k \in heard'[m] <=> k \in heard[m]
      BY <2>1, <2>3, <1>7
    <3>2. <<m, k>> \in called' <=> <<m, k>> \in called
      BY <2>1, <2>3, <1>7
    <3> QED
      BY <3>1, <3>2 DEF IInv, HeardInv
  <2> QED
    BY <2>2, <2>3
<1> QED
  BY <1>2, <1>8, <1>9, <1>10, <1>11, <1>12, <1>13, LockFrame, JavaFrame DEF IInv

LEMMA ReEnterStep ==
  ASSUME IInv, ReEnter
  PROVE  IInv'
<1>1. /\ reentered' = TRUE
      /\ UNCHANGED <<collectors, mutex, handlers, listenerHandles, lastId, pc, arg, ids,
                     javaListeners, profiles, updates, jobs, running, target, called, due,
                     heard>>
  BY DEF ReEnter, cpp, callers, java, thread
<1>2. TypeOK'
  BY <1>1 DEF IInv, TypeOK
<1> QED
  BY <1>1, <1>2, LockFrame, IdsFrame, JavaFrame, UpdatesFrame, WayFrame, OrderFrame, HeardFrame
  DEF IInv

-----------------------------------------------------------------------------

LEMMA InitOK == Init => IInv
<1> SUFFICES ASSUME Init PROVE IInv
  OBVIOUS
<1>1. TypeOK
  <2>1. collectors \in 0..MaxCollectors /\ lastId \in 0..MaxListeners /\ updates \in 0..MaxUpdates
    BY CollectorAssumption DEF Init
  <2>2. profiles \in [Collector -> 0..MaxUpdates]
    BY CollectorAssumption DEF Init
  <2> QED
    BY <2>1, <2>2 DEF Init, TypeOK
<1>2. LockInv /\ IdsInv /\ JavaInv /\ HeardInv
  BY DEF Init, LockInv, IdsInv, JavaInv, HeardInv
<1>3. UpdatesInv
  BY DEF Init, UpdatesInv
<1>4. WayInv /\ OrderInv
  BY DEF Init, WayInv, OrderInv, Comes
<1> QED
  BY <1>1, <1>2, <1>3, <1>4 DEF IInv

LEMMA StepOK == IInv /\ [Next]_vars => IInv'
<1> SUFFICES ASSUME IInv, [Next]_vars PROVE IInv'
  OBVIOUS
<1>1. CASE Create
  BY <1>1, CreateStep
<1>2. ASSUME NEW t \in Thread, Begin(t) PROVE IInv'
  BY <1>2, AddUpdateListenerStep, RemoveUpdateListenerStep DEF Begin
<1>3. ASSUME NEW t \in Thread, Continue(t) PROVE IInv'
  BY <1>3, CreateListenerStep, AddToJavaStep, ReturnIdStep, RemoveUpdateListenerImplStep
  DEF Continue
<1>4. ASSUME NEW c \in Collector, UpdateProfiles(c) PROVE IInv'
  BY <1>4, UpdateProfilesStep
<1>5. ASSUME NEW c \in Collector, Notify(c) PROVE IInv'
  BY <1>5, OnInstrumentProfilesUpdateStep, CallHandlerStep, FinishUpdateStep DEF Notify
<1>6. CASE ListenerReturns \/ ReEnter
  BY <1>6, ListenerReturnsStep, ReEnterStep
<1>7. CASE UNCHANGED vars
  <2>1. UNCHANGED <<collectors, mutex, handlers, listenerHandles, lastId, pc, arg, ids,
                    javaListeners, profiles, updates, jobs, running, target, called, due,
                    heard, reentered>>
    BY <1>7 DEF vars, cpp, callers, java, thread, known
  <2>2. TypeOK'
    BY <2>1 DEF IInv, TypeOK
  <2> QED
    BY <2>1, <2>2, LockFrame, IdsFrame, JavaFrame, UpdatesFrame, WayFrame, OrderFrame,
       HeardFrame
    DEF IInv
<1> QED
  BY <1>1, <1>2, <1>3, <1>4, <1>5, <1>6, <1>7 DEF Next

LEMMA SpecIInv == Spec => []IInv
BY InitOK, StepOK, PTL DEF Spec

(* What a listener is called with is on its way, and so it is not removed; *)
(* and the caller that is to get its id would have the mutex that the      *)
(* notification holds.                                                     *)
LEMMA OnlyLiveCalledOK == IInv => OnlyLiveCalled
<1> SUFFICES ASSUME IInv, NEW call \in called PROVE call[1] \in ids \ Unreturned
  BY DEF OnlyLiveCalled
<1>1. PICK l \in Listener, n \in Update : call = <<l, n>> /\ call[1] = l
  BY DEF IInv, TypeOK
<1>2. PICK c \in Collector : running[c] = "call" /\ target[c] = <<c, l, n>> /\ l \in handlers[c]
  BY <1>1 DEF IInv, WayInv
<1>3. Comes(c, l, n)
  BY <1>2 DEF Comes
<1>4. l \in ids
  BY <1>2, <1>3 DEF IInv, WayInv
<1>5. ASSUME NEW t \in Thread, pc[t] = "return", arg[t][2] = l PROVE FALSE
  <2>1. arg[t][1] \in Collector /\ mutex[arg[t][1]] = t
    BY <1>5 DEF IInv, LockInv
  <2>2. l \in handlers[arg[t][1]]
    BY <1>5 DEF IInv, IdsInv
  <2>3. arg[t][1] = c
    BY <1>2, <2>1, <2>2 DEF IInv, IdsInv
  <2>4. mutex[c] = Java
    BY <1>2 DEF IInv, LockInv
  <2> QED
    BY <2>1, <2>3, <2>4, Constants
<1> QED
  BY <1>1, <1>4, <1>5 DEF Unreturned

LEMMA AgreesWithJavaOK == IInv => AgreesWithJava
<1> SUFFICES ASSUME IInv PROVE AgreesWithJava
  OBVIOUS
<1>1. ASSUME NEW c \in Collector
      PROVE  javaListeners[c] = {Pack(c, l) : l \in ids \intersect handlers[c]}
  <2>1. \A data \in javaListeners[c] : \E l \in ids \intersect handlers[c] : data = Pack(c, l)
    BY DEF IInv, JavaInv
  <2>2. \A l \in ids \intersect handlers[c] : Pack(c, l) \in javaListeners[c]
    BY DEF IInv, JavaInv, TypeOK
  <2> QED
    BY <2>1, <2>2
<1> QED
  BY <1>1 DEF IInv, JavaInv, AgreesWithJava

LEMMA EveryUpdateHeardOK == IInv => EveryUpdateHeard
<1> SUFFICES ASSUME IInv, NEW l \in ids PROVE due[l] \ heard[l] = OnTheWay(l)
  BY DEF EveryUpdateHeard
<1>1. l \in Listener /\ due[l] \subseteq Update
  BY DEF IInv, TypeOK
<1>2. \A n \in Update : n \in due[l] \ heard[l] <=> n \in OnTheWay(l)
  BY DEF IInv, HeardInv, OnTheWay
<1> QED
  BY <1>1, <1>2 DEF OnTheWay

(* The type of the collectors' state.                                      *)
THEOREM SpecTypeOK == Spec => []TypeOK
<1>1. IInv => TypeOK
  BY DEF IInv
<1> QED
  BY <1>1, SpecIInv, PTL

(* A listener is called only while its caller holds its id, although Java  *)
(* notifies it while it is being added, and a notification may have begun  *)
(* in Java before the listener was removed.                                *)
THEOREM SpecOnlyLiveCalled == Spec => []OnlyLiveCalled
BY SpecIInv, OnlyLiveCalledOK, PTL

(* Java's listeners, the ids the callers hold and the handlers agree,      *)
(* whatever calls to Java fail.                                            *)
THEOREM SpecAgreesWithJava == Spec => []AgreesWithJava
BY SpecIInv, AgreesWithJavaOK, PTL

(* No update sent to a listener is lost on its way.                        *)
THEOREM SpecEveryUpdateHeard == Spec => []EveryUpdateHeard
BY SpecIInv, EveryUpdateHeardOK, PTL

(* A listener hears its updates in order and each of them once.            *)
THEOREM SpecHeardInOrder == Spec => HeardInOrder
<1>1. IInv /\ [Next]_vars =>
        [\A l \in Listener : \A n \in Update :
           (<<l, n>> \in called /\ <<l, n>> \notin called') => \A m \in heard[l] : m < n]_vars
  BY DEF IInv, OrderInv
<1> QED
  BY <1>1, SpecIInv, PTL DEF Spec, HeardInOrder

-----------------------------------------------------------------------------
(* Who waits for whom: whoever has the mutex of a collector is in a call   *)
(* or a notification of it that gives it back.                             *)
Holds(c) ==
  \/ mutex[c] = None
  \/ mutex[c] = Java /\ running[c] = "call"
  \/ \E t \in Thread : mutex[c] = t /\ pc[t] # "idle" /\ arg[t][1] = c

HolderInv == \A c \in Collector : Holds(c)

LEMMA HolderInit == Init => HolderInv
BY DEF Init, HolderInv, Holds

LEMMA ReturnHolds ==
  ASSUME IInv, HolderInv, NEW t \in Thread, pc[t] # "idle", Return(t), running' = running
  PROVE  HolderInv'
<1>1. PICK c \in Collector, l \in Listener :
        /\ arg[t] = <<c, l>> /\ arg[t][1] = c /\ mutex[c] = t
  BY Arguments
<1>2. /\ \A d \in Collector : mutex'[d] = IF d = c THEN None ELSE mutex[d]
      /\ \A u \in Thread : u # t => pc'[u] = pc[u] /\ arg'[u] = arg[u]
  BY <1>1 DEF Return, Unlock, IInv, TypeOK
<1>3. ASSUME NEW d \in Collector PROVE Holds(d)'
  <2>1. CASE d = c
    BY <1>2, <2>1 DEF Holds
  <2>2. CASE d # c
    <3>1. mutex[d] # t
      BY <1>1, <2>2, Constants DEF HolderInv, Holds
    <3> QED
      BY <1>2, <2>2, <3>1 DEF HolderInv, Holds
  <2> QED
    BY <2>1, <2>2
<1> QED
  BY <1>3 DEF HolderInv

LEMMA HolderStep == IInv /\ HolderInv /\ [Next]_vars => HolderInv'
<1> SUFFICES ASSUME IInv, HolderInv, [Next]_vars PROVE HolderInv'
  OBVIOUS
<1> USE DEF cpp, callers, thread
<1>1. /\ mutex \in [Collector -> Thread \union {Java, None}]
      /\ pc \in [Thread -> {"idle", "create", "add", "return", "remove"}]
      /\ arg \in [Thread -> (Collector \X Listener) \union {NoListener}]
      /\ running \in [Collector -> {"idle", "lock", "call"}]
  BY DEF IInv, TypeOK
<1>2. ASSUME UNCHANGED <<mutex, pc, arg>>,
             \A c \in Collector : running[c] = "call" => running'[c] = "call"
      PROVE  HolderInv'
  BY <1>2 DEF HolderInv, Holds
<1>3. ASSUME NEW t \in Thread, NEW c \in Collector, NEW l \in Listener, NEW where,
             where # "idle", pc[t] = "idle", mutex[c] = None,
             mutex' = [mutex EXCEPT ![c] = t], arg' = [arg EXCEPT ![t] = <<c, l>>],
             pc' = [pc EXCEPT ![t] = where], running' = running
      PROVE  HolderInv'
  <2>1. /\ \A d \in Collector : mutex'[d] = IF d = c THEN t ELSE mutex[d]
        /\ \A u \in Thread : u # t => pc'[u] = pc[u] /\ arg'[u] = arg[u]
        /\ pc'[t] # "idle" /\ arg'[t][1] = c
    BY <1>1, <1>3
  <2>2. ASSUME NEW d \in Collector PROVE Holds(d)'
    <3>1. CASE d = c
      BY <2>1, <3>1 DEF Holds
    <3>2. CASE d # c
      BY <1>3, <2>1, <3>2 DEF HolderInv, Holds
    <3> QED
      BY <3>1, <3>2
  <2> QED
    BY <2>2 DEF HolderInv
<1>4. ASSUME NEW t \in Thread, Begin(t) PROVE HolderInv'
  <2>1. ASSUME NEW c \in Collector, AddUpdateListener(t, c) PROVE HolderInv'
    <3>1. lastId + 1 \in Listener
      BY <2>1, CollectorAssumption DEF AddUpdateListener, IInv, TypeOK, Listener
    <3> QED
      BY <1>3, <2>1, <3>1 DEF AddUpdateListener, Lock
  <2>2. ASSUME NEW c \in Collector, NEW l \in Listener, RemoveUpdateListener(t, c, l)
        PROVE  HolderInv'
    BY <1>3, <2>2 DEF RemoveUpdateListener, Lock
  <2> QED
    BY <1>4, <2>1, <2>2 DEF Begin
<1>5. ASSUME NEW t \in Thread, CreateListener(t) \/ AddToJava(t) PROVE HolderInv'
  <2>1. pc[t] # "idle" /\ running' = running
    BY <1>5 DEF CreateListener, AddToJava
  <2>2. ASSUME NEW where, where # "idle", pc' = [pc EXCEPT ![t] = where],
               UNCHANGED <<mutex, arg>>
        PROVE  HolderInv'
    <3>1. \A u \in Thread : pc[u] # "idle" => pc'[u] # "idle"
      BY <1>1, <2>2
    <3> QED
      BY <2>1, <2>2, <3>1 DEF HolderInv, Holds
  <2>3. CASE Return(t)
    BY <2>1, <2>3, ReturnHolds
  <2> QED
    BY <1>5, <2>2, <2>3 DEF CreateListener, AddToJava, AddThrows
<1>6. ASSUME NEW t \in Thread, ReturnId(t) \/ RemoveUpdateListenerImpl(t) PROVE HolderInv'
  <2>1. pc[t] # "idle" /\ running' = running /\ Return(t)
    BY <1>6 DEF ReturnId, RemoveUpdateListenerImpl
  <2> QED
    BY <2>1, ReturnHolds
<1>7. ASSUME NEW c \in Collector, UpdateProfiles(c) \/ OnInstrumentProfilesUpdate(c)
      PROVE  HolderInv'
  <2>1. UNCHANGED <<mutex, pc, arg>> /\ (running' = running \/ running' = [running EXCEPT ![c] = "lock"])
        /\ (running' # running => running[c] = "idle")
    BY <1>7 DEF UpdateProfiles, OnInstrumentProfilesUpdate
  <2> QED
    BY <1>1, <1>2, <2>1
<1>8. ASSUME NEW c \in Collector, CallHandler(c) \/ FinishUpdate(c) PROVE HolderInv'
  <2>1. running[c] # "idle" /\ target[c][1] = c /\ UNCHANGED <<pc, arg>>
    BY <1>8, Targets DEF CallHandler, FinishUpdate
  <2>2. /\ \A d \in Collector : d # c => mutex'[d] = mutex[d] /\ running'[d] = running[d]
        /\ \/ mutex'[c] = None
           \/ mutex'[c] = Java /\ running'[c] = "call"
    BY <1>1, <1>8, <2>1 DEF CallHandler, FinishUpdate, Lock, Unlock, Done
  <2> QED
    BY <2>1, <2>2 DEF HolderInv, Holds
<1>9. CASE Create \/ ListenerReturns \/ ReEnter \/ UNCHANGED vars
  BY <1>2, <1>9 DEF Create, ListenerReturns, ReEnter, vars
<1>10. ASSUME NEW t \in Thread, Continue(t) PROVE HolderInv'
  BY <1>5, <1>6, <1>10 DEF Continue
<1>11. ASSUME NEW c \in Collector, UpdateProfiles(c) \/ Notify(c) PROVE HolderInv'
  BY <1>7, <1>8, <1>11 DEF Notify
<1> QED
  BY <1>4, <1>9, <1>10, <1>11 DEF Next

(* A call or a notification has begun, or a mutex is held that they wait   *)
(* for, or Java has a notification to begin.                               *)
UnderWay ==
  \/ \E t \in Thread : pc[t] # "idle"
  \/ \E c \in Collector : running[c] # "idle" \/ mutex[c] # None
  \/ jobs # {}

(* The guards of Notify; those of Continue are only where the thread is.   *)
Earliest(job) == \A other \in jobs : other[2] = job[2] => job[3] <= other[3]

CanNotify(c) ==
  \/ running[c] = "idle" /\ \E job \in jobs : job[1] = c /\ Earliest(job)
  \/ running[c] = "lock" /\ mutex[target[c][1]] = None
  \/ running[c] = "call" /\ Waited(c)

(* A call of a listener is being made, and its thread waits for nobody.    *)
CanReturn == called # {}

NeverStuck ==
  UnderWay =>
    \/ reentered
    \/ CanReturn
    \/ \E t \in Thread : pc[t] \in {"create", "add", "return", "remove"}
    \/ \E c \in Collector : CanNotify(c)

(* A set of numbers has a least one.                                       *)
NatLess == {pair \in Nat \X Nat : pair[1] < pair[2]}

LEMMA NatLessWellFounded == IsWellFoundedOn(NatLess, Nat)
BY NatLessThanWellFounded DEF OpToRel, NatLess

LEMMA InNatLess ==
  ASSUME NEW x \in Nat, NEW y \in Nat, y < x
  PROVE  <<y, x>> \in NatLess
<1>1. <<y, x>> \in Nat \X Nat /\ <<y, x>>[1] = y /\ <<y, x>>[2] = x
  OBVIOUS
<1> QED
  BY <1>1 DEF NatLess

LEMMA LeastElement ==
  ASSUME NEW T, T \subseteq Nat, T # {}
  PROVE  \E n \in T : \A m \in T : n <= m
<1>1. PICK n \in T : \A m \in T : ~(<<m, n>> \in NatLess)
  BY NatLessWellFounded, WFMin
<1>2. ASSUME NEW m \in T PROVE n <= m
  <2>1. m \in Nat /\ n \in Nat
    OBVIOUS
  <2>2. ~(m < n)
    BY <1>1, <2>1, InNatLess
  <2> QED
    BY <2>1, <2>2
<1> QED
  BY <1>2

(* A collector that has notifications to begin can begin one: the earliest *)
(* for a listener is a notification of the same collector, since no other  *)
(* collector's listener has the same word.                                 *)
LEMMA EarliestJob ==
  ASSUME IInv, NEW job \in jobs
  PROVE  \E first \in jobs : first[1] = job[1] /\ Earliest(first)
<1>1. \A other \in jobs : other[1] \in Collector /\ other[3] \in Nat
  BY Constants DEF IInv, TypeOK
<1> DEFINE same == {other \in jobs : other[2] = job[2]}
           numbers == {other[3] : other \in same}
<1>2. numbers \subseteq Nat /\ job[3] \in numbers
  BY <1>1
<1>3. PICK n \in numbers : \A m \in numbers : n <= m
  BY <1>2, LeastElement
<1>4. PICK first \in same : first[3] = n
  BY <1>3
<1>5. Earliest(first)
  BY <1>3, <1>4 DEF Earliest
<1>6. first[1] = job[1]
  <2>1. PICK l \in Listener : job[2] = Pack(job[1], l)
    BY DEF IInv, WayInv
  <2>2. PICK m \in Listener : first[2] = Pack(first[1], m)
    BY DEF IInv, WayInv
  <2> QED
    BY <1>1, <2>1, <2>2, PackInjective
<1> QED
  BY <1>5, <1>6

(* The mutexes of the collectors and the futures of their listeners never  *)
(* make everybody wait, and an update that Java has to tell is told, for   *)
(* any threads, collectors and listeners and whatever calls to Java fail,  *)
(* unless a listener has called its own collector.                         *)
THEOREM NobodyWaitsForEver == Spec => []NeverStuck
<1>1. IInv /\ HolderInv => NeverStuck
  <2> SUFFICES ASSUME IInv, HolderInv, UnderWay, ~CanReturn,
                      \A t \in Thread : pc[t] \notin {"create", "add", "return", "remove"}
               PROVE  \E c \in Collector : CanNotify(c)
    BY DEF NeverStuck
  <2>1. \A t \in Thread : pc[t] = "idle"
    BY DEF IInv, TypeOK
  <2>2. ASSUME NEW c \in Collector, running[c] # "idle" \/ mutex[c] # None
        PROVE  CanNotify(c)
    <3>1. running[c] # "idle"
      BY <2>1, <2>2 DEF HolderInv, Holds
    <3>2. target[c][1] = c /\ running[c] \in {"lock", "call"}
      BY <3>1, Targets DEF IInv, TypeOK
    <3>3. CASE running[c] = "call"
      BY <3>3 DEF CanNotify, CanReturn, Waited
    <3>4. CASE running[c] = "lock"
      BY <2>1, <3>2, <3>4 DEF HolderInv, Holds, CanNotify
    <3> QED
      BY <3>2, <3>3, <3>4
  <2>3. ASSUME NEW job \in jobs, \A c \in Collector : running[c] = "idle"
        PROVE  \E c \in Collector : CanNotify(c)
    <3>1. job[1] \in Collector
      BY DEF IInv, TypeOK
    <3> QED
      BY <2>3, <3>1, EarliestJob DEF CanNotify
  <2> QED
    BY <2>1, <2>2, <2>3 DEF UnderWay
<1> QED
  BY <1>1, HolderInit, HolderStep, SpecIInv, PTL DEF Spec

-----------------------------------------------------------------------------
(* A connection. There is nothing before it is open; what is delivered has *)
(* happened; the handler's mutex is held for a change that was looked up.  *)
ConnectionTypes ==
  /\ changes \in Seq(State) /\ Len(changes) \in 0..MaxChanges
  /\ delivery \in [Change -> {"none", "fired", "found", "heard", "done", "dropped"}]
  /\ lastStateId \in Nat /\ stateListeners \subseteq 1..lastStateId
  /\ stateDue \in [Change -> SUBSET (1..lastStateId)]
  /\ registered \in BOOLEAN

Begun ==
  /\ connection # "open" => changes = <<>>
  /\ \A k \in Change : k > Len(changes) => delivery[k] = "none"

Found == stateOwner # 0 => stateOwner \in Change /\ delivery[stateOwner] = "found"

(* Nothing follows CLOSED, and a listener that stays is due to hear it.    *)
ClosedIsLast ==
  /\ \A j \in 1..Len(changes) : changes[j] = "CLOSED" => j = Len(changes)
  /\ \A j, k \in 1..Len(changes) :
       k <= j => stateDue[k] \intersect stateListeners \subseteq stateDue[j]

DueHeard ==
  \A k \in Change : delivery[k] \in {"heard", "done"} =>
    \A l \in stateDue[k] \intersect stateListeners : <<k, l>> \in stateHeard

(* Only a connection that was heard to be closed is forgotten.             *)
Forgotten ==
  /\ connection = "open" /\ ~registered =>
       \E j \in 1..Len(changes) : changes[j] = "CLOSED" /\ delivery[j] = "done"
  /\ \A k \in Change : delivery[k] = "dropped" => ~registered

ConnectionInv ==
  ConnectionTypes /\ Begun /\ Found /\ ClosedIsLast /\ DueHeard /\ Forgotten

LEMMA ConnectionInitOK == ConnectionInit => ConnectionInv
<1> SUFFICES ASSUME ConnectionInit PROVE ConnectionInv
  OBVIOUS
<1>1. /\ changes = <<>> /\ Len(changes) = 0 /\ changes \in Seq(State)
      /\ \A k \in Change : delivery[k] = "none" /\ stateDue[k] = {}
      /\ stateListeners = {} /\ lastStateId = 0 /\ connection = "none" /\ registered = FALSE
      /\ stateOwner = 0
  BY DEF ConnectionInit
<1>2. ConnectionTypes
  <2>1. /\ delivery = [k \in Change |-> "none"] /\ stateDue = [k \in Change |-> {}]
        /\ 0 \in 0..MaxChanges /\ 0 \in Nat
    BY ConnectionAssumption DEF ConnectionInit
  <2> QED
    BY <1>1, <2>1 DEF ConnectionTypes
<1> QED
  BY <1>1, <1>2 DEF ConnectionInv, Begun, Found, ClosedIsLast, DueHeard, Forgotten

LEMMA CreateConnectionOK ==
  ASSUME ConnectionInv, CreateConnection
  PROVE  ConnectionInv'
<1>1. /\ connection = "none" /\ registered' = TRUE
      /\ UNCHANGED <<changes, delivery, stateOwner, stateListeners, lastStateId, stateDue, stateHeard>>
  BY DEF CreateConnection, listening, delivering
<1>2. changes = <<>> /\ \A k \in Change : delivery[k] = "none"
  BY <1>1 DEF ConnectionInv, Begun, ConnectionTypes, Change
<1>3. ConnectionTypes' /\ Begun' /\ Found' /\ ClosedIsLast' /\ DueHeard'
  BY <1>1, <1>2 DEF ConnectionInv, ConnectionTypes, Begun, Found, ClosedIsLast, DueHeard
<1>4. Forgotten'
  BY <1>1, <1>2 DEF Forgotten
<1> QED
  BY <1>3, <1>4 DEF ConnectionInv

(* Ids are not used twice: nothing of the past is due to a new listener.   *)
LEMMA StateListenersOK ==
  ASSUME ConnectionInv,
         AddStateChangeListener \/ \E l \in StateListener : RemoveStateChangeListener(l)
  PROVE  ConnectionInv'
<1>1. UNCHANGED <<connection, registered, changes, delivery, stateOwner, stateDue, stateHeard>>
  BY DEF AddStateChangeListener, RemoveStateChangeListener, delivering
<1>2. /\ lastStateId' \in Nat /\ stateListeners' \subseteq 1..lastStateId'
      /\ lastStateId <= lastStateId'
      /\ \A k \in Change : stateDue[k] \intersect stateListeners' \subseteq stateListeners
  <2>1. /\ lastStateId \in Nat /\ stateListeners \subseteq 1..lastStateId
        /\ \A k \in Change : stateDue[k] \subseteq 1..lastStateId
    BY DEF ConnectionInv, ConnectionTypes
  <2>2. CASE AddStateChangeListener
    <3>1. lastStateId' = lastStateId + 1 /\ stateListeners' = stateListeners \union {lastStateId'}
      BY <2>2 DEF AddStateChangeListener
    <3> QED
      BY <2>1, <3>1
  <2>3. CASE \E l \in StateListener : RemoveStateChangeListener(l)
    <3>1. lastStateId' = lastStateId /\ stateListeners' \subseteq stateListeners
      BY <2>3 DEF RemoveStateChangeListener
    <3> QED
      BY <2>1, <3>1
  <2> QED
    BY <2>2, <2>3
<1>3. ConnectionTypes'
  <2>1. 1..lastStateId \subseteq 1..lastStateId'
    BY <1>2 DEF ConnectionInv, ConnectionTypes
  <2> QED
    BY <1>1, <1>2, <2>1 DEF ConnectionInv, ConnectionTypes
<1>4. Begun' /\ Found' /\ Forgotten'
  BY <1>1 DEF ConnectionInv, Begun, Found, Forgotten
<1>5. 1..Len(changes) \subseteq Change
  BY ConnectionAssumption DEF ConnectionInv, ConnectionTypes, Change
<1>6. ClosedIsLast'
  BY <1>1, <1>2, <1>5 DEF ConnectionInv, ClosedIsLast
<1>7. DueHeard'
  BY <1>1, <1>2 DEF ConnectionInv, DueHeard
<1> QED
  BY <1>3, <1>4, <1>6, <1>7 DEF ConnectionInv

LEMMA BecomesOK ==
  ASSUME ConnectionInv, NEW state \in State, Becomes(state), getState # "CLOSED"
  PROVE  ConnectionInv'
<1> DEFINE n == Len(changes) + 1
<1>1. /\ changes \in Seq(State) /\ Len(changes) \in Nat /\ n \in Change
      /\ connection = "open" /\ changes' = Append(changes, state)
      /\ UNCHANGED <<connection, registered, stateListeners, lastStateId, stateOwner, stateHeard>>
  BY ConnectionAssumption DEF ConnectionInv, ConnectionTypes, Becomes, listening, Change
<1>2. /\ \A k \in Change : delivery'[k] = IF k = n THEN "fired" ELSE delivery[k]
      /\ \A k \in Change : stateDue'[k] = IF k = n THEN stateListeners ELSE stateDue[k]
  BY DEF ConnectionInv, ConnectionTypes, Becomes
<1>3. /\ Len(changes') = n /\ changes' \in Seq(State)
      /\ \A j \in 1..Len(changes) : changes'[j] = changes[j]
  BY <1>1
<1>4. \A j \in 1..Len(changes) : changes[j] # "CLOSED"
  <2> SUFFICES ASSUME NEW j \in 1..Len(changes), changes[j] = "CLOSED" PROVE FALSE
    OBVIOUS
  <2>1. j = Len(changes)
    BY DEF ConnectionInv, ClosedIsLast
  <2> QED
    BY <2>1, <1>1 DEF getState
<1>5. registered
  BY <1>1, <1>4 DEF ConnectionInv, ConnectionTypes, Forgotten
<1>6. ConnectionTypes'
  <2>1. n \in 0..MaxChanges
    BY <1>1 DEF Change
  <2>2. delivery' \in [Change -> {"none", "fired", "found", "heard", "done", "dropped"}]
    BY DEF ConnectionInv, ConnectionTypes, Becomes
  <2>3. stateDue' \in [Change -> SUBSET (1..lastStateId)]
    BY DEF ConnectionInv, ConnectionTypes, Becomes
  <2> QED
    BY <1>1, <1>3, <2>1, <2>2, <2>3 DEF ConnectionInv, ConnectionTypes
<1> HIDE DEF n
<1>7. delivery[n] = "none" /\ n > Len(changes)
  BY <1>1 DEF ConnectionInv, Begun, n
<1>8. Begun'
  BY <1>1, <1>2, <1>3, <1>7 DEF ConnectionInv, Begun, n, Change
<1>9. Found'
  BY <1>1, <1>2, <1>7 DEF ConnectionInv, Found
<1>10. \A j \in 1..Len(changes') : j \in Change /\ (j # n => j \in 1..Len(changes))
  BY <1>1, <1>3, ConnectionAssumption DEF n, Change
<1>11. ClosedIsLast'
  <2>1. \A j \in 1..Len(changes') : changes'[j] = "CLOSED" => j = Len(changes')
    BY <1>3, <1>4, <1>10
  <2>2. ASSUME NEW j \in 1..Len(changes'), NEW k \in 1..Len(changes'), k <= j
        PROVE  stateDue'[k] \intersect stateListeners \subseteq stateDue'[j]
    <3>1. CASE j = n
      BY <3>1, <1>2, <1>10
    <3>2. CASE j # n
      <4>1. k # n
        BY <2>2, <3>2, <1>1, <1>10 DEF n
      <4> QED
        BY <2>2, <3>2, <4>1, <1>2, <1>10 DEF ConnectionInv, ClosedIsLast
    <3> QED
      BY <3>1, <3>2
  <2> QED
    BY <2>1, <2>2, <1>1 DEF ClosedIsLast
<1>12. DueHeard'
  BY <1>1, <1>2, <1>7 DEF ConnectionInv, DueHeard
<1>13. Forgotten'
  BY <1>1, <1>2, <1>5, <1>7 DEF ConnectionInv, Forgotten
<1> QED
  BY <1>6, <1>8, <1>9, <1>11, <1>12, <1>13 DEF ConnectionInv

LEMMA DeliverOK ==
  ASSUME ConnectionInv, NEW k \in Change, Deliver(k)
  PROVE  ConnectionInv'
<1>1. /\ UNCHANGED <<connection, changes, stateListeners, lastStateId, stateDue>>
      /\ registered' = registered \/ registered' = (registered /\ changes[k] # "CLOSED")
      /\ delivery[k] # "none"
  <2>1. UNCHANGED <<connection, changes, stateListeners, lastStateId, stateDue>>
    BY DEF Deliver, OnStateChange, CallStateListeners, StateListenersReturn, Unregister, listening
  <2>2. registered' = registered \/ registered' = (registered /\ changes[k] # "CLOSED")
    BY DEF Deliver, OnStateChange, CallStateListeners, StateListenersReturn, Unregister
  <2>3. k # 0
    BY ConnectionAssumption DEF Change
  <2>4. stateOwner = k => delivery[k] = "found"
    BY <2>3 DEF ConnectionInv, Found
  <2>5. delivery[k] # "none"
    BY <2>4 DEF Deliver, OnStateChange, CallStateListeners, StateListenersReturn, Unregister
  <2> QED
    BY <2>1, <2>2, <2>5
<1>2. /\ delivery' \in [Change -> {"none", "fired", "found", "heard", "done", "dropped"}]
      /\ delivery[k] \notin {"done", "dropped"}
      /\ \A j \in Change : j # k => delivery'[j] = delivery[j]
  BY DEF Deliver, OnStateChange, CallStateListeners, StateListenersReturn, Unregister,
     ConnectionInv, ConnectionTypes, Found
<1>3. k \in 1..Len(changes)
  BY <1>1, ConnectionAssumption DEF ConnectionInv, Begun, ConnectionTypes, Change
<1>4. ConnectionTypes' /\ Begun' /\ ClosedIsLast'
  BY <1>1, <1>2, <1>3 DEF ConnectionInv, ConnectionTypes, Begun, ClosedIsLast
<1>5. Found'
  BY <1>2 DEF Deliver, OnStateChange, CallStateListeners, StateListenersReturn, Unregister,
     ConnectionInv, ConnectionTypes, Found
<1>6. DueHeard'
  <2>1. CASE StateListenersReturn(k)
    <3>1. stateHeard' = stateHeard \union ({k} \X stateListeners)
      BY <2>1 DEF StateListenersReturn
    <3> QED
      BY <3>1, <1>1, <1>2 DEF ConnectionInv, DueHeard
  <2>2. CASE OnStateChange(k) \/ CallStateListeners(k)
    <3>1. stateHeard' = stateHeard /\ delivery'[k] \notin {"heard", "done"}
      BY <2>2 DEF OnStateChange, CallStateListeners, ConnectionInv, ConnectionTypes
    <3> QED
      BY <3>1, <1>1, <1>2 DEF ConnectionInv, DueHeard
  <2>3. CASE Unregister(k)
    <3>1. stateHeard' = stateHeard /\ delivery[k] = "heard"
      BY <2>3 DEF Unregister
    <3> QED
      BY <3>1, <1>1, <1>2 DEF ConnectionInv, DueHeard
  <2> QED
    BY <2>1, <2>2, <2>3 DEF Deliver
<1>7. Forgotten'
  <2>1. \A j \in Change : delivery'[j] = "dropped" => ~registered'
    <3>1. delivery'[k] = "dropped" => ~registered'
      BY DEF Deliver, OnStateChange, CallStateListeners, StateListenersReturn, Unregister,
         ConnectionInv, ConnectionTypes
    <3> QED
      BY <3>1, <1>1, <1>2 DEF ConnectionInv, Forgotten
  <2>2. 1..Len(changes) \subseteq Change
    BY ConnectionAssumption DEF ConnectionInv, ConnectionTypes, Change
  <2>3. ASSUME connection = "open", ~registered
        PROVE  \E j \in 1..Len(changes) : changes[j] = "CLOSED" /\ delivery'[j] = "done"
    BY <2>2, <2>3, <1>2 DEF ConnectionInv, Forgotten
  <2>4. ASSUME registered, ~registered'
        PROVE  changes[k] = "CLOSED" /\ delivery'[k] = "done"
    BY <2>4 DEF Deliver, OnStateChange, CallStateListeners, StateListenersReturn, Unregister,
       ConnectionInv, ConnectionTypes
  <2> QED
    BY <2>1, <2>3, <2>4, <1>1, <1>3 DEF Forgotten
<1> QED
  BY <1>4, <1>5, <1>6, <1>7 DEF ConnectionInv

LEMMA ConnectionFrame ==
  ASSUME ConnectionInv, UNCHANGED connectionVars
  PROVE  ConnectionInv'
BY DEF connectionVars, listening, delivering, ConnectionInv, ConnectionTypes, Begun, Found,
   ClosedIsLast, DueHeard, Forgotten

LEMMA ConnectionStep == ConnectionInv /\ [AllNext]_allVars => ConnectionInv'
<1> SUFFICES ASSUME ConnectionInv, [AllNext]_allVars PROVE ConnectionInv'
  OBVIOUS
<1>1. CASE Start \/ Proceed \/ Close
  <2>1. PICK state \in State : Becomes(state) /\ getState # "CLOSED"
    BY <1>1 DEF Start, Proceed, Close, State
  <2> QED
    BY <2>1, BecomesOK
<1>2. CASE ConnectionNext
  BY <1>1, <1>2, CreateConnectionOK, StateListenersOK, DeliverOK DEF ConnectionNext
<1>3. CASE UNCHANGED connectionVars
  BY <1>3, ConnectionFrame
<1> QED
  BY <1>2, <1>3 DEF AllNext, allVars

(* No listener that stays misses a change of the state, unless it heard    *)
(* that the connection is closed, however late changes are delivered.      *)
THEOREM AllSpecStateChangesHeard == AllSpec => []StateChangesHeard
<1>1. ConnectionInv => StateChangesHeard
  <2> SUFFICES ASSUME ConnectionInv, NEW k \in Change,
                      delivery[k] \in {"heard", "done", "dropped"},
                      NEW l \in stateDue[k] \intersect stateListeners,
                      <<k, l>> \notin stateHeard
               PROVE  \E j \in 1..Len(changes) :
                        changes[j] = "CLOSED" /\ <<j, l>> \in stateHeard
    BY DEF StateChangesHeard
  <2>1. delivery[k] = "dropped" /\ ~registered
    BY DEF ConnectionInv, DueHeard, Forgotten
  <2>2. 1..Len(changes) \subseteq Change /\ Len(changes) \in Nat /\ k \in 1..Len(changes)
    BY <2>1, ConnectionAssumption DEF ConnectionInv, ConnectionTypes, Begun, Change
  <2>3. connection = "open"
    BY <2>2 DEF ConnectionInv, Begun
  <2>4. PICK j \in 1..Len(changes) : changes[j] = "CLOSED" /\ delivery[j] = "done"
    BY <2>1, <2>3 DEF ConnectionInv, Forgotten
  <2>5. k <= j
    BY <2>2, <2>4 DEF ConnectionInv, ClosedIsLast
  <2>6. l \in stateDue[j]
    BY <2>2, <2>4, <2>5 DEF ConnectionInv, ClosedIsLast
  <2> QED
    BY <2>2, <2>4, <2>6 DEF ConnectionInv, DueHeard
<1>2. AllInit => ConnectionInv
  BY ConnectionInitOK DEF AllInit
<1> QED
  BY <1>1, <1>2, ConnectionStep, PTL DEF AllSpec
=============================================================================
