--------------------------- MODULE HandlerProofs ---------------------------
(***************************************************************************)
(* Proofs about Handler for any number of callers, batches and listeners   *)
(* and any size of the ring.                                               *)
(***************************************************************************)
EXTENDS HandlerProperties, SequenceTheorems, FiniteSetTheorems, TLAPS

\* The mutexes, the ring, and the loop over the listeners.
Locks ==
  /\ owner # None => status[owner] \in {"main", "low"}
  /\ \A c \in Callers : c \in ringOwner <=> call[c] = "displace"
  /\ \A c, d \in ringOwner : c = d
  /\ \A b \in Batch : b > made => status[b] = "none"

RingFull ==
  /\ \A c \in Callers :
       /\ call[c] # "idle" => own[c] # <<>>
       /\ call[c] \in {"push", "displace"} => ~ Synchronous
       /\ call[c] = "displace" => Len(ring) = Size

LoopOverMap ==
  /\ owner = None => todo = {} /\ current = None
  /\ owner # None => todo \subseteq IF status[owner] = "main" THEN main ELSE low

HandlerInv == TypeOK /\ Locks /\ RingFull /\ LoopOverMap

LEMMA HandlerInit == Init => HandlerInv
BY HandlerAssumption DEF Init, HandlerInv, TypeOK, Locks, RingFull, LoopOverMap,
   None, Ids, Batch

LEMMA RegistryStep ==
  ASSUME HandlerInv,
         \/ \E c \in Callers, isLow \in BOOLEAN : Add(c, isLow)
         \/ \E c \in Callers, i \in Ids : Remove(c, i)
         \/ CallbackAdd
         \/ \E i \in Ids : CallbackRemove(i)
  PROVE  HandlerInv'
<1> USE HandlerAssumption DEF HandlerInv, loopVars, ringVars, callVars
<1>1. ASSUME NEW isLow, Register(isLow)
      PROVE  main' \subseteq Ids /\ low' \subseteq Ids /\ lastId' \in 0..MaxId
             /\ main \subseteq main' /\ low \subseteq low'
  BY <1>1 DEF Register, TypeOK, Ids
<1>2. ASSUME NEW c \in Callers, NEW isLow \in BOOLEAN, Add(c, isLow)
      PROVE  HandlerInv'
  BY <1>1, <1>2 DEF Add, TypeOK, Locks, RingFull, LoopOverMap, Synchronous
<1>3. ASSUME NEW c \in Callers, NEW i \in Ids, Remove(c, i)
      PROVE  HandlerInv'
  BY <1>3 DEF Remove, Unregister, TypeOK, Locks, RingFull, LoopOverMap, Synchronous
<1>4. CASE CallbackAdd
  BY <1>1, <1>4 DEF CallbackAdd, TypeOK, Locks, RingFull, LoopOverMap, Synchronous
<1>5. ASSUME NEW i \in Ids, CallbackRemove(i)
      PROVE  HandlerInv'
  BY <1>5 DEF CallbackRemove, WithoutRemoved, Unregister, TypeOK, Locks, RingFull,
              LoopOverMap, Synchronous
<1> QED
  BY <1>2, <1>3, <1>4, <1>5

LEMMA BatchStepInv ==
  ASSUME HandlerInv, (\E b \in Batch : BatchBegins(b)) \/ BatchStep
  PROVE  HandlerInv'
<1> USE HandlerAssumption DEF HandlerInv, registryVars, ringVars, callVars
<1>1. ASSUME NEW b \in Batch, BatchBegins(b)
      PROVE  HandlerInv'
  BY <1>1 DEF BatchBegins, TypeOK, Locks, RingFull, LoopOverMap, Synchronous, Batch, None
<1>2. ASSUME NEW i \in Ids, ListenerBegins(i)
      PROVE  HandlerInv'
  <2>1. owner \in Batch
    BY <1>2 DEF ListenerBegins, TypeOK
  <2>2. got' \in [Ids -> Seq(Batch)]
    BY <1>2, <2>1 DEF ListenerBegins, TypeOK
  <2> QED
    BY <1>2, <2>2 DEF ListenerBegins, TypeOK, Locks, RingFull, LoopOverMap, Synchronous
<1>3. CASE ListenerEnds
  BY <1>3 DEF ListenerEnds, TypeOK, Locks, RingFull, LoopOverMap, Synchronous
<1>4. CASE MainEnds
  BY <1>4 DEF MainEnds, TypeOK, Locks, RingFull, LoopOverMap, Synchronous
<1>5. CASE BatchEnds
  BY <1>5 DEF BatchEnds, TypeOK, Locks, RingFull, LoopOverMap, Synchronous, None
<1> QED
  BY <1>1, <1>2, <1>3, <1>4, <1>5 DEF BatchStep

LEMMA CallStepInv ==
  ASSUME HandlerInv, NEW c \in Callers, Handle(c) \/ CallStep(c)
  PROVE  HandlerInv'
<1> USE HandlerAssumption DEF HandlerInv, registryVars, loopVars, ringVars, callVars, Returns
<1>1. CASE Handle(c)
  <2>1. made' \in Batch /\ made' \in 0..MaxBatches
    BY <1>1 DEF Handle, TypeOK, Batch
  <2>2. own' \in [Callers -> Seq(Batch)] /\ own'[c] # <<>>
        /\ \A d \in Callers : d # c => own'[d] = own[d]
    BY <1>1, <2>1 DEF Handle, TypeOK
  <2>3. status' \in [Batch -> {"none", "spawned", "main", "low", "done"}]
        /\ call' \in [Callers -> {"idle", "wait", "push", "displace"}]
    BY <1>1, <2>1 DEF Handle, TypeOK
  <2>4. owner # None => owner # made'
    <3>1. made' > made
      BY <1>1 DEF Handle, TypeOK
    <3>2. status[made'] = "none"
      BY <2>1, <3>1 DEF Locks
    <3> QED
      BY <3>2 DEF Locks
  <2>5. \A b \in Batch : b > made' => status'[b] = "none"
    BY <1>1, <2>1 DEF Handle, TypeOK, Locks, Batch
  <2> QED
    BY <1>1, <2>1, <2>2, <2>3, <2>4, <2>5
       DEF Handle, TypeOK, Locks, RingFull, LoopOverMap, Synchronous
<1>2. CASE WaitEnds(c)
  BY <1>2 DEF WaitEnds, TypeOK, Locks, RingFull, LoopOverMap, Synchronous
<1>3. ASSUME call[c] \in {"push", "displace"}
      PROVE  Own(c) \in Batch /\ Size \in Nat /\ Size > 1
  <2>1. own[c] \in Seq(Batch) /\ own[c] # <<>>
    BY <1>3 DEF TypeOK, RingFull
  <2> QED
    BY <1>3, <2>1 DEF Own, RingFull, Synchronous
<1>4. CASE Push(c) /\ Len(ring) < Size
  <2>1. ring' \in Seq(Batch) /\ Len(ring') <= Size
    <3>1. ring' = Append(ring, Own(c))
      BY <1>4, <1>3 DEF Push, TypeOK
    <3>2. ring \in Seq(Batch) /\ Own(c) \in Batch /\ Len(ring) + 1 <= Size
      BY <1>3, <1>4 DEF Push, TypeOK
    <3>3. Len(Append(ring, Own(c))) = Len(ring) + 1
      BY <3>2
    <3> QED
      BY <3>1, <3>2, <3>3
  <2>2. ringOwner = {} /\ \A d \in Callers : call[d] # "displace"
    BY <1>4 DEF Push, Locks
  <2>3. UNCHANGED <<index, ringOwner>> /\ call' = [call EXCEPT ![c] = "idle"]
    BY <1>3, <1>4 DEF Push, TypeOK
  <2>4. call' \in [Callers -> {"idle", "wait", "push", "displace"}]
        /\ call'[c] = "idle" /\ \A d \in Callers : d # c => call'[d] = call[d]
    BY <2>3 DEF TypeOK
  <2> QED
    BY <1>4, <2>1, <2>2, <2>3, <2>4 DEF Push, TypeOK, Locks, RingFull, LoopOverMap, Synchronous
<1>5. CASE Push(c) /\ ~ (Len(ring) < Size)
  <2>1. Len(ring) = Size /\ index' \in 0..Size /\ index' < Size
    BY <1>3, <1>5 DEF Push, Wrapped, TypeOK
  <2> QED
    BY <1>3, <1>5, <2>1 DEF Push, TypeOK, Locks, RingFull, LoopOverMap, Synchronous
<1>6. CASE Displace(c)
  <2>1. c \in ringOwner /\ index < Size /\ Len(ring) = Size
    BY <1>6 DEF Displace, TypeOK, Locks, RingFull
  <2>2. ring' \in Seq(Batch) /\ Len(ring') = Size /\ index' \in 0..Size
    BY <1>3, <1>6, <2>1 DEF Displace, TypeOK
  <2>3. \A d \in Callers : d # c => call[d] # "displace"
    BY <1>6, <2>1 DEF Locks
  <2> QED
    BY <1>6, <2>1, <2>2, <2>3 DEF Displace, TypeOK, Locks, RingFull, LoopOverMap, Synchronous
<1> QED
  BY <1>1, <1>2, <1>4, <1>5, <1>6 DEF CallStep, Push

LEMMA HandlerInvariant == Spec => []HandlerInv
<1>1. HandlerInv /\ [Next]_vars => HandlerInv'
  <2>1. HandlerInv /\ UNCHANGED vars => HandlerInv'
    BY DEF vars, HandlerInv, TypeOK, Locks, RingFull, LoopOverMap, Synchronous
  <2> QED
    BY <2>1, RegistryStep, BatchStepInv, CallStepInv DEF Next, OtherStep
<1> QED
  BY <1>1, HandlerInit, PTL DEF Spec

\* Every variable keeps its type; in particular the ring never holds more
\* than Size futures and its index stays inside while one is displaced.
THEOREM TypeCorrect == Spec => []TypeOK
<1>1. HandlerInv => TypeOK
  BY DEF HandlerInv
<1> QED
  BY <1>1, HandlerInvariant, PTL

\* A listener that was removed is not called, by no batch, for any number of
\* threads that handle, add and remove, callbacks included.
THEOREM RemovedStaysSilent == Spec => NoCallAfterRemove
<1> DEFINE Silent == \A i \in 1..lastId : i \notin main \union low => got'[i] = got[i]
<1>1. HandlerInv /\ [Next]_vars => [Silent]_vars
  <2> SUFFICES ASSUME HandlerInv, Next PROVE Silent
    BY DEF vars
  <2>1. ASSUME NEW i \in Ids, ListenerBegins(i)
        PROVE  Silent
    <3>1. i \in main \union low
      BY <2>1 DEF ListenerBegins, HandlerInv, LoopOverMap
    <3> QED
      BY <2>1, <3>1, HandlerAssumption DEF ListenerBegins, HandlerInv, TypeOK, Ids
  <2>2. ASSUME ~ \E i \in Ids : ListenerBegins(i)
        PROVE  got' = got
    BY <2>2 DEF Next, OtherStep, BatchStep, CallStep, Add, Remove, CallbackAdd, CallbackRemove,
       BatchBegins, ListenerEnds, MainEnds, BatchEnds, Handle, WaitEnds, Push, Displace
  <2> QED
    BY <2>1, <2>2
<1> QED
  BY <1>1, HandlerInvariant, PTL DEF Spec, NoCallAfterRemove

-----------------------------------------------------------------------------
\* What listeners were called with: no batch before its thread has begun, not
\* the one that has still to come, and nothing before there is a listener.
Registered ==
  /\ main \intersect low = {}
  /\ main \union low \subseteq 1..lastId

GotBegun ==
  /\ \A i \in Ids : \A p \in 1..Len(got[i]) : status[got[i][p]] \in {"main", "low", "done"}
  /\ \A i \in ToCall : \A p \in 1..Len(got[i]) : got[i][p] # owner
  /\ \A i \in Ids : i > lastId => got[i] = <<>>

GotInv == Registered /\ GotBegun

LEMMA Appended ==
  ASSUME NEW s \in Seq(Batch), NEW b \in Batch
  PROVE  /\ Len(Append(s, b)) = Len(s) + 1 /\ Len(s) \in Nat
         /\ Append(s, b)[Len(s) + 1] = b
         /\ \A p \in 1..Len(s) : Append(s, b)[p] = s[p]
OBVIOUS

LEMMA GotInit == Init => GotInv
<1> SUFFICES ASSUME Init PROVE GotInv
  OBVIOUS
<1>1. \A i \in Ids : got[i] = <<>> /\ Len(got[i]) = 0
  BY DEF Init
<1>2. ToCall = {} /\ main = {} /\ low = {}
  BY DEF Init, ToCall
<1> QED
  BY <1>1, <1>2 DEF GotInv, Registered, GotBegun

\* A new listener has a new id.
LEMMA GotRegister ==
  ASSUME HandlerInv, GotInv, NEW isLow \in BOOLEAN, Register(isLow),
         UNCHANGED <<status, owner, todo, got>>,
         owner # None => (isLow <=> status[owner] = "main")
  PROVE  GotInv'
<1>1. lastId \in Nat /\ lastId' = lastId + 1 /\ lastId' \in Ids /\ got[lastId'] = <<>>
  BY HandlerAssumption DEF HandlerInv, TypeOK, Register, Ids, GotInv, GotBegun
<1>2. Registered'
  BY <1>1 DEF GotInv, Registered, Register
<1>3. \A i \in ToCall' : i \in ToCall \/ i = lastId'
  BY DEF ToCall, Register
<1>4. Len(got[lastId']) = 0
  BY <1>1
<1>5. \A i \in ToCall' : \A p \in 1..Len(got'[i]) : got'[i][p] # owner'
  BY <1>3, <1>4 DEF GotInv, GotBegun
<1>6. \A i \in Ids : i > lastId' => got'[i] = <<>>
  BY <1>1 DEF GotInv, GotBegun, Ids
<1> QED
  BY <1>2, <1>5, <1>6 DEF GotInv, GotBegun

LEMMA GotUnregister ==
  ASSUME HandlerInv, GotInv, NEW i \in Ids, Unregister(i),
         UNCHANGED <<status, owner, got>>, todo' \subseteq todo
  PROVE  GotInv'
<1>1. Registered'
  BY DEF GotInv, Registered, Unregister
<1>2. \A j \in ToCall' : j \in ToCall
  BY DEF ToCall, Unregister
<1> QED
  BY <1>1, <1>2 DEF GotInv, GotBegun, Unregister

LEMMA GotListener ==
  ASSUME HandlerInv, GotInv, NEW i \in Ids, ListenerBegins(i)
  PROVE  GotInv'
<1>1. /\ owner \in Batch /\ got \in [Ids -> Seq(Batch)] /\ got[i] \in Seq(Batch)
      /\ status[owner] \in {"main", "low"}
  BY DEF HandlerInv, TypeOK, Locks, ListenerBegins
<1>2. \A j \in Ids : got'[j] = IF j = i THEN Append(got[i], owner) ELSE got[j]
  BY <1>1 DEF ListenerBegins
<1>3. /\ Len(got'[i]) = Len(got[i]) + 1 /\ Len(got[i]) \in Nat
      /\ got'[i][Len(got[i]) + 1] = owner
      /\ \A p \in 1..Len(got[i]) : got'[i][p] = got[i][p]
  <2>1. got'[i] = Append(got[i], owner)
    BY <1>2
  <2> QED
    BY <1>1, <2>1, Appended
<1>4. ToCall' = ToCall \ {i}
  BY DEF ToCall, ListenerBegins, HandlerInv, LoopOverMap, GotInv, Registered, registryVars
<1>5. Registered'
  BY DEF GotInv, Registered, ListenerBegins, registryVars
<1>6. ToCall \subseteq Ids /\ status' = status /\ owner' = owner /\ lastId' = lastId
  BY DEF ToCall, HandlerInv, TypeOK, ListenerBegins, registryVars
<1>7. ASSUME NEW j \in Ids, NEW p \in 1..Len(got'[j])
      PROVE  status'[got'[j][p]] \in {"main", "low", "done"}
  <2>1. CASE j = i /\ p = Len(got[i]) + 1
    BY <2>1, <1>1, <1>3, <1>6
  <2>2. CASE j = i /\ p # Len(got[i]) + 1
    <3>1. p \in 1..Len(got[i])
      BY <2>2, <1>3
    <3> QED
      BY <2>2, <3>1, <1>3, <1>6 DEF GotInv, GotBegun
  <2>3. CASE j # i
    BY <2>3, <1>2, <1>6 DEF GotInv, GotBegun
  <2> QED
    BY <2>1, <2>2, <2>3
<1>8. \A j \in ToCall' : \A p \in 1..Len(got'[j]) : got'[j][p] # owner'
  BY <1>2, <1>4, <1>6 DEF GotInv, GotBegun
<1>9. \A j \in Ids : j > lastId' => got'[j] = <<>>
  <2>1. i \in main \union low
    BY DEF ListenerBegins, HandlerInv, LoopOverMap
  <2>2. i \in 1..lastId /\ lastId \in Int
    BY <2>1 DEF GotInv, Registered, HandlerInv, TypeOK
  <2>3. ~ i > lastId
    BY <2>2
  <2> QED
    BY <1>2, <1>6, <2>3 DEF GotInv, GotBegun
<1> QED
  BY <1>5, <1>7, <1>8, <1>9 DEF GotInv, GotBegun

LEMMA GotStep ==
  ASSUME HandlerInv, HandlerInv', GotInv, [Next]_vars
  PROVE  GotInv'
<1> USE DEF loopVars, registryVars, ringVars, callVars
<1>1. ASSUME NEW c \in Callers, NEW isLow \in BOOLEAN, Add(c, isLow)
      PROVE  GotInv'
  BY <1>1, GotRegister DEF Add
<1>2. ASSUME NEW c \in Callers, NEW i \in Ids, Remove(c, i)
      PROVE  GotInv'
  BY <1>2, GotUnregister DEF Remove
<1>3. CASE CallbackAdd
  <2>1. (status[owner] = "main") \in BOOLEAN
    OBVIOUS
  <2> QED
    BY <1>3, <2>1, GotRegister DEF CallbackAdd
<1>4. ASSUME NEW i \in Ids, CallbackRemove(i)
      PROVE  GotInv'
  BY <1>4, GotUnregister DEF CallbackRemove, WithoutRemoved
<1>5. ASSUME NEW i \in Ids, ListenerBegins(i)
      PROVE  GotInv'
  BY <1>5, GotListener
<1>6. ASSUME NEW b \in Batch, BatchBegins(b)
      PROVE  GotInv'
  <2>1. /\ status' = [status EXCEPT ![b] = "main"] /\ status[b] = "spawned" /\ owner' = b
        /\ UNCHANGED <<main, low, lastId, got>>
    BY <1>6 DEF BatchBegins
  <2>2. \A d \in Batch : status'[d] = IF d = b THEN "main" ELSE status[d]
    BY <2>1 DEF HandlerInv, TypeOK
  <2>3. \A i \in Ids : \A p \in 1..Len(got[i]) : got[i][p] \in Batch /\ got[i][p] # b
    <3> SUFFICES ASSUME NEW i \in Ids, NEW p \in 1..Len(got[i])
                 PROVE  got[i][p] \in Batch /\ got[i][p] # b
      OBVIOUS
    <3>1. got[i] \in Seq(Batch)
      BY DEF HandlerInv, TypeOK
    <3>2. got[i][p] \in Batch
      BY <3>1
    <3> QED
      BY <2>1, <3>2 DEF GotInv, GotBegun
  <2>4. ToCall' \subseteq Ids
    BY <2>1 DEF ToCall, HandlerInv, TypeOK
  <2> QED
    BY <2>1, <2>2, <2>3, <2>4 DEF GotInv, GotBegun, Registered
<1>7. CASE ListenerEnds
  BY <1>7 DEF ListenerEnds, GotInv, GotBegun, Registered, ToCall
<1>8. ASSUME MainEnds \/ BatchEnds
      PROVE  GotInv'
  <2>1. /\ UNCHANGED <<main, low, lastId, got>>
        /\ status' = [status EXCEPT ![owner] = "low"] \/ status' = [status EXCEPT ![owner] = "done"]
        /\ owner \in Batch
    BY <1>8 DEF MainEnds, BatchEnds, HandlerInv, TypeOK
  <2>2. ASSUME NEW d, status[d] \in {"main", "low", "done"}, d \in Batch
        PROVE  status'[d] \in {"main", "low", "done"}
    BY <2>1, <2>2 DEF HandlerInv, TypeOK
  <2>3. ToCall' \subseteq ToCall /\ (ToCall' # {} => owner' = owner)
    <3>1. CASE MainEnds
      <4>1. status[owner] = "main" /\ todo' = low /\ owner' = owner /\ owner # None
        BY <3>1 DEF MainEnds
      <4>2. status'[owner] = "low"
        BY <3>1, <2>1 DEF MainEnds, HandlerInv, TypeOK
      <4> QED
        BY <4>1, <4>2, <2>1 DEF ToCall
    <3>2. CASE BatchEnds
      BY <3>2 DEF BatchEnds, ToCall
    <3> QED
      BY <1>8, <3>1, <3>2
  <2>4. \A i \in Ids : \A p \in 1..Len(got[i]) : got[i][p] \in Batch
    BY ElementOfSeq DEF HandlerInv, TypeOK
  <2> QED
    BY <2>1, <2>2, <2>3, <2>4 DEF GotInv, GotBegun, Registered
<1>9. ASSUME NEW c \in Callers, Handle(c)
      PROVE  GotInv'
  <2>1. /\ UNCHANGED <<main, low, lastId, owner, todo, got>>
        /\ made' \in Batch /\ status' = [status EXCEPT ![made'] = "spawned"]
        /\ status[made'] = "none"
    BY <1>9, HandlerAssumption DEF Handle, HandlerInv, TypeOK, Locks, Batch
  <2>2. \A d \in Batch : d # made' => status'[d] = status[d]
    BY <2>1 DEF HandlerInv, TypeOK
  <2>3. owner # None => owner \in Batch /\ owner # made'
    BY <2>1 DEF HandlerInv, TypeOK, Locks
  <2>4. ToCall' = ToCall
    BY <2>1, <2>2, <2>3 DEF ToCall
  <2>5. \A i \in Ids : \A p \in 1..Len(got[i]) : got[i][p] \in Batch /\ got[i][p] # made'
    <3> SUFFICES ASSUME NEW i \in Ids, NEW p \in 1..Len(got[i])
                 PROVE  got[i][p] \in Batch /\ got[i][p] # made'
      OBVIOUS
    <3>1. got[i] \in Seq(Batch)
      BY DEF HandlerInv, TypeOK
    <3>2. got[i][p] \in Batch
      BY <3>1
    <3> QED
      BY <2>1, <3>2 DEF GotInv, GotBegun
  <2> QED
    BY <2>1, <2>2, <2>4, <2>5 DEF GotInv, GotBegun, Registered
<1>10. ASSUME NEW c \in Callers, CallStep(c)
       PROVE  GotInv'
  BY <1>10 DEF CallStep, WaitEnds, Push, Displace, GotInv, GotBegun, Registered, ToCall
<1>11. CASE UNCHANGED vars
  BY <1>11 DEF vars, GotInv, GotBegun, Registered, ToCall
<1> QED
  BY <1>1, <1>2, <1>3, <1>4, <1>5, <1>6, <1>7, <1>8, <1>9, <1>10, <1>11
     DEF Next, OtherStep, BatchStep

-----------------------------------------------------------------------------
\* Futures of a caller that went into the ring after the one at k: none at the
\* place of the last one, one more at each place before it, round the ring.
Rank(k) == IF k <= index THEN index - k ELSE index + Len(ring) - k

Pushed(c) == IF call[c] = "idle" THEN Len(own[c]) ELSE Len(own[c]) - 1

Unfinished(c, y) == status[own[c][y]] # "done"

\* A batch that is not done is the last of its caller, which is in handle(), or
\* is in the ring, at a place that will be displaced before Size more follow.
InRing(c, y) ==
  \E k \in 1..Len(ring) : ring[k] = own[c][y] /\ Pushed(c) - y <= Rank(k)

OwnInv ==
  /\ Len(ring) < Size => index = 0
  /\ ring # <<>> => ~ Synchronous
  /\ \A c \in Callers : call[c] = "wait" => Synchronous
  /\ \A b \in 1..made : \E c \in Callers : \E y \in 1..Len(own[c]) : own[c][y] = b
  /\ \A c \in Callers : \A y \in 1..Len(own[c]) : own[c][y] <= made
  /\ \A c \in Callers : \A y \in 1..Len(own[c]) :
       Unfinished(c, y) => (y = Len(own[c]) /\ call[c] # "idle") \/ InRing(c, y)

LEMMA OwnInit == Init => OwnInv
<1> SUFFICES ASSUME Init PROVE OwnInv
  OBVIOUS
<1>1. /\ \A c \in Callers : own[c] = <<>> /\ Len(own[c]) = 0 /\ call[c] = "idle"
      /\ ring = <<>> /\ index = 0 /\ made = 0
  BY DEF Init
<1> QED
  BY <1>1 DEF OwnInv

\* Nothing changes but that a batch may end.
LEMMA OwnFrame ==
  ASSUME OwnInv, HandlerInv, UNCHANGED <<ring, index, made, own, call>>,
         \A b \in Batch : status[b] = "done" => status'[b] = "done"
  PROVE  OwnInv'
<1>1. \A c \in Callers : \A y \in 1..Len(own[c]) : own[c][y] \in Batch
  BY ElementOfSeq DEF HandlerInv, TypeOK
<1>2. \A c \in Callers : \A y \in 1..Len(own[c]) : Unfinished(c, y)' => Unfinished(c, y)
  BY <1>1 DEF Unfinished
<1>3. \A c \in Callers, y \in Nat : InRing(c, y)' <=> InRing(c, y)
  BY DEF InRing, Pushed, Rank
<1>4. \A c \in Callers : Len(own[c]) \in Nat
  BY DEF HandlerInv, TypeOK
<1>5. \A c \in Callers : \A y \in 1..Len(own'[c]) :
        Unfinished(c, y)' => (y = Len(own'[c]) /\ call'[c] # "idle") \/ InRing(c, y)'
  BY <1>2, <1>3, <1>4 DEF OwnInv
<1> QED
  BY <1>5 DEF OwnInv, Synchronous

LEMMA OwnHandle ==
  ASSUME OwnInv, HandlerInv, NEW c \in Callers, Handle(c)
  PROVE  OwnInv'
<1>1. /\ made' \in Batch /\ made' = made + 1 /\ made \in Nat /\ status[made'] = "none"
      /\ own[c] \in Seq(Batch) /\ call[c] = "idle" /\ call'[c] # "idle"
      /\ own'[c] = Append(own[c], made') /\ UNCHANGED <<ring, index>>
      /\ \A d \in Callers : d # c => own'[d] = own[d] /\ call'[d] = call[d]
      /\ \A b \in Batch : status[b] = "done" => status'[b] = "done"
  BY HandlerAssumption DEF Handle, HandlerInv, TypeOK, Locks, Batch, ringVars
<1>2. /\ Len(own'[c]) = Len(own[c]) + 1 /\ Len(own[c]) \in Nat
      /\ own'[c][Len(own[c]) + 1] = made'
      /\ \A y \in 1..Len(own[c]) : own'[c][y] = own[c][y]
  BY <1>1, Appended
<1>3. Pushed(c)' = Pushed(c) /\ \A d \in Callers : d # c => Pushed(d)' = Pushed(d)
  BY <1>1, <1>2 DEF Pushed
<1>4. \A k : Rank(k)' = Rank(k)
  BY <1>1 DEF Rank
<1>5. \A d \in Callers : \A y \in 1..Len(own[d]) : own'[d][y] = own[d][y] /\ own[d][y] \in Batch
  BY <1>1, <1>2, ElementOfSeq DEF HandlerInv, TypeOK
<1>6. ASSUME NEW d \in Callers, NEW y \in 1..Len(own'[d]), Unfinished(d, y)'
      PROVE  (y = Len(own'[d]) /\ call'[d] # "idle") \/ InRing(d, y)'
  <2>1. CASE d = c /\ y = Len(own[c]) + 1
    BY <2>1, <1>1, <1>2
  <2>2. CASE ~ (d = c /\ y = Len(own[c]) + 1)
    <3>1. y \in 1..Len(own[d])
      BY <2>2, <1>1, <1>2
    <3>2. Unfinished(d, y)
      BY <3>1, <1>1, <1>5, <1>6 DEF Unfinished
    <3>3. (d # c /\ y = Len(own[d]) /\ call[d] # "idle") \/ InRing(d, y)
      BY <3>1, <3>2, <1>1 DEF OwnInv
    <3>4. InRing(d, y) => InRing(d, y)'
      BY <3>1, <1>1, <1>3, <1>4, <1>5 DEF InRing
    <3> QED
      BY <3>3, <3>4, <1>1
  <2> QED
    BY <2>1, <2>2
<1>7. ASSUME NEW b \in 1..made'
      PROVE  \E d \in Callers : \E y \in 1..Len(own'[d]) : own'[d][y] = b
  <2>1. CASE b = made'
    BY <2>1, <1>2
  <2>2. CASE b # made'
    <3>1. b \in 1..made
      BY <2>2, <1>1
    <3>2. PICK d \in Callers : \E y \in 1..Len(own[d]) : own[d][y] = b
      BY <3>1 DEF OwnInv
    <3>3. PICK y \in 1..Len(own[d]) : own[d][y] = b
      BY <3>2
    <3>4. y \in 1..Len(own'[d])
      BY <1>1, <1>2
    <3> QED
      BY <3>3, <3>4, <1>5
  <2> QED
    BY <2>1, <2>2
<1>8. ASSUME NEW d \in Callers, NEW y \in 1..Len(own'[d])
      PROVE  own'[d][y] <= made'
  <2>1. CASE d = c /\ y = Len(own[c]) + 1
    BY <2>1, <1>1, <1>2
  <2>2. CASE ~ (d = c /\ y = Len(own[c]) + 1)
    <3>1. y \in 1..Len(own[d])
      BY <2>2, <1>1, <1>2
    <3>2. own'[d][y] = own[d][y] /\ own[d][y] \in Nat /\ own[d][y] <= made
      BY <3>1, <1>5 DEF OwnInv, Batch
    <3> QED
      BY <3>2, <1>1
  <2> QED
    BY <2>1, <2>2
<1>9. \A d \in Callers : call'[d] = "wait" => Synchronous
  BY <1>1 DEF OwnInv, Handle, HandlerInv, TypeOK
<1> QED
  BY <1>1, <1>6, <1>7, <1>8, <1>9 DEF OwnInv, Synchronous

LEMMA RankType ==
  ASSUME HandlerInv, NEW k \in 1..Len(ring)
  PROVE  Rank(k) \in Nat /\ Rank(k) <= Size - 1
BY HandlerAssumption DEF HandlerInv, TypeOK, Rank

\* The batch of c is in the ring or done; all others that are not done stay in
\* the ring, one place further from the last one.
LEMMA OwnReturns ==
  ASSUME OwnInv, HandlerInv, HandlerInv', NEW c \in Callers, call[c] # "idle", Returns(c),
         UNCHANGED <<made, own, status>>,
         Len(ring') < Size => index' = 0,
         ring' # <<>> => ~ Synchronous,
         \/ ~ Unfinished(c, Len(own[c]))
         \/ \E k \in 1..Len(ring') : ring'[k] = Own(c) /\ Rank(k)' = 0,
         \A k \in 1..Len(ring) : status[ring[k]] # "done" =>
           \E j \in 1..Len(ring') : ring'[j] = ring[k] /\ Rank(j)' = Rank(k) + 1
  PROVE  OwnInv'
<1>1. /\ \A d \in Callers : own[d] \in Seq(Batch) /\ Len(own[d]) \in Nat
      /\ \A d \in Callers : call'[d] = IF d = c THEN "idle" ELSE call[d]
      /\ own' = own /\ status' = status
  BY DEF HandlerInv, TypeOK, Returns
<1>2. \A d \in Callers : /\ Pushed(d) \in Int /\ Pushed(d)' \in Int
                         /\ Pushed(d)' <= Pushed(d) + 1
  BY <1>1 DEF Pushed
<1>3. Pushed(c)' = Len(own[c])
  BY <1>1 DEF Pushed
<1>4. ASSUME NEW d \in Callers, NEW y \in 1..Len(own[d]), Unfinished(d, y)
      PROVE  (y = Len(own[d]) /\ call'[d] # "idle") \/ InRing(d, y)'
  <2>1. (y = Len(own[d]) /\ call[d] # "idle") \/ InRing(d, y)
    BY <1>4 DEF OwnInv
  <2>2. CASE InRing(d, y)
    <3>1. PICK k \in 1..Len(ring) : ring[k] = own[d][y] /\ Pushed(d) - y <= Rank(k)
      BY <2>2 DEF InRing
    <3>2. status[ring[k]] # "done"
      BY <1>4, <3>1 DEF Unfinished
    <3>3. PICK j \in 1..Len(ring') : ring'[j] = ring[k] /\ Rank(j)' = Rank(k) + 1
      BY <3>2
    <3>4. Rank(k) \in Nat
      BY RankType
    <3>5. Pushed(d)' - y <= Rank(j)'
      BY <3>1, <3>3, <3>4, <1>2
    <3> QED
      BY <1>1, <3>1, <3>3, <3>5 DEF InRing
  <2>3. CASE y = Len(own[d]) /\ call[d] # "idle" /\ d # c
    BY <2>3, <1>1
  <2>4. CASE y = Len(own[d]) /\ d = c
    <3>1. PICK k \in 1..Len(ring') : ring'[k] = Own(c) /\ Rank(k)' = 0
      BY <2>4, <1>4
    <3>2. Pushed(d)' - y <= Rank(k)'
      BY <2>4, <3>1, <1>1, <1>3
    <3> QED
      BY <2>4, <1>1, <3>1, <3>2 DEF InRing, Own
  <2> QED
    BY <2>1, <2>2, <2>3, <2>4
<1>5. \A d \in Callers : \A y \in 1..Len(own[d]) : Unfinished(d, y)' => Unfinished(d, y)
  BY <1>1 DEF Unfinished
<1> QED
  BY <1>1, <1>4, <1>5 DEF OwnInv, Synchronous

\* The index goes from the end of the ring to its beginning.
LEMMA Wraps ==
  ASSUME NEW n \in Nat, n > 0, NEW k \in 0..n
  PROVE  k % n = IF k = n THEN 0 ELSE k
<1>1. CASE k = n
  BY <1>1
<1>2. CASE k < n
  BY <1>2
<1> QED
  BY <1>1, <1>2

LEMMA OwnPush ==
  ASSUME OwnInv, HandlerInv, HandlerInv', NEW c \in Callers, Push(c)
  PROVE  OwnInv'
<1>1. /\ ring \in Seq(Batch) /\ Len(ring) \in Nat /\ index \in 0..Size /\ Size \in Nat
      /\ call \in [Callers -> {"idle", "wait", "push", "displace"}]
      /\ call[c] = "push" /\ ~ Synchronous /\ own[c] # <<>> /\ own[c] \in Seq(Batch)
      /\ UNCHANGED <<made, own, status>>
  BY HandlerAssumption DEF HandlerInv, TypeOK, RingFull, Push
<1>2. Own(c) \in Batch
  BY <1>1 DEF Own
<1>3. CASE Len(ring) < Size
  <2>1. ring' = Append(ring, Own(c)) /\ index' = index /\ index = 0 /\ Returns(c)
    BY <1>3, <1>1 DEF Push, OwnInv
  <2>2. /\ Len(ring') = Len(ring) + 1 /\ ring'[Len(ring) + 1] = Own(c)
        /\ \A k \in 1..Len(ring) : ring'[k] = ring[k]
    BY <2>1, <1>1, <1>2, Appended
  <2>3. PICK n \in Nat : n = Len(ring) + 1
    BY <1>1
  <2>5. Rank(n)' = 0 /\ n \in 1..Len(ring') /\ ring'[n] = Own(c)
    BY <2>1, <2>2, <2>3, <1>1 DEF Rank
  <2>4. \A k \in 1..Len(ring) : Rank(k)' = Rank(k) + 1 /\ k \in 1..Len(ring')
    BY <2>1, <2>2, <1>1 DEF Rank
  <2> QED
    BY <2>1, <2>2, <2>4, <2>5, <1>1, OwnReturns
<1>4. CASE ~ (Len(ring) < Size)
  <2>1. /\ ring' = ring /\ index' = index % Size /\ Len(ring) = Size /\ Size > 1
        /\ call' = [call EXCEPT ![c] = "displace"]
    BY <1>4, <1>1 DEF Push, Wrapped, HandlerInv, TypeOK, Synchronous
  <2>2. index' = IF index = Size THEN 0 ELSE index
    BY <2>1, <1>1, Wraps
  <2>3. ASSUME NEW k \in 1..Len(ring)
        PROVE  Rank(k)' = Rank(k)
    <3>1. ring' = ring /\ Len(ring) = Size
      BY <2>1
    <3>2. CASE index = Size
      <4>1. Rank(k)' = 0 + Size - k
        BY <2>2, <3>1, <3>2 DEF Rank
      <4>2. Rank(k) = Size - k
        BY <3>1, <3>2 DEF Rank
      <4> QED
        BY <4>1, <4>2, <1>1
    <3>3. CASE index # Size
      BY <2>2, <3>1, <3>3 DEF Rank
    <3> QED
      BY <3>2, <3>3
  <2>4. \A d \in Callers : call'[d] # "idle" <=> call[d] # "idle"
    BY <2>1, <1>1
  <2>5. \A d \in Callers : Pushed(d)' = Pushed(d)
    BY <2>4, <1>1 DEF Pushed
  <2>6. \A d \in Callers, y \in Nat : InRing(d, y)' <=> InRing(d, y)
    BY <2>1, <2>3, <2>5, <1>1 DEF InRing
  <2>7. \A d \in Callers : Len(own[d]) \in Nat
    BY DEF HandlerInv, TypeOK
  <2>8. \A d \in Callers : \A y \in 1..Len(own'[d]) :
          Unfinished(d, y)' => (y = Len(own'[d]) /\ call'[d] # "idle") \/ InRing(d, y)'
    BY <1>1, <2>4, <2>6, <2>7 DEF OwnInv, Unfinished
  <2> QED
    BY <1>1, <2>1, <2>8 DEF OwnInv, Synchronous
<1> QED
  BY <1>3, <1>4

LEMMA OwnDisplace ==
  ASSUME OwnInv, HandlerInv, HandlerInv', NEW c \in Callers, Displace(c)
  PROVE  OwnInv'
<1>1. /\ ring \in Seq(Batch) /\ Len(ring) = Size /\ index \in 0..Size /\ Size \in Nat
      /\ call[c] = "displace" /\ ~ Synchronous /\ own[c] # <<>> /\ own[c] \in Seq(Batch)
      /\ UNCHANGED <<made, own, status>> /\ Returns(c)
      /\ status[ring[index + 1]] = "done" /\ index' = index + 1
      /\ ring' = [ring EXCEPT ![index + 1] = Own(c)]
  BY HandlerAssumption DEF HandlerInv, TypeOK, RingFull, Displace, Waited
<1>2. index < Size
  BY DEF Displace, HandlerInv, TypeOK, Locks
<1>3. Len(ring') = Size /\ \A k \in 1..Size : ring'[k] = IF k = index + 1 THEN Own(c) ELSE ring[k]
  BY <1>1, <1>2
<1>4. PICK n \in Nat : n = index + 1
  BY <1>1
<1>5. ASSUME NEW k \in 1..Len(ring), status[ring[k]] # "done"
      PROVE  k \in 1..Len(ring') /\ ring'[k] = ring[k] /\ Rank(k)' = Rank(k) + 1
  <2>1. k # index + 1
    BY <1>1, <1>5
  <2> QED
    BY <2>1, <1>1, <1>2, <1>3 DEF Rank
<1>6. Rank(n)' = 0 /\ n \in 1..Len(ring') /\ ring'[n] = Own(c)
  BY <1>1, <1>2, <1>3, <1>4 DEF Rank
<1>7. ~ (Len(ring') < Size) /\ ~ Synchronous /\ call[c] # "idle"
  BY <1>1, <1>3
<1> QED
  BY <1>1, <1>5, <1>6, <1>7, OwnReturns

LEMMA OwnWaitEnds ==
  ASSUME OwnInv, HandlerInv, HandlerInv', NEW c \in Callers, WaitEnds(c)
  PROVE  OwnInv'
<1>1. /\ call[c] = "wait" /\ Returns(c) /\ UNCHANGED <<made, own, status, ring, index>>
      /\ ~ Unfinished(c, Len(own[c]))
  BY DEF WaitEnds, Waited, Own, Unfinished, ringVars
<1>2. ring = <<>> /\ ring' = <<>>
  BY <1>1 DEF OwnInv
<1>3. Len(ring) = 0 /\ (Len(ring') < Size => index' = 0)
  BY <1>1, <1>2 DEF OwnInv
<1> QED
  BY <1>1, <1>2, <1>3, OwnReturns

LEMMA OwnStep ==
  ASSUME OwnInv, HandlerInv, HandlerInv', [Next]_vars
  PROVE  OwnInv'
<1>1. ASSUME UNCHANGED <<ring, index, made, own, call, status>>
      PROVE  OwnInv'
  BY <1>1, OwnFrame
<1>2. ASSUME NEW c \in Callers, CallStep(c)
      PROVE  OwnInv'
  BY <1>2, OwnPush, OwnDisplace, OwnWaitEnds DEF CallStep
<1>3. ASSUME NEW b \in Batch, BatchBegins(b)
      PROVE  OwnInv'
  <2>1. UNCHANGED <<ring, index, made, own, call>>
    BY <1>3 DEF BatchBegins, ringVars, callVars
  <2>2. \A d \in Batch : status[d] = "done" => status'[d] = "done"
    BY <1>3 DEF BatchBegins, HandlerInv, TypeOK
  <2> QED
    BY <2>1, <2>2, OwnFrame
<1>4. CASE MainEnds \/ BatchEnds
  <2>1. UNCHANGED <<ring, index, made, own, call>>
    BY <1>4 DEF MainEnds, BatchEnds, ringVars, callVars
  <2>2. \A d \in Batch : status[d] = "done" => status'[d] = "done"
    BY <1>4 DEF MainEnds, BatchEnds, HandlerInv, TypeOK
  <2> QED
    BY <2>1, <2>2, OwnFrame
<1>5. ASSUME \/ \E c \in Callers, isLow \in BOOLEAN : Add(c, isLow)
             \/ \E c \in Callers, i \in Ids : Remove(c, i)
             \/ CallbackAdd \/ \E i \in Ids : CallbackRemove(i)
             \/ \E i \in Ids : ListenerBegins(i)
             \/ ListenerEnds \/ UNCHANGED vars
      PROVE  UNCHANGED <<ring, index, made, own, call, status>>
  BY <1>5 DEF Add, Remove, CallbackAdd, CallbackRemove, ListenerBegins, ListenerEnds, vars,
     ringVars, callVars
<1> QED
  BY <1>1, <1>2, <1>3, <1>4, <1>5, OwnHandle DEF Next, OtherStep, BatchStep

-----------------------------------------------------------------------------
\* How far a caller's batches run ahead of one that is not done.
LEMMA NotFarAhead ==
  ASSUME OwnInv, HandlerInv, NEW c \in Callers, NEW y \in 1..Len(own[c]), Unfinished(c, y)
  PROVE  Len(own[c]) - y <= Lag
<1>1. Len(own[c]) \in Nat /\ Size \in Nat /\ Lag \in Nat
  BY HandlerAssumption DEF HandlerInv, TypeOK, Lag
<1>2. CASE InRing(c, y)
  <2>1. PICK k \in 1..Len(ring) : Pushed(c) - y <= Rank(k)
    BY <1>2 DEF InRing
  <2>2. Rank(k) \in Nat /\ Rank(k) <= Size - 1
    BY RankType
  <2>3. Pushed(c) \in Int /\ Len(own[c]) - 1 <= Pushed(c)
    BY <1>1 DEF Pushed
  <2>4. Lag = Size
    BY <2>1 DEF OwnInv, Lag, HandlerInv, TypeOK
  <2> QED
    BY <1>1, <2>1, <2>2, <2>3, <2>4
<1>3. CASE y = Len(own[c])
  BY <1>1, <1>3
<1> QED
  BY <1>2, <1>3 DEF OwnInv

OrderInv == HandlerInv /\ GotInv /\ OwnInv /\ BoundedOvertaking

\* BoundedOvertaking of what listeners got, and of what callers gave.
InOrder(g, o) ==
  \A i \in Ids, c \in Callers : \A p, q \in 1..Len(g[i]) : p < q =>
    /\ g[i][p] # g[i][q]
    /\ \A x, y \in 1..Len(o[c]) : o[c][x] = g[i][p] /\ o[c][y] = g[i][q] => x - y <= Lag

LEMMA InOrderNow == BoundedOvertaking <=> InOrder(got, own)
BY DEF BoundedOvertaking, InOrder

LEMMA InOrderNext == BoundedOvertaking' <=> InOrder(got', own')
<1>1. Lag' = Lag
  BY DEF Lag, Synchronous
<1> QED
  BY <1>1 DEF BoundedOvertaking, InOrder

LEMMA OrderListener ==
  ASSUME OrderInv, NEW i \in Ids, ListenerBegins(i)
  PROVE  BoundedOvertaking'
<1>1. /\ owner \in Batch /\ got \in [Ids -> Seq(Batch)] /\ got[i] \in Seq(Batch)
      /\ status[owner] \in {"main", "low"} /\ i \in ToCall /\ own' = own
  BY DEF OrderInv, HandlerInv, TypeOK, Locks, ListenerBegins, ToCall, callVars
<1>2. got'[i] = Append(got[i], owner) /\ \A j \in Ids : j # i => got'[j] = got[j]
  BY <1>1 DEF ListenerBegins
<1>3. /\ Len(got'[i]) = Len(got[i]) + 1 /\ Len(got[i]) \in Nat
      /\ got'[i][Len(got[i]) + 1] = owner
      /\ \A p \in 1..Len(got[i]) : got'[i][p] = got[i][p]
  BY <1>1, <1>2, Appended
<1> SUFFICES ASSUME NEW j \in Ids, NEW c \in Callers,
                    NEW p \in 1..Len(got'[j]), NEW q \in 1..Len(got'[j]), p < q
             PROVE  /\ got'[j][p] # got'[j][q]
                    /\ \A x, y \in 1..Len(own[c]) :
                         own[c][x] = got'[j][p] /\ own[c][y] = got'[j][q] => x - y <= Lag
  BY <1>1, InOrderNext DEF InOrder
<1> InOrder(got, own)
  BY InOrderNow DEF OrderInv
<1>4. CASE j # i
  BY <1>2, <1>4 DEF InOrder
<1>5. CASE j = i /\ q # Len(got[i]) + 1
  <2>1. p \in 1..Len(got[i]) /\ q \in 1..Len(got[i])
    BY <1>3, <1>5
  <2> QED
    BY <1>3, <1>5, <2>1 DEF InOrder
<1>6. CASE j = i /\ q = Len(got[i]) + 1
  <2>1. p \in 1..Len(got[i]) /\ got'[j][p] = got[i][p] /\ got'[j][q] = owner
    BY <1>3, <1>6
  <2>2. got[i][p] # owner
    BY <1>1, <2>1 DEF OrderInv, GotInv, GotBegun
  <2>3. ASSUME NEW x \in 1..Len(own[c]), NEW y \in 1..Len(own[c]), own[c][y] = owner
        PROVE  x - y <= Lag
    <3>1. Unfinished(c, y)
      BY <1>1, <2>3 DEF Unfinished
    <3>2. Len(own[c]) - y <= Lag
      BY <3>1, NotFarAhead DEF OrderInv
    <3>3. Len(own[c]) \in Nat /\ Lag \in Int
      BY HandlerAssumption DEF OrderInv, HandlerInv, TypeOK, Lag
    <3> QED
      BY <3>2, <3>3
  <2> QED
    BY <2>1, <2>2, <2>3
<1> QED
  BY <1>4, <1>5, <1>6

LEMMA OrderHandle ==
  ASSUME OrderInv, NEW c \in Callers, Handle(c)
  PROVE  BoundedOvertaking'
<1>1. /\ made' \in Batch /\ status[made'] = "none" /\ got' = got
      /\ own[c] \in Seq(Batch) /\ own'[c] = Append(own[c], made')
      /\ \A d \in Callers : d # c => own'[d] = own[d]
  BY HandlerAssumption DEF Handle, OrderInv, HandlerInv, TypeOK, Locks, Batch
<1>2. /\ Len(own'[c]) = Len(own[c]) + 1 /\ Len(own[c]) \in Nat
      /\ own'[c][Len(own[c]) + 1] = made'
      /\ \A y \in 1..Len(own[c]) : own'[c][y] = own[c][y]
  BY <1>1, Appended
<1>3. \A i \in Ids : \A p \in 1..Len(got[i]) : got[i][p] # made'
  BY <1>1 DEF OrderInv, GotInv, GotBegun
<1>4. ASSUME NEW d \in Callers, NEW x \in 1..Len(own'[d]), own'[d][x] # made'
      PROVE  x \in 1..Len(own[d]) /\ own'[d][x] = own[d][x]
  <2>1. CASE d = c
    <3>1. x # Len(own[c]) + 1
      BY <2>1, <1>2, <1>4
    <3>2. x \in 1..Len(own[c])
      BY <2>1, <3>1, <1>2
    <3> QED
      BY <2>1, <3>2, <1>2
  <2>2. CASE d # c
    BY <2>2, <1>1
  <2> QED
    BY <2>1, <2>2
<1>5. InOrder(got, own)
  BY InOrderNow DEF OrderInv
<1>6. InOrder(got, own')
  <2> SUFFICES ASSUME NEW i \in Ids, NEW d \in Callers,
                      NEW p \in 1..Len(got[i]), NEW q \in 1..Len(got[i]), p < q
               PROVE  /\ got[i][p] # got[i][q]
                      /\ \A x, y \in 1..Len(own'[d]) :
                           own'[d][x] = got[i][p] /\ own'[d][y] = got[i][q] => x - y <= Lag
    BY DEF InOrder
  <2>1. got[i][p] # got[i][q]
    BY <1>5 DEF InOrder
  <2>2. ASSUME NEW x \in 1..Len(own'[d]), NEW y \in 1..Len(own'[d]),
               own'[d][x] = got[i][p], own'[d][y] = got[i][q]
        PROVE  x - y <= Lag
    <3>1. /\ x \in 1..Len(own[d]) /\ own[d][x] = got[i][p]
          /\ y \in 1..Len(own[d]) /\ own[d][y] = got[i][q]
      BY <2>2, <1>3, <1>4
    <3> QED
      BY <3>1, <1>5 DEF InOrder
  <2> QED
    BY <2>1, <2>2
<1> QED
  BY <1>1, <1>6, InOrderNext

LEMMA OrderInvariant == Spec => []OrderInv
<1>1. Init => OrderInv
  <2>1. Init => \A i \in Ids : Len(got[i]) = 0
    BY DEF Init
  <2>2. Init => BoundedOvertaking
    BY <2>1 DEF BoundedOvertaking
  <2> QED
    BY <2>2, HandlerInit, GotInit, OwnInit DEF OrderInv
<1>2. OrderInv /\ HandlerInv' /\ [Next]_vars => OrderInv'
  <2> SUFFICES ASSUME OrderInv, HandlerInv', [Next]_vars PROVE OrderInv'
    OBVIOUS
  <2>1. GotInv' /\ OwnInv'
    BY GotStep, OwnStep DEF OrderInv
  <2>2. (\E i \in Ids : ListenerBegins(i)) \/ (\E c \in Callers : Handle(c)) \/ UNCHANGED <<own, got>>
    BY DEF Next, OtherStep, BatchStep, CallStep, Add, Remove, CallbackAdd, CallbackRemove,
       BatchBegins, ListenerEnds, MainEnds, BatchEnds, WaitEnds, Push, Displace, vars, callVars
  <2>3. BoundedOvertaking'
    <3>1. CASE UNCHANGED <<own, got>>
      BY <3>1, InOrderNow, InOrderNext DEF OrderInv
    <3> QED
      BY <2>2, <3>1, OrderListener, OrderHandle
  <2> QED
    BY <2>1, <2>3 DEF OrderInv
<1> QED
  BY <1>1, <1>2, HandlerInvariant, PTL DEF Spec

\* Listeners get each batch once, and those of one caller no further out of
\* order than the ring has places, whatever threads, listeners and sizes.
THEOREM OvertakingIsBounded == Spec => []BoundedOvertaking
<1>1. OrderInv => BoundedOvertaking
  BY DEF OrderInv
<1> QED
  BY <1>1, OrderInvariant, PTL

-----------------------------------------------------------------------------
\* Who waits for whom: a batch that has begun and not ended is the one that
\* holds the mutex, and whatever a caller waits for was made.
WaitInv ==
  /\ \A b \in Batch : status[b] \in {"main", "low"} => b = owner
  /\ \A b \in Batch : b <= made => status[b] # "none"
  /\ \A k \in 1..Len(ring) : ring[k] <= made

LEMMA WaitInit == Init => WaitInv
BY DEF Init, WaitInv, Batch

LEMMA WaitStep == OrderInv /\ WaitInv /\ [Next]_vars => WaitInv'
<1> SUFFICES ASSUME OrderInv, WaitInv, [Next]_vars PROVE WaitInv'
  OBVIOUS
<1> USE HandlerAssumption DEF registryVars, loopVars, ringVars, callVars
<1>1. /\ HandlerInv /\ made \in Nat /\ Size \in Nat /\ index \in 0..Size
      /\ ring \in Seq(Batch) /\ owner \in Batch \union {None}
      /\ status \in [Batch -> {"none", "spawned", "main", "low", "done"}]
  BY DEF OrderInv, HandlerInv, TypeOK
<1>2. ASSUME NEW c \in Callers, call[c] \in {"push", "displace"}
      PROVE  Own(c) \in Batch /\ Own(c) <= made
  <2>1. own[c] \in Seq(Batch) /\ own[c] # <<>>
    BY <1>1, <1>2 DEF HandlerInv, TypeOK, RingFull
  <2>2. Len(own[c]) \in 1..Len(own[c])
    BY <2>1
  <2> QED
    BY <2>1, <2>2, ElementOfSeq DEF Own, OrderInv, OwnInv
<1>3. ASSUME UNCHANGED <<status, owner, made, ring>>
      PROVE  WaitInv'
  BY <1>3 DEF WaitInv
<1>4. CASE UNCHANGED vars
  BY <1>3, <1>4 DEF vars
<1>5. ASSUME NEW c \in Callers, Handle(c)
      PROVE  WaitInv'
  <2>1. made' = made + 1 /\ made' \in Batch /\ UNCHANGED <<ring, owner>>
        /\ status' = [status EXCEPT ![made'] = "spawned"]
    BY <1>1, <1>5 DEF Handle, Batch
  <2>2. \A b \in Batch : b <= made' => status'[b] # "none"
    BY <1>1, <2>1 DEF WaitInv, Batch
  <2>3. \A b \in Batch : status'[b] \in {"main", "low"} => b = owner'
    BY <1>1, <2>1 DEF WaitInv
  <2>4. \A k \in 1..Len(ring') : ring'[k] <= made'
    <3>1. \A k \in 1..Len(ring) : ring[k] \in Batch
      BY <1>1, ElementOfSeq
    <3> QED
      BY <1>1, <2>1, <3>1 DEF WaitInv, Batch
  <2> QED
    BY <2>2, <2>3, <2>4 DEF WaitInv
<1>6. ASSUME NEW b \in Batch, BatchBegins(b)
      PROVE  WaitInv'
  BY <1>1, <1>6 DEF BatchBegins, WaitInv, None, Batch
<1>7. CASE MainEnds
  BY <1>1, <1>7 DEF MainEnds, WaitInv, None, Batch
<1>8. CASE BatchEnds
  BY <1>1, <1>8 DEF BatchEnds, WaitInv, None, Batch
<1>9. ASSUME NEW c \in Callers, Push(c)
      PROVE  WaitInv'
  <2>1. UNCHANGED <<status, owner, made>> /\ (ring' = ring \/ ring' = Append(ring, Own(c)))
    BY <1>9 DEF Push
  <2>2. Own(c) \in Batch /\ Own(c) <= made
    BY <1>2, <1>9 DEF Push
  <2>3. \A k \in 1..Len(ring') : ring'[k] <= made
    <3>1. CASE ring' = ring
      BY <3>1 DEF WaitInv
    <3>2. CASE ring' = Append(ring, Own(c))
      BY <1>1, <2>2, <3>2, Appended DEF WaitInv
    <3> QED
      BY <2>1, <3>1, <3>2
  <2> QED
    BY <2>1, <2>3 DEF WaitInv
<1>10. ASSUME NEW c \in Callers, Displace(c)
       PROVE  WaitInv'
  <2>1. UNCHANGED <<status, owner, made>> /\ ring' = [ring EXCEPT ![index + 1] = Own(c)]
    BY <1>10 DEF Displace
  <2>2. Own(c) \in Batch /\ Own(c) <= made
    BY <1>2, <1>10 DEF Displace
  <2>3. Len(ring') = Len(ring) /\ \A k \in 1..Len(ring) : ring'[k] = ring[k] \/ ring'[k] = Own(c)
    BY <1>1, <2>1, <2>2
  <2> QED
    BY <2>1, <2>2, <2>3 DEF WaitInv
<1>11. ASSUME NEW c \in Callers, \/ \E isLow \in BOOLEAN : Add(c, isLow)
                                \/ \E i \in Ids : Remove(c, i)
       PROVE  WaitInv'
  BY <1>3, <1>11 DEF Add, Remove
<1>12. CASE CallbackAdd
  BY <1>3, <1>12 DEF CallbackAdd
<1>13. ASSUME NEW i \in Ids, CallbackRemove(i) \/ ListenerBegins(i)
       PROVE  WaitInv'
  BY <1>3, <1>13 DEF CallbackRemove, ListenerBegins
<1>14. CASE ListenerEnds
  BY <1>3, <1>14 DEF ListenerEnds
<1>15. CASE BatchStep
  BY <1>7, <1>8, <1>13, <1>14, <1>15 DEF BatchStep
<1>16. ASSUME NEW c \in Callers, CallStep(c)
       PROVE  WaitInv'
  <2>1. CASE WaitEnds(c)
    BY <1>3, <2>1 DEF WaitEnds
  <2> QED
    BY <1>9, <1>10, <1>16, <2>1 DEF CallStep
<1>17. CASE OtherStep
  BY <1>6, <1>11, <1>12, <1>13, <1>15, <1>16, <1>17 DEF OtherStep
<1> QED
  BY <1>4, <1>5, <1>17 DEF Next

\* Something is under way: a batch whose thread has not ended, or a call, or a
\* mutex is held that add, remove and handle wait for.
UnderWay ==
  \/ \E b \in Batch : status[b] \in {"spawned", "main", "low"}
  \/ \E c \in Callers : call[c] # "idle"
  \/ owner # None
  \/ ringOwner # {}

\* The guards of BatchBegins, of BatchStep and of CallStep.
CanBegin   == owner = None /\ \E b \in Batch : status[b] = "spawned"
CanDeliver ==
  /\ owner # None
  /\ current # None \/ todo # {} \/ status[owner] \in {"main", "low"}
CanGoOn(c) ==
  \/ call[c] = "wait" /\ Waited(Own(c))
  \/ call[c] = "push" /\ ringOwner = {}
  \/ call[c] = "displace" /\ Waited(ring[index + 1])

NeverStuck == UnderWay => CanBegin \/ CanDeliver \/ \E c \in Callers : CanGoOn(c)

\* The two mutexes of a handler and its futures never make everybody wait:
\* callers that wait for a place in the ring, the caller that waits for the
\* future it displaces and the batches that wait for the listeners' mutex all
\* wait for a thread that can go on, for any number of them.
THEOREM NobodyWaitsForEver == Spec => []NeverStuck
<1>1. OrderInv /\ WaitInv => NeverStuck
  <2> SUFFICES ASSUME OrderInv, WaitInv, UnderWay, ~CanBegin, ~CanDeliver
               PROVE  \E c \in Callers : CanGoOn(c)
    BY DEF NeverStuck
  <2>1. HandlerInv /\ made \in Nat /\ Size \in Nat /\ MaxBatches \in Nat
    BY HandlerAssumption DEF OrderInv, HandlerInv, TypeOK
  <2>2. owner = None
    BY <2>1 DEF HandlerInv, Locks, CanDeliver
  <2>3. \A b \in Batch : b <= made => status[b] = "done"
    BY <2>1, <2>2 DEF WaitInv, CanBegin, HandlerInv, TypeOK, None, Batch
  <2>4. PICK c \in Callers : call[c] # "idle"
    BY <2>1, <2>2 DEF UnderWay, CanBegin, WaitInv, HandlerInv, TypeOK, Locks, None, Batch
  <2>5. ASSUME NEW d \in Callers, call[d] = "displace"
        PROVE  CanGoOn(d)
    <3>1. d \in ringOwner /\ index \in 0..Size /\ index < Size /\ Len(ring) = Size
          /\ ring \in Seq(Batch)
      BY <2>1, <2>5 DEF HandlerInv, TypeOK, Locks, RingFull
    <3>2. index + 1 \in 1..Len(ring)
      BY <2>1, <3>1
    <3>3. ring[index + 1] \in Batch /\ ring[index + 1] <= made
      BY <3>1, <3>2, ElementOfSeq DEF WaitInv
    <3> QED
      BY <2>3, <2>5, <3>3 DEF CanGoOn, Waited
  <2>6. CASE call[c] = "wait"
    <3>1. own[c] \in Seq(Batch) /\ own[c] # <<>>
      BY <2>1, <2>6 DEF HandlerInv, TypeOK, RingFull
    <3>2. Len(own[c]) \in 1..Len(own[c])
      BY <3>1
    <3>3. Own(c) \in Batch /\ Own(c) <= made
      BY <3>1, <3>2, ElementOfSeq DEF Own, OrderInv, OwnInv
    <3> QED
      BY <2>3, <2>6, <3>3 DEF CanGoOn, Waited
  <2>7. CASE call[c] = "push"
    <3>1. CASE ringOwner = {}
      BY <2>7, <3>1 DEF CanGoOn
    <3>2. CASE ringOwner # {}
      <4>1. PICK d \in Callers : call[d] = "displace"
        BY <2>1, <3>2 DEF HandlerInv, TypeOK, Locks
      <4> QED
        BY <2>5, <4>1
    <3> QED
      BY <3>1, <3>2
  <2> QED
    BY <2>1, <2>4, <2>5, <2>6, <2>7 DEF HandlerInv, TypeOK
<1>2. OrderInv /\ WaitInv /\ [Next]_vars => WaitInv'
  BY WaitStep
<1> QED
  BY <1>1, <1>2, WaitInit, OrderInvariant, PTL DEF Spec

-----------------------------------------------------------------------------
\* The futures that calls left behind are in the ring, which is empty when
\* calls wait for their own.
FewLeftBehind == Cardinality(Promised!LeftBehind) <= IF Size <= 1 THEN 0 ELSE Size

LEMMA LeftBehindInRing ==
  ASSUME HandlerInv, OwnInv, NEW b \in Promised!LeftBehind
  PROVE  \E k \in 1..Len(ring) : ring[k] = b
<1>1. /\ b \in Batch /\ status[b] = "spawned"
      /\ \A c \in Callers : call[c] # "idle" => Own(c) # b
  BY DEF Promised!LeftBehind
<1>2. b \in 1..made
  BY <1>1 DEF HandlerInv, TypeOK, Locks, Batch
<1>3. PICK c \in Callers : \E y \in 1..Len(own[c]) : own[c][y] = b
  BY <1>2 DEF OwnInv
<1>4. PICK y \in 1..Len(own[c]) : own[c][y] = b
  BY <1>3
<1>5. Unfinished(c, y)
  BY <1>1, <1>4 DEF Unfinished
<1>6. InRing(c, y)
  BY <1>1, <1>4, <1>5 DEF OwnInv, Own
<1> QED
  BY <1>4, <1>6 DEF InRing

LEMMA LeftBehindIsBounded == HandlerInv /\ OwnInv => FewLeftBehind
<1> SUFFICES ASSUME HandlerInv, OwnInv PROVE FewLeftBehind
  OBVIOUS
<1> DEFINE inRing == {ring[k] : k \in 1..Len(ring)}
<1>1. Len(ring) \in Nat /\ Size \in Nat
  BY HandlerAssumption DEF HandlerInv, TypeOK
<1>2. Promised!LeftBehind \subseteq inRing
  BY LeftBehindInRing
<1>3. CASE Synchronous
  <2>1. ring = <<>>
    BY <1>3 DEF OwnInv
  <2>2. Promised!LeftBehind = {}
    BY <1>2, <2>1
  <2> QED
    BY <1>3, <2>2, FS_EmptySet DEF FewLeftBehind, Synchronous
<1>4. CASE ~ Synchronous
  <2>1. Len(ring) <= Size
    BY <1>1 DEF HandlerInv, TypeOK
  <2>2. [k \in 1..Len(ring) |-> ring[k]] \in Surjection(1..Len(ring), inRing)
    BY DEF Surjection
  <2>3. IsFiniteSet(1..Len(ring)) /\ Cardinality(1..Len(ring)) = Len(ring)
    <3>1. IsFiniteSet(1..Len(ring)) /\ Cardinality(1..Len(ring)) = IF 1 > Len(ring) THEN 0 ELSE Len(ring) - 1 + 1
      BY <1>1, FS_Interval
    <3> QED
      BY <1>1, <3>1
  <2>4. IsFiniteSet(inRing) /\ Cardinality(inRing) <= Len(ring)
    <3> HIDE DEF inRing
    <3> QED
      BY <2>2, <2>3, FS_Surjection
  <2>5. Cardinality(Promised!LeftBehind) <= Cardinality(inRing) /\ IsFiniteSet(Promised!LeftBehind)
    <3> HIDE DEF inRing
    <3>1. Promised!LeftBehind \in SUBSET inRing
      BY <1>2
    <3> QED
      BY <2>4, <3>1, FS_Subset
  <2>6. Cardinality(inRing) \in Nat /\ Cardinality(Promised!LeftBehind) \in Nat
    BY <2>4, <2>5, FS_CardinalityType
  <2>7. Cardinality(Promised!LeftBehind) <= Size
    <3> HIDE DEF inRing
    <3> QED
      BY <1>1, <2>1, <2>4, <2>5, <2>6
  <2> QED
    BY <1>4, <2>7 DEF FewLeftBehind, Synchronous
<1> QED
  BY <1>3, <1>4

-----------------------------------------------------------------------------
\* The steps of Handler as steps of Notifier.
Given(i) == IF i \in ToCall THEN Append(got[i], owner) ELSE got[i]

Handling(c) == IF call[c] = "idle" THEN 0 ELSE Own(c)

Spawned == {b \in Batch : status[b] = "spawned"}

MapInv == OrderInv /\ FewLeftBehind

SameCalls  == \A c \in Callers : Handling(c)' = Handling(c)
SameLog    == \A i \in Ids : Given(i)' = Given(i)
SameOthers == Spawned' = Spawned /\ UNCHANGED <<main, low, lastId>>

LEMMA Stutters ==
  ASSUME SameCalls, SameLog, SameOthers
  PROVE  UNCHANGED Promised!vars
<1>1. [c \in Callers |-> Handling(c)]' = [c \in Callers |-> Handling(c)]
  BY DEF SameCalls
<1>2. [i \in Ids |-> Given(i)]' = [i \in Ids |-> Given(i)]
  BY DEF SameLog
<1> QED
  BY <1>1, <1>2 DEF SameOthers, Promised!vars, Given, Handling, Spawned

LEMMA SameCallsFrame == UNCHANGED <<call, own>> => SameCalls
BY DEF SameCalls, Handling, Own

LEMMA SameLogFrame == UNCHANGED <<low, status, owner, todo, got>> => SameLog
BY DEF SameLog, Given, ToCall

\* The last batch of a caller is the last one it handled.
LEMMA LastOwn ==
  ASSUME HandlerInv, NEW c \in Callers, own[c] # <<>>
  PROVE  Own(c) \in Batch
BY DEF HandlerInv, TypeOK, Own

LEMMA RegisterRefines ==
  ASSUME MapInv, owner = None, NEW isLow \in BOOLEAN, Register(isLow),
         UNCHANGED <<status, owner, todo, got, call, own>>
  PROVE  Promised!Next
<1>1. lastId' \in Ids /\ lastId' \notin 1..lastId /\ 1..lastId' = (1..lastId) \union {lastId'}
  BY HandlerAssumption DEF MapInv, OrderInv, HandlerInv, TypeOK, Register, Ids
<1>2. (main \union low)' = (main \union low) \union {lastId'}
  BY DEF Register
<1>3. SameCalls
  BY SameCallsFrame
<1>4. SameLog
  BY DEF SameLog, Given, ToCall
<1>5. Spawned' = Spawned
  BY DEF Spawned
<1>6. [c \in Callers |-> Handling(c)]' = [c \in Callers |-> Handling(c)]
  BY <1>3 DEF SameCalls
<1>7. [i \in Ids |-> Given(i)]' = [i \in Ids |-> Given(i)]
  BY <1>4 DEF SameLog
<1>8. Promised!Add(lastId')
  BY <1>1, <1>2, <1>5, <1>6, <1>7 DEF Promised!Add, Given, Handling, Spawned
<1> QED
  BY <1>1, <1>8 DEF Promised!Next, Promised!Ids, Ids

LEMMA RemoveRefines ==
  ASSUME MapInv, NEW c \in Callers, NEW i \in Ids, Remove(c, i)
  PROVE  Promised!Next
<1>1. UNCHANGED <<lastId, status, owner, todo, got, call, own>> /\ owner = None
  BY DEF Remove, Unregister, loopVars, callVars
<1>2. (main \union low)' = (main \union low) \ {i}
  BY DEF Remove, Unregister
<1>3. [d \in Callers |-> Handling(d)]' = [d \in Callers |-> Handling(d)]
  BY <1>1, SameCallsFrame DEF SameCalls
<1>4. [j \in Ids |-> Given(j)]' = [j \in Ids |-> Given(j)]
  BY <1>1 DEF Given, ToCall
<1>5. Promised!Remove(i)
  BY <1>1, <1>2, <1>3, <1>4 DEF Promised!Remove, Given, Handling
<1> QED
  BY <1>5 DEF Promised!Next, Promised!Ids, Ids

\* The moment at which the listeners of a batch are those that get it.
LEMMA BeginsRefines ==
  ASSUME MapInv, NEW b \in Batch, BatchBegins(b)
  PROVE  Promised!Next
<1>1. /\ UNCHANGED <<main, low, lastId, got, call, own>>
      /\ owner = None /\ owner' = b /\ todo' = main /\ b # None
      /\ status[b] = "spawned" /\ status'[b] = "main"
      /\ \A d \in Batch : d # b => status'[d] = status[d]
  BY DEF BatchBegins, registryVars, callVars, MapInv, OrderInv, HandlerInv, TypeOK, Batch, None
<1>2. ToCall = {} /\ ToCall' = main \union low
  BY <1>1 DEF ToCall
<1>3. Spawned' = Spawned \ {b} /\ b \in Spawned
  BY <1>1 DEF Spawned
<1>4. [c \in Callers |-> Handling(c)]' = [c \in Callers |-> Handling(c)]
  BY <1>1, SameCallsFrame DEF SameCalls
<1>5. \A i \in Ids : Given(i)' = IF i \in main \union low THEN Append(Given(i), b) ELSE Given(i)
  BY <1>1, <1>2 DEF Given
<1>6. [i \in Ids |-> Given(i)]' =
        [i \in Ids |-> IF i \in main \union low
                       THEN Append([j \in Ids |-> Given(j)][i], b)
                       ELSE [j \in Ids |-> Given(j)][i]]
  BY <1>5
<1>7. Promised!Deliver(b)
  BY <1>1, <1>3, <1>4, <1>6 DEF Promised!Deliver, Promised!Ids, Ids, Given, Handling, Spawned
<1> QED
  BY <1>7 DEF Promised!Next, Promised!Batch, Batch

LEMMA HandleRefines ==
  ASSUME MapInv, NEW c \in Callers, Handle(c)
  PROVE  Promised!Next
<1>1. /\ UNCHANGED <<main, low, lastId, owner, todo, got>>
      /\ made' \in Batch /\ status[made'] = "none" /\ status'[made'] = "spawned"
      /\ \A b \in Batch : b # made' => status'[b] = status[b]
      /\ own[c] \in Seq(Batch) /\ own'[c] = Append(own[c], made')
      /\ call[c] = "idle" /\ call'[c] # "idle"
      /\ \A d \in Callers : d # c => own'[d] = own[d] /\ call'[d] = call[d]
  BY HandlerAssumption DEF Handle, MapInv, OrderInv, HandlerInv, TypeOK, Locks, Batch,
     registryVars, loopVars
<1>2. Len(own'[c]) = Len(own[c]) + 1 /\ own'[c][Len(own[c]) + 1] = made'
  BY <1>1, Appended
<1>3. Handling(c) = 0 /\ \A d \in Callers : Handling(d)' = IF d = c THEN made' ELSE Handling(d)
  BY <1>1, <1>2 DEF Handling, Own
<1>4. [d \in Callers |-> Handling(d)]' = [[d \in Callers |-> Handling(d)] EXCEPT ![c] = made']
  BY <1>3
<1>5. Spawned' = Spawned \union {made'} /\ made' \notin Spawned
  BY <1>1 DEF Spawned
<1>6. owner # None => owner \in Batch /\ owner # made'
  BY <1>1 DEF MapInv, OrderInv, HandlerInv, TypeOK, Locks
<1>7. ToCall' = ToCall
  BY <1>1, <1>6 DEF ToCall
<1>8. [i \in Ids |-> Given(i)]' = [i \in Ids |-> Given(i)]
  BY <1>1, <1>7 DEF Given
<1>9. PICK b \in Batch : b = made'
  BY <1>1
<1>10. Promised!Handle(c, b)
  BY <1>1, <1>3, <1>4, <1>5, <1>8, <1>9 DEF Promised!Handle, Given, Handling, Spawned
<1> QED
  BY <1>10 DEF Promised!Next, Promised!Batch, Batch

\* A call returns once few enough batches are left behind.
LEMMA ReturnRefines ==
  ASSUME MapInv, MapInv', NEW c \in Callers, call[c] # "idle", Returns(c),
         UNCHANGED <<main, low, lastId, status, owner, todo, got, own>>
  PROVE  Promised!Next
<1>1. own[c] # <<>>
  BY DEF MapInv, OrderInv, HandlerInv, RingFull
<1>2. Own(c) \in Batch /\ Own(c) # 0
  BY <1>1, LastOwn DEF MapInv, OrderInv, Batch
<1>3. \A d \in Callers : call'[d] = IF d = c THEN "idle" ELSE call[d]
  BY DEF Returns, MapInv, OrderInv, HandlerInv, TypeOK
<1>4. Handling(c) # 0 /\ \A d \in Callers : Handling(d)' = IF d = c THEN 0 ELSE Handling(d)
  BY <1>2, <1>3 DEF Handling, Own
<1>5. [d \in Callers |-> Handling(d)]' = [[d \in Callers |-> Handling(d)] EXCEPT ![c] = 0]
  BY <1>4
<1>6. [i \in Ids |-> Given(i)]' = [i \in Ids |-> Given(i)]
  BY DEF Given, ToCall
<1>7. Promised!Return(c)
  <2>1. \A S : Promised!Cardinality(S) = Cardinality(S)
    BY DEF Promised!Cardinality, Cardinality
  <2>2. Promised!Cardinality(Promised!LeftBehind') <= IF Size <= 1 THEN 0 ELSE Size
    BY <2>1 DEF MapInv, FewLeftBehind
  <2> QED
    BY <1>4, <1>5, <1>6, <2>2 DEF Promised!Return, Given, Handling
<1> QED
  BY <1>7 DEF Promised!Next

\* A step within the loop: what is still to be called counts as called.
LEMMA ListenerRefines ==
  ASSUME MapInv, NEW i \in Ids, ListenerBegins(i)
  PROVE  UNCHANGED Promised!vars
<1>1. /\ UNCHANGED <<main, low, lastId, status, owner, call, own>>
      /\ owner # None /\ i \in todo /\ todo' = todo \ {i}
      /\ \A j \in Ids : got'[j] = IF j = i THEN Append(got[i], owner) ELSE got[j]
  BY DEF ListenerBegins, registryVars, callVars, MapInv, OrderInv, HandlerInv, TypeOK
<1>2. i \in ToCall /\ ToCall' = ToCall \ {i}
  BY <1>1 DEF ToCall, MapInv, OrderInv, HandlerInv, LoopOverMap, GotInv, Registered
<1>3. SameLog
  BY <1>1, <1>2 DEF SameLog, Given
<1>4. SameOthers
  BY <1>1 DEF SameOthers, Spawned
<1> QED
  BY <1>1, <1>3, <1>4, SameCallsFrame, Stutters

LEMMA LoopRefines ==
  ASSUME MapInv, ListenerEnds \/ MainEnds \/ BatchEnds
  PROVE  UNCHANGED Promised!vars
<1>1. UNCHANGED <<main, low, lastId, call, own, got>>
  BY DEF ListenerEnds, MainEnds, BatchEnds, registryVars, callVars
<1>2. ASSUME MainEnds \/ BatchEnds
      PROVE  /\ owner \in Batch /\ owner # None /\ todo = {} /\ status[owner] # "spawned"
             /\ status'[owner] # "spawned"
             /\ \A b \in Batch : b # owner => status'[b] = status[b]
  BY <1>2 DEF MainEnds, BatchEnds, MapInv, OrderInv, HandlerInv, TypeOK
<1>3. Spawned' = Spawned
  <2>1. CASE ListenerEnds
    BY <2>1 DEF ListenerEnds, Spawned
  <2>2. CASE MainEnds \/ BatchEnds
    BY <2>2, <1>2 DEF Spawned
  <2> QED
    BY <2>1, <2>2
<1>4. ToCall' = ToCall /\ (ToCall # {} => owner' = owner)
  <2>1. CASE ListenerEnds
    BY <2>1 DEF ListenerEnds, ToCall, registryVars
  <2>2. CASE MainEnds
    <3>1. /\ owner # None /\ todo = {} /\ status[owner] = "main" /\ owner' = owner
          /\ todo' = low /\ low' = low /\ status'[owner] = "low"
      BY <2>2, <1>2 DEF MainEnds, registryVars, MapInv, OrderInv, HandlerInv, TypeOK
    <3> QED
      BY <3>1 DEF ToCall
  <2>3. CASE BatchEnds
    BY <2>3 DEF BatchEnds, ToCall
  <2> QED
    BY <2>1, <2>2, <2>3
<1>5. SameLog
  BY <1>1, <1>4 DEF SameLog, Given
<1> QED
  BY <1>1, <1>3, <1>5, SameCallsFrame, Stutters DEF SameOthers

LEMMA CallRefines ==
  ASSUME MapInv, MapInv', NEW c \in Callers, CallStep(c)
  PROVE  [Promised!Next]_(Promised!vars)
<1>1. UNCHANGED <<main, low, lastId, status, owner, todo, got, own>> /\ call[c] # "idle"
  BY DEF CallStep, WaitEnds, Push, Displace, registryVars, loopVars
<1>2. CASE Returns(c)
  BY <1>1, <1>2, ReturnRefines
<1>3. CASE ~ Returns(c)
  <2>1. Push(c) /\ call' = [call EXCEPT ![c] = "displace"] /\ call[c] = "push"
    BY <1>3 DEF CallStep, WaitEnds, Push, Displace
  <2>2. \A d \in Callers : call'[d] = "idle" <=> call[d] = "idle"
    BY <2>1 DEF MapInv, OrderInv, HandlerInv, TypeOK
  <2>3. SameCalls
    BY <1>1, <2>2 DEF SameCalls, Handling, Own
  <2>4. SameOthers
    BY <1>1 DEF SameOthers, Spawned
  <2> QED
    BY <1>1, <2>3, <2>4, SameLogFrame, Stutters
<1> QED
  BY <1>2, <1>3

LEMMA StepRefines ==
  ASSUME ~ CallbackOps, MapInv, MapInv', [Next]_vars
  PROVE  [Promised!Next]_(Promised!vars)
<1>1. ASSUME NEW c \in Callers, NEW isLow \in BOOLEAN, Add(c, isLow)
      PROVE  Promised!Next
  BY <1>1, RegisterRefines DEF Add, loopVars, callVars
<1>2. CASE UNCHANGED vars
  BY <1>2, SameCallsFrame, SameLogFrame, Stutters DEF vars, SameOthers, Spawned
<1>3. ~ CallbackAdd /\ \A i \in Ids : ~ CallbackRemove(i)
  BY DEF CallbackAdd, CallbackRemove
<1> QED
  BY <1>1, <1>2, <1>3, RemoveRefines, BeginsRefines, HandleRefines, ListenerRefines,
     LoopRefines, CallRefines DEF Next, OtherStep, BatchStep

LEMMA InitRefines == Init => Promised!Init
<1> SUFFICES ASSUME Init PROVE Promised!Init
  OBVIOUS
<1>1. ToCall = {} /\ 1..lastId = {} /\ Spawned = {}
  BY DEF Init, ToCall, Spawned
<1>2. [c \in Callers |-> Handling(c)] = [c \in Callers |-> 0]
  BY DEF Init, Handling
<1>3. [i \in Ids |-> Given(i)] = [i \in Ids |-> <<>>]
  BY <1>1 DEF Init, Given
<1> QED
  BY <1>1, <1>2, <1>3 DEF Init, Promised!Init, Promised!Ids, Ids, Given, Handling, Spawned

\* The handler implements its abstract specification as long as no listener
\* adds or removes another: each batch reaches, as if in one step, the
\* listeners of the moment its thread took the mutex, and handle() leaves at
\* most Size of them behind, whatever threads, listeners and sizes.
THEOREM Implementation == ~ CallbackOps /\ Spec => ImplementsNotifier
<1> SUFFICES ASSUME ~ CallbackOps PROVE Spec => ImplementsNotifier
  OBVIOUS
<1>1. OrderInv => MapInv
  BY LeftBehindIsBounded DEF OrderInv, MapInv
<1>2. MapInv /\ MapInv' /\ [Next]_vars => [Promised!Next]_(Promised!vars)
  BY StepRefines
<1> QED
  BY <1>1, <1>2, InitRefines, OrderInvariant, PTL DEF Spec, ImplementsNotifier, Promised!Spec
=============================================================================
