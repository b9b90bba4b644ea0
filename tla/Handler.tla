------------------------------ MODULE Handler ------------------------------
(***************************************************************************)
(* Handler and SimpleHandler of internal/Handler.hpp.  handle() makes a    *)
(* thread that calls all listeners with one batch of arguments.  With a    *)
(* Size of 1 (always so in SimpleHandler) it waits for that thread;        *)
(* otherwise it leaves its future in a ring of Size futures and waits for  *)
(* the one it displaces.  Moving a handler is left out.                    *)
(***************************************************************************)
EXTENDS Integers, Sequences, FiniteSets

CONSTANTS
  Callers,       \* threads that call the handler
  Size,          \* mainFuturesSize_
  MaxBatches,    \* bound: how many times handle() is called
  MaxId,         \* FAKE_ID - 1: the last id that is given to a listener
  CallbackOps    \* may listeners add and remove listeners?

ASSUME HandlerAssumption ==
  /\ Size \in Nat
  /\ MaxBatches \in Nat
  /\ MaxId \in Nat
  /\ CallbackOps \in BOOLEAN

Ids   == 1..MaxId
Batch == 1..MaxBatches
None  == 0             \* no listener, no batch

VARIABLES
  main, low,     \* listeners_ and lowPriorityListeners_: ids
  lastId,        \* lastId_
  made,          \* how many batches were made
  status,        \* where each batch's thread is
  owner,         \* listenersMutex_: the batch that holds it, or None
  todo,          \* listeners of the map being iterated still to be called
  current,       \* the listener being called, or None
  ring, index,   \* mainFutures_ and mainFuturesCurrentIndex_
  ringOwner,     \* mainFuturesMutex_: the set of callers that hold it
  call,          \* where each caller is in handle()
  own,           \* the batches each caller has handled, the last one at the end
  got            \* the batches each listener was called with

vars == <<main, low, lastId, made, status, owner, todo, current, ring, index,
          ringOwner, call, own, got>>

registryVars == <<main, low, lastId>>
loopVars == <<owner, todo, current>>
ringVars == <<ring, index, ringOwner>>
callVars == <<made, call, own>>

Synchronous == Size <= 1

TypeOK ==
  /\ main \subseteq Ids /\ low \subseteq Ids
  /\ lastId \in 0..MaxId
  /\ made \in 0..MaxBatches
  /\ status \in [Batch -> {"none", "spawned", "main", "low", "done"}]
  /\ owner \in Batch \union {None}
  /\ todo \subseteq Ids
  /\ current \in Ids \union {None}
  /\ ring \in Seq(Batch) /\ (Len(ring) <= Size \/ ring = <<>>)
  /\ index \in 0..Size
  /\ ringOwner # {} => index < Size
  /\ ringOwner \subseteq Callers
  /\ call \in [Callers -> {"idle", "wait", "push", "displace"}]
  /\ own \in [Callers -> Seq(Batch)]
  /\ got \in [Ids -> Seq(Batch)]

Init ==
  /\ main = {} /\ low = {}
  /\ lastId = 0
  /\ made = 0
  /\ status = [b \in Batch |-> "none"]
  /\ owner = None
  /\ todo = {}
  /\ current = None
  /\ ring = <<>>
  /\ index = 0
  /\ ringOwner = {}
  /\ call = [c \in Callers |-> "idle"]
  /\ own = [c \in Callers |-> <<>>]
  /\ got = [i \in Ids |-> <<>>]

-----------------------------------------------------------------------------
(***************************************************************************)
(* add, addLowPriority and remove, each under listenersMutex_.             *)
(***************************************************************************)
Register(isLow) ==
  /\ lastId < MaxId
  /\ lastId' = lastId + 1
  /\ main' = IF isLow THEN main ELSE main \union {lastId'}
  /\ low'  = IF isLow THEN low \union {lastId'} ELSE low

Unregister(i) ==
  /\ i \in main \union low
  /\ main' = main \ {i}
  /\ low' = low \ {i}
  /\ UNCHANGED lastId

Add(c, isLow) ==
  /\ call[c] = "idle"
  /\ owner = None
  /\ Register(isLow)
  /\ UNCHANGED <<status, loopVars, ringVars, callVars, got>>

\* Mutant: the mutex is not taken.
Remove_NoLock(c, i) ==
  /\ call[c] = "idle"
  /\ Unregister(i)
  /\ UNCHANGED <<status, loopVars, ringVars, callVars, got>>

Remove(c, i) ==
  /\ call[c] = "idle"
  /\ owner = None
  /\ Unregister(i)
  /\ UNCHANGED <<status, loopVars, ringVars, callVars, got>>

(***************************************************************************)
(* The mutex is recursive, so that a listener gets through.  It may remove *)
(* any other listener, and add one to the map that is not being iterated   *)
(* (in the other one the loop's iterator could be invalidated).            *)
(***************************************************************************)
CallbackAdd ==
  /\ CallbackOps
  /\ current # None
  /\ Register(status[owner] = "main")
  /\ UNCHANGED <<status, loopVars, ringVars, callVars, got>>

\* Mutant: what is left to be called is not affected.
WithoutRemoved_Copy(i) == todo

\* The loop goes over the map itself.
WithoutRemoved(i) == todo \ {i}

CallbackRemove(i) ==
  /\ CallbackOps
  /\ current \notin {None, i}
  /\ Unregister(i)
  /\ todo' = WithoutRemoved(i)
  /\ UNCHANGED <<status, owner, current, ringVars, callVars, got>>

-----------------------------------------------------------------------------
(***************************************************************************)
(* The thread of a batch.                                                  *)
(***************************************************************************)
\* Mutant: the thread takes mainFuturesMutex_ too.
BatchBegins_BothLocks(b) ==
  /\ status[b] = "spawned"
  /\ owner = None
  /\ ringOwner = {}
  /\ owner' = b
  /\ status' = [status EXCEPT ![b] = "main"]
  /\ todo' = main
  /\ UNCHANGED <<registryVars, current, ringVars, callVars, got>>

BatchBegins(b) ==
  /\ status[b] = "spawned"
  /\ owner = None
  /\ owner' = b
  /\ status' = [status EXCEPT ![b] = "main"]
  /\ todo' = main
  /\ UNCHANGED <<registryVars, current, ringVars, callVars, got>>

ListenerBegins(i) ==
  /\ owner # None
  /\ current = None
  /\ i \in todo
  /\ todo' = todo \ {i}
  /\ current' = i
  /\ got' = [got EXCEPT ![i] = Append(@, owner)]
  /\ UNCHANGED <<registryVars, status, owner, ringVars, callVars>>

ListenerEnds ==
  /\ current # None
  /\ current' = None
  /\ UNCHANGED <<registryVars, status, owner, todo, ringVars, callVars, got>>

MainEnds ==
  /\ owner # None
  /\ current = None
  /\ todo = {}
  /\ status[owner] = "main"
  /\ status' = [status EXCEPT ![owner] = "low"]
  /\ todo' = low
  /\ UNCHANGED <<registryVars, owner, current, ringVars, callVars, got>>

BatchEnds ==
  /\ owner # None
  /\ current = None
  /\ todo = {}
  /\ status[owner] = "low"
  /\ status' = [status EXCEPT ![owner] = "done"]
  /\ owner' = None
  /\ UNCHANGED <<registryVars, todo, current, ringVars, callVars, got>>

-----------------------------------------------------------------------------
(***************************************************************************)
(* handle().                                                               *)
(***************************************************************************)
Handle(c) ==
  /\ call[c] = "idle"
  /\ made < MaxBatches
  /\ made' = made + 1
  /\ status' = [status EXCEPT ![made'] = "spawned"]
  /\ own' = [own EXCEPT ![c] = Append(@, made')]
  /\ call' = [call EXCEPT ![c] = IF Synchronous THEN "wait" ELSE "push"]
  /\ UNCHANGED <<registryVars, loopVars, ringVars, got>>

\* Mutant: the future is not waited for.
Waited_Not(b) == TRUE

Waited(b) == status[b] = "done"

\* The batch that c is handling.
Own(c) == own[c][Len(own[c])]

Returns(c) == call' = [call EXCEPT ![c] = "idle"]

WaitEnds(c) ==
  /\ call[c] = "wait"
  /\ Waited(Own(c))
  /\ Returns(c)
  /\ UNCHANGED <<registryVars, made, own, status, loopVars, ringVars, got>>

\* Mutant: the index runs past the end of the ring.
Wrapped_Not(k) == k

Wrapped(k) == k % Size

Push(c) ==
  /\ call[c] = "push"
  /\ ringOwner = {}
  /\ \/ /\ Len(ring) < Size
        /\ ring' = Append(ring, Own(c))
        /\ Returns(c)
        /\ UNCHANGED <<index, ringOwner>>
     \/ /\ Len(ring) >= Size
        /\ index' = Wrapped(index)
        /\ ringOwner' = {c}
        /\ call' = [call EXCEPT ![c] = "displace"]
        /\ UNCHANGED ring
  /\ UNCHANGED <<registryVars, made, own, status, loopVars, got>>

Displace(c) ==
  /\ call[c] = "displace"
  /\ Waited(ring[index + 1])
  /\ ring' = [ring EXCEPT ![index + 1] = Own(c)]
  /\ index' = index + 1
  /\ ringOwner' = {}
  /\ Returns(c)
  /\ UNCHANGED <<registryVars, made, own, status, loopVars, got>>

-----------------------------------------------------------------------------
BatchStep ==
  \/ \E i \in Ids : ListenerBegins(i)
  \/ ListenerEnds
  \/ MainEnds
  \/ BatchEnds

CallStep(c) == WaitEnds(c) \/ Push(c) \/ Displace(c)

\* Every step but a new call of handle().
OtherStep ==
  \/ \E c \in Callers :
       \/ \E isLow \in BOOLEAN : Add(c, isLow)
       \/ \E i \in Ids : Remove(c, i)
       \/ CallStep(c)
  \/ CallbackAdd
  \/ \E i \in Ids : CallbackRemove(i)
  \/ \E b \in Batch : BatchBegins(b)
  \/ BatchStep

Next == (\E c \in Callers : Handle(c)) \/ OtherStep

Spec == Init /\ [][Next]_vars

\* A thread that was made runs, listeners return, and a call in handle()
\* goes on; nobody need ever call the handler.
Fairness ==
  /\ \A b \in Batch : WF_vars(BatchBegins(b))
  /\ WF_vars(BatchStep)
  /\ \A c \in Callers : WF_vars(CallStep(c))

FairSpec == Spec /\ Fairness
=============================================================================
