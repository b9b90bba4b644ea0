-------------------- MODULE InstrumentProfileCollector --------------------
(***************************************************************************)
(* The update listeners of InstrumentProfileCollector. Each is a handler   *)
(* of its own in a map from its id, and a Java listener whose user data is *)
(* one word with the collector's id and the listener's. Any thread adds    *)
(* and removes listeners while Java notifies them; calls to Java may fail  *)
(* with an exception.                                                      *)
(*                                                                         *)
(* Java is external: each collector has a thread that notifies a listener  *)
(* of one update after the other, and of what there is when it is added    *)
(* (InstrumentProfileCollector.hpp:120).                                   *)
(***************************************************************************)
EXTENDS Integers, FiniteSets

CONSTANTS
  Thread,          \* threads of the program
  MaxCollectors,   \* bound: collectors, whose ids begin with 1
  MaxListeners,    \* bound: listeners
  MaxUpdates,      \* bound: updates of the profiles
  HalfWord,        \* 2 ^ 32, half a word's numbers
  Java, None

ASSUME CollectorAssumption ==
  /\ MaxCollectors \in Nat
  /\ MaxListeners \in Nat
  /\ MaxUpdates \in Nat
  /\ HalfWord \in Nat
  /\ MaxCollectors < HalfWord /\ MaxListeners < HalfWord
  /\ Java \notin Thread /\ None \notin Thread \union {Java}

VARIABLES
  (* the collectors *)
  collectors,      \* id of the last collector registered
  mutex,           \* listenersMutex_: who holds it
  handlers,        \* onInstrumentProfilesUpdateHandlers_: ids
  listenerHandles, \* listenerHandles_: ids
  lastId,          \* last listener's id
  (* their callers *)
  pc, arg,
  ids,             \* listeners that were added and not yet removed
  (* the Java collectors *)
  javaListeners,   \* user data of the listeners added
  profiles,        \* last update, or 0
  updates,         \* updates of all collectors
  jobs,            \* notifications that have not begun
  running,         \* where each collector's thread is in a notification,
  target,          \* and what it is about
  (* the listeners *)
  called,          \* calls that have not returned
  due, heard,      \* updates sent to each listener, and heard by it
  reentered        \* a call waits for the mutex its caller holds

cpp      == <<collectors, mutex, handlers, listenerHandles, lastId>>
callers  == <<pc, arg, ids>>
java     == <<javaListeners, profiles, updates>>
thread   == <<jobs, running, target>>
known    == <<called, due, heard, reentered>>

vars == <<cpp, callers, java, thread, known>>

Collector == 1..MaxCollectors
Listener  == 1..MaxListeners
Update    == 1..MaxUpdates
Target    == Collector \X Listener \X Update
NoListener == <<0, 0>>
NoTarget   == <<0, 0, 0>>

(* pack and unpack, for ids of less than half a word.                      *)
Pack(c, l) == c * HalfWord + l

\* Mutant: the upper half is not masked out of the lower one.
Unpack_NoMask(data) == <<data \div HalfWord, data>>

Unpack(data) == <<data \div HalfWord, data % HalfWord>>

Init ==
  /\ collectors = 0 /\ lastId = 0
  /\ mutex = [c \in Collector |-> None]
  /\ handlers = [c \in Collector |-> {}]
  /\ listenerHandles = [c \in Collector |-> {}]
  /\ pc = [t \in Thread |-> "idle"]
  /\ arg = [t \in Thread |-> NoListener]
  /\ ids = {}
  /\ javaListeners = [c \in Collector |-> {}]
  /\ profiles = [c \in Collector |-> 0] /\ updates = 0
  /\ jobs = {}
  /\ running = [c \in Collector |-> "idle"]
  /\ target = [c \in Collector |-> NoTarget]
  /\ called = {}
  /\ due = [l \in Listener |-> {}] /\ heard = [l \in Listener |-> {}]
  /\ reentered = FALSE

Lock(c, who) == mutex[c] = None /\ mutex' = [mutex EXCEPT ![c] = who]
Unlock(c)    == mutex' = [mutex EXCEPT ![c] = None]

Return(t) ==
  /\ pc' = [pc EXCEPT ![t] = "idle"]
  /\ arg' = [arg EXCEPT ![t] = NoListener]
  /\ Unlock(arg[t][1])

-----------------------------------------------------------------------------

(* create: a collector is registered for good, and so never destroyed.     *)
Create ==
  /\ collectors < MaxCollectors
  /\ collectors' = collectors + 1
  /\ UNCHANGED <<mutex, handlers, listenerHandles, lastId, callers, java, thread,
                 known>>

(* addUpdateListener makes a handler with one listener and its id, ...     *)
AddUpdateListener(t, c) ==
  /\ pc[t] = "idle" /\ lastId < MaxListeners /\ c <= collectors
  /\ Lock(c, t)
  /\ lastId' = lastId + 1
  /\ handlers' = [handlers EXCEPT ![c] = @ \union {lastId + 1}]
  /\ arg' = [arg EXCEPT ![t] = <<c, lastId + 1>>]
  /\ pc' = [pc EXCEPT ![t] = "create"]
  /\ UNCHANGED <<collectors, listenerHandles, ids, java, thread, known>>

(* ... addListenerHandle the Java listener, which may fail: the handler    *)
(* stays in the map, and nobody has its id, ...                            *)
CreateListener(t) ==
  /\ pc[t] = "create"
  /\ \/ /\ listenerHandles' = [listenerHandles EXCEPT ![arg[t][1]] = @ \union {arg[t][2]}]
        /\ pc' = [pc EXCEPT ![t] = "add"]
        /\ UNCHANGED <<mutex, arg>>
     \/ /\ Return(t)
        /\ UNCHANGED listenerHandles
  /\ UNCHANGED <<collectors, handlers, lastId, ids, java, thread, known>>

\* Mutant: the mutex stays locked when the call throws.
AddThrows_Locked(t) ==
  /\ pc' = [pc EXCEPT ![t] = "idle"]
  /\ arg' = [arg EXCEPT ![t] = NoListener]
  /\ UNCHANGED <<mutex, ids, javaListeners, jobs, due>>

AddThrows(t) ==
  /\ Return(t)
  /\ UNCHANGED <<ids, javaListeners, jobs, due>>

(* ... and adds it, which may fail too; Java tells it what there is, at    *)
(* once, ...                                                               *)
AddToJava(t) ==
  LET c == arg[t][1]  l == arg[t][2] IN
  /\ pc[t] = "add"
  /\ \/ /\ javaListeners' = [javaListeners EXCEPT ![c] = @ \union {Pack(c, l)}]
        /\ ids' = ids \union {l}
        /\ jobs' = jobs \union {<<c, Pack(c, l), n>> : n \in {profiles[c]} \ {0}}
        /\ due' = [due EXCEPT ![l] = {profiles[c]} \ {0}]
        /\ pc' = [pc EXCEPT ![t] = "return"]
        /\ UNCHANGED <<mutex, arg>>
     \/ AddThrows(t)
  /\ UNCHANGED <<collectors, handlers, listenerHandles, lastId, profiles, updates,
                 running, target, called, heard, reentered>>

(* ... before addUpdateListener returns the id and the guard unlocks.      *)
ReturnId(t) ==
  /\ pc[t] = "return"
  /\ Return(t)
  /\ UNCHANGED <<collectors, handlers, listenerHandles, lastId, ids, java, thread,
                 known>>

(* removeUpdateListener: nothing for an id that is not in the map, ...     *)
RemoveUpdateListener(t, c, l) ==
  /\ pc[t] = "idle" /\ l \in ids \intersect handlers[c]
  /\ Lock(c, t)
  /\ arg' = [arg EXCEPT ![t] = <<c, l>>]
  /\ pc' = [pc EXCEPT ![t] = "remove"]
  /\ UNCHANGED <<collectors, handlers, listenerHandles, lastId, ids, java, thread,
                 known>>

\* Mutant: the handler is erased before the Java call, which may fail.
RemoveUpdateListenerImpl_EraseFirst(t) ==
  LET c == arg[t][1]  l == arg[t][2] IN
  /\ pc[t] = "remove"
  /\ handlers' = [handlers EXCEPT ![c] = @ \ {l}]
  /\ \/ /\ l \in listenerHandles[c]
        /\ javaListeners' = [javaListeners EXCEPT ![c] = @ \ {Pack(c, l)}]
        /\ ids' = ids \ {l}
     \/ UNCHANGED <<javaListeners, ids>>
  /\ Return(t)
  /\ UNCHANGED <<collectors, listenerHandles, lastId, profiles, updates, thread,
                 known>>

(* ... removeUpdateListenerImpl takes the listener from Java, which may    *)
(* fail, and then its handler from the map. Its handle is never erased.    *)
RemoveUpdateListenerImpl(t) ==
  LET c == arg[t][1]  l == arg[t][2] IN
  /\ pc[t] = "remove"
  /\ \/ /\ l \in listenerHandles[c]
        /\ javaListeners' = [javaListeners EXCEPT ![c] = @ \ {Pack(c, l)}]
        /\ handlers' = [handlers EXCEPT ![c] = @ \ {l}]
        /\ ids' = ids \ {l}
     \/ UNCHANGED <<javaListeners, handlers, ids>>
  /\ Return(t)
  /\ UNCHANGED <<collectors, listenerHandles, lastId, profiles, updates, thread,
                 known>>

-----------------------------------------------------------------------------

(* The profiles of a collector change, by a connection that feeds it or by *)
(* updateInstrumentProfile.                                                *)
UpdateProfiles(c) ==
  LET Told == {l \in Listener : Pack(c, l) \in javaListeners[c]} IN
  /\ c <= collectors /\ updates < MaxUpdates
  /\ updates' = updates + 1
  /\ profiles' = [profiles EXCEPT ![c] = updates + 1]
  /\ jobs' = jobs \union {<<c, data, updates + 1>> : data \in javaListeners[c]}
  /\ due' = [l \in Listener |-> IF l \in Told THEN due[l] \union {updates + 1}
                                              ELSE due[l]]
  /\ UNCHANGED <<cpp, callers, javaListeners, running, target, called, heard,
                 reentered>>

(* onInstrumentProfilesUpdate finds the collector by its id and collects   *)
(* the profiles, ...                                                       *)
OnInstrumentProfilesUpdate(c) ==
  \E job \in jobs :
    LET id == Unpack(job[2]) IN
    /\ running[c] = "idle"
    /\ job[1] = c /\ \A other \in jobs : other[2] = job[2] => job[3] <= other[3]
    /\ jobs' = jobs \ {job}
    /\ IF id[1] \in 1..collectors
         THEN /\ running' = [running EXCEPT ![c] = "lock"]
              /\ target' = [target EXCEPT ![c] = <<id[1], id[2], job[3]>>]
         ELSE UNCHANGED <<running, target>>
    /\ UNCHANGED <<cpp, callers, java, known>>

Done(c) ==
  /\ running' = [running EXCEPT ![c] = "idle"]
  /\ target' = [target EXCEPT ![c] = NoTarget]

\* Mutant: a notification that does not get the mutex at once is dropped.
CallHandler_TryLock(c) ==
  LET id == target[c] IN
  /\ running[c] = "lock"
  /\ IF id[2] \in handlers[id[1]] /\ mutex[id[1]] = None
       THEN /\ mutex' = [mutex EXCEPT ![id[1]] = Java]
            /\ called' = called \union {<<id[2], id[3]>>}
            /\ running' = [running EXCEPT ![c] = "call"]
            /\ UNCHANGED target
       ELSE /\ Done(c)
            /\ UNCHANGED <<mutex, called>>
  /\ UNCHANGED <<collectors, handlers, listenerHandles, lastId, callers, java,
                 jobs, due, heard, reentered>>

\* Mutant: the handler is called without the mutex.
CallHandler_NoLock(c) ==
  LET id == target[c] IN
  /\ running[c] = "lock"
  /\ IF id[2] \in handlers[id[1]]
       THEN /\ called' = called \union {<<id[2], id[3]>>}
            /\ running' = [running EXCEPT ![c] = "call"]
            /\ UNCHANGED <<mutex, target>>
       ELSE /\ Done(c)
            /\ UNCHANGED <<mutex, called>>
  /\ UNCHANGED <<collectors, handlers, listenerHandles, lastId, callers, java,
                 jobs, due, heard, reentered>>

(* ... and under the mutex calls the handler of the listener, if it is     *)
(* still there, in a thread of its own.                                    *)
CallHandler(c) ==
  LET id == target[c] IN
  /\ running[c] = "lock" /\ mutex[id[1]] = None
  /\ IF id[2] \in handlers[id[1]]
       THEN /\ Lock(id[1], Java)
            /\ called' = called \union {<<id[2], id[3]>>}
            /\ running' = [running EXCEPT ![c] = "call"]
            /\ UNCHANGED target
       ELSE /\ Done(c)
            /\ UNCHANGED <<mutex, called>>
  /\ UNCHANGED <<collectors, handlers, listenerHandles, lastId, callers, java,
                 jobs, due, heard, reentered>>

\* Mutant: the thread of the listener is not waited for.
Waited_Never(c) == TRUE

(* SimpleHandler::handle waits for the thread that calls the listener.     *)
Waited(c) == <<target[c][2], target[c][3]>> \notin called

FinishUpdate(c) ==
  /\ running[c] = "call" /\ Waited(c)
  /\ Unlock(target[c][1])
  /\ Done(c)
  /\ UNCHANGED <<collectors, handlers, listenerHandles, lastId, callers, java,
                 jobs, known>>

(* A listener's call returns.                                              *)
ListenerReturns ==
  /\ ~reentered
  /\ \E call \in called :
       /\ called' = called \ {call}
       /\ heard' = [heard EXCEPT ![call[1]] = @ \union {call[2]}]
  /\ UNCHANGED <<cpp, callers, java, thread, due, reentered>>

(* A listener adds or removes a listener of the collector that is calling  *)
(* it: it waits for listenersMutex_, whose holder waits for it.            *)
ReEnter ==
  /\ called # {}
  /\ reentered' = TRUE
  /\ UNCHANGED <<cpp, callers, java, thread, called, due, heard>>

-----------------------------------------------------------------------------

Begin(t) ==
  \E c \in Collector :
    \/ AddUpdateListener(t, c)
    \/ \E l \in Listener : RemoveUpdateListener(t, c, l)

Continue(t) ==
  CreateListener(t) \/ AddToJava(t) \/ ReturnId(t) \/ RemoveUpdateListenerImpl(t)

Notify(c) == OnInstrumentProfilesUpdate(c) \/ CallHandler(c) \/ FinishUpdate(c)

Next ==
  \/ Create
  \/ \E t \in Thread : Begin(t) \/ Continue(t)
  \/ \E c \in Collector : UpdateProfiles(c) \/ Notify(c)
  \/ ListenerReturns \/ ReEnter

Spec == Init /\ [][Next]_vars

(* A thread that waits for a mutex that is free again and again gets it.   *)
Fairness ==
  /\ \A t \in Thread : WF_vars(Continue(t))
  /\ \A c \in Collector : SF_vars(Notify(c))
  /\ WF_vars(ListenerReturns)

FairSpec == Spec /\ Fairness

-----------------------------------------------------------------------------

TypeOK ==
  /\ collectors \in 0..MaxCollectors /\ lastId \in 0..MaxListeners
  /\ mutex \in [Collector -> Thread \union {Java, None}]
  /\ handlers \in [Collector -> SUBSET Listener]
  /\ listenerHandles \in [Collector -> SUBSET Listener]
  /\ pc \in [Thread -> {"idle", "create", "add", "return", "remove"}]
  /\ arg \in [Thread -> (Collector \X Listener) \union {NoListener}]
  /\ ids \subseteq Listener
  /\ javaListeners \in [Collector -> SUBSET Nat]
  /\ profiles \in [Collector -> 0..MaxUpdates] /\ updates \in 0..MaxUpdates
  /\ jobs \subseteq Collector \X Nat \X Update
  /\ running \in [Collector -> {"idle", "lock", "call"}]
  /\ target \in [Collector -> Target \union {NoTarget}]
  /\ called \subseteq Listener \X Update
  /\ due \in [Listener -> SUBSET Update] /\ heard \in [Listener -> SUBSET Update]
  /\ reentered \in BOOLEAN

(* Listeners that Java knows and whose id nobody has yet.                  *)
Unreturned == {arg[t][2] : t \in {u \in Thread : pc[u] = "return"}}

(* A listener is called only after addUpdateListener has returned its id   *)
(* and before removeUpdateListener returns, although Java notifies it      *)
(* while it is being added, and a notification that Java began before the  *)
(* removal may still be on its way.                                        *)
OnlyLiveCalled == \A call \in called : call[1] \in ids \ Unreturned

(* Java notifies exactly the listeners whose id a caller holds or is about *)
(* to get, and each of these has a handler, which removeUpdateListener     *)
(* finds, whatever calls to Java fail.                                     *)
AgreesWithJava ==
  /\ \A c \in Collector :
       javaListeners[c] = {Pack(c, l) : l \in ids \intersect handlers[c]}
  /\ \A l \in ids : \E c \in Collector : l \in handlers[c]

(* No update is lost: a listener has heard what was sent to it, but for    *)
(* what is still on its way to that listener.                              *)
OnTheWay(l) ==
  {n \in Update : \/ \E c \in Collector : <<c, Pack(c, l), n>> \in jobs
                  \/ \E c \in Collector : running[c] = "lock" /\ target[c] = <<c, l, n>>
                  \/ <<l, n>> \in called}

EveryUpdateHeard == \A l \in ids : due[l] \ heard[l] = OnTheWay(l)

(* A listener hears each update once and never an earlier one after a      *)
(* later one, although every call of it is made in a thread of its own.    *)
HeardInOrder ==
  [][\A l \in Listener : \A n \in Update :
       (<<l, n>> \in called /\ <<l, n>> \notin called') =>
         \A m \in heard[l] : m < n]_vars

(* Whatever calls to Java fail, an update reaches a listener in the end,   *)
(* unless it is removed or a listener has called its own collector.        *)
UpdatesArrive ==
  \A l \in Listener : \A n \in Update :
    n \in due[l] ~> (n \in heard[l] \/ l \notin ids \/ reentered)
=============================================================================
