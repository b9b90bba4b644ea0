--------------------------- MODULE Subscription ---------------------------
(***************************************************************************)
(* The listeners of a DXFeedSubscription. Event listeners share one Java   *)
(* listener, which the first of them creates; every change listener is a   *)
(* Java listener of its own, kept in a map from its id. Any thread adds    *)
(* and removes both, while Java sends batches of events and tells the      *)
(* change listeners of the symbols that come and go. Calls to Java may     *)
(* fail with an exception.                                                 *)
(*                                                                         *)
(* Java is external: it holds the lock of the subscription while it tells  *)
(* its change listeners (ObservableSubscription.hpp:52-71).                *)
(***************************************************************************)
EXTENDS Integers, FiniteSets

CONSTANTS
  Thread,         \* threads of the program
  Symbol,
  MaxListeners,   \* ids of event listeners; bound: change listeners
  MaxBatches,     \* bound: batches of events
  None

ASSUME SubscriptionAssumption ==
  /\ MaxListeners \in Nat
  /\ MaxBatches \in Nat
  /\ None \notin Thread

VARIABLES
  (* DXFeedSubscription *)
  eventListenerMutex,    \* thread in tryToSetEventListenerHandle, or None
  eventListenerHandle,   \* 0 until the Java listener is created
  onEvent,               \* ids in the handler onEvent_
  lastId,                \* last event listener's id
  changeListenersMutex,  \* thread in removeChangeListener, or None
  changeListeners,       \* listeners in the map
  (* what its callers do *)
  pc, arg,
  (* the Java subscription *)
  closed, symbols,
  handles,               \* Java event listeners ever created
  eventListeners,        \* those added to the subscription
  listeners,             \* change listeners added to the subscription
  lastListener,          \* last change listener made
  lock,                  \* thread that holds the subscription's lock
  todo,                  \* callbacks it has still to make
  called,                \* callbacks that have not returned
  added, removed,        \* symbols that the callbacks are about
  (* what listeners know *)
  view,                  \* view[l]: the symbols change listener l knows of
  over,                  \* change listeners told that it is over
  reentered,             \* a callback waits for the lock its caller holds
  (* batches of events *)
  sent, calls, due, heard

cpp     == <<eventListenerMutex, eventListenerHandle, onEvent, lastId>>
map     == <<changeListenersMutex, changeListeners>>
java    == <<closed, symbols, listeners, lastListener>>
events  == <<handles, eventListeners>>
telling == <<lock, todo, called, added, removed>>
known   == <<view, over, reentered>>
batches == <<sent, calls, due, heard>>

vars == <<cpp, map, pc, arg, java, events, telling, known, batches>>

Listener == 1..MaxListeners
Batch    == 1..MaxBatches
Kind     == {"added", "removed", "closed"}

PC == {"idle", "set", "java", "plus", "tell", "added", "register", "remove", "erase"}

Init ==
  /\ eventListenerMutex = None /\ eventListenerHandle = 0
  /\ onEvent = {} /\ lastId = 0
  /\ changeListenersMutex = None /\ changeListeners = {}
  /\ pc = [t \in Thread |-> "idle"] /\ arg = [t \in Thread |-> 0]
  /\ closed = FALSE /\ symbols = {}
  /\ handles = 0 /\ eventListeners = {}
  /\ listeners = {} /\ lastListener = 0
  /\ lock = None /\ todo = {} /\ called = {} /\ added = {} /\ removed = {}
  /\ view = [l \in Listener |-> {}] /\ over = {} /\ reentered = FALSE
  /\ sent = 0 /\ calls = {}
  /\ due = [b \in Batch |-> {}]
  /\ heard = [b \in Batch |-> [l \in Listener |-> 0]]

Goto(t, where) == pc' = [pc EXCEPT ![t] = where]

Return(t) ==
  /\ Goto(t, "idle")
  /\ arg' = [arg EXCEPT ![t] = 0]

-----------------------------------------------------------------------------
(* Event listeners.                                                        *)

\* Mutant: without eventListenerMutex_.
TryToSetEventListenerHandle_NoLock(t) ==
  IF eventListenerHandle = 0
    THEN /\ Goto(t, "set")
         /\ UNCHANGED eventListenerMutex
    ELSE /\ Goto(t, "plus")
         /\ UNCHANGED eventListenerMutex

(* tryToSetEventListenerHandle: nothing to do once there is a handle. The  *)
(* subscription is registered when it is created and has an id.            *)
TryToSetEventListenerHandle(t) ==
  /\ eventListenerMutex = None
  /\ IF eventListenerHandle = 0
       THEN /\ Goto(t, "set")
            /\ eventListenerMutex' = t
       ELSE /\ Goto(t, "plus")
            /\ UNCHANGED eventListenerMutex

(* addEventListener, and onEvent() += listener.                            *)
AddEventListener(t) ==
  /\ pc[t] = "idle"
  /\ TryToSetEventListenerHandle(t)
  /\ UNCHANGED <<eventListenerHandle, onEvent, lastId, map, arg, java, events,
                 telling, known, batches>>

Unlock == eventListenerMutex' = None

(* setEventListenerHandle: the handle is assigned as soon as it is created *)
(* and stays when the call that adds it to the subscription throws.        *)
CreateHandle(t) ==
  /\ pc[t] = "set"
  /\ \/ /\ handles' = handles + 1
        /\ eventListenerHandle' = handles + 1
        /\ Goto(t, "java")
        /\ UNCHANGED eventListenerMutex
     \/ /\ Goto(t, "idle") /\ Unlock
        /\ UNCHANGED <<handles, eventListenerHandle>>
  /\ UNCHANGED <<onEvent, lastId, map, arg, java, eventListeners, telling, known,
                 batches>>

AddHandle(t) ==
  /\ pc[t] = "java"
  /\ \/ /\ eventListeners' = IF closed THEN eventListeners
                             ELSE eventListeners \union {eventListenerHandle}
        /\ Goto(t, "plus")
     \/ /\ Goto(t, "idle")
        /\ UNCHANGED eventListeners
  /\ Unlock
  /\ UNCHANGED <<eventListenerHandle, onEvent, lastId, map, arg, java, handles,
                 telling, known, batches>>

\* Mutant: the last id is given away too.
AddToHandler_OneMore(t) ==
  /\ pc[t] = "plus"
  /\ IF lastId <= MaxListeners
       THEN /\ lastId' = lastId + 1
            /\ onEvent' = onEvent \union {lastId + 1}
       ELSE UNCHANGED <<lastId, onEvent>>
  /\ Goto(t, "idle")
  /\ UNCHANGED <<eventListenerMutex, eventListenerHandle, map, arg, java, events,
                 telling, known, batches>>

(* onEvent_ += listener, which has FAKE_ID when there are no ids left.     *)
AddToHandler(t) ==
  /\ pc[t] = "plus"
  /\ IF lastId < MaxListeners
       THEN /\ lastId' = lastId + 1
            /\ onEvent' = onEvent \union {lastId + 1}
       ELSE UNCHANGED <<lastId, onEvent>>
  /\ Goto(t, "idle")
  /\ UNCHANGED <<eventListenerMutex, eventListenerHandle, map, arg, java, events,
                 telling, known, batches>>

RemoveEventListener(t, l) ==
  /\ pc[t] = "idle" /\ l \in onEvent
  /\ onEvent' = onEvent \ {l}
  /\ UNCHANGED <<eventListenerMutex, eventListenerHandle, lastId, map, pc, arg,
                 java, events, telling, known, batches>>

(* Java sends a batch to the event listeners of the subscription.          *)
Send ==
  /\ ~closed /\ symbols # {} /\ sent < MaxBatches
  /\ sent' = sent + 1
  /\ calls' = calls \union {<<sent + 1, h>> : h \in eventListeners}
  /\ due' = [due EXCEPT ![sent + 1] = onEvent]
  /\ UNCHANGED <<cpp, map, pc, arg, java, events, telling, known, heard>>

(* onEvents: the subscription is found by its id, and the handler calls    *)
(* its listeners under its own mutex.                                      *)
OnEvents ==
  /\ \E c \in calls :
       /\ calls' = calls \ {c}
       /\ heard' = [heard EXCEPT ![c[1]] =
                      [l \in Listener |-> IF l \in onEvent THEN @[l] + 1 ELSE @[l]]]
  /\ UNCHANGED <<cpp, map, pc, arg, java, events, telling, known, sent, due>>

-----------------------------------------------------------------------------
(* Change listeners.                                                       *)

(* A Java call that tells change listeners of something.                   *)
Tell(t, what, whom, kinds) ==
  /\ lock = None
  /\ lock' = t
  /\ todo' = whom \X kinds
  /\ added' = what \ symbols
  /\ removed' = symbols \ what
  /\ called' = called

Kinds(new) ==
  (IF new \subseteq symbols THEN {} ELSE {"added"})
    \union (IF symbols \subseteq new THEN {} ELSE {"removed"})

ChangeTo(t, new) ==
  /\ Tell(t, new, listeners, Kinds(new))
  /\ symbols' = new

(* addSymbols, removeSymbols, setSymbols and clear.                        *)
ChangeSymbols(t) ==
  /\ pc[t] = "idle" /\ ~closed
  /\ \E S \in SUBSET Symbol :
       \/ ChangeTo(t, symbols \union S)
       \/ ChangeTo(t, symbols \ S)
       \/ ChangeTo(t, S)
       \/ ChangeTo(t, {})
  /\ Goto(t, "tell")
  /\ UNCHANGED <<cpp, map, arg, closed, listeners, lastListener, events, known,
                 batches>>

(* close, by this class or by its endpoint.                                *)
Close(t) ==
  /\ pc[t] = "idle" /\ ~closed
  /\ Tell(t, symbols, listeners, {"closed"})
  /\ closed' = TRUE
  /\ listeners' = {}
  /\ Goto(t, "tell")
  /\ UNCHANGED <<cpp, map, arg, symbols, lastListener, events, known, batches>>

\* Mutant: the callback's thread is not waited for.
Waited_Never == TRUE

(* SimpleHandler::handle waits for the thread that calls the listener.     *)
Waited == called = {}

(* The callbacks of ObservableSubscriptionChangeListener, one by one.      *)
CallListener(t) ==
  /\ lock = t /\ Waited
  /\ \E c \in todo :
       /\ todo' = todo \ {c}
       /\ called' = called \union {c}
  /\ UNCHANGED <<cpp, map, pc, arg, java, events, lock, added, removed, known,
                 batches>>

(* onSymbolsAdded, onSymbolsRemoved, onSubscriptionClosed in their thread. *)
Callback ==
  /\ \E c \in called :
       LET l == c[1] IN
       /\ called' = called \ {c}
       /\ \/ /\ c[2] = "added"
             /\ view' = [view EXCEPT ![l] = @ \union added]
             /\ over' = over
          \/ /\ c[2] = "removed"
             /\ view' = [view EXCEPT ![l] = @ \ removed]
             /\ over' = over
          \/ /\ c[2] = "closed"
             /\ view' = view
             /\ over' = over \union {l}
  /\ ~reentered
  /\ UNCHANGED <<cpp, map, pc, arg, java, events, lock, todo, added, removed,
                 reentered, batches>>

(* A listener that calls the subscription that is calling it needs the     *)
(* lock in another thread than the one that holds it and waits.            *)
ReEnter ==
  /\ called # {} /\ reentered' = TRUE
  /\ UNCHANGED <<cpp, map, pc, arg, java, events, telling, view, over, batches>>

(* The end of a Java call that told listeners of something.                *)
Release(t) ==
  /\ lock = t /\ todo = {} /\ Waited
  /\ lock' = None /\ added' = {} /\ removed' = {}
  /\ Goto(t, CASE pc[t] = "added" -> "register"
               [] pc[t] = "remove" -> "erase"
               [] OTHER -> "idle")
  /\ UNCHANGED <<cpp, map, arg, java, events, todo, called, known, batches>>

(* addChangeListener: the Java call, which may throw, ...                  *)
AddChangeListener(t) ==
  /\ pc[t] = "idle" /\ lastListener < MaxListeners
  /\ IF closed
       THEN /\ Goto(t, "register")
            /\ UNCHANGED <<listeners, telling>>
       ELSE /\ lock = None /\ lock' = t
            /\ listeners' = listeners \union {lastListener + 1}
            /\ todo' = {<<lastListener + 1, "added">>}
            /\ added' = symbols /\ removed' = {} /\ called' = called
            /\ Goto(t, "added")
  /\ lastListener' = lastListener + 1
  /\ arg' = [arg EXCEPT ![t] = lastListener + 1]
  /\ UNCHANGED <<cpp, map, closed, symbols, events, known, batches>>

(* ... then the map, under changeListenersMutex_.                          *)
Register(t) ==
  /\ pc[t] = "register" /\ changeListenersMutex = None
  /\ changeListeners' = changeListeners \union {arg[t]}
  /\ Return(t)
  /\ UNCHANGED <<cpp, changeListenersMutex, java, events, telling, known,
                 batches>>

(* removeChangeListener: nothing for an id that is not in the map, ...     *)
RemoveChangeListener(t, l) ==
  /\ pc[t] = "idle" /\ changeListenersMutex = None
  /\ l \in changeListeners
  /\ changeListenersMutex' = t
  /\ arg' = [arg EXCEPT ![t] = l]
  /\ Goto(t, "remove")
  /\ UNCHANGED <<cpp, changeListeners, java, events, telling, known, batches>>

\* Mutant: the mutex stays locked when the Java call throws.
RemoveThrows_Locked(t) ==
  /\ Return(t)
  /\ UNCHANGED <<changeListenersMutex, listeners, telling>>

RemoveThrows(t) ==
  /\ changeListenersMutex' = None
  /\ Return(t)
  /\ UNCHANGED <<listeners, telling>>

\* Mutant: the map is changed before the Java call, which throws.
RemoveFromJava_EraseFirst(t) ==
  /\ pc[t] = "remove" /\ lock # t
  /\ changeListeners' = changeListeners \ {arg[t]}
  /\ \/ RemoveThrows(t)
     \/ /\ lock = None /\ lock' = t
        /\ listeners' = listeners \ {arg[t]}
        /\ todo' = (listeners \intersect {arg[t]}) \X {"closed"}
        /\ UNCHANGED <<pc, arg, added, removed, called, changeListenersMutex>>
  /\ UNCHANGED <<cpp, closed, symbols, lastListener, events, known, batches>>

(* ... the Java call, which tells the listener that it is over, ...        *)
RemoveFromJava(t) ==
  /\ pc[t] = "remove" /\ lock # t
  /\ \/ RemoveThrows(t)
     \/ /\ lock = None /\ lock' = t
        /\ listeners' = listeners \ {arg[t]}
        /\ todo' = (listeners \intersect {arg[t]}) \X {"closed"}
        /\ UNCHANGED <<pc, arg, added, removed, called, changeListenersMutex>>
  /\ UNCHANGED <<cpp, changeListeners, closed, symbols, lastListener, events,
                 known, batches>>

(* ... and the map.                                                        *)
Erase(t) ==
  /\ pc[t] = "erase"
  /\ changeListeners' = changeListeners \ {arg[t]}
  /\ changeListenersMutex' = None
  /\ Return(t)
  /\ UNCHANGED <<cpp, java, events, telling, known, batches>>

-----------------------------------------------------------------------------

(* The rest of a call once it has begun.                                   *)
Continue(t) ==
  \/ CreateHandle(t) \/ AddHandle(t) \/ AddToHandler(t)
  \/ CallListener(t) \/ Release(t) \/ Register(t) \/ RemoveFromJava(t) \/ Erase(t)

Begin(t) ==
  \/ AddEventListener(t) \/ ChangeSymbols(t) \/ Close(t) \/ AddChangeListener(t)
  \/ \E l \in Listener : RemoveEventListener(t, l) \/ RemoveChangeListener(t, l)

Next ==
  \/ \E t \in Thread : Begin(t) \/ Continue(t)
  \/ Send \/ OnEvents \/ Callback \/ ReEnter

Spec == Init /\ [][Next]_vars

(* A thread that waits for a mutex that is free again and again gets it;   *)
(* Java delivers what it sent, and a callback's thread runs.               *)
FairSpec ==
  /\ Spec
  /\ \A t \in Thread : SF_vars(Continue(t))
  /\ WF_vars(Callback)

-----------------------------------------------------------------------------

TypeOK ==
  /\ eventListenerMutex \in Thread \union {None}
  /\ changeListenersMutex \in Thread \union {None}
  /\ lock \in Thread \union {None}
  /\ eventListenerHandle \in Nat /\ handles \in Nat
  /\ lastId \in 0..MaxListeners /\ lastListener \in 0..MaxListeners
  /\ onEvent \subseteq Listener /\ changeListeners \subseteq Listener
  /\ listeners \subseteq Listener /\ over \subseteq Listener
  /\ eventListeners \subseteq Nat
  /\ pc \in [Thread -> PC] /\ arg \in [Thread -> 0..MaxListeners]
  /\ closed \in BOOLEAN /\ reentered \in BOOLEAN
  /\ symbols \subseteq Symbol /\ added \subseteq Symbol /\ removed \subseteq Symbol
  /\ todo \subseteq Listener \X Kind /\ called \subseteq Listener \X Kind
  /\ view \in [Listener -> SUBSET Symbol]
  /\ sent \in 0..MaxBatches
  /\ calls \subseteq Batch \X Nat
  /\ due \in [Batch -> SUBSET Listener]
  /\ heard \in [Batch -> [Listener -> Nat]]

(* The Java listener was created, but the call that adds it threw, or the  *)
(* subscription was closed by then. It is not tried again: listeners added *)
(* later have an id and hear nothing (DXFeedSubscription.cpp:78-81).       *)
Refused == eventListenerHandle \notin eventListeners

(* However many threads add the first event listeners, a batch reaches a   *)
(* listener once, and it reaches every listener whose id was returned      *)
(* before the batch was sent, unless it was removed meanwhile.             *)
EveryBatchOnce ==
  \A b \in Batch, l \in Listener :
    /\ heard[b][l] <= 1
    /\ (/\ l \in due[b] \intersect onEvent
        /\ \A h \in 1..handles : <<b, h>> \notin calls
        /\ ~Refused) => heard[b][l] = 1

(* A change listener that Java can call is in the map, from where          *)
(* removeChangeListener takes it, or is just being added. One in the map   *)
(* is known to Java until its removal begins or the subscription is closed.*)
ChangeListenersMatch ==
  /\ \A l \in listeners :
       \/ l \in changeListeners
       \/ \E t \in Thread : pc[t] \in {"added", "register"} /\ arg[t] = l
  /\ \A l \in changeListeners \ listeners :
       closed \/ \E t \in Thread : pc[t] \in {"remove", "erase"} /\ arg[t] = l

(* When a call that changes a subscription returns, its change listeners   *)
(* know of the change: they have the symbols of the subscription, and know *)
(* that it is over when they were removed or it was closed. This is what   *)
(* "synchronously notified" promises (ObservableSubscription.hpp:55-57),   *)
(* although the callbacks run in threads of their own.                     *)
ListenersAreUpToDate ==
  lock = None =>
    /\ \A l \in listeners : view[l] = symbols /\ l \notin over
    /\ \A l \in changeListeners \ listeners : l \in over \/ closed

(* Every call returns, whatever calls to Java fail, unless a change        *)
(* listener has called the subscription that was calling it.               *)
CallsReturn ==
  \A t \in Thread : pc[t] # "idle" ~> (pc[t] = "idle" \/ reentered)
============================================================================
