------------------------ MODULE SubscriptionProofs ------------------------
(***************************************************************************)
(* Safety of the listeners of a subscription, for any threads, symbols and *)
(* numbers of listeners and batches.                                       *)
(***************************************************************************)
EXTENDS Subscription, TLAPS

(* One Java listener is ever created, under the mutex, and nobody goes on  *)
(* to the handler before the attempt to add it to Java has ended.          *)
OneHandle ==
  /\ handles = eventListenerHandle /\ eventListenerHandle \in {0, 1}
  /\ eventListeners \subseteq {1}
  /\ \A t \in Thread :
       /\ pc[t] = "set" => eventListenerMutex = t /\ eventListenerHandle = 0
       /\ pc[t] = "java" => eventListenerMutex = t /\ eventListenerHandle = 1
       /\ pc[t] = "plus" => eventListenerHandle = 1

Settled ==
  eventListenerHandle = 1 /\ \A t \in Thread : pc[t] \notin {"set", "java"}

(* Listeners, and batches that have any to reach, come after that.         *)
Late ==
  /\ \A t \in Thread : pc[t] = "plus" => Settled
  /\ onEvent # {} => Settled
  /\ \A b \in Batch : due[b] # {} => Settled

(* The ids are new, and so are the batches.                                *)
Fresh ==
  /\ \A l \in onEvent : l <= lastId
  /\ \A b \in Batch : \A l \in due[b] : l <= lastId
  /\ \A c \in calls : c[1] <= sent /\ c[2] \in eventListeners
  /\ \A b \in Batch, l \in Listener : b > sent => heard[b][l] = 0 /\ due[b] = {}

(* A batch that is still to be delivered was heard by nobody, and one that *)
(* was delivered by all that were there and still are.                     *)
Heard ==
  \A b \in Batch, l \in Listener :
    /\ heard[b][l] \in {0, 1}
    /\ <<b, 1>> \in calls => heard[b][l] = 0
    /\ (/\ l \in due[b] \intersect onEvent
        /\ <<b, 1>> \notin calls
        /\ 1 \in eventListeners) => heard[b][l] = 1

EventInv == OneHandle /\ Late /\ Fresh /\ Heard

Adding   == {"added", "register"}
Removing == {"remove", "erase"}

(* Who holds the two locks.                                                *)
Locks ==
  /\ \A t \in Thread :
       /\ lock = t => pc[t] \in {"tell", "added", "remove"}
       /\ pc[t] \in {"tell", "added"} => lock = t
       /\ pc[t] \in Removing => changeListenersMutex = t
       /\ changeListenersMutex = t => pc[t] \in Removing
  /\ lock = None => todo = {} /\ called = {} /\ added = {} /\ removed = {}

(* Change listeners on their way into the map and out of it.               *)
Ways ==
  /\ \A l \in changeListeners \union listeners \union over : l <= lastListener
  /\ \A c \in todo \union called : c[1] <= lastListener
  /\ closed => listeners = {}
  /\ \A t \in Thread :
       /\ pc[t] \in Adding =>
            /\ arg[t] \in 1..lastListener
            /\ arg[t] \notin changeListeners
            /\ arg[t] \in listeners \/ closed
       /\ pc[t] \in Removing =>
            /\ arg[t] \in changeListeners
            /\ (pc[t] = "erase" \/ lock = t) => arg[t] \notin listeners
            /\ (pc[t] = "remove" /\ lock # t) => arg[t] \in listeners \/ closed
  /\ \A t, u \in Thread :
       pc[t] \in Adding /\ pc[u] \in Adding /\ arg[t] = arg[u] => t = u

Pending == todo \union called

(* What a change listener knows, and the callbacks still to come.          *)
Views ==
  /\ \A l \in listeners, s \in Symbol :
       s \in view[l] <=>
         \/ s \in symbols /\ ~(s \in added /\ <<l, "added">> \in Pending)
         \/ s \in removed /\ <<l, "removed">> \in Pending
  /\ \A s \in Symbol : s \in added => s \in symbols
  /\ \A s \in Symbol : s \in removed => s \notin symbols
  /\ \A l \in Listener : l > lastListener => view[l] = {}
  /\ todo \intersect called = {}
  /\ \A c, d \in called : c = d

Overs ==
  /\ \A l \in listeners : l \notin over /\ <<l, "closed">> \notin Pending
  /\ \A l \in changeListeners \ listeners :
       l \in over \/ closed \/ <<l, "closed">> \in Pending

ChangeInv == Locks /\ Ways /\ Views /\ Overs /\ ChangeListenersMatch

IInv == TypeOK /\ EventInv /\ ChangeInv

-----------------------------------------------------------------------------
(* Types, in three parts: the C++ subscription and its callers, the Java   *)
(* one and its change listeners, and the batches.                          *)

CppType ==
  /\ eventListenerMutex \in Thread \union {None}
  /\ changeListenersMutex \in Thread \union {None}
  /\ eventListenerHandle \in Nat /\ handles \in Nat
  /\ lastId \in 0..MaxListeners
  /\ onEvent \subseteq Listener /\ changeListeners \subseteq Listener
  /\ eventListeners \subseteq Nat
  /\ pc \in [Thread -> PC] /\ arg \in [Thread -> 0..MaxListeners]

JavaType ==
  /\ lock \in Thread \union {None}
  /\ lastListener \in 0..MaxListeners
  /\ listeners \subseteq Listener /\ over \subseteq Listener
  /\ closed \in BOOLEAN /\ reentered \in BOOLEAN
  /\ symbols \subseteq Symbol /\ added \subseteq Symbol /\ removed \subseteq Symbol
  /\ todo \subseteq Listener \X Kind /\ called \subseteq Listener \X Kind
  /\ view \in [Listener -> SUBSET Symbol]

BatchType ==
  /\ sent \in 0..MaxBatches
  /\ calls \subseteq Batch \X Nat
  /\ due \in [Batch -> SUBSET Listener]
  /\ heard \in [Batch -> [Listener -> Nat]]

LEMMA TypeParts == TypeOK <=> CppType /\ JavaType /\ BatchType
  BY Zenon DEF TypeOK, CppType, JavaType, BatchType

LEMMA TypePartsPrime == CppType' /\ JavaType' /\ BatchType' => TypeOK'
  BY Zenon DEF TypeOK, CppType, JavaType, BatchType

LEMMA TypeFrames ==
  /\ CppType /\ UNCHANGED <<cpp, map, pc, arg, events>> => CppType'
  /\ JavaType /\ UNCHANGED <<java, telling, known>> => JavaType'
  /\ BatchType /\ UNCHANGED batches => BatchType'
<1>1. CppType /\ UNCHANGED <<cpp, map, pc, arg, events>> => CppType'
  BY DEF CppType, cpp, map, events
<1>2. JavaType /\ UNCHANGED <<java, telling, known>> => JavaType'
  BY DEF JavaType, java, telling, known
<1>3. BatchType /\ UNCHANGED batches => BatchType'
  BY DEF BatchType, batches
<1> QED BY <1>1, <1>2, <1>3

LEMMA InitType == Init => TypeOK
<1> SUFFICES ASSUME Init PROVE CppType /\ JavaType /\ BatchType BY TypeParts
<1>1. CppType
  <2>1. /\ pc \in [Thread -> PC] /\ arg \in [Thread -> 0..MaxListeners]
        /\ lastId \in 0..MaxListeners
    BY SubscriptionAssumption DEF Init, PC
  <2>2. /\ eventListenerMutex \in Thread \union {None}
        /\ changeListenersMutex \in Thread \union {None}
        /\ eventListenerHandle \in Nat /\ handles \in Nat
    BY DEF Init
  <2>3. /\ onEvent \subseteq Listener /\ changeListeners \subseteq Listener
        /\ eventListeners \subseteq Nat
    BY DEF Init
  <2> QED BY <2>1, <2>2, <2>3 DEF CppType
<1>2. JavaType
  <2>1. lastListener \in 0..MaxListeners /\ view \in [Listener -> SUBSET Symbol]
    BY SubscriptionAssumption DEF Init
  <2>2. /\ lock \in Thread \union {None}
        /\ closed \in BOOLEAN /\ reentered \in BOOLEAN
        /\ listeners = {} /\ over = {} /\ symbols = {} /\ added = {} /\ removed = {}
        /\ todo = {} /\ called = {}
    BY DEF Init
  <2> QED BY <2>1, <2>2 DEF JavaType
<1>3. BatchType BY SubscriptionAssumption DEF Init, BatchType
<1> QED BY <1>1, <1>2, <1>3

LEMMA AddEventListenerType == ASSUME TypeOK, NEW t \in Thread, AddEventListener(t) PROVE TypeOK'
<1> CppType /\ JavaType /\ BatchType BY TypeParts
<1>1. CppType'
  BY SubscriptionAssumption DEF CppType, AddEventListener, TryToSetEventListenerHandle, Goto, Listener, PC, cpp, map, events
<1>2. JavaType' BY TypeFrames DEF AddEventListener
<1>3. BatchType' BY TypeFrames DEF AddEventListener, batches
<1> QED BY <1>1, <1>2, <1>3, TypePartsPrime

LEMMA CreateHandleType == ASSUME TypeOK, NEW t \in Thread, CreateHandle(t) PROVE TypeOK'
<1> CppType /\ JavaType /\ BatchType BY TypeParts
<1>1. CppType'
  BY SubscriptionAssumption DEF CppType, CreateHandle, Unlock, Goto, Listener, PC, cpp, map, events
<1>2. JavaType' BY TypeFrames DEF CreateHandle
<1>3. BatchType' BY TypeFrames DEF CreateHandle, batches
<1> QED BY <1>1, <1>2, <1>3, TypePartsPrime

LEMMA AddHandleType == ASSUME TypeOK, NEW t \in Thread, AddHandle(t) PROVE TypeOK'
<1> CppType /\ JavaType /\ BatchType BY TypeParts
<1>1. CppType'
  BY SubscriptionAssumption DEF CppType, AddHandle, Unlock, Goto, Listener, PC, cpp, map, events
<1>2. JavaType' BY TypeFrames DEF AddHandle
<1>3. BatchType' BY TypeFrames DEF AddHandle, batches
<1> QED BY <1>1, <1>2, <1>3, TypePartsPrime

LEMMA AddToHandlerType == ASSUME TypeOK, NEW t \in Thread, AddToHandler(t) PROVE TypeOK'
<1> CppType /\ JavaType /\ BatchType BY TypeParts
<1>1. CppType'
  <2>1. lastId' \in 0..MaxListeners /\ onEvent' \subseteq Listener
    <3>1. lastId < MaxListeners =>
            lastId + 1 \in 0..MaxListeners /\ lastId + 1 \in Listener
      BY SubscriptionAssumption DEF CppType, Listener
    <3> QED BY <3>1 DEF CppType, AddToHandler
  <2>2. pc' \in [Thread -> PC] /\ arg' \in [Thread -> 0..MaxListeners]
    BY DEF CppType, AddToHandler, Goto, PC
  <2> QED BY <2>1, <2>2 DEF CppType, AddToHandler, map, events
<1>2. JavaType' BY TypeFrames DEF AddToHandler
<1>3. BatchType' BY TypeFrames DEF AddToHandler, batches
<1> QED BY <1>1, <1>2, <1>3, TypePartsPrime

LEMMA ChangeSymbolsType == ASSUME TypeOK, NEW t \in Thread, ChangeSymbols(t) PROVE TypeOK'
<1> CppType /\ JavaType /\ BatchType BY TypeParts
<1>1. CppType'
  BY SubscriptionAssumption DEF CppType, ChangeSymbols, ChangeTo, Tell, Kinds, Goto, Listener, PC, cpp, map, events
<1>2. JavaType'
  BY SubscriptionAssumption DEF JavaType, ChangeSymbols, ChangeTo, Tell, Kinds, Goto, Listener, Kind, java, telling, known
<1>3. BatchType' BY TypeFrames DEF ChangeSymbols, batches
<1> QED BY <1>1, <1>2, <1>3, TypePartsPrime

LEMMA CloseType == ASSUME TypeOK, NEW t \in Thread, Close(t) PROVE TypeOK'
<1> CppType /\ JavaType /\ BatchType BY TypeParts
<1>1. CppType'
  BY SubscriptionAssumption DEF CppType, Close, Tell, Goto, Listener, PC, cpp, map, events
<1>2. JavaType'
  BY SubscriptionAssumption DEF JavaType, Close, Tell, Goto, Listener, Kind, java, telling, known
<1>3. BatchType' BY TypeFrames DEF Close, batches
<1> QED BY <1>1, <1>2, <1>3, TypePartsPrime

LEMMA CallListenerType == ASSUME TypeOK, NEW t \in Thread, CallListener(t) PROVE TypeOK'
<1> CppType /\ JavaType /\ BatchType BY TypeParts
<1>1. CppType' BY TypeFrames DEF CallListener
<1>2. JavaType'
  BY SubscriptionAssumption DEF JavaType, CallListener, Listener, Kind, java, telling, known
<1>3. BatchType' BY TypeFrames DEF CallListener, batches
<1> QED BY <1>1, <1>2, <1>3, TypePartsPrime

LEMMA ReleaseType == ASSUME TypeOK, NEW t \in Thread, Release(t) PROVE TypeOK'
<1> CppType /\ JavaType /\ BatchType BY TypeParts
<1>1. CppType'
  BY SubscriptionAssumption DEF CppType, Release, Goto, Listener, PC, cpp, map, events
<1>2. JavaType'
  BY SubscriptionAssumption DEF JavaType, Release, Goto, Listener, Kind, java, telling, known
<1>3. BatchType' BY TypeFrames DEF Release, batches
<1> QED BY <1>1, <1>2, <1>3, TypePartsPrime

LEMMA AddChangeListenerType == ASSUME TypeOK, NEW t \in Thread, AddChangeListener(t) PROVE TypeOK'
<1> CppType /\ JavaType /\ BatchType BY TypeParts
<1> DEFINE new == lastListener + 1
<1>0. new \in 1..MaxListeners /\ new \in Listener
  BY SubscriptionAssumption DEF AddChangeListener, JavaType, Listener
<1>1. CppType'
  <2>1. arg' \in [Thread -> 0..MaxListeners] /\ pc' \in [Thread -> PC]
    BY <1>0, SubscriptionAssumption DEF CppType, AddChangeListener, Goto, PC
  <2> QED BY <2>1 DEF CppType, AddChangeListener, cpp, map, events
<1>2. JavaType'
  <2>1. <<new, "added">> \in Listener \X Kind BY <1>0 DEF Kind
  <2>2. lastListener' \in 0..MaxListeners
    BY <1>0, SubscriptionAssumption DEF AddChangeListener
  <2> HIDE DEF new
  <2>3. /\ listeners' = listeners \/ listeners' = listeners \union {new}
        /\ todo' = todo \/ todo' = {<<new, "added">>}
        /\ lock' = lock \/ lock' = t
        /\ added' = added \/ added' = symbols
        /\ removed' = removed \/ removed' = {}
        /\ called' = called
        /\ UNCHANGED <<closed, symbols, known>>
    BY DEF AddChangeListener, telling, new
  <2>4. listeners' \subseteq Listener BY <1>0, <2>3 DEF JavaType
  <2>5. todo' \subseteq Listener \X Kind BY <2>1, <2>3 DEF JavaType
  <2> QED BY <2>2, <2>3, <2>4, <2>5 DEF JavaType, known
<1>3. BatchType' BY TypeFrames DEF AddChangeListener, batches
<1> QED BY <1>1, <1>2, <1>3, TypePartsPrime

LEMMA RegisterType == ASSUME TypeOK, Ways, NEW t \in Thread, Register(t) PROVE TypeOK'
<1> CppType /\ JavaType /\ BatchType BY TypeParts
<1>1. CppType'
  <2>1. changeListeners' \subseteq Listener
    <3>1. arg[t] \in 1..lastListener BY DEF Register, Ways, Adding
    <3>2. arg[t] \in Listener
      BY <3>1, SubscriptionAssumption DEF JavaType, Listener
    <3> QED BY <3>2 DEF CppType, Register
  <2>2. pc' \in [Thread -> PC] /\ arg' \in [Thread -> 0..MaxListeners]
    BY SubscriptionAssumption DEF CppType, Register, Return, Goto, PC
  <2> QED BY <2>1, <2>2 DEF CppType, Register, cpp, events
<1>2. JavaType' BY TypeFrames DEF Register
<1>3. BatchType' BY TypeFrames DEF Register, batches
<1> QED BY <1>1, <1>2, <1>3, TypePartsPrime

LEMMA RemoveFromJavaType == ASSUME TypeOK, NEW t \in Thread, RemoveFromJava(t) PROVE TypeOK'
<1> CppType /\ JavaType /\ BatchType BY TypeParts
<1>1. CppType'
  BY SubscriptionAssumption DEF CppType, RemoveFromJava, RemoveThrows, Return, Goto, Listener, PC, cpp, map, events
<1>2. JavaType'
  BY SubscriptionAssumption DEF JavaType, RemoveFromJava, RemoveThrows, Return, Goto, Listener, Kind, java, telling, known
<1>3. BatchType' BY TypeFrames DEF RemoveFromJava, RemoveThrows, batches
<1> QED BY <1>1, <1>2, <1>3, TypePartsPrime

LEMMA EraseType == ASSUME TypeOK, NEW t \in Thread, Erase(t) PROVE TypeOK'
<1> CppType /\ JavaType /\ BatchType BY TypeParts
<1>1. CppType'
  <2>1. changeListeners' \subseteq Listener
    BY SubscriptionAssumption DEF CppType, Erase, Listener
  <2>2. pc' \in [Thread -> PC] /\ arg' \in [Thread -> 0..MaxListeners]
    BY SubscriptionAssumption DEF CppType, Erase, Return, Goto, PC
  <2> QED BY <2>1, <2>2 DEF CppType, Erase, cpp, events
<1>2. JavaType' BY TypeFrames DEF Erase
<1>3. BatchType' BY TypeFrames DEF Erase, batches
<1> QED BY <1>1, <1>2, <1>3, TypePartsPrime

LEMMA RemoveEventListenerType == ASSUME TypeOK, NEW t \in Thread, NEW l \in Listener, RemoveEventListener(t, l) PROVE TypeOK'
<1> CppType /\ JavaType /\ BatchType BY TypeParts
<1>1. CppType'
  BY SubscriptionAssumption DEF CppType, RemoveEventListener, Listener, PC, cpp, map, events
<1>2. JavaType' BY TypeFrames DEF RemoveEventListener
<1>3. BatchType' BY TypeFrames DEF RemoveEventListener, batches
<1> QED BY <1>1, <1>2, <1>3, TypePartsPrime

LEMMA RemoveChangeListenerType == ASSUME TypeOK, NEW t \in Thread, NEW l \in Listener, RemoveChangeListener(t, l) PROVE TypeOK'
<1> CppType /\ JavaType /\ BatchType BY TypeParts
<1>1. CppType'
  BY SubscriptionAssumption DEF CppType, RemoveChangeListener, Goto, Listener, PC, cpp, map, events
<1>2. JavaType' BY TypeFrames DEF RemoveChangeListener
<1>3. BatchType' BY TypeFrames DEF RemoveChangeListener, batches
<1> QED BY <1>1, <1>2, <1>3, TypePartsPrime

LEMMA SendType == ASSUME TypeOK, Send PROVE TypeOK'
<1> CppType /\ JavaType /\ BatchType BY TypeParts
<1>1. CppType' BY TypeFrames DEF Send
<1>2. JavaType' BY TypeFrames DEF Send
<1>3. BatchType'
  <2>1. sent + 1 \in Batch /\ sent' \in 0..MaxBatches
    BY SubscriptionAssumption DEF Send, BatchType, Batch
  <2>2. calls' \subseteq Batch \X Nat BY <2>1 DEF Send, BatchType, CppType
  <2>3. due' \in [Batch -> SUBSET Listener] BY DEF Send, BatchType, CppType
  <2> QED BY <2>1, <2>2, <2>3 DEF BatchType, Send
<1> QED BY <1>1, <1>2, <1>3, TypePartsPrime

LEMMA OnEventsType == ASSUME TypeOK, OnEvents PROVE TypeOK'
<1> CppType /\ JavaType /\ BatchType BY TypeParts
<1>1. CppType' BY TypeFrames DEF OnEvents
<1>2. JavaType' BY TypeFrames DEF OnEvents
<1>3. BatchType'
  <2>1. PICK c \in calls :
          /\ calls' = calls \ {c}
          /\ heard' = [heard EXCEPT ![c[1]] =
               [l \in Listener |-> IF l \in onEvent THEN @[l] + 1 ELSE @[l]]]
    BY DEF OnEvents
  <2>2. c[1] \in Batch BY DEF BatchType
  <2>3. [l \in Listener |-> IF l \in onEvent THEN heard[c[1]][l] + 1
                                           ELSE heard[c[1]][l]]
          \in [Listener -> Nat]
    BY <2>2 DEF BatchType
  <2>4. heard' \in [Batch -> [Listener -> Nat]] BY <2>1, <2>2, <2>3 DEF BatchType
  <2>5. UNCHANGED <<sent, due>> BY DEF OnEvents
  <2> QED BY <2>1, <2>4, <2>5 DEF BatchType
<1> QED BY <1>1, <1>2, <1>3, TypePartsPrime

LEMMA CallbackType == ASSUME TypeOK, Callback PROVE TypeOK'
<1> CppType /\ JavaType /\ BatchType BY TypeParts
<1>1. CppType' BY TypeFrames DEF Callback
<1>2. JavaType'
  <2>1. PICK c \in called :
          /\ called' = called \ {c}
          /\ view' \in {view, [view EXCEPT ![c[1]] = @ \union added],
                       [view EXCEPT ![c[1]] = @ \ removed]}
          /\ over' \in {over, over \union {c[1]}}
    BY DEF Callback
  <2>2. c[1] \in Listener BY DEF JavaType
  <2>3. view' \in [Listener -> SUBSET Symbol] BY <2>1, <2>2 DEF JavaType
  <2>4. over' \subseteq Listener /\ called' \subseteq Listener \X Kind
    BY <2>1, <2>2 DEF JavaType
  <2>5. UNCHANGED <<java, lock, todo, added, removed, reentered>> BY DEF Callback
  <2> QED BY <2>3, <2>4, <2>5 DEF JavaType, java
<1>3. BatchType' BY TypeFrames DEF Callback, batches
<1> QED BY <1>1, <1>2, <1>3, TypePartsPrime

LEMMA ReEnterType == ASSUME TypeOK, ReEnter PROVE TypeOK'
<1> CppType /\ JavaType /\ BatchType BY TypeParts
<1>1. CppType' BY TypeFrames DEF ReEnter
<1>2. JavaType'
  BY SubscriptionAssumption DEF JavaType, ReEnter, Listener, Kind, java, telling, known
<1>3. BatchType' BY TypeFrames DEF ReEnter, batches
<1> QED BY <1>1, <1>2, <1>3, TypePartsPrime

-----------------------------------------------------------------------------
(* Event listeners. Steps that have to do with change listeners leave      *)
(* everything about them as it is.                                         *)

Event == {"set", "java", "plus"}

LEMMA EventFrame ==
  ASSUME EventInv, UNCHANGED <<cpp, events, batches>>,
         \A t \in Thread : pc[t] \in Event \/ pc'[t] \in Event => pc'[t] = pc[t]
  PROVE  EventInv'
<1> USE DEF Event
<1>1. OneHandle' BY DEF EventInv, OneHandle, cpp, events
<1>2. Settled => Settled' BY DEF Settled, cpp
<1>3. Late' BY <1>2 DEF EventInv, Late, cpp, batches
<1>4. Fresh' BY DEF EventInv, Fresh, cpp, events, batches
<1>5. Heard' BY DEF EventInv, Heard, cpp, events, batches
<1> QED BY <1>1, <1>3, <1>4, <1>5 DEF EventInv

LEMMA AddEventListenerEvent ==
  ASSUME TypeOK, EventInv, NEW t \in Thread, AddEventListener(t) PROVE EventInv'
<1> USE DEF TypeOK, EventInv, AddEventListener, TryToSetEventListenerHandle, Goto
<1>0. \A u \in Thread : pc[u] \notin {"set", "java"}
  BY SubscriptionAssumption DEF OneHandle
<1>1. OneHandle' BY SubscriptionAssumption DEF OneHandle, events
<1>2. CASE eventListenerHandle = 0
  <2>1. /\ \A u \in Thread : pc[u] # "plus"
        /\ onEvent = {}
        /\ \A b \in Batch : due[b] = {}
    BY <1>2 DEF Late, Settled
  <2> QED BY <1>2, <2>1, <1>1 DEF Late, Fresh, Heard, events, batches
<1>3. CASE eventListenerHandle # 0
  <2>1. Settled' BY <1>0, <1>3 DEF OneHandle, Settled
  <2> QED BY <1>1, <2>1 DEF Late, Fresh, Heard, events, batches
<1> QED BY <1>2, <1>3

LEMMA CreateHandleEvent ==
  ASSUME TypeOK, EventInv, NEW t \in Thread, CreateHandle(t) PROVE EventInv'
<1> USE DEF TypeOK, EventInv, CreateHandle, Unlock, Goto
<1>1. eventListenerHandle = 0 /\ eventListenerMutex = t BY DEF OneHandle
<1>2. /\ \A u \in Thread : pc[u] # "plus"
      /\ onEvent = {}
      /\ \A b \in Batch : due[b] = {}
  BY <1>1 DEF Late, Settled
<1>3. \A u \in Thread : u # t => pc[u] \notin {"set", "java"}
  BY <1>1 DEF OneHandle
<1>4. OneHandle' BY <1>1, <1>2, <1>3 DEF OneHandle
<1>5. Late' BY <1>2 DEF Late, batches
<1>6. Fresh' /\ Heard' BY DEF Fresh, Heard, batches
<1> QED BY <1>4, <1>5, <1>6

LEMMA AddHandleEvent ==
  ASSUME TypeOK, EventInv, NEW t \in Thread, AddHandle(t) PROVE EventInv'
<1> USE DEF TypeOK, EventInv, AddHandle, Unlock, Goto
<1>1. eventListenerHandle = 1 /\ eventListenerMutex = t BY DEF OneHandle
<1>2. /\ \A u \in Thread : pc[u] # "plus"
      /\ onEvent = {}
      /\ \A b \in Batch : due[b] = {}
  BY DEF Late, Settled
<1>3. \A u \in Thread : u # t => pc[u] \notin {"set", "java"}
  BY <1>1 DEF OneHandle
<1>4. OneHandle' BY <1>1, <1>3, SubscriptionAssumption DEF OneHandle
<1>5. Settled' BY <1>1, <1>3 DEF Settled
<1>6. Late' BY <1>5 DEF Late, batches
<1>7. Fresh' BY <1>2 DEF Fresh, batches
<1>8. Heard' BY <1>2 DEF Heard, batches
<1> QED BY <1>4, <1>6, <1>7, <1>8

LEMMA AddToHandlerEvent ==
  ASSUME TypeOK, EventInv, NEW t \in Thread, AddToHandler(t) PROVE EventInv'
<1> USE DEF TypeOK, EventInv, AddToHandler, Goto
<1>1. Settled /\ Settled' BY DEF Late, Settled
<1>2. OneHandle' BY DEF OneHandle, events
<1>3. Late' BY <1>1 DEF Late, batches
<1>4. Fresh'
  <2>1. lastId \in Nat /\ lastId' \in {lastId, lastId + 1} BY SubscriptionAssumption
  <2>2. \A l \in Listener : l \in Nat /\ (l <= lastId => l <= lastId')
    BY <2>1, SubscriptionAssumption DEF Listener
  <2>3. \A l \in onEvent' : l <= lastId'
    BY <2>1, <2>2, SubscriptionAssumption DEF Fresh
  <2>4. \A b \in Batch : \A l \in due[b] : l <= lastId'
    BY <2>2 DEF Fresh
  <2> QED BY <2>3, <2>4 DEF Fresh, events, batches
<1>5. lastId + 1 \notin onEvent /\ \A b \in Batch : lastId + 1 \notin due[b]
  BY SubscriptionAssumption DEF Fresh
<1>6. \A l \in Listener : \A b \in Batch :
        l \in due[b] \intersect onEvent' => l \in due[b] \intersect onEvent
  BY <1>5
<1>7. Heard' BY <1>6 DEF Heard, events, batches
<1> QED BY <1>2, <1>3, <1>4, <1>7

LEMMA RemoveEventListenerEvent ==
  ASSUME TypeOK, EventInv, NEW t \in Thread, NEW l \in Listener,
         RemoveEventListener(t, l)
  PROVE  EventInv'
<1> USE DEF TypeOK, EventInv, RemoveEventListener
<1>1. OneHandle' BY DEF OneHandle, events
<1>2. Settled => Settled' BY DEF Settled
<1>3. Late' BY <1>2 DEF Late, batches
<1>4. Fresh' BY DEF Fresh, events, batches
<1>5. Heard' BY DEF Heard, events, batches
<1> QED BY <1>1, <1>3, <1>4, <1>5

LEMMA SendEvent == ASSUME TypeOK, EventInv, Send PROVE EventInv'
<1> USE DEF TypeOK, EventInv, Send
<1> DEFINE new == sent + 1
<1>0. new \in Batch /\ \A b \in Batch : b <= sent => b # new
  BY SubscriptionAssumption DEF Batch
<1>1. OneHandle' BY DEF OneHandle, cpp, events
<1>2. Settled => Settled' BY DEF Settled, cpp
<1>3. Late' BY <1>2, <1>0 DEF Late, cpp
<1>4. /\ \A b \in Batch : due'[b] = IF b = new THEN onEvent ELSE due[b]
      /\ \A c \in calls' : c \in calls \/ (c[1] = new /\ c[2] \in eventListeners)
      /\ \A b, h : <<b, h>> \in calls' <=>
                    <<b, h>> \in calls \/ (b = new /\ h \in eventListeners)
  <2>1. calls' = calls \union {<<new, h>> : h \in eventListeners} OBVIOUS
  <2>2. \A b \in Batch : due'[b] = IF b = new THEN onEvent ELSE due[b] BY <1>0
  <2> HIDE DEF new
  <2>3. \A c \in calls' : c \in calls \/ (c[1] = new /\ c[2] \in eventListeners)
    BY <2>1
  <2>4. \A h : <<new, h>> \in calls' <=> <<new, h>> \in calls \/ h \in eventListeners
    BY <2>1
  <2>5. \A b, h : b # new => (<<b, h>> \in calls' <=> <<b, h>> \in calls)
    BY <2>1
  <2> QED BY <2>2, <2>3, <2>4, <2>5
<1>5. Fresh'
  <2>1. \A l \in onEvent' : l <= lastId' BY DEF Fresh, cpp
  <2>2. \A b \in Batch : \A l \in due'[b] : l <= lastId' BY <1>4 DEF Fresh, cpp
  <2>3. \A c \in calls' : c[1] <= sent' /\ c[2] \in eventListeners'
    BY <1>4, SubscriptionAssumption DEF Fresh, events, Batch
  <2>4. \A b \in Batch : b > sent' => b > sent /\ b # new
    BY <1>0, SubscriptionAssumption DEF Batch
  <2> QED BY <1>4, <2>1, <2>2, <2>3, <2>4 DEF Fresh
<1>6. Heard'
  <2>1. \A l \in Listener : heard[new][l] = 0 /\ <<new, 1>> \notin calls
    BY <1>0, SubscriptionAssumption DEF Fresh, Batch
  <2> HIDE DEF new
  <2> SUFFICES ASSUME NEW b \in Batch, NEW l \in Listener
               PROVE  /\ heard[b][l] \in {0, 1}
                      /\ <<b, 1>> \in calls' => heard[b][l] = 0
                      /\ (/\ l \in due'[b] \intersect onEvent
                          /\ <<b, 1>> \notin calls'
                          /\ 1 \in eventListeners) => heard[b][l] = 1
    BY DEF Heard, cpp, events
  <2>2. CASE b = new BY <1>4, <2>1, <2>2
  <2>3. CASE b # new BY <1>4, <2>3 DEF Heard
  <2> QED BY <2>2, <2>3
<1> QED BY <1>1, <1>3, <1>5, <1>6

LEMMA OnEventsEvent == ASSUME TypeOK, EventInv, OnEvents PROVE EventInv'
<1> USE DEF TypeOK, EventInv
<1>1. PICK c \in calls :
        /\ calls' = calls \ {c}
        /\ heard' = [heard EXCEPT ![c[1]] =
             [l \in Listener |-> IF l \in onEvent THEN @[l] + 1 ELSE @[l]]]
  BY DEF OnEvents
<1>2. UNCHANGED <<cpp, events, pc, sent, due>> BY DEF OnEvents
<1>3. c = <<c[1], 1>> /\ c[1] \in Batch /\ c[1] <= sent
  BY DEF Fresh, OneHandle
<1>4. OneHandle' BY <1>2 DEF OneHandle, cpp, events
<1>5. Settled => Settled' BY <1>2 DEF Settled, cpp
<1>6. Late' BY <1>2, <1>5 DEF Late, cpp
<1>7. \A b \in Batch, l \in Listener :
        heard'[b][l] = IF b = c[1] /\ l \in onEvent THEN heard[b][l] + 1
                                                    ELSE heard[b][l]
  BY <1>1, <1>3
<1>8. Fresh'
  <2>1. \A b \in Batch : b > sent => b # c[1]
    BY <1>3, SubscriptionAssumption DEF Batch
  <2>2. \A d \in calls' : d \in calls BY <1>1
  <2>3. /\ \A l \in onEvent' : l <= lastId'
        /\ \A b \in Batch : \A l \in due'[b] : l <= lastId'
    BY <1>2 DEF Fresh, cpp
  <2>4. \A d \in calls' : d[1] <= sent' /\ d[2] \in eventListeners'
    BY <1>2, <2>2 DEF Fresh, events
  <2>5. \A b \in Batch, l \in Listener :
          b > sent' => heard'[b][l] = 0 /\ due'[b] = {}
    BY <1>2, <1>7, <2>1 DEF Fresh
  <2> QED BY <2>3, <2>4, <2>5 DEF Fresh
<1>9. Heard'
  <2>1. \A b : <<b, 1>> \in calls' <=> <<b, 1>> \in calls /\ b # c[1]
    BY <1>1, <1>3
  <2>2. \A l \in Listener : heard[c[1]][l] = 0 BY <1>3 DEF Heard
  <2> SUFFICES ASSUME NEW b \in Batch, NEW l \in Listener
               PROVE  /\ heard'[b][l] \in {0, 1}
                      /\ <<b, 1>> \in calls' => heard'[b][l] = 0
                      /\ (/\ l \in due[b] \intersect onEvent
                          /\ <<b, 1>> \notin calls'
                          /\ 1 \in eventListeners) => heard'[b][l] = 1
    BY <1>2 DEF Heard, cpp, events
  <2>3. CASE b = c[1] BY <1>3, <1>7, <2>1, <2>2, <2>3
  <2>4. CASE b # c[1] BY <1>7, <2>1, <2>4 DEF Heard
  <2> QED BY <2>3, <2>4
<1> QED BY <1>4, <1>6, <1>8, <1>9

-----------------------------------------------------------------------------
(* Change listeners. Steps of event listeners leave everything as it is.   *)

Change == {"tell", "added", "register", "remove", "erase"}

LEMMA ChangeFrame ==
  ASSUME ChangeInv, UNCHANGED <<map, arg, java, telling, known>>,
         \A t \in Thread : pc[t] \in Change \/ pc'[t] \in Change => pc'[t] = pc[t]
  PROVE  ChangeInv'
<1> USE DEF Change
<1>1. Locks' BY DEF ChangeInv, Locks, Removing, map, telling
<1>2. Ways'
  BY DEF ChangeInv, Ways, Adding, Removing, map, java, telling, known
<1>3. Views' BY DEF ChangeInv, Views, Pending, java, telling, known
<1>4. Overs' BY DEF ChangeInv, Overs, Pending, map, java, telling, known
<1>5. ChangeListenersMatch'
  BY DEF ChangeInv, ChangeListenersMatch, map, java
<1> QED BY <1>1, <1>2, <1>3, <1>4, <1>5 DEF ChangeInv

(* A call that begins to tell the listeners something.                     *)
LEMMA TellChange ==
  ASSUME TypeOK, ChangeInv, NEW t \in Thread,
         ChangeSymbols(t) \/ Close(t)
  PROVE  ChangeInv'
<1> USE DEF TypeOK, ChangeInv
<1>1. /\ pc[t] = "idle" /\ ~closed /\ lock = None /\ lock' = t
      /\ todo = {} /\ called = {} /\ called' = {} /\ arg' = arg
      /\ pc' = [pc EXCEPT ![t] = "tell"]
      /\ UNCHANGED <<changeListenersMutex, changeListeners, lastListener, view, over>>
  BY DEF ChangeSymbols, Close, ChangeTo, Tell, Goto, Locks, map, known
<1>2. Locks' BY <1>1, SubscriptionAssumption DEF Locks, Removing
<1>3. /\ listeners' \subseteq listeners
      /\ closed' \in BOOLEAN
      /\ closed' \/ listeners' = listeners
      /\ closed' => listeners' = {}
      /\ \A c \in todo' : c[1] \in listeners
  <2>1. CASE ChangeSymbols(t)
    <3>1. listeners' = listeners /\ closed' = closed BY <2>1 DEF ChangeSymbols
    <3>2. \E new : todo' = listeners \X Kinds(new)
      BY <2>1, Zenon DEF ChangeSymbols, ChangeTo, Tell
    <3>3. PICK new : todo' = listeners \X Kinds(new) BY <3>2
    <3> QED BY <1>1, <3>1, <3>3
  <2>2. CASE Close(t)
    <3>1. listeners' = {} /\ closed' = TRUE /\ todo' = listeners \X {"closed"}
      BY <2>2 DEF Close, Tell
    <3> QED BY <3>1
  <2> QED BY <2>1, <2>2
<1>4. /\ \A u \in Thread : pc'[u] = IF u = t THEN "tell" ELSE pc[u]
      /\ \A u \in Thread : lock # u /\ (lock' = u => u = t)
  BY <1>1, SubscriptionAssumption
<1>5. Ways' BY <1>1, <1>3, <1>4, SubscriptionAssumption DEF Ways, Adding, Removing
<1>6. ChangeListenersMatch' BY <1>1, <1>3, <1>4 DEF ChangeListenersMatch
<1>7. Views' /\ Overs'
  <2>1. CASE ChangeSymbols(t)
    <3>1. PICK new \in SUBSET Symbol :
            /\ symbols' = new /\ added' = new \ symbols /\ removed' = symbols \ new
            /\ todo' = listeners \X Kinds(new) /\ UNCHANGED <<closed, listeners>>
      BY <2>1 DEF ChangeSymbols, ChangeTo, Tell
    <3>2. /\ \A l \in listeners : <<l, "closed">> \notin todo'
          /\ \A l \in listeners, s \in Symbol :
               /\ s \in added' => <<l, "added">> \in todo'
               /\ s \in removed' => <<l, "removed">> \in todo'
      BY <3>1 DEF Kinds
    <3>3. \A l \in listeners, s \in Symbol : s \in view[l] <=> s \in symbols
      BY <1>1 DEF Views, Locks
    <3>4. Views' BY <1>1, <3>1, <3>2, <3>3 DEF Views, Pending
    <3>5. Overs' BY <1>1, <3>1, <3>2 DEF Overs, Pending
    <3> QED BY <3>4, <3>5
  <2>2. CASE Close(t)
    <3>1. /\ closed' /\ listeners' = {} /\ symbols' = symbols
          /\ added' = {} /\ removed' = {}
      BY <2>2 DEF Close, Tell
    <3> QED BY <1>1, <3>1 DEF Views, Overs
  <2> QED BY <2>1, <2>2
<1> QED BY <1>2, <1>5, <1>6, <1>7

LEMMA CallListenerChange ==
  ASSUME TypeOK, ChangeInv, NEW t \in Thread, CallListener(t) PROVE ChangeInv'
<1> USE DEF TypeOK, ChangeInv, CallListener, Waited
<1>1. PICK c \in todo : todo' = todo \ {c} /\ called' = {c} OBVIOUS
<1>2. Pending' = Pending BY <1>1 DEF Pending
<1>3. UNCHANGED <<map, pc, arg, java, known, lock, added, removed>> OBVIOUS
<1>4. Locks' BY <1>3, SubscriptionAssumption DEF Locks, Removing, map
<1>5. Ways' BY <1>2, <1>3 DEF Ways, Adding, Removing, map, java, known, Pending
<1>6. Views' BY <1>1, <1>2, <1>3 DEF Views, java, known
<1>7. Overs' BY <1>2, <1>3 DEF Overs, map, java, known
<1>8. ChangeListenersMatch' BY <1>3 DEF ChangeListenersMatch, map, java
<1> QED BY <1>4, <1>5, <1>6, <1>7, <1>8

LEMMA CallbackChange == ASSUME TypeOK, ChangeInv, Callback PROVE ChangeInv'
<1> USE DEF TypeOK, ChangeInv
<1>1. UNCHANGED <<map, pc, arg, java, lock, todo, added, removed>> BY DEF Callback
<1>2. PICK c \in called :
        /\ called' = called \ {c}
        /\ \/ /\ c[2] = "added"
              /\ view' = [view EXCEPT ![c[1]] = @ \union added]
              /\ over' = over
           \/ /\ c[2] = "removed"
              /\ view' = [view EXCEPT ![c[1]] = @ \ removed]
              /\ over' = over
           \/ /\ c[2] = "closed"
              /\ view' = view
              /\ over' = over \union {c[1]}
  BY DEF Callback
<1>3. c \notin todo /\ called = {c} /\ called' = {} /\ c[1] <= lastListener
  BY <1>2 DEF Views, Ways
<1>4. Locks' BY <1>1, <1>3 DEF Locks, Removing, map
<1>5. over' \subseteq over \union {c[1]} BY <1>2
<1>6. Ways' BY <1>1, <1>3, <1>5 DEF Ways, Adding, Removing, map, java
<1>7. ChangeListenersMatch' BY <1>1 DEF ChangeListenersMatch, map, java
<1>8. Pending' = Pending \ {c} BY <1>1, <1>2, <1>3 DEF Pending
<1>9. c = <<c[1], c[2]>> /\ c[1] \in Listener /\ c \in Pending
  BY <1>2 DEF Pending
<1>10. Overs'
  <2>1. \A l : <<l, "closed">> \in Pending' \/ <<l, "closed">> = c <=> <<l, "closed">> \in Pending
    BY <1>8, <1>9
  <2>2. \A l : <<l, "closed">> = c => c[2] = "closed" /\ l = c[1]
    BY <1>9
  <2>3. c[2] = "closed" => c[1] \notin listeners BY <1>9 DEF Overs
  <2>4. UNCHANGED <<listeners, changeListeners, closed>> BY <1>1 DEF map, java
  <2> QED BY <1>2, <2>1, <2>2, <2>3, <2>4 DEF Overs
<1>11. Views'
  <2>1. UNCHANGED <<listeners, symbols, lastListener>> BY <1>1 DEF java
  <2>2. \A l \in Listener : l # c[1] =>
          /\ view'[l] = view[l]
          /\ \A k : <<l, k>> \in Pending' <=> <<l, k>> \in Pending
    BY <1>2, <1>8, <1>9
  <2>3. \A k : k # c[2] => (<<c[1], k>> \in Pending' <=> <<c[1], k>> \in Pending)
    BY <1>8, <1>9
  <2>4. <<c[1], c[2]>> \in Pending /\ <<c[1], c[2]>> \notin Pending' BY <1>8, <1>9
  <2>5. c[1] \in listeners => \A s \in Symbol :
          s \in view'[c[1]] <=>
            \/ s \in symbols /\ ~(s \in added /\ <<c[1], "added">> \in Pending')
            \/ s \in removed /\ <<c[1], "removed">> \in Pending'
    <3>1. CASE c[2] = "added" BY <1>2, <1>9, <2>3, <2>4, <3>1 DEF Views
    <3>2. CASE c[2] = "removed" BY <1>2, <1>9, <2>3, <2>4, <3>2 DEF Views
    <3>3. CASE c[2] = "closed" BY <1>2, <1>9, <2>3, <2>4, <3>3 DEF Views
    <3> QED BY <1>2, <3>1, <3>2, <3>3
  <2>6. \A l \in Listener : l > lastListener => view'[l] = {}
    <3>1. c[1] \in Nat /\ lastListener \in Nat BY <1>9, SubscriptionAssumption DEF Listener
    <3>2. \A l \in Listener : l > lastListener => l # c[1] BY <1>3, <3>1
    <3> QED BY <2>2, <3>2 DEF Views
  <2>7. \A l \in listeners, s \in Symbol :
          s \in view'[l] <=>
            \/ s \in symbols /\ ~(s \in added /\ <<l, "added">> \in Pending')
            \/ s \in removed /\ <<l, "removed">> \in Pending'
    <3> SUFFICES ASSUME NEW l \in listeners, NEW s \in Symbol
                 PROVE  s \in view'[l] <=>
            \/ s \in symbols /\ ~(s \in added /\ <<l, "added">> \in Pending')
            \/ s \in removed /\ <<l, "removed">> \in Pending'
      OBVIOUS
    <3>1. CASE l = c[1] BY <2>5, <3>1
    <3>2. CASE l # c[1]
      <4>1. /\ view'[l] = view[l]
            /\ <<l, "added">> \in Pending' <=> <<l, "added">> \in Pending
            /\ <<l, "removed">> \in Pending' <=> <<l, "removed">> \in Pending
        BY <2>2, <3>2
      <4> QED BY <4>1 DEF Views
    <3> QED BY <3>1, <3>2
  <2> QED BY <1>1, <1>3, <2>1, <2>6, <2>7 DEF Views
<1> QED BY <1>4, <1>6, <1>7, <1>10, <1>11

LEMMA ReEnterChange == ASSUME TypeOK, ChangeInv, ReEnter PROVE ChangeInv'
<1>1. UNCHANGED <<map, pc, arg, java, telling, view, over>> BY DEF ReEnter
<1>2. Locks' BY <1>1 DEF ChangeInv, Locks, Removing, map, telling
<1>3. Ways' BY <1>1 DEF ChangeInv, Ways, Adding, Removing, map, java, telling
<1>4. Views' BY <1>1 DEF ChangeInv, Views, Pending, java, telling
<1>5. Overs' BY <1>1 DEF ChangeInv, Overs, Pending, map, java, telling
<1>6. ChangeListenersMatch' BY <1>1 DEF ChangeInv, ChangeListenersMatch, map, java
<1> QED BY <1>2, <1>3, <1>4, <1>5, <1>6 DEF ChangeInv

LEMMA ReleaseChange ==
  ASSUME TypeOK, ChangeInv, NEW t \in Thread, Release(t) PROVE ChangeInv'
<1> USE DEF TypeOK, ChangeInv, Release, Waited
<1>1. /\ lock = t /\ lock' = None /\ todo = {} /\ called = {}
      /\ added' = {} /\ removed' = {} /\ pc[t] \in {"tell", "added", "remove"}
      /\ UNCHANGED <<map, arg, java, todo, called, view, over>>
  BY DEF Locks, known
<1>2. pc' = [pc EXCEPT ![t] = CASE pc[t] = "added" -> "register"
                               [] pc[t] = "remove" -> "erase"
                               [] OTHER -> "idle"]
  BY DEF Goto
<1>3. /\ pc[t] = "tell" => pc'[t] = "idle"
      /\ pc[t] = "added" => pc'[t] = "register"
      /\ pc[t] = "remove" => pc'[t] = "erase"
      /\ \A u \in Thread : u # t => pc'[u] = pc[u]
  BY <1>1, <1>2
<1>4. Locks' BY <1>1, <1>3, SubscriptionAssumption DEF Locks, Removing, map
<1>5. Ways'
  BY <1>1, <1>3, SubscriptionAssumption DEF Ways, Locks, Adding, Removing, map, java
<1>6. Views' BY <1>1 DEF Views, Pending, java
<1>7. Overs' BY <1>1 DEF Overs, Pending, map, java
<1>8. ChangeListenersMatch'
  BY <1>1, <1>3 DEF ChangeListenersMatch, map, java
<1> QED BY <1>4, <1>5, <1>6, <1>7, <1>8

LEMMA AddChangeListenerChange ==
  ASSUME TypeOK, ChangeInv, NEW t \in Thread, AddChangeListener(t)
  PROVE  ChangeInv'
<1> USE DEF TypeOK, ChangeInv
<1> DEFINE new == lastListener + 1
<1>1. /\ pc[t] = "idle" /\ lastListener' = new /\ new \in Listener
      /\ arg' = [arg EXCEPT ![t] = new]
      /\ UNCHANGED <<map, closed, symbols, view, over, called>>
  BY SubscriptionAssumption DEF AddChangeListener, Listener, known, telling
<1>2. /\ \A l \in changeListeners \union listeners \union over :
           l <= lastListener /\ l <= new /\ l # new
      /\ \A c \in todo \union called : c[1] <= lastListener /\ c[1] <= new /\ c[1] # new
      /\ \A u \in Thread : arg[u] \in 1..lastListener => arg[u] \in 1..new /\ arg[u] # new
      /\ \A l \in Listener : l > new => l > lastListener
      /\ new > lastListener /\ new \in 1..new
  BY SubscriptionAssumption DEF Ways, Listener
<1> HIDE DEF new
<1>3. CASE closed
  <2>1. /\ pc' = [pc EXCEPT ![t] = "register"] /\ UNCHANGED <<listeners, telling>>
    BY <1>3 DEF AddChangeListener, Goto
  <2>2. \A u \in Thread : /\ pc'[u] = IF u = t THEN "register" ELSE pc[u]
                          /\ arg'[u] = IF u = t THEN new ELSE arg[u]
    BY <1>1, <2>1
  <2>3. listeners = {} BY <1>3 DEF Ways
  <2>4. Locks' BY <1>1, <2>1, <2>2 DEF Locks, Removing, map, telling
  <2>5. Ways' BY <1>1, <1>2, <1>3, <2>1, <2>2, <2>3 DEF Ways, Adding, Removing, map, telling
  <2>6. Views' BY <1>1, <1>2, <2>1, <2>3 DEF Views, Pending, telling
  <2>7. Overs' BY <1>1, <1>3, <2>1, <2>3 DEF Overs, map
  <2>8. ChangeListenersMatch' BY <1>1, <1>3, <2>1, <2>3 DEF ChangeListenersMatch, map
  <2> QED BY <2>4, <2>5, <2>6, <2>7, <2>8
<1>4. CASE ~closed
  <2>1. /\ lock = None /\ lock' = t /\ pc' = [pc EXCEPT ![t] = "added"]
        /\ listeners' = listeners \union {new} /\ todo' = {<<new, "added">>}
        /\ added' = symbols /\ removed' = {} /\ todo = {} /\ called = {}
    BY <1>4 DEF AddChangeListener, Goto, Locks, new
  <2>2. \A u \in Thread : /\ pc'[u] = IF u = t THEN "added" ELSE pc[u]
                          /\ arg'[u] = IF u = t THEN new ELSE arg[u]
    BY <1>1, <2>1
  <2>3. \A u \in Thread : lock # u /\ (lock' = u => u = t)
    BY <2>1, SubscriptionAssumption
  <2>4. Locks' BY <1>1, <2>1, <2>2, <2>3, SubscriptionAssumption DEF Locks, Removing, map
  <2>5. Ways'
    BY <1>1, <1>2, <1>4, <2>1, <2>2, <2>3 DEF Ways, Adding, Removing, map
  <2>6. Views'
    <3>1. \A s \in Symbol : s \notin view[new] BY <1>1, <1>2 DEF Views
    <3>2. \A l \in listeners, s \in Symbol : s \in view[l] <=> s \in symbols
      BY <2>1 DEF Views, Locks
    <3>3. \A l \in listeners : <<l, "added">> # <<new, "added">> BY <1>2
    <3>4. \A l, k : <<l, k>> \in Pending' <=> l = new /\ k = "added"
      BY <1>1, <2>1 DEF Pending
    <3>5. todo' \intersect called' = {} /\ called' = {} BY <1>1, <2>1
    <3>6. \A l \in listeners', s \in Symbol :
            s \in view[l] <=> s \in symbols /\ ~(s \in symbols /\ l = new)
      BY <1>2, <2>1, <3>1, <3>2
    <3> QED BY <1>1, <1>2, <2>1, <3>4, <3>5, <3>6 DEF Views
  <2>7. Overs'
    <3>1. \A l : <<l, "closed">> \notin Pending' BY <1>1, <2>1 DEF Pending
    <3>2. new \notin over /\ new \notin changeListeners BY <1>2
    <3> QED BY <1>1, <2>1, <3>1, <3>2 DEF Overs, Pending, map
  <2>8. ChangeListenersMatch'
    BY <1>1, <1>2, <2>1, <2>2 DEF ChangeListenersMatch, Ways, Adding, map
  <2> QED BY <2>4, <2>5, <2>6, <2>7, <2>8
<1> QED BY <1>3, <1>4

LEMMA RegisterChange ==
  ASSUME TypeOK, ChangeInv, NEW t \in Thread, Register(t) PROVE ChangeInv'
<1> USE DEF TypeOK, ChangeInv, Register
<1>1. /\ pc[t] = "register" /\ changeListenersMutex = None
      /\ changeListeners' = changeListeners \union {arg[t]}
      /\ UNCHANGED <<changeListenersMutex, java, telling, known>>
      /\ pc' = [pc EXCEPT ![t] = "idle"] /\ arg' = [arg EXCEPT ![t] = 0]
  BY DEF Return, Goto
<1>2. \A u \in Thread : /\ pc'[u] = IF u = t THEN "idle" ELSE pc[u]
                        /\ arg'[u] = IF u = t THEN 0 ELSE arg[u]
  BY <1>1
<1>3. /\ arg[t] \in 1..lastListener /\ arg[t] <= lastListener
      /\ arg[t] \in listeners \/ closed
      /\ \A u \in Thread : pc[u] \in Adding /\ u # t => arg[u] # arg[t]
      /\ \A u \in Thread : pc[u] \notin Removing
  BY <1>1, SubscriptionAssumption DEF Ways, Locks, Adding
<1>4. Locks' BY <1>1, <1>2 DEF Locks, Removing, telling
<1>5. Ways' BY <1>1, <1>2, <1>3 DEF Ways, Adding, Removing, java, telling, known
<1>6. Views' BY <1>1 DEF Views, Pending, java, telling, known
<1>7. Overs' BY <1>1, <1>3 DEF Overs, Pending, java, telling, known
<1>8. ChangeListenersMatch'
  BY <1>1, <1>2, <1>3 DEF ChangeListenersMatch, Removing, java
<1> QED BY <1>4, <1>5, <1>6, <1>7, <1>8

LEMMA RemoveChangeListenerChange ==
  ASSUME TypeOK, ChangeInv, NEW t \in Thread, NEW l \in Listener,
         RemoveChangeListener(t, l)
  PROVE  ChangeInv'
<1> USE DEF TypeOK, ChangeInv, RemoveChangeListener
<1>1. /\ pc[t] = "idle" /\ changeListenersMutex = None /\ changeListenersMutex' = t
      /\ l \in changeListeners
      /\ UNCHANGED <<changeListeners, java, telling, known>>
      /\ pc' = [pc EXCEPT ![t] = "remove"] /\ arg' = [arg EXCEPT ![t] = l]
  BY DEF Goto
<1>2. \A u \in Thread : /\ pc'[u] = IF u = t THEN "remove" ELSE pc[u]
                        /\ arg'[u] = IF u = t THEN l ELSE arg[u]
  BY <1>1
<1>3. /\ \A u \in Thread : pc[u] \notin Removing
      /\ lock # t
  BY <1>1, SubscriptionAssumption DEF Locks
<1>4. l \in listeners \/ closed BY <1>1, <1>3 DEF ChangeListenersMatch, Removing
<1>5. Locks'
  BY <1>1, <1>2, <1>3, SubscriptionAssumption DEF Locks, Removing, telling
<1>6. Ways'
  BY <1>1, <1>2, <1>3, <1>4 DEF Ways, Adding, Removing, java, telling, known
<1>7. Views' BY <1>1 DEF Views, Pending, java, telling, known
<1>8. Overs' BY <1>1 DEF Overs, Pending, java, telling, known
<1>9. ChangeListenersMatch'
  BY <1>1, <1>2, <1>3 DEF ChangeListenersMatch, Removing, java
<1> QED BY <1>5, <1>6, <1>7, <1>8, <1>9

LEMMA RemoveFromJavaChange ==
  ASSUME TypeOK, ChangeInv, NEW t \in Thread, RemoveFromJava(t)
  PROVE  ChangeInv'
<1> USE DEF TypeOK, ChangeInv
<1>1. /\ pc[t] = "remove" /\ lock # t /\ changeListenersMutex = t
      /\ arg[t] \in changeListeners /\ (arg[t] \in listeners \/ closed)
      /\ \A u \in Thread : pc[u] \in Removing => u = t
      /\ UNCHANGED <<changeListeners, closed, symbols, lastListener, known>>
  BY DEF RemoveFromJava, Locks, Ways, Removing
<1>2. CASE RemoveThrows(t)
  <2>1. /\ changeListenersMutex' = None
        /\ pc' = [pc EXCEPT ![t] = "idle"] /\ arg' = [arg EXCEPT ![t] = 0]
        /\ UNCHANGED <<listeners, telling>>
    BY <1>2 DEF RemoveThrows, Return, Goto
  <2>2. \A u \in Thread : /\ pc'[u] = IF u = t THEN "idle" ELSE pc[u]
                          /\ arg'[u] = IF u = t THEN 0 ELSE arg[u]
    BY <2>1
  <2>3. Locks'
    BY <1>1, <2>1, <2>2, SubscriptionAssumption DEF Locks, Removing, telling
  <2>4. Ways' BY <1>1, <2>1, <2>2 DEF Ways, Adding, Removing, telling, known
  <2>5. Views' BY <1>1, <2>1 DEF Views, Pending, telling, known
  <2>6. Overs' BY <1>1, <2>1 DEF Overs, Pending, telling, known
  <2>7. ChangeListenersMatch'
    BY <1>1, <2>1, <2>2 DEF ChangeListenersMatch, Removing
  <2> QED BY <2>3, <2>4, <2>5, <2>6, <2>7
<1>3. CASE /\ lock = None /\ lock' = t
           /\ listeners' = listeners \ {arg[t]}
           /\ todo' = (listeners \intersect {arg[t]}) \X {"closed"}
           /\ UNCHANGED <<pc, arg, added, removed, called, changeListenersMutex>>
  <2>1. todo = {} /\ called = {} /\ called' = {} /\ added = {} /\ removed = {}
    BY <1>3 DEF Locks
  <2>2. \A u \in Thread : lock # u /\ (lock' = u => u = t)
    BY <1>3, SubscriptionAssumption
  <2>3. \A c \in todo' : c[1] \in listeners /\ c[1] = arg[t] BY <1>3
  <2>4. arg[t] \in listeners => <<arg[t], "closed">> \in todo' BY <1>3
  <2>5. Locks' BY <1>1, <1>3, <2>2, SubscriptionAssumption DEF Locks, Removing
  <2>6. Ways'
    <3>1. /\ \A l \in changeListeners' \union listeners' \union over' : l <= lastListener'
          /\ \A c \in todo' \union called' : c[1] <= lastListener'
          /\ closed' => listeners' = {}
      BY <1>1, <1>3, <2>1, <2>3 DEF Ways, known
    <3>2. \A u \in Thread : pc[u] \in Adding => arg[u] # arg[t]
      <4>1. \A u \in Thread : pc[u] \in Adding => arg[u] \notin changeListeners
        BY DEF Ways
      <4> QED BY <1>1, <4>1
    <3>3. \A u \in Thread : pc'[u] \in Adding =>
            /\ arg'[u] \in 1..lastListener'
            /\ arg'[u] \notin changeListeners'
            /\ arg'[u] \in listeners' \/ closed'
      BY <1>1, <1>3, <3>2 DEF Ways
    <3>4. \A u \in Thread : pc'[u] \in Removing =>
            /\ arg'[u] \in changeListeners'
            /\ (pc'[u] = "erase" \/ lock' = u) => arg'[u] \notin listeners'
            /\ (pc'[u] = "remove" /\ lock' # u) => arg'[u] \in listeners' \/ closed'
      <4>1. pc' = pc /\ arg' = arg /\ lock' = t /\ arg[t] \notin listeners'
        BY <1>3
      <4> QED BY <1>1, <4>1
    <3>5. \A u, v \in Thread :
            pc'[u] \in Adding /\ pc'[v] \in Adding /\ arg'[u] = arg'[v] => u = v
      BY <1>3 DEF Ways
    <3> QED BY <3>1, <3>3, <3>4, <3>5 DEF Ways
  <2>7. Views'
    <3>1. \A l \in listeners, s \in Symbol : s \in view[l] <=> s \in symbols
      BY <2>1 DEF Views
    <3>2. added' = {} /\ removed' = {} BY <1>3, <2>1
    <3> QED BY <1>1, <1>3, <2>1, <3>1, <3>2 DEF Views, known
  <2>8. Overs'
    <3>1. \A l \in listeners' : <<l, "closed">> \notin Pending'
      BY <1>3, <2>1, <2>3 DEF Pending
    <3>2. \A l \in changeListeners \ listeners : l \in over \/ closed
      BY <2>1 DEF Overs, Pending
    <3>3. \A l \in changeListeners' \ listeners' :
            l \in over \/ closed \/ <<l, "closed">> \in Pending'
      BY <1>1, <1>3, <2>4, <3>2 DEF Pending
    <3> QED BY <1>1, <1>3, <3>1, <3>3 DEF Overs, known
  <2>9. ChangeListenersMatch' BY <1>1, <1>3 DEF ChangeListenersMatch, Removing
  <2> QED BY <2>5, <2>6, <2>7, <2>8, <2>9
<1> QED BY <1>2, <1>3 DEF RemoveFromJava

LEMMA EraseChange ==
  ASSUME TypeOK, ChangeInv, NEW t \in Thread, Erase(t) PROVE ChangeInv'
<1> USE DEF TypeOK, ChangeInv
<1>1. /\ pc[t] = "erase" /\ changeListenersMutex = t /\ changeListenersMutex' = None
      /\ changeListeners' = changeListeners \ {arg[t]}
      /\ arg[t] \notin listeners
      /\ \A u \in Thread : pc[u] \in Removing => u = t
      /\ UNCHANGED <<java, telling, known>>
      /\ pc' = [pc EXCEPT ![t] = "idle"] /\ arg' = [arg EXCEPT ![t] = 0]
  BY DEF Erase, Return, Goto, Locks, Ways, Removing
<1>2. \A u \in Thread : /\ pc'[u] = IF u = t THEN "idle" ELSE pc[u]
                        /\ arg'[u] = IF u = t THEN 0 ELSE arg[u]
  BY <1>1
<1>3. Locks' BY <1>1, <1>2, SubscriptionAssumption DEF Locks, Removing, telling
<1>4. Ways' BY <1>1, <1>2 DEF Ways, Adding, Removing, java, telling, known
<1>5. Views' BY <1>1 DEF Views, Pending, java, telling, known
<1>6. Overs' BY <1>1 DEF Overs, Pending, java, telling, known
<1>7. ChangeListenersMatch'
  BY <1>1, <1>2 DEF ChangeListenersMatch, Removing, java
<1> QED BY <1>3, <1>4, <1>5, <1>6, <1>7

-----------------------------------------------------------------------------

LEMMA InitInv == Init => IInv
<1> SUFFICES ASSUME Init PROVE IInv OBVIOUS
<1>1. TypeOK BY InitType
<1>2. EventInv
  BY DEF Init, EventInv, OneHandle, Late, Settled, Fresh, Heard
<1>3. Locks BY SubscriptionAssumption DEF Init, Locks, Removing
<1>4. Ways BY DEF Init, Ways, Adding, Removing
<1>5. Views BY DEF Init, Views
<1>6. Overs /\ ChangeListenersMatch BY DEF Init, Overs, ChangeListenersMatch
<1> QED BY <1>1, <1>2, <1>3, <1>4, <1>5, <1>6 DEF IInv, ChangeInv

(* What a thread does to one half leaves the other as it is.               *)
LEMMA EventStep ==
  ASSUME IInv, NEW t \in Thread,
         \/ AddEventListener(t) \/ CreateHandle(t) \/ AddHandle(t) \/ AddToHandler(t)
         \/ \E l \in Listener : RemoveEventListener(t, l)
  PROVE  IInv'
<1> USE DEF IInv
<1>1. TypeOK'
  BY AddEventListenerType, CreateHandleType, AddHandleType, AddToHandlerType,
     RemoveEventListenerType
<1>2. EventInv'
  BY AddEventListenerEvent, CreateHandleEvent, AddHandleEvent, AddToHandlerEvent,
     RemoveEventListenerEvent
<1>3. /\ UNCHANGED <<map, arg, java, telling, known>>
      /\ pc' = pc \/ (pc[t] \notin Change /\ \E w \in PC \ Change : pc' = [pc EXCEPT ![t] = w])
  BY DEF AddEventListener, TryToSetEventListenerHandle, CreateHandle, AddHandle,
         AddToHandler, RemoveEventListener, Goto, Change, PC
<1>4. \A u \in Thread : pc[u] \in Change \/ pc'[u] \in Change => pc'[u] = pc[u]
  BY <1>3 DEF TypeOK
<1> QED BY <1>1, <1>2, <1>3, <1>4, ChangeFrame

LEMMA ChangeStep ==
  ASSUME IInv, NEW t \in Thread,
         \/ ChangeSymbols(t) \/ Close(t) \/ CallListener(t) \/ Release(t)
         \/ AddChangeListener(t) \/ Register(t) \/ RemoveFromJava(t) \/ Erase(t)
         \/ \E l \in Listener : RemoveChangeListener(t, l)
  PROVE  IInv'
<1> USE DEF IInv
<1>1. TypeOK'
  BY ChangeSymbolsType, CloseType, CallListenerType, ReleaseType,
     AddChangeListenerType, RegisterType, RemoveFromJavaType, EraseType,
     RemoveChangeListenerType DEF ChangeInv
<1>2. ChangeInv'
  BY TellChange, CallListenerChange, ReleaseChange, AddChangeListenerChange,
     RegisterChange, RemoveFromJavaChange, EraseChange, RemoveChangeListenerChange
<1>3. UNCHANGED <<cpp, events, batches>>
  BY DEF ChangeSymbols, Close, CallListener, Release, AddChangeListener, Register,
         RemoveFromJava, Erase, RemoveChangeListener
<1>4. pc' = pc \/ (pc[t] \notin Event /\ \E w \in PC \ Event : pc' = [pc EXCEPT ![t] = w])
  <2>1. CASE Release(t)
    <3>1. pc[t] \in {"tell", "added", "remove"} BY <2>1 DEF ChangeInv, Locks, Release
    <3> DEFINE w == CASE pc[t] = "added" -> "register"
                      [] pc[t] = "remove" -> "erase"
                      [] OTHER -> "idle"
    <3>2. w \in PC \ Event /\ pc[t] \notin Event BY <3>1 DEF PC, Event
    <3> QED BY <2>1, <3>2, Zenon DEF Release, Goto
  <2>2. CASE ~Release(t)
    BY <2>2 DEF ChangeSymbols, Close, CallListener, AddChangeListener, Register,
            RemoveFromJava, RemoveThrows, Erase, RemoveChangeListener, Return, Goto,
            Event, PC
  <2> QED BY <2>1, <2>2
<1>5. \A u \in Thread : pc[u] \in Event \/ pc'[u] \in Event => pc'[u] = pc[u]
  BY <1>4 DEF TypeOK
<1> QED BY <1>1, <1>2, <1>3, <1>5, EventFrame

LEMMA JavaStep ==
  ASSUME IInv, Send \/ OnEvents \/ Callback \/ ReEnter PROVE IInv'
<1> USE DEF IInv
<1>1. TypeOK' BY SendType, OnEventsType, CallbackType, ReEnterType
<1>2. CASE Send \/ OnEvents
  <2>1. UNCHANGED <<map, pc, arg, java, telling, known>> BY <1>2 DEF Send, OnEvents
  <2> QED BY <1>1, <1>2, <2>1, SendEvent, OnEventsEvent, ChangeFrame
<1>3. CASE Callback \/ ReEnter
  <2>1. UNCHANGED <<cpp, pc, events, batches>> BY <1>3 DEF Callback, ReEnter
  <2> QED BY <1>1, <1>3, <2>1, CallbackChange, ReEnterChange, EventFrame
<1> QED BY <1>2, <1>3

LEMMA StepInv == IInv /\ [Next]_vars => IInv'
<1> SUFFICES ASSUME IInv, [Next]_vars PROVE IInv' OBVIOUS
<1>1. CASE Next BY <1>1, EventStep, ChangeStep, JavaStep DEF Next, Begin, Continue
<1>2. CASE UNCHANGED vars
  <2> USE DEF IInv
  <2>1. TypeOK' BY <1>2, TypeParts, TypePartsPrime, TypeFrames DEF vars
  <2>2. EventInv' BY <1>2, EventFrame DEF vars
  <2>3. ChangeInv' BY <1>2, ChangeFrame DEF vars
  <2> QED BY <2>1, <2>2, <2>3
<1> QED BY <1>1, <1>2

THEOREM SpecInv == Spec => []IInv
BY InitInv, StepInv, PTL DEF Spec

(* The types of the model's variables.                                     *)
THEOREM SpecTypeOK == Spec => []TypeOK
<1>1. IInv => TypeOK BY DEF IInv
<1> QED BY <1>1, SpecInv, PTL

(* A batch reaches every event listener that was there when it was sent,   *)
(* and no listener twice (tryToSetEventListenerHandle).                    *)
THEOREM SpecEveryBatchOnce == Spec => []EveryBatchOnce
<1>1. IInv => EveryBatchOnce
  <2> SUFFICES ASSUME IInv, NEW b \in Batch, NEW l \in Listener
               PROVE  /\ heard[b][l] <= 1
                      /\ (/\ l \in due[b] \intersect onEvent
                          /\ \A h \in 1..handles : <<b, h>> \notin calls
                          /\ ~Refused) => heard[b][l] = 1
    BY DEF EveryBatchOnce
  <2>1. heard[b][l] <= 1
    <3>1. heard[b][l] = 0 \/ heard[b][l] = 1 BY DEF IInv, EventInv, Heard
    <3> QED BY <3>1
  <2>2. ASSUME l \in due[b] \intersect onEvent,
               \A h \in 1..handles : <<b, h>> \notin calls, ~Refused
        PROVE  heard[b][l] = 1
    <3>1. eventListenerHandle = 1 /\ handles = 1 /\ 1 \in eventListeners
      BY <2>2 DEF IInv, EventInv, OneHandle, Late, Settled, Refused
    <3>2. <<b, 1>> \notin calls BY <2>2, <3>1
    <3> QED BY <2>2, <3>1, <3>2 DEF IInv, EventInv, Heard
  <2> QED BY <2>1, <2>2
<1> QED BY <1>1, SpecInv, PTL

(* The map of change listeners agrees with Java (addChangeListener,        *)
(* removeChangeListener), whatever calls fail.                             *)
THEOREM SpecChangeListenersMatch == Spec => []ChangeListenersMatch
<1>1. IInv => ChangeListenersMatch BY DEF IInv, ChangeInv
<1> QED BY <1>1, SpecInv, PTL

(* Change listeners know the symbols of the subscription whenever nothing  *)
(* is being told to them.                                                  *)
THEOREM SpecListenersAreUpToDate == Spec => []ListenersAreUpToDate
<1>1. IInv => ListenersAreUpToDate
  <2> SUFFICES ASSUME IInv, lock = None
               PROVE  /\ \A l \in listeners : view[l] = symbols /\ l \notin over
                      /\ \A l \in changeListeners \ listeners : l \in over \/ closed
    BY DEF ListenersAreUpToDate
  <2> USE DEF IInv, ChangeInv
  <2>1. todo = {} /\ called = {} /\ added = {} /\ removed = {} BY DEF Locks
  <2>2. \A l \in listeners : view[l] = symbols
    <3>1. \A l \in listeners, s \in Symbol : s \in view[l] <=> s \in symbols
      BY <2>1 DEF Views
    <3>2. \A l \in listeners : view[l] \subseteq Symbol /\ symbols \subseteq Symbol
      BY DEF TypeOK
    <3> QED BY <3>1, <3>2
  <2>3. Pending = {} BY <2>1 DEF Pending
  <2> QED BY <2>2, <2>3 DEF Overs
<1> QED BY <1>1, SpecInv, PTL
-----------------------------------------------------------------------------
(* Who waits for whom: whoever has a mutex is in the call that gives it    *)
(* back, also when a call to Java throws.                                  *)
HolderInv ==
  \A t \in Thread : eventListenerMutex = t => pc[t] \in {"set", "java"}

LEMMA HolderInit == Init => HolderInv
BY SubscriptionAssumption DEF Init, HolderInv

LEMMA HolderStep == IInv /\ HolderInv /\ [Next]_vars => HolderInv'
<1> SUFFICES ASSUME IInv, HolderInv, [Next]_vars PROVE HolderInv' OBVIOUS
<1> USE SubscriptionAssumption DEF cpp
<1>1. /\ pc \in [Thread -> PC] /\ arg \in [Thread -> 0..MaxListeners]
      /\ OneHandle /\ Locks
  BY DEF IInv, TypeOK, EventInv, ChangeInv
<1>2. ASSUME NEW t \in Thread, AddEventListener(t) PROVE HolderInv'
  BY <1>1, <1>2 DEF AddEventListener, TryToSetEventListenerHandle, Goto, HolderInv
<1>3. ASSUME NEW t \in Thread, CreateHandle(t) \/ AddHandle(t) PROVE HolderInv'
  BY <1>1, <1>3 DEF CreateHandle, AddHandle, Unlock, Goto, HolderInv, OneHandle
<1>4. ASSUME NEW t \in Thread, NEW w \in PC, UNCHANGED eventListenerMutex,
             pc[t] \notin {"set", "java"}, pc' = [pc EXCEPT ![t] = w]
      PROVE  HolderInv'
  BY <1>1, <1>4 DEF HolderInv
<1>5. ASSUME UNCHANGED <<eventListenerMutex, pc>> PROVE HolderInv'
  BY <1>5 DEF HolderInv
<1>6. ASSUME NEW t \in Thread, AddToHandler(t) PROVE HolderInv'
  BY <1>4, <1>6 DEF AddToHandler, Goto, PC
<1>7. ASSUME NEW t \in Thread, ChangeSymbols(t) \/ Close(t) PROVE HolderInv'
  BY <1>4, <1>7 DEF ChangeSymbols, Close, Goto, PC
<1>8. ASSUME NEW t \in Thread, AddChangeListener(t) PROVE HolderInv'
  BY <1>4, <1>8 DEF AddChangeListener, Goto, PC
<1>9. ASSUME NEW t \in Thread, Register(t) \/ Erase(t) PROVE HolderInv'
  BY <1>4, <1>9 DEF Register, Erase, Return, Goto, PC
<1>10. ASSUME NEW t \in Thread, NEW l \in Listener,
              RemoveEventListener(t, l) \/ RemoveChangeListener(t, l)
       PROVE  HolderInv'
  BY <1>4, <1>5, <1>10 DEF RemoveEventListener, RemoveChangeListener, Goto, PC
<1>11. ASSUME NEW t \in Thread, RemoveFromJava(t) PROVE HolderInv'
  BY <1>4, <1>5, <1>11 DEF RemoveFromJava, RemoveThrows, Return, Goto, PC
<1>12. ASSUME NEW t \in Thread, CallListener(t) PROVE HolderInv'
  BY <1>5, <1>12 DEF CallListener
<1>13. ASSUME NEW t \in Thread, Release(t) PROVE HolderInv'
  <2>1. pc[t] \in {"tell", "added", "remove"} BY <1>1, <1>13 DEF Locks, Release
  <2> DEFINE w == CASE pc[t] = "added" -> "register"
                    [] pc[t] = "remove" -> "erase"
                    [] OTHER -> "idle"
  <2>2. w \in PC BY <2>1 DEF PC
  <2>3. UNCHANGED eventListenerMutex /\ pc' = [pc EXCEPT ![t] = w]
    BY <1>13, Zenon DEF Release, Goto, cpp
  <2> HIDE DEF w
  <2> QED BY <1>4, <2>1, <2>2, <2>3
<1>14. CASE Send \/ OnEvents \/ Callback \/ ReEnter
  BY <1>5, <1>14 DEF Send, OnEvents, Callback, ReEnter
<1>15. CASE UNCHANGED vars
  BY <1>5, <1>15 DEF vars
<1>16. ASSUME NEW t \in Thread, Begin(t) PROVE HolderInv'
  BY <1>2, <1>7, <1>8, <1>10, <1>16 DEF Begin
<1>17. ASSUME NEW t \in Thread, Continue(t) PROVE HolderInv'
  BY <1>3, <1>6, <1>9, <1>11, <1>12, <1>13, <1>17 DEF Continue
<1> QED BY <1>14, <1>15, <1>16, <1>17 DEF Next

(* A thread is in a call, or a mutex is held that others wait for.         *)
UnderWay ==
  \/ \E t \in Thread : pc[t] # "idle"
  \/ eventListenerMutex # None \/ changeListenersMutex # None \/ lock # None

(* The guards of Continue, with the waits that they contain; where a call  *)
(* to Java begins or ends, it need not throw for the thread to go on.      *)
CanGoOn(t) ==
  \/ pc[t] \in {"set", "java", "plus", "erase"}
  \/ lock = t /\ Waited
  \/ pc[t] = "register" /\ changeListenersMutex = None
  \/ pc[t] = "remove" /\ lock = None

(* A callback is being made, and its thread waits for nobody.              *)
CanReturn == called # {}

NeverStuck == UnderWay => reentered \/ CanReturn \/ \E t \in Thread : CanGoOn(t)

(* The mutexes of a subscription, the lock of the Java subscription and    *)
(* the futures of its change listeners never make everybody wait, however  *)
(* many threads add and remove listeners and change symbols and whatever   *)
(* calls to Java fail, unless a listener has called the subscription that  *)
(* was calling it.                                                         *)
THEOREM NobodyWaitsForEver == Spec => []NeverStuck
<1>1. IInv /\ HolderInv => NeverStuck
  <2> SUFFICES ASSUME IInv, HolderInv, UnderWay, ~CanReturn
               PROVE  \E t \in Thread : CanGoOn(t)
    BY DEF NeverStuck
  <2> USE SubscriptionAssumption
  <2>1. /\ Locks /\ pc \in [Thread -> PC]
        /\ eventListenerMutex \in Thread \union {None}
        /\ changeListenersMutex \in Thread \union {None}
        /\ lock \in Thread \union {None}
    BY DEF IInv, ChangeInv, TypeOK
  <2>2. CASE lock # None
    BY <2>1, <2>2 DEF CanGoOn, CanReturn, Waited
  <2>3. CASE eventListenerMutex # None
    BY <2>1, <2>3 DEF HolderInv, CanGoOn
  <2>4. CASE changeListenersMutex # None /\ lock = None
    BY <2>1, <2>4 DEF Locks, Removing, CanGoOn
  <2>5. CASE changeListenersMutex = None /\ lock = None /\ \E t \in Thread : pc[t] # "idle"
    <3>1. PICK t \in Thread : pc[t] # "idle" BY <2>5
    <3>2. pc[t] \in PC \ {"idle", "tell", "added"}
      BY <2>1, <2>5, <3>1 DEF Locks
    <3> QED BY <2>5, <3>2 DEF PC, CanGoOn
  <2> QED BY <2>2, <2>3, <2>4, <2>5 DEF UnderWay
<1> QED BY <1>1, HolderInit, HolderStep, SpecInv, PTL DEF Spec
============================================================================
