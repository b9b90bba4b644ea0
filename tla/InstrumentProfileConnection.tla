-------------------- MODULE InstrumentProfileConnection --------------------
(***************************************************************************)
(* One InstrumentProfileConnection beside the collector it feeds. It has   *)
(* one Java listener, whose user data is its id: a change of the state     *)
(* looks the connection up among the registered ones and calls its         *)
(* listeners; after CLOSED the connection is no longer registered.         *)
(*                                                                         *)
(* Java is external: start() and close() change the state in the thread    *)
(* that calls them, the rest happens in others, and each thread delivers   *)
(* its own changes.                                                        *)
(***************************************************************************)
EXTENDS InstrumentProfileCollector, Sequences

CONSTANTS
  MaxStateListeners,  \* ids of listeners of the state
  MaxChanges          \* bound: changes of the state

ASSUME ConnectionAssumption ==
  MaxStateListeners \in Nat /\ MaxChanges \in Nat

VARIABLES
  connection,      \* "none", "open", or "failed"
  registered,      \* is it in the EntityManager?
  stateListeners,  \* ids in onStateChange_
  lastStateId,     \* last listener's id
  stateOwner,      \* change whose listeners are called, or 0
  changes,         \* states there have been since the first
  delivery,        \* where the delivery of each change is
  stateDue,        \* listeners when the state changed
  stateHeard,      \* <<k, l>>: l has heard of change k
  stuck            \* a listener waits for the handler that is calling it

listening == <<stateListeners, lastStateId>>
delivering == <<delivery, stateOwner, stateHeard>>
connectionVars == <<connection, registered, listening, delivering, changes,
                    stateDue, stuck>>

StateListener == 1..MaxStateListeners
Change == 1..MaxChanges
State  == {"NOT_CONNECTED", "CONNECTING", "CONNECTED", "COMPLETED", "CLOSED"}

ConnectionInit ==
  /\ connection = "none" /\ registered = FALSE
  /\ stateListeners = {} /\ lastStateId = 0 /\ stateOwner = 0
  /\ changes = <<>>
  /\ delivery = [k \in Change |-> "none"]
  /\ stateDue = [k \in Change |-> {}]
  /\ stateHeard = {}
  /\ stuck = FALSE

getState == IF changes = <<>> THEN "NOT_CONNECTED" ELSE changes[Len(changes)]

-----------------------------------------------------------------------------

(* createConnection registers the connection before three calls to Java.   *)
(* If one fails, what is registered stays so, and nobody can reach it.     *)
CreateConnection ==
  /\ connection = "none" /\ collectors > 0
  /\ registered' = TRUE
  /\ connection' \in {"open", "failed"}
  /\ UNCHANGED <<listening, delivering, changes, stateDue, stuck>>

(* onStateChange_ += listener; there is an id left, or nothing happens.    *)
AddStateChangeListener ==
  /\ connection = "open" /\ stateOwner = 0
  /\ lastStateId < MaxStateListeners
  /\ lastStateId' = lastStateId + 1
  /\ stateListeners' = stateListeners \union {lastStateId + 1}
  /\ UNCHANGED <<connection, registered, delivering, changes, stateDue, stuck>>

RemoveStateChangeListener(l) ==
  /\ stateOwner = 0 /\ l \in stateListeners
  /\ stateListeners' = stateListeners \ {l}
  /\ UNCHANGED <<connection, registered, lastStateId, delivering, changes,
                 stateDue, stuck>>

(* The state of the Java connection changes.                               *)
Becomes(state) ==
  /\ connection = "open" /\ Len(changes) < MaxChanges
  /\ changes' = Append(changes, state)
  /\ delivery' = [delivery EXCEPT ![Len(changes) + 1] = "fired"]
  /\ stateDue' = [stateDue EXCEPT ![Len(changes) + 1] = stateListeners]
  /\ UNCHANGED <<connection, registered, listening, stateOwner, stateHeard>>

Start ==
  /\ getState = "NOT_CONNECTED"
  /\ Becomes("CONNECTING")
  /\ UNCHANGED stuck

(* The Java connection is established, dropped or has read all profiles.   *)
Proceed ==
  /\ \/ getState = "CONNECTING" /\ Becomes("CONNECTED")
     \/ getState = "CONNECTED" /\ Becomes("CONNECTING")
     \/ getState = "CONNECTED" /\ Becomes("COMPLETED")
  /\ UNCHANGED stuck

(* close(). A listener that closes the connection is called again, in this *)
(* call, by a thread that waits for the mutex under which it is called.    *)
Close ==
  /\ getState # "CLOSED"
  /\ Becomes("CLOSED")
  /\ stuck' \in {stuck, stateOwner # 0}

\* Mutant: a closed connection is forgotten before its listeners are called.
OnStateChange_Forgets(k) ==
  /\ delivery[k] = "fired"
  /\ delivery' = [delivery EXCEPT ![k] = IF registered THEN "found" ELSE "dropped"]
  /\ registered' = (registered /\ changes[k] # "CLOSED")
  /\ UNCHANGED <<connection, listening, stateOwner, stateHeard, changes, stateDue,
                 stuck>>

(* onStateChange looks the connection up, ...                              *)
OnStateChange(k) ==
  /\ delivery[k] = "fired"
  /\ delivery' = [delivery EXCEPT ![k] = IF registered THEN "found" ELSE "dropped"]
  /\ UNCHANGED <<connection, registered, listening, stateOwner, stateHeard, changes,
                 stateDue, stuck>>

(* ... calls its listeners in another thread, under the handler's mutex,   *)
CallStateListeners(k) ==
  /\ delivery[k] = "found" /\ stateOwner = 0
  /\ stateOwner' = k
  /\ UNCHANGED <<connection, registered, listening, delivery, stateHeard, changes,
                 stateDue, stuck>>

StateListenersReturn(k) ==
  /\ stateOwner = k /\ ~stuck
  /\ stateOwner' = 0
  /\ stateHeard' = stateHeard \union ({k} \X stateListeners)
  /\ delivery' = [delivery EXCEPT ![k] = "heard"]
  /\ UNCHANGED <<connection, registered, listening, changes, stateDue, stuck>>

\* Mutant: the old state is compared.
Unregister_Old(k) ==
  /\ delivery[k] = "heard"
  /\ delivery' = [delivery EXCEPT ![k] = "done"]
  /\ registered' = (registered /\ (k = 1 \/ changes[k - 1] # "CLOSED"))
  /\ UNCHANGED <<connection, listening, stateOwner, stateHeard, changes, stateDue,
                 stuck>>

(* ... and waits for it; a closed connection is not registered any more.   *)
Unregister(k) ==
  /\ delivery[k] = "heard"
  /\ delivery' = [delivery EXCEPT ![k] = "done"]
  /\ registered' = (registered /\ changes[k] # "CLOSED")
  /\ UNCHANGED <<connection, listening, stateOwner, stateHeard, changes, stateDue,
                 stuck>>

-----------------------------------------------------------------------------

Deliver(k) ==
  \/ OnStateChange(k) \/ CallStateListeners(k)
  \/ StateListenersReturn(k) \/ Unregister(k)

ConnectionNext ==
  \/ CreateConnection \/ AddStateChangeListener
  \/ \E l \in StateListener : RemoveStateChangeListener(l)
  \/ Start \/ Proceed \/ Close
  \/ \E k \in Change : Deliver(k)

allVars == <<vars, connectionVars>>

AllNext ==
  \/ Next /\ UNCHANGED connectionVars
  \/ ConnectionNext /\ UNCHANGED vars

AllInit == Init /\ ConnectionInit

AllSpec == AllInit /\ [][AllNext]_allVars

(* Java delivers what it began, and a thread that waits for the handler's  *)
(* mutex gets it.                                                          *)
ConnectionFairness == \A k \in Change : SF_connectionVars(Deliver(k))

-----------------------------------------------------------------------------

(* A listener misses a change of the state only when it has heard that the *)
(* connection is closed: changes that Java delivers late or out of order   *)
(* are not lost because the connection is forgotten too early.             *)
StateChangesHeard ==
  \A k \in Change : delivery[k] \in {"heard", "done", "dropped"} =>
    \A l \in stateDue[k] \intersect stateListeners :
      \/ <<k, l>> \in stateHeard
      \/ \E j \in 1..Len(changes) :
           changes[j] = "CLOSED" /\ <<j, l>> \in stateHeard

(* A connection that is closed is forgotten in the end, so that nothing    *)
(* keeps it alive, unless one of its listeners has closed it.              *)
ClosedIsForgotten == getState = "CLOSED" ~> (~registered \/ stuck)
=============================================================================
