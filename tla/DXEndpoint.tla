----------------------------- MODULE DXEndpoint -----------------------------
(***************************************************************************)
(* Endpoints, their builders and their C API (src/api/DXEndpoint.cpp): how *)
(* endpoints get their names, the instance of each role, and the listeners *)
(* of the C API.  The Java endpoint behind each one only matters here as   *)
(* the source of state changes; ids of EntityManager are never used again, *)
(* so that builders, endpoints and handles are sequences indexed by id.    *)
(***************************************************************************)
EXTENDS Integers, Sequences, FiniteSets

CONSTANTS
  Clients,        \* threads
  None,           \* no client, no listener, nothing
  Roles,
  DefaultRole,    \* FEED
  Callbacks,      \* functions of type dxfc_dxendpoint_state_change_listener
  MaxBuilders,    \* bound: builders ever made
  MaxEndpoints,   \* bound: endpoints ever made
  MaxHandles,     \* bound: C handles ever made
  MaxListeners,   \* bound: listeners ever added
  MaxChanges      \* bound: state changes

ASSUME DXEndpointAssumption ==
  /\ IsFiniteSet(Clients)
  /\ DefaultRole \in Roles
  /\ {MaxBuilders, MaxEndpoints, MaxHandles, MaxListeners, MaxChanges} \subseteq Nat

VARIABLES
  builders,      \* EntityManager<Builder>
  endpoints,     \* EntityManager<DXEndpoint>; its length is lastId_
  instances,     \* Registry::instances: the endpoint of a role, or 0
  registry,      \* Registry::mutex: the client that holds it, or None
  call,          \* what each client is building, or None
  handles,       \* EntityManager<EndpointWrapper>
  listeners,     \* the listeners of each endpoint's onStateChange_
  lastListener,  \* lastId_ of the handlers
  todo,          \* listeners still to be told of a state change, by endpoint
  changing,      \* endpoints whose handler's mutex a notification holds
  changes,       \* how many state changes there were
  called         \* history: the listener called last, or None

vars == <<builders, endpoints, instances, registry, call, handles, listeners,
          lastListener, todo, changing, changes, called>>

buildVars == <<builders, endpoints, instances, registry, call>>
listenerVars == <<handles, listeners, lastListener>>
changeVars == <<todo, changing, changes, called>>

\* A name is Unnamed, one the user gave, or the default name with its number.
Unnamed == -1
Given   == 0
Name    == -1..MaxEndpoints

Builder  == [role : Roles, name : Name, by : Clients, live : BOOLEAN]
Endpoint == [role : Roles, name : Name, singleton : BOOLEAN]

\* table is EndpointWrapper::listeners; installed is history: the callbacks
\* its user added, successfully, and did not remove.
Handle == [endpoint : 1..MaxEndpoints, by : Clients, live : BOOLEAN,
           table : [Callbacks -> 0..MaxListeners], installed : SUBSET Callbacks]

Listener == [id : 1..MaxListeners, handle : 1..MaxHandles, callback : Callbacks]

ASSUME NoneAssumption == None \notin Clients \union Endpoint \union Listener

TypeOK ==
  /\ builders \in Seq(Builder) /\ Len(builders) <= MaxBuilders
  /\ endpoints \in Seq(Endpoint) /\ Len(endpoints) <= MaxEndpoints
  /\ instances \in [Roles -> 0..MaxEndpoints]
  /\ registry \in Clients \union {None}
  /\ call \in [Clients -> {None} \union Endpoint]
  /\ handles \in Seq(Handle) /\ Len(handles) <= MaxHandles
  /\ listeners \in [1..MaxEndpoints -> SUBSET Listener]
  /\ lastListener \in 0..MaxListeners
  /\ todo \in [1..MaxEndpoints -> SUBSET Listener]
  /\ changing \subseteq 1..MaxEndpoints
  /\ changes \in 0..MaxChanges
  /\ called \in Listener \union {None}

Init ==
  /\ builders = <<>> /\ endpoints = <<>> /\ handles = <<>>
  /\ instances = [r \in Roles |-> 0]
  /\ registry = None
  /\ call = [c \in Clients |-> None]
  /\ listeners = [e \in 1..MaxEndpoints |-> {}]
  /\ lastListener = 0
  /\ todo = [e \in 1..MaxEndpoints |-> {}]
  /\ changing = {}
  /\ changes = 0
  /\ called = None

-----------------------------------------------------------------------------
(***************************************************************************)
(* Builders.  They are not thread-safe: each has one client that uses it.  *)
(***************************************************************************)
MyBuilder(c, b) == call[c] = None /\ builders[b].by = c /\ builders[b].live

NewBuilder(c) ==
  /\ call[c] = None
  /\ Len(builders) < MaxBuilders
  /\ builders' = Append(builders,
       [role |-> DefaultRole, name |-> Unnamed, by |-> c, live |-> TRUE])
  /\ UNCHANGED <<endpoints, instances, registry, call, listenerVars, changeVars>>

WithRole(c, b, r) ==
  /\ MyBuilder(c, b)
  /\ builders' = [builders EXCEPT ![b].role = r]
  /\ UNCHANGED <<endpoints, instances, registry, call, listenerVars, changeVars>>

WithName(c, b) ==
  /\ MyBuilder(c, b)
  /\ builders' = [builders EXCEPT ![b].name = Given]
  /\ UNCHANGED <<endpoints, instances, registry, call, listenerVars, changeVars>>

FreeBuilder(c, b) ==
  /\ MyBuilder(c, b)
  /\ builders' = [builders EXCEPT ![b].live = FALSE]
  /\ UNCHANGED <<endpoints, instances, registry, call, listenerVars, changeVars>>

-----------------------------------------------------------------------------
(***************************************************************************)
(* build() chooses the name and registers the endpoint in two steps: the   *)
(* Java endpoint is built in between.  Endpoints being built count towards *)
(* the bounds.                                                             *)
(***************************************************************************)
Building == {c \in Clients : call[c] # None}

RoomForOneMore ==
  /\ Len(endpoints) + Cardinality(Building) < MaxEndpoints
  /\ Len(handles) + Cardinality(Building) < MaxHandles

\* Mutant: the number is one too high.
NameFor_Next(name) == IF name = Unnamed THEN Len(endpoints) + 2 ELSE name

NameFor(name) == IF name = Unnamed THEN Len(endpoints) + 1 ELSE name

StartsBuilding(c, role, name, singleton) ==
  /\ RoomForOneMore
  /\ call' = [call EXCEPT ![c] =
                [role |-> role, name |-> NameFor(name), singleton |-> singleton]]

\* withProperty() leaves the chosen name in the builder.
Build(c, b) ==
  /\ MyBuilder(c, b)
  /\ StartsBuilding(c, builders[b].role, builders[b].name, FALSE)
  /\ builders' = [builders EXCEPT ![b].name = NameFor(@)]
  /\ UNCHANGED <<endpoints, instances, registry, listenerVars, changeVars>>

Create(c, r) ==
  /\ call[c] = None
  /\ StartsBuilding(c, r, Unnamed, FALSE)
  /\ UNCHANGED <<builders, endpoints, instances, registry, listenerVars, changeVars>>

NewHandle(c, e) ==
  handles' = Append(handles,
    [endpoint |-> e, by |-> c, live |-> TRUE,
     table |-> [f \in Callbacks |-> 0], installed |-> {}])

GetInstance(c, r) ==
  /\ call[c] = None
  /\ registry = None
  /\ instances[r] # 0
  /\ Len(handles) + Cardinality(Building) < MaxHandles
  /\ NewHandle(c, instances[r])
  /\ UNCHANGED <<buildVars, listeners, lastListener, changeVars>>

\* Mutant: the mutex is released before the endpoint is created.
MakeInstance_Unlocked(c, r) ==
  /\ call[c] = None
  /\ registry = None
  /\ instances[r] = 0
  /\ StartsBuilding(c, r, Unnamed, TRUE)
  /\ UNCHANGED <<builders, endpoints, instances, registry, listenerVars, changeVars>>

MakeInstance(c, r) ==
  /\ call[c] = None
  /\ registry = None
  /\ instances[r] = 0
  /\ StartsBuilding(c, r, Unnamed, TRUE)
  /\ registry' = c
  /\ UNCHANGED <<builders, endpoints, instances, listenerVars, changeVars>>

\* Nothing of another thread can come between the rest: the endpoint is
\* registered, listens to its Java endpoint and gets its handle.
Built(c) ==
  LET e  == call[c]
      id == Len(endpoints) + 1
  IN /\ e # None
     /\ endpoints' = Append(endpoints, e)
     /\ instances' = IF e.singleton THEN [instances EXCEPT ![e.role] = id] ELSE instances
     /\ registry' = IF e.singleton THEN None ELSE registry
     /\ NewHandle(c, id)
     /\ call' = [call EXCEPT ![c] = None]
     /\ UNCHANGED <<builders, listeners, lastListener, changeVars>>

-----------------------------------------------------------------------------
(***************************************************************************)
(* Listeners of the C API.  The table of a handle has no lock: each handle *)
(* has one client that uses it.  The endpoint's handler has one, which a   *)
(* notification holds while it calls the listeners.                        *)
(***************************************************************************)
MyHandle(c, h) == call[c] = None /\ handles[h].by = c /\ handles[h].live

InTable(h, f) == handles[h].table[f] # 0

\* Mutant: a callback that is in the table is added again.
AddListener_Twice(c, h, f) ==
  /\ MyHandle(c, h)
  /\ handles[h].endpoint \notin changing
  /\ lastListener < MaxListeners
  /\ lastListener' = lastListener + 1
  /\ listeners' = [listeners EXCEPT ![handles[h].endpoint] =
                     @ \union {[id |-> lastListener', handle |-> h, callback |-> f]}]
  /\ handles' = [handles EXCEPT ![h].table[f] = lastListener',
                                ![h].installed = @ \union {f}]
  /\ UNCHANGED <<buildVars, changeVars>>

AddListener(c, h, f) ==
  /\ MyHandle(c, h)
  /\ ~ InTable(h, f)
  /\ handles[h].endpoint \notin changing
  /\ lastListener < MaxListeners
  /\ lastListener' = lastListener + 1
  /\ listeners' = [listeners EXCEPT ![handles[h].endpoint] =
                     @ \union {[id |-> lastListener', handle |-> h, callback |-> f]}]
  /\ handles' = [handles EXCEPT ![h].table[f] = lastListener',
                                ![h].installed = @ \union {f}]
  /\ UNCHANGED <<buildVars, changeVars>>

\* DXFC_EC_SUCCESS is returned, and nothing is done.
AddAgain(c, h, f) ==
  /\ MyHandle(c, h)
  /\ InTable(h, f)
  /\ handles' = [handles EXCEPT ![h].installed = @ \union {f}]
  /\ UNCHANGED <<buildVars, listeners, lastListener, changeVars>>

\* Mutant: the handler's mutex is not taken.
RemoveListener_NoLock(c, h, f) ==
  LET e == handles[h].endpoint IN
  /\ MyHandle(c, h)
  /\ InTable(h, f)
  /\ listeners' = [listeners EXCEPT ![e] = {l \in @ : l.id # handles[h].table[f]}]
  /\ handles' = [handles EXCEPT ![h].installed = @ \ {f}]
  /\ UNCHANGED <<buildVars, lastListener, changeVars>>

\* The entry of the table stays.
RemoveListener(c, h, f) ==
  LET e == handles[h].endpoint IN
  /\ MyHandle(c, h)
  /\ InTable(h, f)
  /\ e \notin changing
  /\ listeners' = [listeners EXCEPT ![e] = {l \in @ : l.id # handles[h].table[f]}]
  /\ handles' = [handles EXCEPT ![h].installed = @ \ {f}]
  /\ UNCHANGED <<buildVars, lastListener, changeVars>>

\* dxfc_dxendpoint_free() only takes the handle out of the registry.
Free(c, h) ==
  /\ MyHandle(c, h)
  /\ handles' = [handles EXCEPT ![h].live = FALSE]
  /\ UNCHANGED <<buildVars, listeners, lastListener, changeVars>>

-----------------------------------------------------------------------------
(***************************************************************************)
(* State changes: the Java endpoint calls back, and the handler calls the  *)
(* listeners one after another under its mutex.                            *)
(***************************************************************************)
StateChanges(e) ==
  /\ e \in DOMAIN endpoints
  /\ e \notin changing
  /\ changes < MaxChanges
  /\ changes' = changes + 1
  /\ changing' = changing \union {e}
  /\ todo' = [todo EXCEPT ![e] = listeners[e]]
  /\ called' = None
  /\ UNCHANGED <<buildVars, listenerVars>>

CallListener(e, l) ==
  /\ l \in todo[e]
  /\ todo' = [todo EXCEPT ![e] = @ \ {l}]
  /\ called' = l
  /\ UNCHANGED <<buildVars, listenerVars, changing, changes>>

ChangeEnds(e) ==
  /\ e \in changing
  /\ todo[e] = {}
  /\ changing' = changing \ {e}
  /\ UNCHANGED <<buildVars, listenerVars, todo, changes, called>>

-----------------------------------------------------------------------------
BuilderStep(c) ==
  \/ NewBuilder(c)
  \/ \E b \in DOMAIN builders :
       \/ \E r \in Roles : WithRole(c, b, r)
       \/ WithName(c, b)
       \/ FreeBuilder(c, b)
       \/ Build(c, b)

EndpointStep(c) ==
  \/ \E r \in Roles : Create(c, r) \/ GetInstance(c, r) \/ MakeInstance(c, r)
  \/ Built(c)

ListenerStep(c) ==
  \E h \in DOMAIN handles :
    \/ \E f \in Callbacks : AddListener(c, h, f) \/ AddAgain(c, h, f) \/ RemoveListener(c, h, f)
    \/ Free(c, h)

ChangeStep ==
  \E e \in 1..MaxEndpoints :
    StateChanges(e) \/ ChangeEnds(e) \/ \E l \in todo[e] : CallListener(e, l)

Next ==
  \/ \E c \in Clients : BuilderStep(c) \/ EndpointStep(c) \/ ListenerStep(c)
  \/ ChangeStep

Spec == Init /\ [][Next]_vars
=============================================================================
