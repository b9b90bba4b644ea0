-------------------------- MODULE DXEndpointProofs --------------------------
(***************************************************************************)
(* Proofs about DXEndpoint for any clients, roles, callbacks and bounds.   *)
(***************************************************************************)
EXTENDS DXEndpointProperties, SequenceTheorems, FiniteSetTheorems, TLAPS

\* A thread that makes an instance holds the registry's mutex and will fill
\* an empty place.
MakersInv ==
  \A c \in Clients : call[c] # None /\ call[c].singleton =>
    registry = c /\ instances[call[c].role] = 0

\* There is room for the endpoints being built.
RoomInv ==
  /\ Len(endpoints) + Cardinality(Building) <= MaxEndpoints
  /\ Len(handles) + Cardinality(Building) <= MaxHandles

InstanceInv == TypeOK /\ RoomInv /\ OneInstancePerRole /\ MakersInv

\* Whether its handle is still alive or not, a listener is the one its table
\* names, and its user has not removed it; a notification calls listeners
\* that are still there.
ListenerInv ==
  \A e \in 1..MaxEndpoints :
    /\ \A l \in listeners[e] :
         /\ l.handle \in DOMAIN handles
         /\ handles[l.handle].endpoint = e
         /\ handles[l.handle].table[l.callback] = l.id
         /\ l.callback \in handles[l.handle].installed
    /\ todo[e] \subseteq listeners[e]
    /\ e \notin changing => todo[e] = {}

LEMMA InitOK == Init => InstanceInv /\ ListenerInv
<1> SUFFICES ASSUME Init PROVE InstanceInv /\ ListenerInv
  OBVIOUS
<1>1. Building = {} /\ Cardinality(Building) = 0
  BY FS_EmptySet DEF Init, Building
<1> QED
  BY <1>1, DXEndpointAssumption
     DEF Init, InstanceInv, TypeOK, RoomInv, OneInstancePerRole, MakersInv, ListenerInv, Name

LEMMA ElementType ==
  ASSUME NEW S, NEW s \in Seq(S), NEW i \in DOMAIN s
  PROVE  s[i] \in S
OBVIOUS

LEMMA BuildingFinite ==
  IsFiniteSet(Building) /\ Cardinality(Building) \in Nat
BY DXEndpointAssumption, FS_Subset, FS_CardinalityType DEF Building

\* A new handle has the right type.
LEMMA NewHandleType ==
  ASSUME TypeOK, NEW c \in Clients, NEW e \in 1..MaxEndpoints,
         Len(handles) < MaxHandles, NewHandle(c, e)
  PROVE  /\ handles' \in Seq(Handle) /\ Len(handles') = Len(handles) + 1
         /\ \A h \in DOMAIN handles : h \in DOMAIN handles' /\ handles'[h] = handles[h]
<1> DEFINE new == [endpoint |-> e, by |-> c, live |-> TRUE,
                   table |-> [f \in Callbacks |-> 0], installed |-> {}]
<1>1. new \in Handle
  BY DXEndpointAssumption DEF Handle
<1>2. handles' = Append(handles, new)
  BY DEF NewHandle
<1>3. handles \in Seq(Handle)
  BY DEF TypeOK
<1> HIDE DEF new
<1> QED
  BY <1>1, <1>2, <1>3

\* A client that starts to build has a name of the right type, and there is
\* still room for the others.
LEMMA NewCallType ==
  ASSUME TypeOK, NEW c \in Clients, NEW r \in Roles, NEW n \in Name, NEW s \in BOOLEAN,
         call[c] = None, StartsBuilding(c, r, n, s), UNCHANGED <<endpoints, handles>>
  PROVE  /\ NameFor(n) \in Name
         /\ call'[c] = [role |-> r, name |-> NameFor(n), singleton |-> s]
         /\ \A d \in Clients : d # c => call'[d] = call[d]
         /\ call' \in [Clients -> {None} \union Endpoint]
         /\ RoomInv'
<1> DEFINE new == [role |-> r, name |-> NameFor(n), singleton |-> s]
<1>1. Len(endpoints) \in Nat /\ Len(handles) \in Nat /\ MaxEndpoints \in Nat /\ MaxHandles \in Nat
  BY DXEndpointAssumption DEF TypeOK
<1>2. /\ Len(endpoints) + Cardinality(Building) < MaxEndpoints
      /\ Len(handles) + Cardinality(Building) < MaxHandles
      /\ call' = [call EXCEPT ![c] = new]
  BY DEF StartsBuilding, RoomForOneMore
<1>3. NameFor(n) \in Name
  BY <1>1, <1>2, BuildingFinite DEF NameFor, Name
<1>4. new \in Endpoint
  BY <1>3 DEF Endpoint
<1> HIDE DEF new
<1>5. /\ call' \in [Clients -> {None} \union Endpoint] /\ call'[c] = new
      /\ \A d \in Clients : d # c => call'[d] = call[d]
  BY <1>2, <1>4 DEF TypeOK
<1>6. Building' = Building \union {c}
  BY <1>4, <1>5, NoneAssumption DEF Building
<1>7. Cardinality(Building') = Cardinality(Building) + 1
  BY <1>6, BuildingFinite, FS_AddElement DEF Building
<1> QED
  BY <1>1, <1>2, <1>3, <1>5, <1>7, BuildingFinite DEF RoomInv, new

\* Builders come, change and go.
LEMMA BuilderStepInv ==
  ASSUME InstanceInv, NEW c \in Clients,
         \/ NewBuilder(c)
         \/ \E b \in DOMAIN builders :
              (\E r \in Roles : WithRole(c, b, r)) \/ WithName(c, b) \/ FreeBuilder(c, b)
  PROVE  InstanceInv'
<1>1. builders' \in Seq(Builder) /\ Len(builders') <= MaxBuilders
  <2>1. CASE NewBuilder(c)
    <3> DEFINE new == [role |-> DefaultRole, name |-> Unnamed, by |-> c, live |-> TRUE]
    <3>1. new \in Builder
      BY DXEndpointAssumption DEF Builder, Name, Unnamed
    <3>2. builders' = Append(builders, new) /\ builders \in Seq(Builder)
          /\ Len(builders) < MaxBuilders /\ MaxBuilders \in Nat
      BY <2>1, DXEndpointAssumption DEF NewBuilder, InstanceInv, TypeOK
    <3> HIDE DEF new
    <3> QED
      BY <3>1, <3>2
  <2>2. ASSUME NEW b \in DOMAIN builders, NEW r \in Roles, WithRole(c, b, r)
        PROVE  builders' \in Seq(Builder) /\ Len(builders') = Len(builders)
    <3>0. builders \in Seq(Builder) /\ builders[b] \in Builder
      BY ElementType DEF InstanceInv, TypeOK
    <3>1. [builders[b] EXCEPT !.role = r] \in Builder
      BY <3>0 DEF Builder
    <3>2. builders' = [builders EXCEPT ![b] = [builders[b] EXCEPT !.role = r]]
      BY <2>2 DEF WithRole
    <3> QED
      BY <3>0, <3>1, <3>2
  <2>3. ASSUME NEW b \in DOMAIN builders, WithName(c, b)
        PROVE  builders' \in Seq(Builder) /\ Len(builders') = Len(builders)
    <3>0. builders \in Seq(Builder) /\ builders[b] \in Builder
      BY ElementType DEF InstanceInv, TypeOK
    <3>3. Given \in Name
      BY DXEndpointAssumption DEF Name, Given
    <3>1. [builders[b] EXCEPT !.name = Given] \in Builder
      BY <3>0, <3>3 DEF Builder
    <3>2. builders' = [builders EXCEPT ![b] = [builders[b] EXCEPT !.name = Given]]
      BY <2>3 DEF WithName
    <3> QED
      BY <3>0, <3>1, <3>2
  <2>4. ASSUME NEW b \in DOMAIN builders, FreeBuilder(c, b)
        PROVE  builders' \in Seq(Builder) /\ Len(builders') = Len(builders)
    <3>0. builders \in Seq(Builder) /\ builders[b] \in Builder
      BY ElementType DEF InstanceInv, TypeOK
    <3>1. [builders[b] EXCEPT !.live = FALSE] \in Builder
      BY <3>0 DEF Builder
    <3>2. builders' = [builders EXCEPT ![b] = [builders[b] EXCEPT !.live = FALSE]]
      BY <2>4 DEF FreeBuilder
    <3> QED
      BY <3>0, <3>1, <3>2
  <2> QED
    BY <2>1, <2>2, <2>3, <2>4 DEF InstanceInv, TypeOK
<1>2. UNCHANGED <<endpoints, instances, registry, call, handles, listeners, lastListener,
                  todo, changing, changes, called>>
  BY DEF NewBuilder, WithRole, WithName, FreeBuilder, listenerVars, changeVars
<1> QED
  BY <1>1, <1>2 DEF InstanceInv, TypeOK, RoomInv, OneInstancePerRole, MakersInv, Building

\* build() begins, with a builder of the client, one of create() or one of
\* getInstance(). The last one only begins where there is no instance.
LEMMA BuildInv ==
  ASSUME InstanceInv, NEW c \in Clients,
         \/ \E b \in DOMAIN builders : Build(c, b)
         \/ \E r \in Roles : Create(c, r) \/ MakeInstance(c, r)
  PROVE  InstanceInv'
<1> USE DEF InstanceInv
<1>1. ASSUME NEW b \in DOMAIN builders, Build(c, b)
      PROVE  InstanceInv'
  <2>1. builders \in Seq(Builder) /\ builders[b] \in Builder /\ call[c] = None
    BY <1>1, ElementType DEF Build, MyBuilder, TypeOK
  <2>2. builders[b].role \in Roles /\ builders[b].name \in Name
    BY <2>1 DEF Builder
  <2>3. /\ StartsBuilding(c, builders[b].role, builders[b].name, FALSE)
        /\ UNCHANGED <<endpoints, instances, registry, handles, listeners, lastListener,
                       todo, changing, changes, called>>
    BY <1>1 DEF Build, listenerVars, changeVars
  <2>4. /\ NameFor(builders[b].name) \in Name
        /\ call'[c] = [role |-> builders[b].role, name |-> NameFor(builders[b].name),
                       singleton |-> FALSE]
        /\ \A d \in Clients : d # c => call'[d] = call[d]
        /\ call' \in [Clients -> {None} \union Endpoint]
        /\ RoomInv'
    BY <2>1, <2>2, <2>3, NewCallType
  <2>5. builders' \in Seq(Builder) /\ Len(builders') = Len(builders)
    <3> DEFINE new == [builders[b] EXCEPT !.name = NameFor(builders[b].name)]
    <3>1. new \in Builder
      BY <2>1, <2>4 DEF Builder
    <3>2. builders' = [builders EXCEPT ![b] = new]
      BY <1>1 DEF Build
    <3> HIDE DEF new
    <3> QED
      BY <2>1, <3>1, <3>2
  <2>6. ~ call'[c].singleton
    BY <2>4
  <2> QED
    BY <2>3, <2>4, <2>5, <2>6 DEF TypeOK, OneInstancePerRole, MakersInv
<1>2. ASSUME NEW r \in Roles, Create(c, r) \/ MakeInstance(c, r)
      PROVE  InstanceInv'
  <2>1. PICK t \in BOOLEAN : StartsBuilding(c, r, Unnamed, t)
                             /\ (t => registry' = c /\ registry = None /\ instances[r] = 0)
                             /\ (~ t => registry' = registry)
    BY <1>2 DEF Create, MakeInstance
  <2>0. Unnamed \in Name
    BY DXEndpointAssumption DEF Unnamed, Name
  <2>2. /\ call[c] = None
        /\ UNCHANGED <<builders, endpoints, instances, handles, listeners, lastListener,
                       todo, changing, changes, called>>
    BY <1>2 DEF Create, MakeInstance, listenerVars, changeVars
  <2>3. /\ call'[c] = [role |-> r, name |-> NameFor(Unnamed), singleton |-> t]
        /\ \A d \in Clients : d # c => call'[d] = call[d]
        /\ call' \in [Clients -> {None} \union Endpoint]
        /\ RoomInv'
    BY <2>0, <2>1, <2>2, NewCallType
  <2>4. call'[c].role = r /\ call'[c].singleton = t
    BY <2>3
  <2>5. t => \A d \in Clients : call[d] # None => ~ call[d].singleton
    BY <2>1, NoneAssumption DEF MakersInv
  <2>6. registry' \in Clients \union {None}
    BY <2>1 DEF TypeOK
  <2>7. MakersInv'
    BY <2>1, <2>2, <2>3, <2>4, <2>5 DEF MakersInv
  <2> QED
    BY <2>2, <2>3, <2>6, <2>7 DEF TypeOK, OneInstancePerRole
<1> QED
  BY <1>1, <1>2

LEMMA GetInstanceInv ==
  ASSUME InstanceInv, NEW c \in Clients, NEW r \in Roles, GetInstance(c, r)
  PROVE  InstanceInv'
<1> USE DEF InstanceInv
<1>1. instances[r] \in 1..MaxEndpoints /\ Len(handles) + Cardinality(Building) < MaxHandles
      /\ NewHandle(c, instances[r])
  BY DXEndpointAssumption DEF GetInstance, TypeOK
<1>2. Len(handles) \in Nat /\ MaxHandles \in Nat /\ Len(handles) < MaxHandles
  BY <1>1, BuildingFinite, DXEndpointAssumption DEF TypeOK
<1>3. handles' \in Seq(Handle) /\ Len(handles') = Len(handles) + 1
  BY <1>1, <1>2, NewHandleType
<1>4. UNCHANGED <<builders, endpoints, instances, registry, call, listeners, lastListener,
                  todo, changing, changes, called>>
  BY DEF GetInstance, buildVars, changeVars
<1>5. Building' = Building
  BY <1>4 DEF Building
<1> QED
  BY <1>1, <1>2, <1>3, <1>4, <1>5, BuildingFinite
     DEF TypeOK, RoomInv, OneInstancePerRole, MakersInv

LEMMA BuiltInv ==
  ASSUME InstanceInv, NEW c \in Clients, Built(c)
  PROVE  InstanceInv'
<1> USE DEF InstanceInv
<1> DEFINE e  == call[c]
           id == Len(endpoints) + 1
<1>1. e \in Endpoint /\ endpoints \in Seq(Endpoint) /\ id \in Nat
  BY DEF Built, TypeOK
<1>2. c \in Building /\ call' = [call EXCEPT ![c] = None]
  BY DEF Built, Building
<1>3. Building' = Building \ {c}
  BY <1>2 DEF Building, TypeOK
<1>4. Cardinality(Building') = Cardinality(Building) - 1 /\ Cardinality(Building) >= 1
  <2>1. Cardinality(Building') = Cardinality(Building) - 1
    BY <1>2, <1>3, BuildingFinite, FS_RemoveElement
  <2>2. Cardinality(Building) # 0
    BY <1>2, BuildingFinite, FS_EmptySet
  <2> QED
    BY <2>1, <2>2, BuildingFinite
<1>5. id \in 1..MaxEndpoints /\ Len(handles) < MaxHandles
  BY <1>1, <1>4, BuildingFinite, DXEndpointAssumption DEF RoomInv, TypeOK
<1>6. handles' \in Seq(Handle) /\ Len(handles') = Len(handles) + 1
  BY <1>5, NewHandleType DEF Built
<1>7. /\ endpoints' \in Seq(Endpoint) /\ Len(endpoints') = id /\ endpoints'[id] = e
      /\ \A d \in DOMAIN endpoints : endpoints'[d] = endpoints[d]
      /\ DOMAIN endpoints' = DOMAIN endpoints \union {id}
  BY <1>1 DEF Built
<1>8. /\ UNCHANGED <<builders, listeners, lastListener, todo, changing, changes, called>>
      /\ instances' = IF e.singleton THEN [instances EXCEPT ![e.role] = id] ELSE instances
      /\ registry' = IF e.singleton THEN None ELSE registry
  BY DEF Built, changeVars
<1>9. RoomInv'
  <2>1. Len(handles) \in Nat /\ MaxHandles \in Nat /\ MaxEndpoints \in Nat
    BY DXEndpointAssumption DEF TypeOK
  <2> QED
    BY <1>1, <1>4, <1>6, <1>7, <2>1, BuildingFinite DEF RoomInv
<1>10. e.role \in Roles /\ e.singleton \in BOOLEAN
  BY <1>1 DEF Endpoint
<1>11. e.singleton => registry = c /\ instances[e.role] = 0
  BY <1>2 DEF MakersInv, Building
<1>12. OneInstancePerRole'
  <2>1. instances'[e.role] = id \/ ~ e.singleton
    BY <1>8, <1>10 DEF TypeOK
  <2>2. ASSUME NEW d \in DOMAIN endpoints, endpoints[d].singleton
        PROVE  instances'[endpoints[d].role] = d
    <3>0. endpoints[d] \in Endpoint
      BY <1>1, ElementType
    <3>1. instances[endpoints[d].role] = d /\ endpoints[d].role \in Roles /\ d # 0
      BY <1>1, <2>2, <3>0 DEF OneInstancePerRole, Endpoint
    <3>2. e.singleton => endpoints[d].role # e.role
      BY <1>11, <3>1
    <3> QED
      BY <1>8, <3>1, <3>2 DEF TypeOK
  <2> HIDE DEF e, id
  <2> QED
    BY <1>7, <2>1, <2>2 DEF OneInstancePerRole
<1>13. MakersInv'
  <2> SUFFICES ASSUME NEW d \in Clients, call'[d] # None, call'[d].singleton
               PROVE  registry' = d /\ instances'[call'[d].role] = 0
    BY DEF MakersInv
  <2>1. d # c /\ call'[d] = call[d]
    BY <1>2 DEF TypeOK
  <2>2. registry = d /\ instances[call[d].role] = 0
    BY <2>1 DEF MakersInv
  <2>3. ~ e.singleton
    BY <1>11, <2>1, <2>2
  <2> QED
    BY <1>8, <2>1, <2>2, <2>3
<1>14. TypeOK'
  <2>1. instances' \in [Roles -> 0..MaxEndpoints] /\ registry' \in Clients \union {None}
        /\ call' \in [Clients -> {None} \union Endpoint]
    BY <1>2, <1>5, <1>8, <1>10 DEF TypeOK
  <2>2. Len(endpoints') <= MaxEndpoints /\ Len(handles') <= MaxHandles
    BY <1>5, <1>6, <1>7, DXEndpointAssumption DEF TypeOK
  <2> QED
    BY <1>6, <1>7, <1>8, <2>1, <2>2 DEF TypeOK
<1> QED
  BY <1>9, <1>12, <1>13, <1>14

\* A change of one handle.
LEMMA HandleChange ==
  ASSUME TypeOK, NEW h \in DOMAIN handles, NEW new \in Handle,
         handles' = [handles EXCEPT ![h] = new]
  PROVE  /\ handles' \in Seq(Handle) /\ Len(handles') = Len(handles)
         /\ DOMAIN handles' = DOMAIN handles /\ handles'[h] = new
         /\ \A g \in DOMAIN handles : g # h => handles'[g] = handles[g]
BY DEF TypeOK

\* A callback is added: its table had no entry, so that no listener of the
\* handle had this callback.
LEMMA AddListenerInv ==
  ASSUME InstanceInv, ListenerInv, NEW c \in Clients, NEW h \in DOMAIN handles,
         NEW f \in Callbacks, AddListener(c, h, f)
  PROVE  /\ handles' \in Seq(Handle) /\ Len(handles') = Len(handles)
         /\ listeners' \in [1..MaxEndpoints -> SUBSET Listener]
         /\ lastListener' \in 0..MaxListeners
         /\ ListenerInv'
<1> USE DEF InstanceInv
<1> DEFINE id  == lastListener + 1
           e   == handles[h].endpoint
           tab == [handles[h].table EXCEPT ![f] = id]
           new == [handles[h] EXCEPT !.table = tab, !.installed = @ \union {f}]
           l   == [id |-> id, handle |-> h, callback |-> f]
<1>1. handles \in Seq(Handle) /\ handles[h] \in Handle
  BY ElementType DEF TypeOK
<1>2. id \in 1..MaxListeners /\ lastListener' = id
  BY DXEndpointAssumption DEF AddListener, TypeOK
<1>3. /\ e \in 1..MaxEndpoints /\ e \notin changing
      /\ handles[h].table \in [Callbacks -> 0..MaxListeners] /\ handles[h].table[f] = 0
      /\ handles[h].installed \subseteq Callbacks
  BY <1>1 DEF AddListener, InTable, Handle
<1>5. handles' = [handles EXCEPT ![h] = new]
  BY <1>2 DEF AddListener
<1>4. /\ new \in Handle /\ new.endpoint = e
      /\ new.table[f] = id /\ new.installed = handles[h].installed \union {f}
      /\ \A g \in Callbacks : g # f => new.table[g] = handles[h].table[g]
  <2>1. tab \in [Callbacks -> 0..MaxListeners] /\ tab[f] = id
        /\ \A g \in Callbacks : g # f => tab[g] = handles[h].table[g]
    BY <1>2, <1>3
  <2> HIDE DEF tab
  <2>2. new \in Handle
    BY <1>1, <1>3, <2>1 DEF Handle
  <2>3. new.table = tab /\ new.endpoint = e /\ new.installed = handles[h].installed \union {f}
    BY <1>1 DEF Handle
  <2> QED
    BY <2>1, <2>2, <2>3
<1>6. h \in 1..MaxHandles
  BY <1>1, DXEndpointAssumption DEF TypeOK
<1>7. l \in Listener /\ l.id = id /\ l.handle = h /\ l.callback = f
  BY <1>2, <1>6 DEF Listener
<1>8. listeners' = [listeners EXCEPT ![e] = listeners[e] \union {l}]
  BY <1>2 DEF AddListener
<1>9. todo' = todo /\ changing' = changing
  BY DEF AddListener, changeVars
<1> HIDE DEF new, l, id, tab
<1>10. /\ handles' \in Seq(Handle) /\ Len(handles') = Len(handles)
       /\ DOMAIN handles' = DOMAIN handles /\ handles'[h] = new
       /\ \A g \in DOMAIN handles : g # h => handles'[g] = handles[g]
  BY <1>4, <1>5, HandleChange
<1>11. listeners' \in [1..MaxEndpoints -> SUBSET Listener]
  BY <1>3, <1>7, <1>8 DEF TypeOK
<1>12. ListenerInv'
  <2>1. ASSUME NEW d \in 1..MaxEndpoints, NEW k \in listeners'[d]
        PROVE  /\ k.handle \in DOMAIN handles'
               /\ handles'[k.handle].endpoint = d
               /\ handles'[k.handle].table[k.callback] = k.id
               /\ k.callback \in handles'[k.handle].installed
    <3>1. CASE k = l /\ d = e
      BY <3>1, <1>3, <1>4, <1>7, <1>10
    <3>2. CASE k \in listeners[d]
      <4>1. /\ k.handle \in DOMAIN handles
            /\ handles[k.handle].endpoint = d
            /\ handles[k.handle].table[k.callback] = k.id
            /\ k.callback \in handles[k.handle].installed
        BY <3>2 DEF ListenerInv
      <4>2. k \in Listener
        BY <3>2 DEF TypeOK
      <4>3. k.handle = h => k.callback # f
        BY <1>3, <4>1, <4>2 DEF Listener
      <4>4. k.handle = h => handles'[h].table[k.callback] = k.id
        BY <1>3, <1>4, <1>10, <4>1, <4>2, <4>3 DEF Listener
      <4> QED
        BY <1>4, <1>10, <4>1, <4>4
    <3> QED
      BY <1>3, <1>8, <2>1, <3>1, <3>2 DEF TypeOK
  <2>2. ASSUME NEW d \in 1..MaxEndpoints
        PROVE  todo'[d] \subseteq listeners'[d] /\ (d \notin changing' => todo'[d] = {})
    <3>1. listeners[d] \subseteq listeners'[d]
      BY <1>3, <1>8 DEF TypeOK
    <3> QED
      BY <1>9, <3>1 DEF ListenerInv
  <2> QED
    BY <2>1, <2>2 DEF ListenerInv
<1> QED
  BY <1>2, <1>10, <1>11, <1>12

\* A callback is removed: the listener its table names goes.
LEMMA RemoveListenerInv ==
  ASSUME InstanceInv, ListenerInv, NEW c \in Clients, NEW h \in DOMAIN handles,
         NEW f \in Callbacks, RemoveListener(c, h, f)
  PROVE  /\ handles' \in Seq(Handle) /\ Len(handles') = Len(handles)
         /\ listeners' \in [1..MaxEndpoints -> SUBSET Listener]
         /\ ListenerInv'
<1> USE DEF InstanceInv
<1> DEFINE e   == handles[h].endpoint
           new == [handles[h] EXCEPT !.installed = @ \ {f}]
           rest == {l \in listeners[e] : l.id # handles[h].table[f]}
<1>1. handles \in Seq(Handle) /\ handles[h] \in Handle
  BY ElementType DEF TypeOK
<1>2. e \in 1..MaxEndpoints /\ e \notin changing
  BY <1>1 DEF RemoveListener, Handle
<1>3. /\ new \in Handle /\ new.endpoint = e /\ new.table = handles[h].table
      /\ new.installed = handles[h].installed \ {f}
  BY <1>1 DEF Handle
<1>4. handles' = [handles EXCEPT ![h] = new]
  BY DEF RemoveListener
<1>5. listeners' = [listeners EXCEPT ![e] = rest]
  BY DEF RemoveListener
<1>6. todo' = todo /\ changing' = changing
  BY DEF RemoveListener, changeVars
<1> HIDE DEF new
<1>7. /\ handles' \in Seq(Handle) /\ Len(handles') = Len(handles)
      /\ DOMAIN handles' = DOMAIN handles /\ handles'[h] = new
      /\ \A g \in DOMAIN handles : g # h => handles'[g] = handles[g]
  BY <1>3, <1>4, HandleChange
<1>8. listeners' \in [1..MaxEndpoints -> SUBSET Listener]
  BY <1>2, <1>5 DEF TypeOK
<1>9. ListenerInv'
  <2>1. ASSUME NEW d \in 1..MaxEndpoints, NEW k \in listeners'[d]
        PROVE  /\ k.handle \in DOMAIN handles'
               /\ handles'[k.handle].endpoint = d
               /\ handles'[k.handle].table[k.callback] = k.id
               /\ k.callback \in handles'[k.handle].installed
    <3>1. k \in listeners[d] /\ (d = e => k.id # handles[h].table[f])
      BY <1>2, <1>5, <2>1 DEF TypeOK
    <3>2. /\ k.handle \in DOMAIN handles
          /\ handles[k.handle].endpoint = d
          /\ handles[k.handle].table[k.callback] = k.id
          /\ k.callback \in handles[k.handle].installed
      BY <3>1 DEF ListenerInv
    <3>3. k.handle = h => k.callback # f
      BY <3>1, <3>2
    <3> QED
      BY <1>3, <1>7, <3>2, <3>3
  <2>2. ASSUME NEW d \in 1..MaxEndpoints
        PROVE  todo'[d] \subseteq listeners'[d] /\ (d \notin changing' => todo'[d] = {})
    <3>1. d = e => todo[d] = {}
      BY <1>2 DEF ListenerInv
    <3>2. d # e => listeners'[d] = listeners[d]
      BY <1>2, <1>5 DEF TypeOK
    <3> QED
      BY <1>6, <3>1, <3>2 DEF ListenerInv
  <2> QED
    BY <2>1, <2>2 DEF ListenerInv
<1> QED
  BY <1>7, <1>8, <1>9

\* A callback that is in the table is added again, or the handle is freed.
LEMMA SameListenersInv ==
  ASSUME InstanceInv, ListenerInv, NEW c \in Clients, NEW h \in DOMAIN handles,
         Free(c, h) \/ \E f \in Callbacks : AddAgain(c, h, f)
  PROVE  /\ handles' \in Seq(Handle) /\ Len(handles') = Len(handles)
         /\ ListenerInv'
<1> USE DEF InstanceInv
<1>1. handles \in Seq(Handle) /\ handles[h] \in Handle
  BY ElementType DEF TypeOK
<1>2. UNCHANGED <<listeners, todo, changing>>
  BY DEF Free, AddAgain, changeVars
<1>3. PICK new \in Handle :
        /\ handles' = [handles EXCEPT ![h] = new]
        /\ new.endpoint = handles[h].endpoint /\ new.table = handles[h].table
        /\ handles[h].installed \subseteq new.installed
  <2>1. CASE Free(c, h)
    <3> DEFINE freed == [handles[h] EXCEPT !.live = FALSE]
    <3>1. freed \in Handle
      BY <1>1 DEF Handle
    <3>2. freed.endpoint = handles[h].endpoint /\ freed.table = handles[h].table
          /\ freed.installed = handles[h].installed
      BY <1>1 DEF Handle
    <3>3. handles' = [handles EXCEPT ![h] = freed]
      BY <2>1 DEF Free
    <3> HIDE DEF freed
    <3> QED
      BY <3>1, <3>2, <3>3
  <2>2. ASSUME NEW f \in Callbacks, AddAgain(c, h, f)
        PROVE  \E new \in Handle :
                 /\ handles' = [handles EXCEPT ![h] = new]
                 /\ new.endpoint = handles[h].endpoint /\ new.table = handles[h].table
                 /\ handles[h].installed \subseteq new.installed
    <3> DEFINE again == [handles[h] EXCEPT !.installed = @ \union {f}]
    <3>1. again \in Handle
      BY <1>1 DEF Handle
    <3>2. again.endpoint = handles[h].endpoint /\ again.table = handles[h].table
          /\ again.installed = handles[h].installed \union {f}
      BY <1>1 DEF Handle
    <3>3. handles' = [handles EXCEPT ![h] = again]
      BY <2>2 DEF AddAgain
    <3> HIDE DEF again
    <3> QED
      BY <3>1, <3>2, <3>3
  <2> QED
    BY <2>1, <2>2
<1>4. /\ handles' \in Seq(Handle) /\ Len(handles') = Len(handles)
      /\ DOMAIN handles' = DOMAIN handles /\ handles'[h] = new
      /\ \A g \in DOMAIN handles : g # h => handles'[g] = handles[g]
  BY <1>3, HandleChange
<1> QED
  BY <1>2, <1>3, <1>4 DEF ListenerInv

\* While the listeners stay and handles only come, ListenerInv is kept.
LEMMA OtherHandlesInv ==
  ASSUME ListenerInv, UNCHANGED <<listeners, todo, changing>>,
         \A h \in DOMAIN handles : h \in DOMAIN handles' /\ handles'[h] = handles[h]
  PROVE  ListenerInv'
BY DEF ListenerInv

\* Builders and endpoints keep ListenerInv.
LEMMA MakingInv ==
  ASSUME InstanceInv, ListenerInv, NEW c \in Clients, BuilderStep(c) \/ EndpointStep(c)
  PROVE  InstanceInv' /\ ListenerInv'
<1>1. CASE BuilderStep(c)
  <2>1. InstanceInv'
    BY <1>1, BuilderStepInv, BuildInv DEF BuilderStep
  <2>2. UNCHANGED <<handles, listeners, todo, changing>>
    BY <1>1 DEF BuilderStep, NewBuilder, WithRole, WithName, FreeBuilder, Build,
                listenerVars, changeVars
  <2> QED
    BY <2>1, <2>2, OtherHandlesInv
<1>2. ASSUME NEW r \in Roles, Create(c, r) \/ MakeInstance(c, r)
      PROVE  InstanceInv' /\ ListenerInv'
  <2>1. UNCHANGED <<handles, listeners, todo, changing>>
    BY <1>2 DEF Create, MakeInstance, listenerVars, changeVars
  <2> QED
    BY <1>2, <2>1, BuildInv, OtherHandlesInv
<1>3. ASSUME NEW r \in Roles, GetInstance(c, r)
      PROVE  InstanceInv' /\ ListenerInv'
  <2>1. instances[r] \in 1..MaxEndpoints /\ Len(handles) \in Nat /\ MaxHandles \in Nat
    BY <1>3, DXEndpointAssumption DEF GetInstance, InstanceInv, TypeOK
  <2>2. Len(handles) < MaxHandles
    BY <1>3, <2>1, BuildingFinite DEF GetInstance
  <2>3. \A h \in DOMAIN handles : h \in DOMAIN handles' /\ handles'[h] = handles[h]
    BY <1>3, <2>1, <2>2, NewHandleType DEF GetInstance, InstanceInv
  <2>4. UNCHANGED <<listeners, todo, changing>>
    BY <1>3 DEF GetInstance, changeVars
  <2> QED
    BY <1>3, <2>3, <2>4, GetInstanceInv, OtherHandlesInv
<1>4. CASE Built(c)
  <2>1. InstanceInv'
    BY <1>4, BuiltInv
  <2>2. \A h \in DOMAIN handles : h \in DOMAIN handles' /\ handles'[h] = handles[h]
    <3>1. handles \in Seq(Handle)
      BY DEF InstanceInv, TypeOK
    <3>2. PICK new : handles' = Append(handles, new)
      BY <1>4 DEF Built, NewHandle
    <3> QED
      BY <3>1, <3>2
  <2>3. UNCHANGED <<listeners, todo, changing>>
    BY <1>4 DEF Built, changeVars
  <2> QED
    BY <2>1, <2>2, <2>3, OtherHandlesInv
<1> QED
  BY <1>1, <1>2, <1>3, <1>4 DEF EndpointStep

LEMMA ListenerStepInv ==
  ASSUME InstanceInv, ListenerInv, NEW c \in Clients, ListenerStep(c)
  PROVE  InstanceInv' /\ ListenerInv'
<1>1. UNCHANGED <<builders, endpoints, instances, registry, call, todo, changing, changes, called>>
  BY DEF ListenerStep, AddListener, AddAgain, RemoveListener, Free, buildVars, changeVars
<1>2. PICK h \in DOMAIN handles :
        \/ \E f \in Callbacks : AddListener(c, h, f) \/ AddAgain(c, h, f) \/ RemoveListener(c, h, f)
        \/ Free(c, h)
  BY DEF ListenerStep
<1>3. /\ handles' \in Seq(Handle) /\ Len(handles') = Len(handles)
      /\ listeners' \in [1..MaxEndpoints -> SUBSET Listener]
      /\ lastListener' \in 0..MaxListeners
      /\ ListenerInv'
  <2>1. ASSUME NEW f \in Callbacks, RemoveListener(c, h, f)
        PROVE  lastListener' = lastListener
    BY <2>1 DEF RemoveListener
  <2>2. ASSUME Free(c, h) \/ \E f \in Callbacks : AddAgain(c, h, f)
        PROVE  UNCHANGED <<listeners, lastListener>>
    BY <2>2 DEF Free, AddAgain
  <2>3. listeners \in [1..MaxEndpoints -> SUBSET Listener] /\ lastListener \in 0..MaxListeners
    BY DEF InstanceInv, TypeOK
  <2>4. CASE Free(c, h) \/ \E f \in Callbacks : AddAgain(c, h, f)
    BY <2>2, <2>3, <2>4, SameListenersInv
  <2>5. CASE \E f \in Callbacks : AddListener(c, h, f)
    BY <2>5, AddListenerInv
  <2>6. CASE \E f \in Callbacks : RemoveListener(c, h, f)
    BY <2>1, <2>3, <2>6, RemoveListenerInv
  <2> QED
    BY <1>2, <2>4, <2>5, <2>6
<1>4. Building' = Building
  BY <1>1 DEF Building
<1> QED
  BY <1>1, <1>3, <1>4 DEF InstanceInv, TypeOK, RoomInv, OneInstancePerRole, MakersInv

\* A notification begins with the listeners there are, and ends when it has
\* called them all.
LEMMA ChangeStepInv ==
  ASSUME InstanceInv, ListenerInv, ChangeStep
  PROVE  InstanceInv' /\ ListenerInv'
<1> USE DEF InstanceInv
<1>1. UNCHANGED <<builders, endpoints, instances, registry, call, handles, listeners, lastListener>>
  BY DEF ChangeStep, StateChanges, CallListener, ChangeEnds, buildVars, listenerVars
<1>2. PICK e \in 1..MaxEndpoints :
        StateChanges(e) \/ ChangeEnds(e) \/ \E l \in todo[e] : CallListener(e, l)
  BY DEF ChangeStep
<1>3. /\ todo' \in [1..MaxEndpoints -> SUBSET Listener] /\ changing' \subseteq 1..MaxEndpoints
      /\ changes' \in 0..MaxChanges /\ called' \in Listener \union {None}
      /\ \A d \in 1..MaxEndpoints :
           todo'[d] \subseteq listeners[d] /\ (d \notin changing' => todo'[d] = {})
  <2>1. CASE StateChanges(e)
    <3>1. /\ todo' = [todo EXCEPT ![e] = listeners[e]] /\ changing' = changing \union {e}
          /\ changes' = changes + 1 /\ changes < MaxChanges /\ called' = None
      BY <2>1 DEF StateChanges
    <3>2. /\ todo \in [1..MaxEndpoints -> SUBSET Listener]
          /\ listeners \in [1..MaxEndpoints -> SUBSET Listener]
          /\ changing \subseteq 1..MaxEndpoints /\ changes \in 0..MaxChanges
          /\ \A d \in 1..MaxEndpoints :
               todo[d] \subseteq listeners[d] /\ (d \notin changing => todo[d] = {})
      BY DEF TypeOK, ListenerInv
    <3>3. changes' \in 0..MaxChanges
      BY <3>1, <3>2, DXEndpointAssumption
    <3>4. todo' \in [1..MaxEndpoints -> SUBSET Listener]
      BY <3>1, <3>2
    <3>5. ASSUME NEW d \in 1..MaxEndpoints
          PROVE  todo'[d] \subseteq listeners[d] /\ (d \notin changing' => todo'[d] = {})
      BY <3>1, <3>2
    <3> QED
      BY <3>1, <3>2, <3>3, <3>4, <3>5
  <2>4. /\ todo \in [1..MaxEndpoints -> SUBSET Listener]
        /\ changing \subseteq 1..MaxEndpoints /\ changes \in 0..MaxChanges
        /\ called \in Listener \union {None}
        /\ \A d \in 1..MaxEndpoints :
             todo[d] \subseteq listeners[d] /\ (d \notin changing => todo[d] = {})
    BY DEF TypeOK, ListenerInv
  <2>2. CASE ChangeEnds(e)
    <3>1. changing' = changing \ {e} /\ todo[e] = {} /\ UNCHANGED <<todo, changes, called>>
      BY <2>2 DEF ChangeEnds
    <3> QED
      BY <2>4, <3>1
  <2>3. ASSUME NEW l \in todo[e], CallListener(e, l)
        PROVE  /\ todo' \in [1..MaxEndpoints -> SUBSET Listener] /\ changing' \subseteq 1..MaxEndpoints
               /\ changes' \in 0..MaxChanges /\ called' \in Listener \union {None}
               /\ \A d \in 1..MaxEndpoints :
                    todo'[d] \subseteq listeners[d] /\ (d \notin changing' => todo'[d] = {})
    <3>1. /\ todo' = [todo EXCEPT ![e] = @ \ {l}] /\ called' = l
          /\ UNCHANGED <<changing, changes>>
      BY <2>3 DEF CallListener
    <3>2. l \in Listener
      BY <2>3, <2>4
    <3>3. todo' \in [1..MaxEndpoints -> SUBSET Listener]
      BY <2>4, <3>1
    <3>4. ASSUME NEW d \in 1..MaxEndpoints
          PROVE  todo'[d] \subseteq listeners[d] /\ (d \notin changing' => todo'[d] = {})
      BY <2>4, <3>1
    <3> QED
      BY <2>4, <3>1, <3>2, <3>3, <3>4
  <2> QED
    BY <1>2, <2>1, <2>2, <2>3
<1>4. Building' = Building
  BY <1>1 DEF Building
<1> QED
  BY <1>1, <1>3, <1>4 DEF TypeOK, RoomInv, OneInstancePerRole, MakersInv, ListenerInv

LEMMA StepInv ==
  ASSUME InstanceInv, ListenerInv, [Next]_vars
  PROVE  InstanceInv' /\ ListenerInv'
<1>1. CASE UNCHANGED vars
  BY <1>1 DEF vars, InstanceInv, ListenerInv, TypeOK, RoomInv, Building, OneInstancePerRole,
              MakersInv
<1> QED
  BY <1>1, MakingInv, ListenerStepInv, ChangeStepInv DEF Next

LEMMA Invariance == Spec => [](InstanceInv /\ ListenerInv)
BY InitOK, StepInv, PTL DEF Spec

-----------------------------------------------------------------------------
\* Every variable has its type.
THEOREM TypeCorrect == Spec => []TypeOK
BY Invariance, PTL DEF InstanceInv

\* However many threads ask for the instance of a role at once, it has one.
THEOREM OneInstance == Spec => []OneInstancePerRole
BY Invariance, PTL DEF InstanceInv

\* A live handle can remove each listener it has.
THEOREM ListenersRemovable == Spec => []StillRemovable
<1>1. ListenerInv => StillRemovable
  BY DEF ListenerInv, StillRemovable
<1> QED
  BY <1>1, Invariance, PTL

\* A notification calls installed callbacks only.
THEOREM OnlyInstalledAreCalled == Spec => OnlyInstalledCalled
<1>1. ASSUME InstanceInv, ListenerInv, Next, NEW l \in Listener, called' = l, called # l
      PROVE  l.callback \in handles[l.handle].installed
  <2>1. l # None
    BY NoneAssumption
  <2>2. PICK e \in 1..MaxEndpoints : l \in todo[e]
    <3>1. ASSUME NEW c \in Clients, BuilderStep(c) \/ EndpointStep(c) \/ ListenerStep(c)
          PROVE  called' = called
      BY <3>1 DEF BuilderStep, NewBuilder, WithRole, WithName, FreeBuilder, Build, EndpointStep,
                  Create, GetInstance, MakeInstance, Built, ListenerStep, AddListener, AddAgain,
                  RemoveListener, Free, changeVars
    <3>2. ChangeStep
      BY <1>1, <3>1 DEF Next
    <3> QED
      BY <1>1, <2>1, <3>2 DEF ChangeStep, StateChanges, CallListener, ChangeEnds
  <2> QED
    BY <1>1, <2>2 DEF ListenerInv
<1>2. InstanceInv /\ ListenerInv /\ [Next]_vars =>
        [\A l \in Listener : called' = l /\ called # l /\ handles[l.handle].live =>
           l.callback \in handles[l.handle].installed]_vars
  BY <1>1
<1> QED
  BY <1>2, Invariance, PTL DEF Spec, OnlyInstalledCalled
=============================================================================
