# A verification project for the dxFeed Graal C++ API

TLA+ models of the dxFeed Graal C++ API, TLC configurations that check them on
small instances, and TLAPS proofs of what matters most about them. Paths below
are relative to the repository's root; `API/` stands for
`include/dxfeed_graal_cpp_api/`.

Contents: [the system](#1-the-system), [the plan](#2-the-plan),
[the market depth model](#3-the-market-depth-model),
[the handler](#4-the-handler), [endpoints](#5-endpoints),
[conversion to Graal structures](#6-conversion-to-graal-structures),
[subscriptions](#7-subscriptions), [instrument profiles](#8-instrument-profiles),
[values](#9-values), [the runs](#10-the-runs), [the proofs](#11-the-proofs),
[what the models show besides](#12-what-the-models-show-besides),
[what is not modelled](#13-what-is-not-modelled).

## 1. The system

The API wraps the Java dxFeed API, compiled to a native library by GraalVM.
Nearly every C++ object is a handle of a Java object plus some state of its own;
nearly every call attaches the calling thread to the isolate and crosses into
Java; and everything that comes back (events, state changes, profiles, symbol
sets) arrives on a Java thread in a C callback, which looks the C++ object up
and runs the user's listeners. The logic that is the library's own, as opposed
to Java's, is in the following parts.

| Part | State it keeps | Operations | Interacts with |
|---|---|---|---|
| `MarketDepthModel` (`API/model/MarketDepthModel.hpp`) | `ordersByIndex_`, two `SortedOrderSet`s with a cached snapshot and a changed flag, depth limit, period, task flag and timer, all under `mtx_` | `eventsReceived`, `setDepthLimit`, `setAggregationPeriod`, `close`, destructor, the timer's task | `IndexedTxModel` (feed thread), `Timer` (one thread per task), `SimpleHandler` (one thread per notification) |
| `Timer` (`API/internal/Timer.hpp`) | `isRunning_`, `future_` | `runOnce`, `schedule`, `stop`, `isRunning` | `MarketDepthModel`, the tools |
| `Handler`, `SimpleHandler` (`API/internal/Handler.hpp`) | two maps of listeners under one recursive mutex, a ring of futures under another | `handle`, `add`, `addLowPriority`, `remove` | every class with listeners: each `handle` runs the listeners in a thread of its own |
| `EntityManager`, `Id` (`API/internal/managers/EntityManager.hpp`, `API/internal/Id.hpp`) | two maps between ids and entities per kind of entity | `registerEntity`, `unregisterEntity`, `getEntity` | the C callbacks, which carry an id and not a pointer |
| `Isolate` (`src/internal/Isolate.cpp`) | the GraalVM isolate, one attachment per thread | `runIsolated*`, attach, detach | every call into Java |
| `DXEndpoint` (`src/api/DXEndpoint.cpp`) | the registry of per-role instances, cached feed and publisher, state-change handler; the C API's own listener tables | builder, `getInstance`, connect/disconnect/close, listeners, the `dxfc_dxendpoint_*` functions | `DXFeed`, `DXPublisher`, `EntityManager`, `Handler` |
| `DXFeed`, `DXFeedSubscription`, `DXPublisher`, observable subscriptions (`src/api/`) | lazily created Java listener handles, an event handler, maps of change listeners, a cache of publisher subscriptions | attach/detach, add/remove listeners and symbols, `close` | `EntityManager`, `Handler`, `SymbolWrapper` |
| `InstrumentProfileCollector`, `-Connection`, `-Reader` (`src/ipf/`) | a map of update listeners with their handlers, a state-change handler | add/remove listeners, start, close, read | `Handler`, `EntityManager` |
| `IndexedTxModel`, `TimeSeriesTxModel` and their builders (`src/model/`) | Java handles, immutable-style builders | build, close, add/remove symbols and sources | `MarketDepthModel` |
| `Promise`, `Promises` (`API/promise/`) | the ownership of a Java promise handle | await, cancel, results | `DXFeed` |
| Market events and the candle symbol (`src/event/`) | plain values with packed integers: index with source, time with sequence, flags | getters and setters, to and from the Java layout | everything |
| `OrderSource`, `Enum`, `EventFlag`, symbols (`src/event/`, `API/internal/Enum.hpp`) | static tables | `valueOf`, packing of names into ids, attributes of symbols | events, subscriptions |
| Instrument profiles and option chains (`src/ipf/InstrumentProfile.cpp`, `API/ipf/option/`) | field tables; chains and series sorted by expiration and strike | get/set fields; `OptionChainsBuilder::addOption` | profile readers |
| `Schedule`, `Day`, `Session`, `OnDemandService`, `AuthToken`, `HistoryEndpoint`, `Logging`, `System` | a Java handle each | one Java call each | Java |
| Tools and samples (`tools/`, `samples/`) | command-line parsing, connection queues | | the API |

What is hard about it: every listener runs in a thread made for the call while
the caller waits, often with a lock held; C callbacks race with removals and
destruction; timers hold plain pointers; caches and flags are kept in step by
hand with containers; handles of Java objects have one owner by convention only.

The properties that make each part correct:

* **MarketDepthModel**: the two sets hold exactly the live orders; the listener
  is shown the best orders of the moment; no change is left unseen; one task at
  a time; a closed or destroyed model stays silent.
* **Handler**: a synchronous `handle` returns after every listener ran; batches
  reach a listener in the order they were handled; a removed listener is not
  called after `remove` returned; no two batches run at once; no deadlock.
* **EntityManager**: an id finds its entity exactly while it is registered; the
  two maps are inverse to each other.
* **DXEndpoint and subscriptions**: one Java listener per object however many
  threads add the first listener; what is removed is no longer called; add,
  remove and add again is an add.
* **Profiles**: no update is delivered to a removed listener; closing terminates.
* **Promise**: each Java handle is released once.
* **Values**: packing and unpacking are inverse; setters of one part of a packed
  integer keep the other parts; comparators are strict weak orders.

## 2. The plan

In the order of how much of the library's own behaviour they carry:

1. `SortedOrderSet`, `MarketDepthModel` and the specification they implement,
   `MarketDepthBook`: done (section 3).
2. `Handler` and what it promises, `Notifier`: done (section 4).
3. `DXEndpoint`: builders, instances, the listeners of the C API: done
   (section 5). `EntityManager` is part of it as sequences indexed by id.
4. `GraalTypes` and `GraalLists`: what is allocated for Java and given back:
   done (section 6).
5. `Subscription`: the lazily made Java listener, change listeners, closing:
   done (section 7). Left: the from time of time series.
6. `InstrumentProfileCollector` and `-Connection`: done (section 8).
7. Values, each against what it stands for: `MarketEventSymbols` and
   `EventFields` are done (section 9). Left: how `OrderBase` packs a source into
   an index, the names of `OrderSource`, the comparator of orders with NaN, and
   `OptionChainsBuilder` against a reference definition.
8. Left: `DXPublisher`'s cache of subscriptions and `Promise`'s handle.
9. Proofs of the safety invariants and action properties that the runs check:
   done (section 11). Liveness stays with TLC.

## 3. The market depth model

**`SortedOrderSet`** is one side of the book: pure operators on the record
`[orders, snapshot, isChanged]`. The code's comparators are total orders (they
end in the index), so a sorted container is a set and "the first `n`" is the
predicate `IsTop`. Indices, prices and sources are constants. The operators
follow the methods: `Insert`, `Erase`, `MarkAsChangedIfNeeded`, `Refreshed`
(`toVector`), and `ClearOutcomes` and `Cleared` (`clearBySource`). The last one
erases an element and then increments the iterator it got back: it skips the
successor of each erased order, and when the erased order was the last one it
increments `end()`. That is undefined, so `ClearOutcomes` is the set of results
a build can produce: the red-black tree of libstdc++ and of MSVC goes on with
the last order or with its predecessor, or never ends when the tree is empty
(`MayHang`).

**`MarketDepthModel`** is the component with its threads. The correspondence:

| Model | Code |
|---|---|
| `mtx`, `pc` | `mtx_` and where each thread is: one feed thread, client threads, one thread per timer |
| `tx` | the transaction in `eventsReceived`, with the events still to be applied |
| `byIndex`, `sets`, `depthLimit`, `period` | `ordersByIndex_`, `buyOrders_` and `sellOrders_`, `depthLimit_`, `aggregationPeriodMillis_` |
| `taskScheduled`, `taskTimer`, `isRunning` | `taskScheduled_`, `taskTimer_`, `Timer::isRunning_` |
| `listener` | the thread `SimpleHandler::handle` makes and waits for |
| `delivered`, `synced` | history: what the listener was last shown, the sources that sent a snapshot |
| `FeedArrives` | the lambda of `create`: the weak pointer is locked |
| `UpdateBegins`, `ApplyOrder`, `UpdateEnds` | `eventsReceived` with `update`: before, in and after the loop |
| `NotifyBegins`, `ListenerReturns`, `ListenerCalls` | `notifyListeners`, for the feed, a client or a timer; the listener calling the model |
| `TimerStarts`, `TimerWakes`, `TimerFires`, `TimerFinishes` | the lambda of `Timer::runOnce` |
| `SetDepthLimit`, `SetAggregationPeriod`, `Close`, `Destroy` | the public methods and the destructor |

An action is atomic where the code holds `mtx_` throughout; everything else
interleaves: the start of a timer's thread with a cancellation, its wake-up with
a stop, a client's call with a running notification. The order of the events of
a transaction is kept, one action per event.

Left out: the inner mutexes of the sets (they are only entered under `mtx_`);
the order among orders of one price other than by index; NaN prices; the
contents of orders beyond index, side, price and "live" (`shallAdd`). A depth
limit of 0 stands for `SIZE_MAX` too, as in `isDepthLimitUnbounded`. Passing of
time is left out: a sleeping timer may wake at any moment. What the feed may
deliver (`MayDeliver`) stands for the Java `IndexedTxModel`: a source's first
transaction is a snapshot, later ones may be (`Resnapshot`) when the feed
reconnects.

**`MarketDepthBook`** is what the model promises: live orders by index, a
limit, and `Deliver`, which shows the best orders of this moment. The refinement
mapping takes `live` to `byIndex`, `limit` to `depthLimit` and `delivered` to
itself: the sets, caches, flags, threads and timers disappear.

**`MarketDepthProperties`**:

* of every behaviour: `IndexedInBook`, `TaskHasTimer`;
* when no snapshot meets older orders or changes (one source,
  `Resnapshot = FALSE`): `BookIsIndexed`, `SnapshotIsTop`, `NoStrandedChange`,
  `ImplementsBook`; and `EventuallyDelivered` when aggregation is not switched
  off while a task is pending;
* what the code is written for and does not do: `NoOrphanOrder`.

**Fairness.** `FairSpec` asks weak fairness of the feed thread inside
`eventsReceived`, of each thread in a notification and of each timer's thread:
they are threads of the operating system that run, a sleep ends, and a listener
that was called returns. Taking `mtx_` is no stronger than that: weak fairness
lets a timer wait for ever while others keep taking the mutex, and
`EventuallyDelivered` is about what happens once the others stop. The feed and
the clients need never call anything. A client that resets the period for ever
puts the task off for ever, so `CallsEnd` asks that this stops.

## 4. The handler

**`Handler`** models `Handler` and `SimpleHandler`, which differ only in the
ring of futures: a `Size` of 1 or less is a `SimpleHandler`, or a `Handler` that
waits for each batch.

| Model | Code |
|---|---|
| `main`, `low`, `lastId` | `listeners_`, `lowPriorityListeners_`, `lastId_`; `MaxId` stands for `FAKE_ID - 1` |
| `status`, `owner`, `todo`, `current` | the thread `std::async` makes for a batch, `listenersMutex_`, the iteration over a map, the listener being called |
| `ring`, `index`, `ringOwner` | `mainFutures_`, `mainFuturesCurrentIndex_`, `mainFuturesMutex_` |
| `call`, `own`, `got` | where each caller is in `handle`; history: what it handled, and what each listener got |
| `Handle`, then `WaitEnds` or `Push` and `Displace` | `handle`: the thread is made, then waited for, or its future put in the ring for the one it displaces |
| `BatchBegins`, `ListenerBegins`, `ListenerEnds`, `MainEnds`, `BatchEnds` | the lambda of `handleImpl` |
| `Add`, `Remove` | `add`, `addLowPriority`, `remove` |
| `CallbackAdd`, `CallbackRemove` | the same called by a listener, which the recursive mutex lets through |

The index is wrapped before it is used and incremented after, so that it rests
at `Size` between two calls. Listeners of a map are called in any order. A
listener that adds to the map being iterated, or removes itself, may invalidate
the loop's iterator; listeners that do so, or that call `handle`, are left out,
and so is moving a handler.

**`Notifier`** is the promise: a batch reaches, in one step, the listeners of
one moment; a synchronous call returns after that, and an asynchronous one
leaves at most `Size` batches behind. The refinement mapping (at the end of
`HandlerProperties`) counts the listeners a batch has still to call as called:
its moment is when its thread takes the mutex.

**`HandlerProperties`** adds `NoCallAfterRemove`, `BoundedOvertaking` and
`HandleReturns`.

**Fairness.** The threads of batches run and listeners return (`WF` of each
batch's start and of the steps of the one that holds the mutex), and a caller in
`handle` goes on when what it waits for has happened. Nobody need call `handle`,
and nothing is asked of callbacks. Weak fairness of `BatchBegins` is enough
although the mutex may be taken over and over by others: there are finitely many
batches, and `add` and `remove` hold it for one step only.

## 5. Endpoints

**`DXEndpoint`** models how endpoints come about and who hears of their states.

| Model | Code |
|---|---|
| `builders`, `endpoints`, `handles` | the entity managers of `Builder`, `DXEndpoint` and `EndpointWrapper`: sequences indexed by id |
| `instances`, `registry` | `Registry::instances`, and who holds `Registry::mutex` |
| `call` | the endpoint a thread is building: its Java endpoint is being made, its name is chosen, it is not registered |
| `listeners`, `lastListener` | the listeners of each endpoint's `onStateChange_` |
| `handles[h].table` | `EndpointWrapper::listeners` |
| `handles[h].installed`, `called` | history: what the user of the handle has added and not removed; the listener called last |
| `todo`, `changing` | the handler's loop over its listeners, with its mutex held |
| `NewBuilder`, `WithRole`, `WithName`, `FreeBuilder`, `Build` | `dxfc_dxendpoint_new_builder`, `dxfc_dxendpoint_builder_*` |
| `Create`, `GetInstance`, `MakeInstance` | `dxfc_dxendpoint_create*`, `dxfc_dxendpoint_get_instance*` when the instance is there and when it is not |
| `Built` | the rest of each of these, after the Java endpoint was made |
| `AddListener`, `AddAgain`, `RemoveListener`, `Free` | `dxfc_dxendpoint_add_state_change_listener` (of a new and of a known callback), `..._remove_...`, `dxfc_dxendpoint_free` |
| `StateChanges`, `CallListener`, `ChangeEnds` | `onPropertyChange` and the handler it calls |

A builder and a handle have one client that uses them: neither has a lock. A
null handle, or one that was freed, returns an error and changes nothing, so
that only live ones take steps. A name is one that was given, or the default
name with its number. Names given by users may be equal; what they are does not
matter. The handler is used as section 4 shows it to be: synchronous, holding
its mutex while it calls.

**`DXEndpointProperties`**: `OneInstancePerRole`, `StillRemovable` and
`OnlyInstalledCalled`. The safety of endpoints asks for no fairness.

## 6. Conversion to Graal structures

Whatever is handed to Java is first copied into C structures: `GraalTypes` says
which, `GraalLists` how.

**`GraalTypes`** has one record per class of events: the structure, which fields
`fillData` reads and `fillGraalData` writes, which strings are allocated, which
are deleted by the `freeGraal` of the structure's tag. A class is derived from
its base as in the code. For symbols (strings, wildcard, candle symbols, and the
ones with a source or a time around another) and sources it has the blocks of
`toGraal` and of `freeGraal`. Blocks of memory and fields are names; what is in
them is left out, but for whether a string is a null pointer.

**`GraalLists`** is the algorithm that `EventMapper`, `SymbolWrapper` and
`EventSourceWrapper` share, for any elements with their blocks:

| Model | Code |
|---|---|
| `ToGraalList`, `NewGraalList`, `NewElements` | `toGraalList`, `newGraalList`: the list, its size, the array |
| `Allocate`, `SetGraalListElement`, `RefuseElement` | the loop over the elements, one allocation at a time |
| `FreeGraalListElements` | what is done when an element has no `toGraal` |
| `AllocationFails` | `std::bad_alloc`: `std::terminate` under `noexcept`, an exception elsewhere |
| `JavaCall` | the call that reads the list, external |
| `FreeGraalList` | `freeGraalList`, one element at a time |
| `heap`, `wrong`, `leaked` | history: live blocks, blocks deleted that were not live, live blocks nothing points to |

`MaxSize` stands for `INT_MAX`: longer collections are cut. Properties:
`DeletedOnce`, `NothingForgotten`, and `RoundTrip`: what `fromGraalList` makes of
the list is what was handed over, or the beginning of it that was not cut, but
for what `Lost` names. The last is in
**`GraalListsProperties`**, which joins the two modules: it names the elements
that a list of each kind may hold, and assumes of the lists no more than that
(`ElementsAssumption`).

## 7. Subscriptions

**`Subscription`** models the listeners of one `DXFeedSubscription` and, as
external, the Java subscription behind it.

| Model | Code |
|---|---|
| `eventListenerMutex`, `eventListenerHandle`, `onEvent` | the members of the same names |
| `changeListenersMutex`, `changeListeners` | `changeListenersMutex_`, the map `changeListeners_` |
| `AddEventListener`, `CreateHandle`, `AddHandle`, `AddToHandler` | `addEventListener`: `tryToSetEventListenerHandle`, the two Java calls, `onEvent_ += listener` |
| `RemoveEventListener` | `removeEventListener` |
| `AddChangeListener`, `Register` | `addChangeListener`: the Java call, then the entry in the map |
| `RemoveChangeListener`, `RemoveFromJava`, `RemoveThrows`, `Erase` | `removeChangeListener`, under `changeListenersMutex_` |
| `ChangeSymbols`, `Close` | `addSymbols`, `removeSymbols`, `setSymbols`, `clear`, `close` |
| `Send`, `OnEvents` | Java sends a batch; the C callback and the handler |
| `CallListener`, `Callback`, `ReEnter`, `Release` | the subscription's lock, held while change listeners are told; a listener that calls the subscription |

Every Java call may throw. `view`, `over`, `heard` and `due` are history: what
each listener was told. The Java subscription holds its lock while it tells its
change listeners (`ObservableSubscription.hpp:52-71`), whose callbacks run in
threads that `handle` waits for.

Properties: `EveryBatchOnce`, `ChangeListenersMatch`, `ListenersAreUpToDate`,
`CallsReturn`. **Fairness:** strong for a thread of the program (it may wait for
a mutex that others take and give back, and a mutex of the operating system lets
nobody wait for ever while it is free again and again), weak for callbacks.
Nobody need call anything. A callback that calls the subscription it is called
by is a deadlock in the code (`ReEnter`); `CallsReturn` excepts it.

## 8. Instrument profiles

**`InstrumentProfileCollector`** models the update listeners of collectors.

| Model | Code |
|---|---|
| `mutex`, `handlers`, `listenerHandles`, `lastId` | `listenersMutex_`, `onInstrumentProfilesUpdateHandlers_`, `listenerHandles_`, the last id of the listeners |
| `AddUpdateListener`, `CreateListener`, `AddToJava`, `AddThrows`, `ReturnId` | `addUpdateListener`: the handler goes into the map, then two Java calls, each of which may throw, then the id is returned and the mutex is free; Java notifies the listener between the two |
| `RemoveUpdateListener`, `RemoveUpdateListenerImpl` | `removeUpdateListener`: the Java call, then the map, when the call did not throw |
| `Pack`, `Unpack` | the word that carries the ids of a collector and of a listener; `HalfWord` is 2^32 |
| `UpdateProfiles`, `jobs` | Java: there are new profiles, and notifications to make of them |
| `OnInstrumentProfilesUpdate`, `CallHandler`, `FinishUpdate` | the callback: collector and listener are found by the word, the handler is called in a thread of its own under the mutex, and waited for |
| `ReEnter` | a listener that calls its own collector |

**`InstrumentProfileConnection`** is a connection beside it: `CreateConnection`,
listeners of the state, `Start`, `Proceed` (Java's own changes), `Close`, and the
callback `OnStateChange` .. `Unregister`, which takes a closed connection out of
the `EntityManager`. Each thread delivers the changes it makes, so that an
earlier change may come after a later one.

Properties: `OnlyLiveCalled`, `AgreesWithJava`, `EveryUpdateHeard`,
`HeardInOrder`, `UpdatesArrive`; `StateChangesHeard`, `ClosedIsForgotten`.
**Fairness:** weak for the callers inside a method, strong for notifications
and deliveries, which wait for a mutex that others take and give back; listeners
return. A listener that calls the collector or connection calling it never
returns; `UpdatesArrive` and `ClosedIsForgotten` except that.

## 9. Values

**`MarketEventSymbols`** is the algorithm that edits symbols such as
`A&X{k=1,l=2}`, on sequences of characters, because the code works with
positions: `removeAttributeInternal` and `addAttributeInternal` are loops over
the keys. Each is a recursive function on the symbols and positions it can meet,
with the code's indices, and what one turn of it does is an operator of its own
(`removeTurn`, `addTurn`; `Ended` and `appendAttribute` are the ways out). Beside
the symbol, the model keeps what it should say (`base`, `exchange`,
`attributes`). `PartsAgree`: whatever is changed in whatever order, each getter
returns what its part was last changed to. `StaysCanonical`: a symbol that is the
one canonical text of what it says, its attributes sorted and each key named once
(`InCanonicalForm`), is so again after every change.

**`EventFields`** has the packed numbers of events and their setters: the word of
seconds, milliseconds and sequence number (`TradeBase`; the same code is in nine
other classes), the milliseconds of a quote beside its two times, and the flags
of an order. Bits are numbers: `or` of parts that do not overlap adds, masks are
remainders. Divisions round towards zero as in C++, and `floorDiv` corrects them.
`EventPartsAgree`: each getter returns what was set, whatever else was set since,
but a time only as long as no sequence number was set after it. `TimeIsKept` has
no such exception, and the code violates it. The others are `WordsAreOrdered`,
`QuotePartsAgree` and `FlagsAgree`.

## 10. The runs

| Run | Instance | Shows |
|---|---|---|
| `MarketDepth_book` | 3 orders, 2 prices, 1 source, limits 0 to 2, periods 0 and 1, 1 client, 2 timers | the invariants of a single-source book and the refinement of `MarketDepthBook` |
| `MarketDepth_live` | 2 orders, limits 0 and 1, periods 1 and 2, 3 timers | `EventuallyDelivered` |
| `MarketDepth_anything` | 2 sources, reconnections, every client call, a listener that calls back, 3 timers | `IndexedInBook`, `TaskHasTimer`; deadlock is not checked: a blocked listener, a hung loop and a destroyed model stop the system |
| `Handler_ring` | 2 callers, one of which handles one batch at most, a ring of 2, 5 batches, 1 listener, fair | `BoundedOvertaking` and the ring's index, once round the ring and on; the refinement of `Notifier`; `HandleReturns` |
| `Handler_simple` | 2 callers, synchronous, 4 batches, 3 listeners, callbacks | `NoCallAfterRemove` |
| `DXEndpoint_shared` | 2 clients, 2 roles, 2 callbacks, 1 builder, 2 endpoints and handles, 2 listeners, 1 state change | one instance per role, removable listeners, only installed callbacks called |
| `GraalLists_memory` | every class of events, symbols and sources, lists of up to 2 and some of 3, `MaxSize` 2 | each block is deleted once, none is forgotten, what is read back is what was handed over |
| `Subscription_listeners` | 2 threads, 1 symbol, 2 listeners of each sort, 1 batch, failing Java calls | batches are heard once, change listeners agree with Java and are up to date, calls return |
| `InstrumentProfiles_live` | 2 threads, 2 collectors, 2 listeners, 2 updates; a connection with 1 listener and 3 changes; failing Java calls | updates are heard, in order, by live listeners only; a closed connection is forgotten, not too early |
| `Values` | 2 bases, 3 keys, 2 values, symbols that begin with up to 3 attributes; 2 events, 11 times, scaled widths | what is packed comes back; words are ordered as what is in them |
| `MarketDepth_orphan`, `Values_sequence` | the smallest instances that have the case | the findings of `PROJECT.json` |

The bounds of the market depth model. Three orders at two prices are enough for
an order to be pushed out of a limit of 1 or 2, to come back when a better one
is removed, to tie on the price, and to change sides; each of these has a
transaction in `BookFeed`, and the model has no counters, so that behaviours of
any length are covered. One client thread is enough because a client's call
holds `mtx_` from its first to its last step. Timers are the one bounded
resource: the code makes a new one for every task, the model reuses finished
ones, and a call that may schedule a task waits for a free one. Two timers are
enough for a cancelled and a live task to overlap, three for re-scheduling on
top of that. The feeds are in `MCMarketDepth`: sets of transactions that may
come in any order, any number of times.

The bounds of the handler: `MaxBatches` calls of `handle` and `MaxId` listeners
ever added. Two callers are enough for one to wait for the ring while another
holds it; a batch can be overtaken by three others with four batches (a mutant
that does not wait is found), and the index is wrapped with the fifth.

The bounds of endpoints: `MaxBuilders`, `MaxEndpoints`, `MaxHandles`,
`MaxListeners` and `MaxChanges`. Two clients can make an instance at once, share
an endpoint through two handles, and change its listeners while the other's are
being called; each mutant of these races is found.

The bounds of lists: elements do not affect each other except by the order of
the loops, so that two of them, with a third one cut, have every case: the first
or the last refused, an allocation that fails in the first or the last block of
either.

The bounds of subscriptions and profiles: `MaxListeners`, `MaxBatches`,
`MaxUpdates`, `MaxStateListeners`, `MaxChanges`, and `MaxCollectors`. Two
threads can add the first listener at once, or remove what the other adds; two
updates can overtake each other; two collectors can be taken for each other when
ids are unpacked wrongly (`HalfWord` is 4); three changes of the state are the
least in which `CLOSED` comes after something that is still on its way. A
behaviour is about the collectors or about the connection (`Apart`): they share
no state.

The bounds of values: keys that begin with each other or hold a comma, a value
that holds an equals sign, a base symbol that ends in a closing brace, and lists
that are not sorted or name a key twice; times on both sides of 1970, of a second's limit and
of the range of the seconds (`MaxSeconds` is 1, and a second has 10
milliseconds). A behaviour changes a symbol, the events, a quote or the flags:
they have nothing to do with each other. What the scaled widths leave open is
proved for all widths.

Where a behaviour ends because its bounds are used up, or because a listener
called who was calling it, deadlock is not checked; `HandleReturns` and
`CallsReturn` say that calls do not block, and the theorems `NobodyWaitsForEver`
that threads never wait for each other in a circle. Timers, callers, clients and callbacks
are symmetric in safety runs. The runs with a liveness property use no symmetry.

## 11. The proofs

**`MarketDepthProofs`** proves, for every set of orders, prices and sources, any
number of clients and timers, every feed, and with every client call allowed:

* `TypeCorrect`: the type invariant. The interesting cases are the loop of
  `update` (`WithoutOldType`, `WithNewType`), the outcomes of `clearBySource`
  (`ClearOutcomesSubset`: it erases no order of another source, on every
  outcome of the undefined increment), and the places of the threads.
* `IndexedAlwaysInBook`: inductive together with the type invariant, because
  every order is filed under its own index, so that erasing the old order of one
  index cannot erase the order of another.
* `TaskAlwaysHasTimer`: inductive together with the type invariant; only the
  notification and the cancellation take the flag's timer out of its live
  places, and both reset the flag.
* `NobodyWaitsForEver`: as long as a thread is inside the model, some thread has
  a step, unless the listener called the model back or `clearBySource` is in its
  endless loop. The strengthening, `WaitInv`, says who holds `mtx_`, that the
  listener is at work while a notification waits for it, and that a transaction
  which may schedule a task finds a timer.

Its second part proves, under `OneSnapshot` (one source, whose first transaction
is its only snapshot):

* `BookAlwaysIndexed` and `SnapshotAlwaysTop`. The strengthening, `BookInv`,
  says in addition who holds `mtx_` (`LockHeld`), that a snapshot meets empty
  sets (so that `clearBySource` has nothing to skip), that the books are finite,
  and that the snapshot a notification shows is still the best at the end of it.
  `InsertCoherent`, `EraseCoherent` and `RefreshedCoherent` say why a cache may
  be kept: an order behind the last cached one is never among the best.
* `NothingStranded`: a change that was not shown has a task to come, as long as
  the period is not set to 0 while one is pending.
* `Implementation`: the model implements `MarketDepthBook`, step by step.

**`HandlerProofs`** proves, for any callers, batches, listeners and size:

* `TypeCorrect`, with the inductive `HandlerInv`: who may hold which mutex, that
  a caller only displaces in a full ring, and that what a batch has still to
  call is in the map it iterates.
* `RemovedStaysSilent`: no step calls a listener that was removed.
* `OvertakingIsBounded`, with `OrderInv`. Two facts carry it. No listener was
  called with a batch whose thread has still to run (`GotInv`). And a batch that
  is not done is the last of its caller, which is in `handle`, or is in the ring
  at a place that is displaced before `Size` more of that caller follow
  (`OwnInv`): each push moves every other future one place further (`Rank`).
* `Implementation`: the handler implements `Notifier`, step by step, as long as
  no listener adds or removes another (`CallbackOps` is `FALSE`). With such
  listeners it does not: one that is added to the map to be called next gets a
  batch that had its moment before. `OwnInv` gives the bound of `Return`: what is
  left behind is in the ring.
* `NobodyWaitsForEver`: a caller in `handle` and a batch that is not done never
  wait for each other in a circle. `WaitInv` adds to `OrderInv` that a batch that
  has begun holds the mutex of the listeners until it ends, and that whatever is
  waited for has been made and can run.

**`DXEndpointProofs`** proves, for any clients, roles, callbacks and bounds:

* `TypeCorrect` and `OneInstance`, with `InstanceInv`: whoever builds an
  instance holds the registry's mutex and will fill an empty place
  (`MakersInv`), and there is room for the endpoints being built (`RoomInv`).
* `ListenersRemovable` and `OnlyInstalledAreCalled`, with `ListenerInv`: each
  listener is the one its table names and is installed; a notification calls
  listeners that are still there, because nobody removes one while the mutex is
  held.

**`GraalListsProofs`** proves `SpecDeletesOnce` and `SpecForgetsNothing` for any
elements whose `freeGraal` deletes what their `toGraal` allocated
(`DeletesMatchBlocks`; TLC evaluates it for the classes of `GraalTypes`) and any
lists. `ListInv` says exactly which blocks are live at each place of the loops
(`HeapInv`): all of the elements before the index, the first few of the element
at it, none of those behind. `SpecTypeOK` and `SpecRoundTrip` rest on
`ReceivedInv`, what is read is what was written of the elements so far. The rest
of `SpecRoundTrip` is about the table of classes: the tag of a structure tells
the class (`StructNames`, `TagTellsClass`), a class reads the fields that it and
its bases write, but for the time of a message (`ReadsAsWritten`,
`MessageReads`), and so each element comes back (`EventComesBack`,
`OthersComeBack`).

**`SubscriptionProofs`** proves, for any threads, symbols, listeners and batches,
`SpecTypeOK`, `SpecEveryBatchOnce`, `SpecChangeListenersMatch` and
`SpecListenersAreUpToDate`. The inductive invariant, `IInv`, has two halves. For
events: there is one handle once a thread has got past the mutex (`OneHandle`),
listeners and batches come after it (`Late`), so a batch has one call to make
(`Heard`). For changes: who holds the two locks (`Locks`), where a change
listener is on its way into the map and out of it (`Ways`), and what a listener
knows, corrected by the callbacks still to come (`Views`, `Overs`).
`NobodyWaitsForEver` says that calls, batches and callbacks do not wait for each
other in a circle, unless a change listener calls its subscription: whoever has
`eventListenerMutex` is between its lock and its unlock (`HolderInv`), and nobody
who has the lock of the Java subscription waits for `changeListenersMutex`.

**`InstrumentProfileProofs`** proves, for any threads, collectors,
listeners and updates, and any `HalfWord` larger than the ids, `SpecTypeOK`,
`SpecOnlyLiveCalled`, `SpecAgreesWithJava`, `SpecEveryUpdateHeard` and
`SpecHeardInOrder`. It rests on `Unpack` being the inverse of `Pack`, which needs
linear arithmetic on products. The invariant: who holds the mutex (`LockInv`); a
listener belongs to one collector and has been sent nothing before it is added
to Java (`IdsInv`), and until its id is returned its caller has the mutex that a
notification needs; Java's words are those of the ids (`JavaInv`); what is on
its way is for a listener of that collector or for one that is gone (`WayInv`);
later updates come later (`OrderInv`); `EveryUpdateHeard` one update at a time
(`HeardInv`). Of a connection it proves `AllSpecStateChangesHeard`, with
`ConnectionInv`: a connection is forgotten only after its last change, CLOSED,
was heard (`Forgotten`), and a listener that was due an earlier change and is
still there was due that one too (`ClosedIsLast`). `NobodyWaitsForEver` is about
the collectors, unless a listener calls its own one: whoever has a mutex is in a
call or a notification of that collector (`HolderInv`), and of the notifications
that Java has to begin the earliest waits for no other collector's
(`EarliestJob`).

**`EventFieldsProofs`** proves, for all widths, all times and any events,
`SpecEventPartsAgree` and `SpecWordsAreOrdered`. `Parts` and `Lexicographic` are
the facts about numbers `a * H + r` that all packing rests on; `FloorDiv` says
that `floorDiv` rounds down; `TimeParts` that seconds and milliseconds make up
the time, before 1970 too; `WordParts` that a word gives its parts back. The
invariant `EventsInv` says which word an event has, unless the sequence number
was set after the time: then `setSequence` has cleared the seconds, and
`EventPartsAgree` promises no time. `SpecQuotePartsAgree` is about a quote: the later of its
two times has the seconds, and the word beside them the milliseconds and the
sequence (`QuoteInv`), of which each setter writes its own part.
`SpecFlagsAgree` is about the flags of an order: `FieldTable` says where the
fields are, `PackedBits` that none is in another's place, and `SetPackedBits`
that setting one leaves the others (`FlagsInv`).

**`MarketEventSymbolsProofs`** proves `SpecPartsAgree` and `SpecStaysCanonical`
for any base symbols, codes, keys and values that can be told apart in a symbol
(`SymbolsAssumption`), and any number of attributes.

* The invariant, `SymbolInv`, is about what the code never makes, a list of
  attributes: there is one that the symbol shows behind its base and exchange
  (`Shows`, with the position at which each attribute is written), and that says
  of each key what `attributes` has (`Says`). A list can name a key twice, as a
  symbol that is read from outside can.
* The loops. A recursive definition whose measure falls with every turn has a
  solution (`Recursion`), so that `removeAttributeInternal` and
  `addAttributeInternal` end and return what their equations say. One turn drops,
  replaces or inserts one attribute of the list (`TurnDrops`, `TurnReplaces`,
  `TurnInserts`, `TurnAppends`); `Removes`, `Adds` and `Finds` follow by
  induction on the attributes that are left.
* Canonical form. Keys are in a strict total order (`LessTotal`,
  `LessTransitive`, `LessIrreflexive`), a turn keeps a sorted list sorted, a list
  is shown by one symbol (`ShownOnce`), and sorted lists that say the same are the
  same, so that the symbol is the canonical one (`FormStands`, `StandsForm`).

Where these modules say `NobodyWaitsForEver`, `NeverStuck` is about the guards
that wait: it names them for each place a thread can be in, and says that one of
them holds. It needs no fairness, and it does not say that a given thread is
served.

The assumptions are those the modules name: `OrdersAssumption` (indices and
prices are integers, each index has a source), `ModelAssumption` (threads are
distinct, limits and periods are natural numbers, a transaction's events have
the source of the transaction), `HandlerAssumption`, `DXEndpointAssumption`,
`SubscriptionAssumption`, `CollectorAssumption` and `ConnectionAssumption`
(bounds are natural numbers, ids fit into half a word), `NoneAssumption` (None is
nothing else),
`GraalListsAssumption`, `DeletesMatchBlocks` and `ElementsAssumption` (elements
are those of `GraalTypes`, and come back as its `fromGraal` says),
`FieldsAssumption` (widths are positive, and a second's milliseconds fit into
their bits), and `SymbolsAssumption` (base symbols have no `&` and no `{`, an
exchange code is not `{`, keys have no `=` and no `{`, values no `,` and no `{`:
the code looks for these characters).

Only model-checked: liveness (`EventuallyDelivered`, `HandleReturns`,
`UpdatesArrive`, `ClosedIsForgotten`, `CallsReturn`), which is out of the
prover's reach as everything under fairness is; and the findings.

## 12. What the models show besides

Behaviours of the code that the models have and no run forbids, because the
repository does not say clearly enough that they should not be, or because
nothing of a property is left.

Market depth:

* `clearBySource` assigns `isChanged_` (`MarketDepthModel.hpp:531`): an
  aggregated change of another source is forgotten when a source re-sends its
  snapshot, until something else changes. `NoStrandedChange` is checked with one
  source.
* A period set to 0 cancels the pending task without a notification: its changes
  are shown with the next one (`CancelTask` in `SetAggregationPeriod`).
  `EventuallyDelivered` is checked with periods that are not 0.
* A task whose thread has not set `isRunning_` yet is not cancelled, and runs
  beside the one that is scheduled in its place.
* `close()` leaves the timer (`:790`), although the class is said to remove all
  its listeners then (`:57`): the listener may be called once more.
* A listener that calls any method of the model waits for ever (`listener =
  "blocked"`): `mtx_` is held by who waits for it.
* A timer may fire after the model it belongs to was destroyed (`"dangling"`).

Endpoints and handlers:

* Removing a C callback leaves it in its table (`DXEndpoint.cpp:1152`), so that
  adding it again (`:1122`) succeeds and registers nothing.
* The number of a default name is read (`DXEndpoint.cpp:344`) before the endpoint
  is registered (`:127`): endpoints built at once, or twice by one builder, may
  have one name, which `DXEndpoint.hpp:191` says is unique.
* A C handle's callbacks are called after `dxfc_dxendpoint_free`; its table has
  no lock, so that threads that share a handle must not use it at once.
* A state listener that closes its endpoint, a listener that calls `handle` of
  its handler, and a handler that is moved while a batch runs are left out of the
  models: the first two wait for ever, the last leaves a dangling `this`.

Conversions:

* The time of a `Message` is written and not read (`Message.cpp:18`). A null
  candle symbol and a source without a name come back with empty names. A source
  of orders comes back as a plain indexed source.
* An exception while a list is converted forgets what was allocated
  (`EventMapper.hpp:72`), and `std::bad_alloc` in a `noexcept` function ends the
  program. Collections longer than `INT_MAX` are cut without a word.

Subscriptions and profiles:

* When Java refuses the event listener (`DXFeedSubscription.cpp:81`), or the
  subscription is closed, the handle is kept all the same (`:78`): later
  listeners get an id and hear nothing.
* A change listener that calls its subscription, an update listener that calls
  its collector, and a state listener that closes its connection wait for ever.
* A collector keeps handles and handlers of failed additions (`listenerHandles_`
  only grows), and is never unregistered; a connection whose listener closed it
  stays registered. More than 2^32 listeners would be taken for each other's.
* A listener that has no id left gets `FAKE_ID` and is not added.
  `setFromTime` reads and sets without a lock.

Values:

* `setSequence` clears the seconds of the time in the same word: the finding of
  `Values_sequence`, in ten classes. `Quote` does it right.
* `OrderBase::setSource` combines with `and` (`OrderBase.cpp:99`): the index
  becomes 0, or what two unrelated numbers have in common, although
  `Order.hpp:63` says that it changes its highest bits.
* The seconds of a word end in January 2038. `getSource` is `noexcept` and calls
  a function that throws for ids that are not names, and so does
  `setExchangeCode(std::int16_t)`.

## 13. What is not modelled

`PROJECT.json` lists each part of the system with the reason.

* Within the modelled parts: NaN in the comparator of orders; connecting and the
  properties of endpoints; moving handlers; the from time, aggregation period and
  batch limit of subscriptions; attaching to feeds and publishers; the iteration
  over profiles; the index of orders with their source; flags of trades,
  summaries and profiles; structures that Java allocates.
* `EntityManager`: one critical section per operation, ids are never used again.
  The modules use it as sequences or ranges of ids.
* `OptionChainsBuilder`, `OrderSource`'s tables, `DXPublisher` and `Promise`:
  what the plan has left.
* The handles of `Schedule`, `OnDemandService`, `AuthToken`, `HistoryEndpoint`,
  `Logging` and `System` are single calls into Java with no state of the
  library's own, and so are the isolated wrappers, one function per entry point.
* The Java library, the tools, the samples and the vendored code are outside.

Most of the implementation's lines are of those kinds: declarations with their
documentation, getters and setters, conversions from one structure to another
field by field, one wrapper per Java call, and tables. They have no behaviour
that a model would not repeat line by line, which is why the modules stand for a
small share of the lines and for most of what the library decides itself.
