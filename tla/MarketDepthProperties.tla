----------------------- MODULE MarketDepthProperties -----------------------
(***************************************************************************)
(* What MarketDepthModel promises.  The first group holds of every         *)
(* behaviour; the second relies on a feed whose snapshots never meet       *)
(* orders or changes of an earlier transaction (Resnapshot = FALSE and one *)
(* source), because SortedOrderSet::clearBySource loses both.              *)
(***************************************************************************)
EXTENDS MarketDepthModel

\* The live orders of a side, as ordersByIndex_ knows them.
Indexed(s) ==
  {byIndex[i] : i \in {j \in Index : /\ byIndex[j] # NoOrder
                                     /\ BookOf(byIndex[j]) = s}}

\* The listener's last books are the best orders of what the model holds.
DeliveredIsTop ==
  \A s \in BookSide : IsTop(s, delivered[s], sets[s].orders, depthLimit)

-----------------------------------------------------------------------------
\* An order that ordersByIndex_ still maps is in the set of its side, filed
\* under its own index: a later update or removal of it finds it there
\* (update() erases "removed" without looking whether it was in the set).
IndexedInBook ==
  \A i \in Index : byIndex[i] # NoOrder =>
    /\ byIndex[i].index = i
    /\ byIndex[i] \in sets[BookOf(byIndex[i])].orders

\* taskScheduled_ makes scheduleTaskIfNeeded do nothing, so it may be set
\* only while the timer it stands for will still notify: no cancelled,
\* finished or forgotten timer may leave the flag behind.
TaskHasTimer ==
  taskScheduled /\ ~ destroyed =>
    /\ taskTimer \in Timers
    /\ pc[taskTimer] \in {"spawned", "sleeping", "firing", "notify", "inListener"}
    /\ pc[taskTimer] = "sleeping" => isRunning[taskTimer]

-----------------------------------------------------------------------------
\* The two sets hold exactly the orders of ordersByIndex_: an order that was
\* updated, removed or moved to the other side leaves nothing behind.
BookIsIndexed ==
  \A s \in BookSide : sets[s].orders = Indexed(s)

\* An unchanged set's cached snapshot_ is its first depthLimit_ orders: what
\* markAsChangedIfNeeded dismisses as out of the limit never concerns them.
Coherent(s, set, limit) ==
  ~ set.isChanged => IsTop(s, set.snapshot, set.orders, limit)

SnapshotIsTop == \A s \in BookSide : Coherent(s, sets[s], depthLimit)

\* When no call is in progress, either the listener has seen the current
\* books or a task is scheduled that will show them to it.
NoStrandedChange ==
  mtx = NoThread => taskScheduled \/ DeliveredIsTop

\* Once the feed and the clients stop calling, the listener comes to see the
\* books that the orders delivered so far amount to, and goes on seeing them.
\* (Clients that reset the period for ever put the task off for ever.)
CallsEnd ==
  /\ <>[](\A t \in {Feed} \union Users : pc[t] = "idle")
  /\ <>[][FALSE]_period

EventuallyDelivered ==
  CallsEnd => <>[](\A s \in BookSide :
                     IsTop(s, delivered[s], Indexed(s), depthLimit))

\* The model implements its abstract specification: in particular, whatever
\* the listener is shown are the best orders at the moment it returns, never
\* a stale cache or a book that an update has half changed.
Book == INSTANCE MarketDepthBook WITH live <- byIndex, limit <- depthLimit

ImplementsBook == Book!Spec

-----------------------------------------------------------------------------
\* What the documentation and the tests say, and the code does not do.

\* Clearing a source for a snapshot leaves none of its orders in the sets,
\* as tests/model/MarketDepthModelTest.cpp expects of a snapshot that only
\* removes ("REQUIRE(buyOrders_.empty())"): every order the sets hold when
\* no transaction is being applied is one that ordersByIndex_ knows.
NoOrphanOrder ==
  pc[Feed] = "idle" => \A s \in BookSide : sets[s].orders \subseteq Indexed(s)
=============================================================================
