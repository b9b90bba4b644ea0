-------------------------- MODULE MarketDepthModel --------------------------
(***************************************************************************)
(* MarketDepthModel<O> of model/MarketDepthModel.hpp with the timer of     *)
(* internal/Timer.hpp it aggregates with: a feed thread delivers           *)
(* transactions, clients call the model, timer threads notify, and the     *)
(* listener is run by a thread of its own while its caller waits for it.   *)
(***************************************************************************)
EXTENDS SortedOrderSet, Sequences

CONSTANTS
  Transactions,     \* what the feed may deliver: [source, isSnapshot, events]
  DepthLimits,      \* depth limits clients ask for; 0 is unbounded
  Periods,          \* aggregation periods clients ask for; 0 is none
  Feed,             \* the thread that runs the feed's listeners
  Users,            \* client threads
  Timers,           \* timer objects, each with its thread; a bound, see Free
  NoThread, NoTimer, NoOrder,
  UserOps,          \* the calls clients make
  Resnapshot,       \* may a source deliver a second snapshot (reconnection)?
  ListenerReenters  \* may the listener call back into the model?

Threads == {Feed} \union Users \union Timers

Transaction == [source : Source, isSnapshot : BOOLEAN, events : Seq(Order)]

AllOps == {"setDepthLimit", "setAggregationPeriod", "close", "destroy"}

ASSUME ModelAssumption ==
  /\ Feed \notin Users \union Timers
  /\ Users \intersect Timers = {}
  /\ NoThread \notin Threads
  /\ NoTimer \notin Timers
  /\ NoOrder \notin Order
  /\ DepthLimits \subseteq Nat
  /\ Periods \subseteq Nat
  /\ UserOps \subseteq AllOps
  /\ Resnapshot \in BOOLEAN
  /\ ListenerReenters \in BOOLEAN
  /\ Transactions \subseteq Transaction
  /\ \A t \in Transactions : \A i \in 1..Len(t.events) :
       IsFrom(t.source, t.events[i])

VARIABLES
  mtx,            \* mtx_: the thread that holds it, or NoThread
  pc,             \* where each thread is
  tx,             \* the transaction in eventsReceived, events still to apply
  byIndex,        \* ordersByIndex_
  sets,           \* buyOrders_ and sellOrders_
  depthLimit,     \* depthLimit_, the same in both sets
  period,         \* aggregationPeriodMillis_
  taskScheduled,  \* taskScheduled_
  taskTimer,      \* taskTimer_
  isRunning,      \* Timer::isRunning_ of each timer
  listener,       \* the listener's thread: "idle", "running" or "blocked"
  delivered,      \* the books the listener has last returned from
  synced,         \* sources whose first snapshot the feed has delivered
  closed,         \* close() was called
  destroyed       \* the model's destructor has run

vars == <<mtx, pc, tx, byIndex, sets, depthLimit, period, taskScheduled,
          taskTimer, isRunning, listener, delivered, synced, closed, destroyed>>

bookVars == <<byIndex, sets, depthLimit>>
taskVars == <<taskScheduled, taskTimer, isRunning>>
lifeVars == <<synced, closed, destroyed>>

FeedPc  == {"idle", "arrived", "apply", "notify", "inListener", "hung"}
UserPc  == {"idle", "notify", "inListener"}
TimerPc == {"none", "spawned", "sleeping", "firing", "notify", "inListener",
            "finishing", "dangling"}

Places(t) == IF t = Feed THEN FeedPc ELSE IF t \in Users THEN UserPc ELSE TimerPc

PcOK ==
  /\ pc \in [Threads -> FeedPc \union UserPc \union TimerPc]
  /\ \A t \in Threads : pc[t] \in Places(t)

TypeOK ==
  /\ mtx \in Threads \union {NoThread}
  /\ PcOK
  /\ tx \in Transaction
  /\ byIndex \in [Index -> Order \union {NoOrder}]
  /\ sets \in [BookSide -> OrderSet]
  /\ depthLimit \in Nat
  /\ period \in Nat
  /\ taskScheduled \in BOOLEAN
  /\ taskTimer \in Timers \union {NoTimer}
  /\ isRunning \in [Timers -> BOOLEAN]
  /\ listener \in {"idle", "running", "blocked"}
  /\ delivered \in [BookSide -> SUBSET Order]
  /\ synced \subseteq Source
  /\ closed \in BOOLEAN
  /\ destroyed \in BOOLEAN

\* The constructor, with the limit and the period of the builder.
Init ==
  /\ mtx = NoThread
  /\ pc = [t \in Threads |-> IF t \in Timers THEN "none" ELSE "idle"]
  /\ tx \in {[source |-> s, isSnapshot |-> FALSE, events |-> <<>>] : s \in Source}
  /\ byIndex = [i \in Index |-> NoOrder]
  /\ depthLimit \in DepthLimits
  /\ sets = [s \in BookSide |-> EmptyOrderSet(depthLimit)]
  /\ period \in Periods
  /\ taskScheduled = FALSE
  /\ taskTimer = NoTimer
  /\ isRunning = [t \in Timers |-> FALSE]
  /\ listener = "idle"
  /\ delivered = [s \in BookSide |-> {}]
  /\ synced = {}
  /\ closed = FALSE
  /\ destroyed = FALSE

Goto(t, where) == pc' = [pc EXCEPT ![t] = where]

-----------------------------------------------------------------------------
(***************************************************************************)
(* The aggregation task.  A finished timer is reused, for the code makes   *)
(* as many as it likes; calls that may schedule wait for a free one, which *)
(* is the only effect of the bound on their number.                        *)
(***************************************************************************)
Free == {t \in Timers : pc[t] = "none"}

Cancellable == taskScheduled /\ taskTimer # NoTimer /\ isRunning[taskTimer]

\* Mutant: taskScheduled_ is not reset.
CancelTask_KeepsFlag ==
  /\ isRunning' = [isRunning EXCEPT ![taskTimer] = FALSE]
  /\ taskTimer' = NoTimer
  /\ UNCHANGED taskScheduled

CancelTask ==
  /\ isRunning' = [isRunning EXCEPT ![taskTimer] = FALSE]
  /\ taskTimer' = NoTimer
  /\ taskScheduled' = FALSE

TryCancelTask ==
  IF Cancellable THEN CancelTask ELSE UNCHANGED taskVars

\* Timer::runOnce: isRunning_ stays FALSE until the new thread sets it.
RunOnce(t) ==
  /\ t \in Free
  /\ taskScheduled' = TRUE
  /\ taskTimer' = t

-----------------------------------------------------------------------------
(***************************************************************************)
(* The feed thread: eventsReceived.  A source begins with a snapshot, and  *)
(* delivers another one only when the feed reconnects.                     *)
(***************************************************************************)
MayDeliver(t) ==
  \/ t.source \notin synced /\ t.isSnapshot
  \/ t.source \in synced /\ (t.isSnapshot => Resnapshot)

\* The listener's weak_ptr is locked and eventsReceived entered.
FeedArrives ==
  /\ pc[Feed] = "idle"
  /\ ~ closed
  /\ ~ destroyed
  /\ Free # {}
  /\ \E t \in Transactions :
       /\ MayDeliver(t)
       /\ tx' = t
       /\ synced' = synced \union {t.source}
  /\ Goto(Feed, "arrived")
  /\ UNCHANGED <<mtx, bookVars, period, taskVars, listener, delivered, closed,
                 destroyed>>

\* Mutant: only the sets are cleared.
ForgetSource_Nothing(src) == UNCHANGED byIndex

ForgetSource(src) ==
  byIndex' = [i \in Index |-> IF byIndex[i] # NoOrder /\ SourceOf[i] = src
                                THEN NoOrder ELSE byIndex[i]]

\* update() up to its loop: a snapshot first clears its source.
UpdateBegins ==
  /\ pc[Feed] = "arrived"
  /\ mtx = NoThread
  /\ mtx' = Feed
  /\ \/ /\ ~ tx.isSnapshot
        /\ Goto(Feed, "apply")
        /\ UNCHANGED <<byIndex, sets>>
     \/ /\ tx.isSnapshot
        /\ ForgetSource(tx.source)
        /\ \E b \in ClearOutcomes("BUY", sets["BUY"].orders, tx.source),
              a \in ClearOutcomes("SELL", sets["SELL"].orders, tx.source) :
             \/ /\ sets' = Both(Cleared(sets["BUY"], b), Cleared(sets["SELL"], a))
                /\ Goto(Feed, "apply")
             \/ /\ \/ MayHang("BUY", sets["BUY"].orders, tx.source, b)
                   \/ MayHang("SELL", sets["SELL"].orders, tx.source, a)
                /\ Goto(Feed, "hung")
                /\ UNCHANGED sets
  /\ UNCHANGED <<tx, depthLimit, period, taskVars, listener, delivered, lifeVars>>

\* One turn of update()'s loop.
Filed(o) == byIndex[o.index] # NoOrder

\* Mutant: the old order is looked for on the side of the new one.
WithoutOld_NewSide(o) ==
  IF Filed(o)
    THEN LET s == BookOf(o)
         IN  [sets EXCEPT ![s] = Erase(s, @, depthLimit, byIndex[o.index])]
    ELSE sets

WithoutOld(o) ==
  IF Filed(o)
    THEN LET old == byIndex[o.index]
             s   == BookOf(old)
         IN  [sets EXCEPT ![s] = Erase(s, @, depthLimit, old)]
    ELSE sets

WithNew(books, o) ==
  LET s == BookOf(o)
  IN  IF o.live
        THEN [books EXCEPT ![s] = Insert(s, @, depthLimit, o)]
        ELSE books

ApplyOrder ==
  /\ pc[Feed] = "apply"
  /\ tx.events # <<>>
  /\ LET o == Head(tx.events)
     IN  /\ sets' = WithNew(WithoutOld(o), o)
         /\ byIndex' = [byIndex EXCEPT ![o.index] = IF o.live THEN o ELSE NoOrder]
  /\ tx' = [tx EXCEPT !.events = Tail(@)]
  /\ UNCHANGED <<mtx, pc, depthLimit, period, taskVars, listener, delivered,
                 lifeVars>>

\* Mutant: only the buy orders are asked.
SomeSetChanged_Buy == sets["BUY"].isChanged

\* The result of update().
SomeSetChanged == \E s \in BookSide : sets[s].isChanged

UpdateEnds ==
  /\ pc[Feed] = "apply"
  /\ tx.events = <<>>
  /\ \/ /\ ~ SomeSetChanged
        /\ mtx' = NoThread
        /\ Goto(Feed, "idle")
        /\ UNCHANGED taskVars
     \/ /\ SomeSetChanged
        /\ tx.isSnapshot \/ period = 0
        /\ TryCancelTask
        /\ Goto(Feed, "notify")
        /\ UNCHANGED mtx
     \/ /\ SomeSetChanged
        /\ ~ (tx.isSnapshot \/ period = 0)
        /\ mtx' = NoThread
        /\ \/ /\ taskScheduled
              /\ Goto(Feed, "idle")
              /\ UNCHANGED taskVars
           \/ /\ ~ taskScheduled
              /\ \E t \in Timers :
                   /\ RunOnce(t)
                   /\ pc' = [pc EXCEPT ![Feed] = "idle", ![t] = "spawned"]
              /\ UNCHANGED isRunning
  /\ UNCHANGED <<tx, bookVars, period, listener, delivered, lifeVars>>

-----------------------------------------------------------------------------
(***************************************************************************)
(* notifyListeners, by whichever thread t has taken mtx_ for it.           *)
(***************************************************************************)
NotifyBegins(t) ==
  /\ pc[t] = "notify"
  /\ \E b \in Refreshed("BUY", sets["BUY"], depthLimit),
        a \in Refreshed("SELL", sets["SELL"], depthLimit) :
       sets' = Both(b, a)
  /\ listener' = "running"
  /\ Goto(t, "inListener")
  /\ UNCHANGED <<mtx, tx, byIndex, depthLimit, period, taskVars, delivered,
                 lifeVars>>

\* The listener calls a method of the model: it waits for mtx_, which the
\* thread that waits for the listener holds.
ListenerCalls ==
  /\ ListenerReenters
  /\ listener = "running"
  /\ listener' = "blocked"
  /\ UNCHANGED <<mtx, pc, tx, bookVars, period, taskVars, delivered, lifeVars>>

\* Mutant: a timer's thread ends like a client's call, its flag not reset.
AfterNotify_Call(t) == "idle"

AfterNotify(t) == IF t \in Timers THEN "finishing" ELSE "idle"

ListenerReturns(t) ==
  /\ pc[t] = "inListener"
  /\ listener = "running"
  /\ listener' = "idle"
  /\ delivered' = [s \in BookSide |-> sets[s].snapshot]
  /\ taskScheduled' = FALSE
  /\ mtx' = NoThread
  /\ Goto(t, AfterNotify(t))
  /\ UNCHANGED <<tx, bookVars, period, taskTimer, isRunning, lifeVars>>

-----------------------------------------------------------------------------
(***************************************************************************)
(* A timer's thread.                                                       *)
(***************************************************************************)
TimerStarts(t) ==
  /\ pc[t] = "spawned"
  /\ isRunning' = [isRunning EXCEPT ![t] = TRUE]
  /\ Goto(t, "sleeping")
  /\ UNCHANGED <<mtx, tx, bookVars, period, taskScheduled, taskTimer, listener,
                 delivered, lifeVars>>

\* The sleep is over, by the clock or by stop(); isRunning_ is looked at.
TimerWakes(t) ==
  /\ pc[t] = "sleeping"
  /\ Goto(t, IF isRunning[t] THEN "firing" ELSE "none")
  /\ UNCHANGED <<mtx, tx, bookVars, period, taskVars, listener, delivered,
                 lifeVars>>

\* The lambda calls notifyListeners() through a plain `this'.
TimerFires(t) ==
  /\ pc[t] = "firing"
  /\ \/ /\ destroyed
        /\ Goto(t, "dangling")
        /\ UNCHANGED mtx
     \/ /\ ~ destroyed
        /\ mtx = NoThread
        /\ mtx' = t
        /\ Goto(t, "notify")
  /\ UNCHANGED <<tx, bookVars, period, taskVars, listener, delivered, lifeVars>>

TimerFinishes(t) ==
  /\ pc[t] = "finishing"
  /\ isRunning' = [isRunning EXCEPT ![t] = FALSE]
  /\ Goto(t, "none")
  /\ UNCHANGED <<mtx, tx, bookVars, period, taskScheduled, taskTimer, listener,
                 delivered, lifeVars>>

-----------------------------------------------------------------------------
(***************************************************************************)
(* Client threads.  A call takes mtx_ and, unless it has to notify, is     *)
(* done when it gives it back.                                             *)
(***************************************************************************)
Calls(u, op) ==
  /\ op \in UserOps
  /\ pc[u] = "idle"
  /\ mtx = NoThread
  /\ ~ destroyed

SetDepthLimit(u, limit) ==
  /\ Calls(u, "setDepthLimit")
  /\ limit # depthLimit
  /\ mtx' = u
  /\ depthLimit' = limit
  /\ sets' = [s \in BookSide |-> [sets[s] EXCEPT !.isChanged = TRUE]]
  /\ TryCancelTask
  /\ Goto(u, "notify")
  /\ UNCHANGED <<tx, byIndex, period, listener, delivered, lifeVars>>

\* rescheduleTaskIfNeeded replaces a task only if it could cancel it.
SetAggregationPeriod(u, p) ==
  /\ Calls(u, "setAggregationPeriod")
  /\ p # period
  /\ Cardinality(Free) > 1
  /\ period' = p
  /\ \/ /\ ~ Cancellable
        /\ UNCHANGED <<pc, taskVars>>
     \/ /\ Cancellable
        /\ p = 0
        /\ CancelTask
        /\ UNCHANGED pc
     \/ /\ Cancellable
        /\ p # 0
        /\ isRunning' = [isRunning EXCEPT ![taskTimer] = FALSE]
        /\ \E t \in Timers : RunOnce(t) /\ Goto(t, "spawned")
  /\ UNCHANGED <<mtx, tx, bookVars, listener, delivered, lifeVars>>

Close(u) ==
  /\ Calls(u, "close")
  /\ ~ closed
  /\ closed' = TRUE
  /\ UNCHANGED <<mtx, pc, tx, bookVars, period, taskVars, listener, delivered,
                 synced, destroyed>>

\* The last reference is dropped, no call being in progress; the destructor
\* closes the model and stops no timer.
Destroy(u) ==
  /\ Calls(u, "destroy")
  /\ \A t \in {Feed} \union Users : pc[t] = "idle"
  /\ closed' = TRUE
  /\ destroyed' = TRUE
  /\ UNCHANGED <<mtx, pc, tx, bookVars, period, taskVars, listener, delivered,
                 synced>>

-----------------------------------------------------------------------------
FeedStep == UpdateBegins \/ ApplyOrder \/ UpdateEnds

NotifyStep(t) == NotifyBegins(t) \/ ListenerReturns(t)

TimerStep(t) ==
  TimerStarts(t) \/ TimerWakes(t) \/ TimerFires(t) \/ TimerFinishes(t)

UserCall(u) ==
  \/ \E n \in DepthLimits : SetDepthLimit(u, n)
  \/ \E p \in Periods : SetAggregationPeriod(u, p)
  \/ Close(u)
  \/ Destroy(u)

Next ==
  \/ FeedArrives
  \/ FeedStep
  \/ ListenerCalls
  \/ \E t \in Threads : NotifyStep(t)
  \/ \E t \in Timers : TimerStep(t)
  \/ \E u \in Users : UserCall(u)

Spec == Init /\ [][Next]_vars

\* Threads that have something to do are run; the feed and the clients need
\* never call, and nothing is promised of a listener that calls back.
Fairness ==
  /\ WF_vars(FeedStep)
  /\ \A t \in Threads : WF_vars(NotifyStep(t))
  /\ \A t \in Timers : WF_vars(TimerStep(t))

FairSpec == Spec /\ Fairness
=============================================================================
