------------------------- MODULE MarketDepthProofs -------------------------
(***************************************************************************)
(* Proofs about MarketDepthModel for every set of orders, threads and      *)
(* timers, every feed and every client.                                    *)
(***************************************************************************)
EXTENDS MarketDepthProperties, FiniteSetTheorems, TLAPS

-----------------------------------------------------------------------------
(* The operations of SortedOrderSet on values of the right type.           *)

LEMMA MarkType ==
  ASSUME NEW s, NEW set \in OrderSet, NEW limit \in Nat, NEW o
  PROVE  /\ MarkAsChangedIfNeeded(s, set, limit, o) \in OrderSet
         /\ MarkAsChangedIfNeeded(s, set, limit, o).orders = set.orders
         /\ MarkAsChangedIfNeeded(s, set, limit, o).snapshot = set.snapshot
<1>1. (\/ set.isChanged
       \/ Unbounded(limit)
       \/ CountWithinLimit(set, limit)
       \/ OrderWithinLimit(s, set, o)) \in BOOLEAN
  OBVIOUS
<1> QED
  BY <1>1 DEF MarkAsChangedIfNeeded, OrderSet

LEMMA InsertType ==
  ASSUME NEW s, NEW set \in OrderSet, NEW limit \in Nat, NEW o \in Order
  PROVE  /\ Insert(s, set, limit, o) \in OrderSet
         /\ Insert(s, set, limit, o).orders = set.orders \union {o}
<1> DEFINE more == [set EXCEPT !.orders = @ \union {o}]
<1>1. more \in OrderSet /\ more.orders = set.orders \union {o}
  BY DEF OrderSet
<1> HIDE DEF more
<1>2. MarkAsChangedIfNeeded(s, more, limit, o) \in OrderSet
      /\ MarkAsChangedIfNeeded(s, more, limit, o).orders = more.orders
  BY <1>1, MarkType
<1>3. CASE o \in set.orders
  BY <1>3 DEF Insert
<1>4. CASE o \notin set.orders
  BY <1>1, <1>2, <1>4 DEF Insert, more
<1> QED
  BY <1>3, <1>4

LEMMA EraseType ==
  ASSUME NEW s, NEW set \in OrderSet, NEW limit \in Nat, NEW o
  PROVE  /\ Erase(s, set, limit, o) \in OrderSet
         /\ Erase(s, set, limit, o).orders = set.orders \ {o}
<1> DEFINE fewer == [set EXCEPT !.orders = @ \ {o}]
<1>1. fewer \in OrderSet /\ fewer.orders = set.orders \ {o}
  BY DEF OrderSet
<1> HIDE DEF fewer
<1>2. MarkAsChangedIfNeeded(s, fewer, limit, o) \in OrderSet
      /\ MarkAsChangedIfNeeded(s, fewer, limit, o).orders = fewer.orders
  BY <1>1, MarkType
<1>3. CASE o \notin set.orders
  BY <1>3 DEF Erase
<1>4. CASE o \in set.orders
  BY <1>1, <1>2, <1>4 DEF Erase, fewer
<1> QED
  BY <1>3, <1>4

LEMMA RefreshedType ==
  ASSUME NEW s, NEW set \in OrderSet, NEW limit \in Nat,
         NEW r \in Refreshed(s, set, limit)
  PROVE  /\ r \in OrderSet
         /\ r.orders = set.orders
         /\ ~ r.isChanged
<1>1. CASE set.isChanged
  <2>1. PICK T \in Tops(s, set.orders, limit) :
          r = [set EXCEPT !.isChanged = FALSE, !.snapshot = T]
    BY <1>1 DEF Refreshed
  <2>2. T \subseteq Order
    BY <2>1 DEF Tops, OrderSet
  <2> QED
    BY <2>1, <2>2 DEF OrderSet
<1>2. CASE ~ set.isChanged
  BY <1>2 DEF Refreshed, OrderSet
<1> QED
  BY <1>1, <1>2

\* Whatever the loop of clearBySource leaves was there before, and it erases
\* no order of another source.
LEMMA ClearOutcomesSubset ==
  ASSUME NEW s, NEW S, NEW src, NEW R \in ClearOutcomes(s, S, src)
  PROVE  /\ R \subseteq S
         /\ \A o \in S : ~ IsFrom(src, o) => o \in R
<1>1. FirstPass(s, S, src) \subseteq S
      /\ \A o \in S : ~ IsFrom(src, o) => o \in FirstPass(s, S, src)
  BY DEF FirstPass
<1>2. ASSUME NEW F, NEW Q \in AfterEnd(s, F, src)
      PROVE  Q \subseteq F /\ \A o \in F : ~ IsFrom(src, o) => o \in Q
  <2> DEFINE Above(o) == {p \in F : Less(s, o, p)}
             ButSuccessor(o) == {o} \union UNION {Above(p) : p \in Above(o)}
  <2>1. \/ Q = F \ TrailingRun(s, F, src)
        \/ \E o \in F : /\ \A p \in ButSuccessor(o) : IsFrom(src, p)
                        /\ Q = F \ ButSuccessor(o)
    BY <1>2 DEF AfterEnd
  <2>2. \A o \in TrailingRun(s, F, src) : IsFrom(src, o)
    BY DEF TrailingRun
  <2>3. CASE Q = F \ TrailingRun(s, F, src)
    BY <2>2, <2>3
  <2>4. ASSUME NEW o \in F, \A p \in ButSuccessor(o) : IsFrom(src, p),
               Q = F \ ButSuccessor(o)
        PROVE  Q \subseteq F /\ \A q \in F : ~ IsFrom(src, q) => q \in Q
    <3> HIDE DEF ButSuccessor
    <3> QED BY <2>4
  <2> QED
    BY <2>1, <2>3, <2>4
<1> QED
  BY <1>1, <1>2 DEF ClearOutcomes

LEMMA ClearedType ==
  ASSUME NEW set \in OrderSet, NEW R, R \subseteq set.orders
  PROVE  Cleared(set, R) \in OrderSet /\ Cleared(set, R).orders = R
BY DEF Cleared, OrderSet

LEMMA BothType ==
  ASSUME NEW V, NEW b \in V, NEW a \in V
  PROVE  /\ Both(b, a) \in [BookSide -> V]
         /\ Both(b, a)["BUY"] = b
         /\ Both(b, a)["SELL"] = a
BY DEF Both, BookSide

-----------------------------------------------------------------------------
(* The loop of update() and what notifyListeners reads.                    *)

LEMMA WithoutOldType ==
  ASSUME TypeOK, NEW o \in Order
  PROVE  /\ WithoutOld(o) \in [BookSide -> OrderSet]
         /\ \A s \in BookSide : WithoutOld(o)[s].orders =
              IF Filed(o) /\ s = BookOf(byIndex[o.index])
                THEN sets[s].orders \ {byIndex[o.index]}
                ELSE sets[s].orders
<1> DEFINE old == byIndex[o.index]
           side == BookOf(old)
<1>1. side \in BookSide
  BY DEF BookOf, BookSide
<1>2. sets[side] \in OrderSet /\ sets \in [BookSide -> OrderSet]
      /\ depthLimit \in Nat
  BY <1>1 DEF TypeOK
<1> HIDE DEF side, old
<1> DEFINE e == Erase(side, sets[side], depthLimit, old)
<1>3. e \in OrderSet /\ e.orders = sets[side].orders \ {old}
  BY <1>2, EraseType
<1>4. WithoutOld(o) = IF Filed(o) THEN [sets EXCEPT ![side] = e] ELSE sets
  BY DEF WithoutOld, side, old
<1> HIDE DEF e
<1>5. CASE Filed(o)
  BY <1>1, <1>2, <1>3, <1>4, <1>5 DEF side, old
<1>6. CASE ~ Filed(o)
  BY <1>2, <1>4, <1>6
<1> QED
  BY <1>5, <1>6

LEMMA WithNewType ==
  ASSUME depthLimit \in Nat, NEW o \in Order,
         NEW books \in [BookSide -> OrderSet]
  PROVE  /\ WithNew(books, o) \in [BookSide -> OrderSet]
         /\ \A s \in BookSide : WithNew(books, o)[s].orders =
              IF o.live /\ s = BookOf(o)
                THEN books[s].orders \union {o}
                ELSE books[s].orders
<1> DEFINE side == BookOf(o)
<1>1. side \in BookSide
  BY DEF BookOf, BookSide
<1> DEFINE n == Insert(side, books[side], depthLimit, o)
<1>2. n \in OrderSet /\ n.orders = books[side].orders \union {o}
  BY <1>1, InsertType
<1>3. WithNew(books, o) = IF o.live THEN [books EXCEPT ![side] = n] ELSE books
  BY DEF WithNew
<1> HIDE DEF side, n
<1>4. CASE o.live
  BY <1>1, <1>2, <1>3, <1>4 DEF side
<1>5. CASE ~ o.live
  BY <1>3, <1>5
<1> QED
  BY <1>4, <1>5

\* Clearing a source leaves sets of orders, each a part of what it was that
\* keeps every order of another source.
LEMMA ClearedBooks ==
  ASSUME TypeOK, NEW src,
         NEW b \in ClearOutcomes("BUY", sets["BUY"].orders, src),
         NEW a \in ClearOutcomes("SELL", sets["SELL"].orders, src)
  PROVE  LET books == Both(Cleared(sets["BUY"], b), Cleared(sets["SELL"], a))
         IN  /\ books \in [BookSide -> OrderSet]
             /\ \A s \in BookSide :
                  /\ books[s].orders \subseteq sets[s].orders
                  /\ \A o \in sets[s].orders : ~ IsFrom(src, o) => o \in books[s].orders
<1> DEFINE cb == Cleared(sets["BUY"], b)
           ca == Cleared(sets["SELL"], a)
<1>1. sets["BUY"] \in OrderSet /\ sets["SELL"] \in OrderSet
  BY DEF TypeOK, BookSide
<1>2. b \subseteq sets["BUY"].orders /\ a \subseteq sets["SELL"].orders
      /\ (\A o \in sets["BUY"].orders : ~ IsFrom(src, o) => o \in b)
      /\ (\A o \in sets["SELL"].orders : ~ IsFrom(src, o) => o \in a)
  BY ClearOutcomesSubset
<1>3. cb \in OrderSet /\ cb.orders = b /\ ca \in OrderSet /\ ca.orders = a
  BY <1>1, <1>2, ClearedType
<1> HIDE DEF cb, ca
<1>4. Both(cb, ca) \in [BookSide -> OrderSet]
      /\ Both(cb, ca)["BUY"] = cb /\ Both(cb, ca)["SELL"] = ca
  BY <1>3, BothType
<1>5. \A s \in BookSide :
        /\ Both(cb, ca)[s].orders \subseteq sets[s].orders
        /\ \A o \in sets[s].orders : ~ IsFrom(src, o) => o \in Both(cb, ca)[s].orders
  BY <1>2, <1>3, <1>4 DEF BookSide
<1> QED
  BY <1>4, <1>5 DEF cb, ca

LEMMA RefreshedBooks ==
  ASSUME TypeOK,
         NEW b \in Refreshed("BUY", sets["BUY"], depthLimit),
         NEW a \in Refreshed("SELL", sets["SELL"], depthLimit)
  PROVE  /\ Both(b, a) \in [BookSide -> OrderSet]
         /\ \A s \in BookSide : /\ Both(b, a)[s].orders = sets[s].orders
                                /\ ~ Both(b, a)[s].isChanged
<1>1. sets["BUY"] \in OrderSet /\ sets["SELL"] \in OrderSet /\ depthLimit \in Nat
  BY DEF TypeOK, BookSide
<1> DEFINE buy == sets["BUY"]
           sell == sets["SELL"]
<1> HIDE DEF buy, sell
<1>2a. b \in OrderSet /\ b.orders = buy.orders /\ ~ b.isChanged
  <2>1. buy \in OrderSet /\ b \in Refreshed("BUY", buy, depthLimit)
    BY <1>1 DEF buy
  <2> QED
    BY <1>1, <2>1, RefreshedType
<1>2b. a \in OrderSet /\ a.orders = sell.orders /\ ~ a.isChanged
  <2>1. sell \in OrderSet /\ a \in Refreshed("SELL", sell, depthLimit)
    BY <1>1 DEF sell
  <2> QED
    BY <1>1, <2>1, RefreshedType
<1>2. /\ b \in OrderSet /\ b.orders = sets["BUY"].orders /\ ~ b.isChanged
      /\ a \in OrderSet /\ a.orders = sets["SELL"].orders /\ ~ a.isChanged
  BY <1>2a, <1>2b DEF buy, sell
<1>3. /\ Both(b, a) \in [BookSide -> OrderSet]
      /\ Both(b, a)["BUY"] = b /\ Both(b, a)["SELL"] = a
  BY <1>2, BothType
<1> QED
  BY <1>2, <1>3 DEF BookSide

-----------------------------------------------------------------------------
(* Type correctness.                                                       *)

LEMMA TypeInit == Init => TypeOK
<1> SUFFICES ASSUME Init PROVE TypeOK
  OBVIOUS
<1> USE ModelAssumption
<1>1. depthLimit \in Nat /\ period \in Nat
  BY DEF Init
<1>2. EmptyOrderSet(depthLimit) \in OrderSet
  BY DEF EmptyOrderSet, OrderSet
<1>3. sets \in [BookSide -> OrderSet]
  BY <1>2 DEF Init
<1>4. tx \in Transaction
  <2>1. PICK src \in Source :
          tx = [source |-> src, isSnapshot |-> FALSE, events |-> <<>>]
    BY DEF Init
  <2>2. <<>> \in Seq(Order)
    OBVIOUS
  <2> QED
    BY <2>1, <2>2 DEF Transaction
<1>5. PcOK
  BY DEF Init, PcOK, Places, Threads, FeedPc, UserPc, TimerPc
<1>6. delivered \in [BookSide -> SUBSET Order] /\ synced \subseteq Source
  BY DEF Init
<1> QED
  BY <1>1, <1>3, <1>4, <1>5, <1>6 DEF Init, TypeOK

LEMMA PcStep ==
  ASSUME PcOK, NEW t \in Threads, NEW w \in Places(t), pc' = [pc EXCEPT ![t] = w]
  PROVE  PcOK'
<1>1. w \in FeedPc \union UserPc \union TimerPc
  BY DEF Places
<1> QED
  BY <1>1 DEF PcOK

LEMMA ThreadKinds ==
  /\ Feed \in Threads
  /\ Places(Feed) = FeedPc
  /\ \A u \in Users : u \in Threads /\ u # Feed /\ u \notin Timers /\ Places(u) = UserPc
  /\ \A t \in Timers : t \in Threads /\ t # Feed /\ t \notin Users /\ Places(t) = TimerPc
BY ModelAssumption DEF Threads, Places

LEMMA TypeFeed ==
  ASSUME TypeOK, FeedArrives \/ UpdateBegins \/ ApplyOrder \/ UpdateEnds
  PROVE  TypeOK'
<1> USE ModelAssumption, ThreadKinds DEF TypeOK, Goto, bookVars, taskVars, lifeVars
<1>1. CASE FeedArrives
  <2>1. tx' \in Transaction /\ synced' \subseteq Source
    BY <1>1 DEF FeedArrives, Transaction
  <2>2. PcOK'
    BY <1>1, PcStep DEF FeedArrives, FeedPc
  <2> QED
    BY <1>1, <2>1, <2>2 DEF FeedArrives
<1>2. CASE UpdateBegins
  <2>1. byIndex' \in [Index -> Order \union {NoOrder}]
    BY <1>2 DEF UpdateBegins, ForgetSource
  <2>2. sets' \in [BookSide -> OrderSet]
    BY <1>2, ClearedBooks DEF UpdateBegins
  <2>3. PcOK'
    BY <1>2, PcStep DEF UpdateBegins, FeedPc
  <2>4. /\ mtx' = Feed
        /\ UNCHANGED <<tx, depthLimit, period, taskVars, listener, delivered, lifeVars>>
    BY <1>2 DEF UpdateBegins
  <2> QED
    BY <2>1, <2>2, <2>3, <2>4
<1>3. CASE ApplyOrder
  <2> DEFINE o == Head(tx.events)
  <2>1. o \in Order /\ Tail(tx.events) \in Seq(Order)
    BY <1>3 DEF ApplyOrder, Transaction
  <2>2. o.index \in Index
    BY <2>1 DEF Order
  <2>3. /\ sets' = WithNew(WithoutOld(o), o)
        /\ byIndex' = [byIndex EXCEPT ![o.index] = IF o.live THEN o ELSE NoOrder]
        /\ tx' = [tx EXCEPT !.events = Tail(@)]
        /\ UNCHANGED <<mtx, pc, depthLimit, period, taskVars, listener, delivered,
                       lifeVars>>
    BY <1>3 DEF ApplyOrder
  <2> HIDE DEF o
  <2>4. sets' \in [BookSide -> OrderSet]
    BY <2>1, <2>3, WithoutOldType, WithNewType
  <2>5. byIndex' \in [Index -> Order \union {NoOrder}]
    BY <2>1, <2>2, <2>3
  <2>6. tx' \in Transaction
    BY <2>1, <2>3 DEF Transaction
  <2> QED
    BY <2>3, <2>4, <2>5, <2>6 DEF PcOK
<1>4. CASE UpdateEnds
  <2>1. /\ mtx' \in {mtx, NoThread}
        /\ UNCHANGED <<tx, bookVars, period, listener, delivered, lifeVars>>
    BY <1>4 DEF UpdateEnds
  <2>2. /\ taskScheduled' \in BOOLEAN
        /\ taskTimer' \in Timers \union {NoTimer}
        /\ isRunning' \in [Timers -> BOOLEAN]
    BY <1>4 DEF UpdateEnds, TryCancelTask, CancelTask, RunOnce
  <2>3. \/ pc' \in {[pc EXCEPT ![Feed] = "idle"], [pc EXCEPT ![Feed] = "notify"]}
        \/ \E t \in Timers : pc' = [pc EXCEPT ![Feed] = "idle", ![t] = "spawned"]
    BY <1>4 DEF UpdateEnds
  <2>4. PcOK'
    <3>1. CASE pc' \in {[pc EXCEPT ![Feed] = "idle"], [pc EXCEPT ![Feed] = "notify"]}
      BY <3>1, PcStep DEF FeedPc
    <3>2. ASSUME NEW t \in Timers,
                 pc' = [pc EXCEPT ![Feed] = "idle", ![t] = "spawned"]
          PROVE  PcOK'
      BY <3>2 DEF PcOK, FeedPc, TimerPc
    <3> QED
      BY <2>3, <3>1, <3>2
  <2> QED
    BY <2>1, <2>2, <2>4
<1> QED
  BY <1>1, <1>2, <1>3, <1>4

LEMMA TypeNotify ==
  ASSUME TypeOK, NEW t \in Threads, NotifyStep(t)
  PROVE  TypeOK'
<1> USE ModelAssumption, ThreadKinds DEF TypeOK, Goto, bookVars, taskVars, lifeVars
<1>1. t = Feed \/ t \in Users \/ t \in Timers
  BY DEF Threads
<1>2. CASE NotifyBegins(t)
  <2>1. sets' \in [BookSide -> OrderSet]
    BY <1>2, RefreshedBooks DEF NotifyBegins
  <2>2. PcOK'
    BY <1>1, <1>2, PcStep DEF NotifyBegins, FeedPc, UserPc, TimerPc
  <2> QED
    BY <1>2, <2>1, <2>2 DEF NotifyBegins
<1>3. CASE ListenerReturns(t)
  <2>1. delivered' \in [BookSide -> SUBSET Order]
    BY <1>3 DEF ListenerReturns, OrderSet
  <2>2. PcOK'
    BY <1>1, <1>3, PcStep DEF ListenerReturns, AfterNotify, FeedPc, UserPc, TimerPc
  <2> QED
    BY <1>3, <2>1, <2>2 DEF ListenerReturns
<1> QED
  BY <1>2, <1>3 DEF NotifyStep

LEMMA TypeTimer ==
  ASSUME TypeOK, NEW t \in Timers, TimerStep(t)
  PROVE  TypeOK'
<1> USE ModelAssumption, ThreadKinds DEF TypeOK, Goto, bookVars, taskVars, lifeVars
<1>1. PcOK'
  BY PcStep DEF TimerStep, TimerStarts, TimerWakes, TimerFires, TimerFinishes, TimerPc
<1> QED
  BY <1>1 DEF TimerStep, TimerStarts, TimerWakes, TimerFires, TimerFinishes

LEMMA TypeUser ==
  ASSUME TypeOK, NEW u \in Users, UserCall(u)
  PROVE  TypeOK'
<1> USE ModelAssumption, ThreadKinds DEF TypeOK, Goto, bookVars, taskVars, lifeVars
<1>1. ASSUME NEW n \in DepthLimits, SetDepthLimit(u, n)
      PROVE  TypeOK'
  <2>1. sets' \in [BookSide -> OrderSet]
    BY <1>1 DEF SetDepthLimit, OrderSet
  <2>2. PcOK'
    BY <1>1, PcStep DEF SetDepthLimit, UserPc
  <2>3. /\ taskScheduled' \in BOOLEAN
        /\ taskTimer' \in Timers \union {NoTimer}
        /\ isRunning' \in [Timers -> BOOLEAN]
    BY <1>1 DEF SetDepthLimit, TryCancelTask, CancelTask
  <2> QED
    BY <1>1, <2>1, <2>2, <2>3 DEF SetDepthLimit
<1>2. ASSUME NEW p \in Periods, SetAggregationPeriod(u, p)
      PROVE  TypeOK'
  <2>1. PcOK'
    <3>1. pc' = pc \/ \E t \in Timers : pc' = [pc EXCEPT ![t] = "spawned"]
      BY <1>2 DEF SetAggregationPeriod
    <3> QED
      BY <3>1, PcStep DEF TimerPc, PcOK
  <2>2. /\ taskScheduled' \in BOOLEAN
        /\ taskTimer' \in Timers \union {NoTimer}
        /\ isRunning' \in [Timers -> BOOLEAN]
    BY <1>2 DEF SetAggregationPeriod, CancelTask, RunOnce
  <2>3. /\ period' \in Nat
        /\ UNCHANGED <<mtx, tx, bookVars, listener, delivered, lifeVars>>
    BY <1>2 DEF SetAggregationPeriod
  <2> QED
    BY <2>1, <2>2, <2>3
<1>3. CASE Close(u) \/ Destroy(u)
  BY <1>3 DEF Close, Destroy, PcOK
<1> QED
  BY <1>1, <1>2, <1>3 DEF UserCall

LEMMA TypeStep == TypeOK /\ [Next]_vars => TypeOK'
<1> SUFFICES ASSUME TypeOK, [Next]_vars PROVE TypeOK'
  OBVIOUS
<1>1. CASE FeedArrives \/ FeedStep
  BY <1>1, TypeFeed DEF FeedStep
<1>2. CASE ListenerCalls
  BY <1>2 DEF ListenerCalls, TypeOK, PcOK, bookVars, taskVars, lifeVars
<1>3. CASE UNCHANGED vars
  BY <1>3 DEF TypeOK, PcOK, vars
<1> QED
  BY <1>1, <1>2, <1>3, TypeNotify, TypeTimer, TypeUser DEF Next

\* Every variable keeps its type: in particular every thread is at a place
\* of its own kind, and the two books stay sets of orders whatever the
\* transactions, the loop of clearBySource included, do to them.
THEOREM TypeCorrect == Spec => []TypeOK
BY TypeInit, TypeStep, PTL DEF Spec

-----------------------------------------------------------------------------
(* ordersByIndex_ and the two sets.                                        *)

\* Only update() touches ordersByIndex_ and the orders of the sets.
LEMMA BookUnchanged ==
  ASSUME TypeOK, [Next]_vars
  PROVE  \/ UpdateBegins
         \/ ApplyOrder
         \/ /\ byIndex' = byIndex
            /\ \A s \in BookSide : sets'[s].orders = sets[s].orders
<1> USE DEF bookVars
<1>1. ASSUME NEW t \in Threads, NotifyBegins(t)
      PROVE  /\ byIndex' = byIndex
             /\ \A s \in BookSide : sets'[s].orders = sets[s].orders
  BY <1>1, RefreshedBooks DEF NotifyBegins
<1>2. ASSUME NEW u \in Users, NEW n \in DepthLimits, SetDepthLimit(u, n)
      PROVE  /\ byIndex' = byIndex
             /\ \A s \in BookSide : sets'[s].orders = sets[s].orders
  BY <1>2 DEF SetDepthLimit, TypeOK, OrderSet
<1>3. ASSUME NEW t \in Threads, ListenerReturns(t)
      PROVE  UNCHANGED <<byIndex, sets>>
  BY <1>3 DEF ListenerReturns
<1>4. ASSUME NEW t \in Timers, TimerStep(t)
      PROVE  UNCHANGED <<byIndex, sets>>
  BY <1>4 DEF TimerStep, TimerStarts, TimerWakes, TimerFires, TimerFinishes
<1>5. ASSUME NEW u \in Users, NEW p \in Periods, SetAggregationPeriod(u, p)
      PROVE  UNCHANGED <<byIndex, sets>>
  BY <1>5 DEF SetAggregationPeriod
<1>6. ASSUME NEW u \in Users, Close(u) \/ Destroy(u)
      PROVE  UNCHANGED <<byIndex, sets>>
  BY <1>6 DEF Close, Destroy
<1>7. CASE FeedArrives \/ UpdateEnds \/ ListenerCalls \/ UNCHANGED vars
  BY <1>7 DEF FeedArrives, UpdateEnds, ListenerCalls, vars
<1> QED
  BY <1>1, <1>2, <1>3, <1>4, <1>5, <1>6, <1>7
     DEF Next, FeedStep, NotifyStep, TimerStep, UserCall

LEMMA HeadIsOrder ==
  ASSUME TypeOK, ApplyOrder
  PROVE  Head(tx.events) \in Order /\ Head(tx.events).index \in Index
<1>1. tx.events \in Seq(Order) /\ tx.events # <<>>
  BY DEF TypeOK, Transaction, ApplyOrder
<1>2. Head(tx.events) \in Order
  BY <1>1
<1> QED
  BY <1>2 DEF Order

LEMMA IndexedStep ==
  ASSUME TypeOK, IndexedInBook, [Next]_vars
  PROVE  IndexedInBook'
<1> USE ModelAssumption
<1>1. CASE UpdateBegins /\ tx.isSnapshot
  <2> SUFFICES ASSUME NEW i \in Index, byIndex'[i] # NoOrder
               PROVE  /\ byIndex'[i].index = i
                      /\ byIndex'[i] \in sets'[BookOf(byIndex'[i])].orders
    BY DEF IndexedInBook
  <2>1. byIndex'[i] = byIndex[i] /\ SourceOf[i] # tx.source
    BY <1>1 DEF UpdateBegins, ForgetSource, TypeOK
  <2>2. byIndex[i].index = i /\ byIndex[i] \in sets[BookOf(byIndex[i])].orders
    BY <2>1 DEF IndexedInBook
  <2>3. BookOf(byIndex[i]) \in BookSide /\ ~ IsFrom(tx.source, byIndex[i])
    BY <2>1, <2>2 DEF BookOf, BookSide, IsFrom
  <2>4. \/ sets' = sets
        \/ \E b \in ClearOutcomes("BUY", sets["BUY"].orders, tx.source),
              a \in ClearOutcomes("SELL", sets["SELL"].orders, tx.source) :
             sets' = Both(Cleared(sets["BUY"], b), Cleared(sets["SELL"], a))
    BY <1>1 DEF UpdateBegins
  <2>5. \A s \in BookSide : \A o \in sets[s].orders :
          ~ IsFrom(tx.source, o) => o \in sets'[s].orders
    BY <2>4, ClearedBooks
  <2> QED
    BY <2>1, <2>2, <2>3, <2>5
<1>2. CASE ApplyOrder
  <2> DEFINE o == Head(tx.events)
             kept == WithoutOld(o)
  <2>1. o \in Order /\ o.index \in Index /\ depthLimit \in Nat
    BY <1>2, HeadIsOrder DEF TypeOK
  <2>2. /\ sets' = WithNew(kept, o)
        /\ byIndex' = [byIndex EXCEPT ![o.index] = IF o.live THEN o ELSE NoOrder]
    BY <1>2 DEF ApplyOrder
  <2> HIDE DEF o
  <2>3. /\ kept \in [BookSide -> OrderSet]
        /\ \A s \in BookSide : kept[s].orders =
             IF Filed(o) /\ s = BookOf(byIndex[o.index])
               THEN sets[s].orders \ {byIndex[o.index]}
               ELSE sets[s].orders
    BY <2>1, WithoutOldType
  <2> HIDE DEF kept
  <2>4. \A s \in BookSide : sets'[s].orders =
          IF o.live /\ s = BookOf(o) THEN kept[s].orders \union {o} ELSE kept[s].orders
    <3>1. \A s \in BookSide : WithNew(kept, o)[s].orders =
            IF o.live /\ s = BookOf(o) THEN kept[s].orders \union {o} ELSE kept[s].orders
      BY <2>1, <2>3, WithNewType
    <3> QED
      BY <2>2, <3>1
  <2> SUFFICES ASSUME NEW i \in Index, byIndex'[i] # NoOrder
               PROVE  /\ byIndex'[i].index = i
                      /\ byIndex'[i] \in sets'[BookOf(byIndex'[i])].orders
    BY DEF IndexedInBook
  <2>5. BookOf(byIndex'[i]) \in BookSide
    BY DEF BookOf, BookSide
  <2>6. CASE i = o.index
    <3>1. o.live /\ byIndex'[i] = o
      BY <2>1, <2>2, <2>6 DEF TypeOK
    <3> QED
      BY <2>4, <2>5, <2>6, <3>1
  <2>7. CASE i # o.index
    <3>1. byIndex'[i] = byIndex[i]
      BY <2>1, <2>2, <2>7 DEF TypeOK
    <3>2. byIndex[i].index = i /\ byIndex[i] \in sets[BookOf(byIndex[i])].orders
      BY <3>1 DEF IndexedInBook
    <3>3. Filed(o) => byIndex[i] # byIndex[o.index]
      BY <2>1, <2>7, <3>2 DEF IndexedInBook, Filed
    <3>4. byIndex[i] \in kept[BookOf(byIndex[i])].orders
      BY <2>3, <2>5, <3>1, <3>2, <3>3
    <3> QED
      BY <2>4, <2>5, <3>1, <3>2, <3>4
  <2> QED
    BY <2>6, <2>7
<1>3. CASE /\ byIndex' = byIndex
           /\ \A s \in BookSide : sets'[s].orders = sets[s].orders
  BY <1>3 DEF IndexedInBook, BookOf, BookSide
<1>4. CASE UpdateBegins /\ ~ tx.isSnapshot
  BY <1>3, <1>4 DEF UpdateBegins
<1> QED
  BY <1>1, <1>2, <1>3, <1>4, BookUnchanged

\* However transactions, snapshots included, come in: an order that
\* ordersByIndex_ maps is filed under its index and is in its side's set,
\* so that update() always finds the order it has to erase.
THEOREM IndexedAlwaysInBook == Spec => []IndexedInBook
<1>1. Init => IndexedInBook
  BY DEF Init, IndexedInBook
<1>2. TypeOK /\ IndexedInBook /\ [Next]_vars => IndexedInBook'
  BY IndexedStep
<1> QED
  BY <1>1, <1>2, TypeCorrect, PTL DEF Spec

-----------------------------------------------------------------------------
(* The aggregation task.                                                   *)

LEMMA TaskStep ==
  ASSUME TypeOK, TaskHasTimer, [Next]_vars
  PROVE  TaskHasTimer'
<1> USE ModelAssumption, ThreadKinds DEF Goto, TaskHasTimer
<1> DEFINE Live == {"spawned", "sleeping", "firing", "notify", "inListener"}
<1>1. CASE FeedArrives \/ UpdateBegins \/ ApplyOrder
  <2>1. /\ UNCHANGED <<taskVars, destroyed>>
        /\ \A t \in Timers : pc'[t] = pc[t]
    BY <1>1 DEF FeedArrives, UpdateBegins, ApplyOrder, taskVars, lifeVars, TypeOK, PcOK
  <2> QED
    BY <2>1 DEF taskVars
<1>2. CASE UpdateEnds
  <2>1. destroyed' = destroyed
    BY <1>2 DEF UpdateEnds, lifeVars
  <2>2. \/ /\ UNCHANGED taskVars
           /\ \A t \in Timers : pc'[t] = pc[t]
        \/ ~ taskScheduled'
        \/ taskTimer' \in Timers /\ pc'[taskTimer'] = "spawned"
    BY <1>2 DEF UpdateEnds, TryCancelTask, CancelTask, RunOnce, TypeOK, PcOK
  <2> QED
    BY <2>1, <2>2 DEF taskVars
<1>3. ASSUME NEW t \in Threads, NotifyBegins(t)
      PROVE  TaskHasTimer'
  BY <1>3 DEF NotifyBegins, taskVars, lifeVars, TypeOK, PcOK
<1>4. ASSUME NEW t \in Threads, ListenerReturns(t)
      PROVE  TaskHasTimer'
  BY <1>4 DEF ListenerReturns
<1>5. ASSUME NEW t \in Timers, TimerStarts(t)
      PROVE  TaskHasTimer'
  BY <1>5 DEF TimerStarts, lifeVars, TypeOK, PcOK
<1>6. ASSUME NEW t \in Timers, TimerWakes(t)
      PROVE  TaskHasTimer'
  BY <1>6 DEF TimerWakes, taskVars, lifeVars, TypeOK, PcOK
<1>7. ASSUME NEW t \in Timers, TimerFires(t)
      PROVE  TaskHasTimer'
  BY <1>7 DEF TimerFires, taskVars, lifeVars, TypeOK, PcOK
<1>8. ASSUME NEW t \in Timers, TimerFinishes(t)
      PROVE  TaskHasTimer'
  BY <1>8 DEF TimerFinishes, lifeVars, TypeOK, PcOK
<1>9. ASSUME NEW u \in Users, NEW n \in DepthLimits, SetDepthLimit(u, n)
      PROVE  TaskHasTimer'
  <2>1. destroyed' = destroyed /\ \A t \in Timers : pc'[t] = pc[t]
    BY <1>9 DEF SetDepthLimit, lifeVars, TypeOK, PcOK
  <2>2. UNCHANGED taskVars \/ ~ taskScheduled'
    BY <1>9 DEF SetDepthLimit, TryCancelTask, CancelTask
  <2> QED
    BY <2>1, <2>2 DEF taskVars
<1>10. ASSUME NEW u \in Users, NEW p \in Periods, SetAggregationPeriod(u, p)
       PROVE  TaskHasTimer'
  <2>1. destroyed' = destroyed
    BY <1>10 DEF SetAggregationPeriod, lifeVars
  <2>2. \/ UNCHANGED <<pc, taskVars>>
        \/ ~ taskScheduled'
        \/ taskTimer' \in Timers /\ pc'[taskTimer'] = "spawned"
    BY <1>10 DEF SetAggregationPeriod, CancelTask, RunOnce, TypeOK, PcOK
  <2> QED
    BY <2>1, <2>2 DEF taskVars
<1>11. ASSUME NEW u \in Users, Close(u) \/ Destroy(u)
       PROVE  TaskHasTimer'
  BY <1>11 DEF Close, Destroy, taskVars
<1>12. CASE ListenerCalls \/ UNCHANGED vars
  BY <1>12 DEF ListenerCalls, vars, taskVars, lifeVars
<1> QED
  BY <1>1, <1>2, <1>3, <1>4, <1>5, <1>6, <1>7, <1>8, <1>9, <1>10, <1>11, <1>12
     DEF Next, FeedStep, NotifyStep, TimerStep, UserCall

\* taskScheduled_ never outlives the timer it stands for, whatever the races
\* of timers, cancellations and re-schedulings: scheduleTaskIfNeeded, which
\* trusts the flag, can rely on a notification to come.
THEOREM TaskAlwaysHasTimer == Spec => []TaskHasTimer
<1>1. Init => TaskHasTimer
  BY DEF Init, TaskHasTimer
<1>2. TypeOK /\ TaskHasTimer /\ [Next]_vars => TaskHasTimer'
  BY TaskStep
<1> QED
  BY <1>1, <1>2, TypeCorrect, PTL DEF Spec
-----------------------------------------------------------------------------
(* Who waits for whom: mtx_ is held by the thread that is inside a call or *)
(* a notification and by no other, a thread that waits for the listener    *)
(* waits for one that was started, and a transaction can schedule a task.  *)

Inside == {"apply", "hung", "notify", "inListener"}

WaitInv ==
  /\ \A t \in Threads : mtx = t <=> pc[t] \in Inside
  /\ \A t \in Threads : pc[t] = "inListener" => listener # "idle"
  /\ pc[Feed] \in {"arrived", "apply"} => Free # {}

LEMMA WaitInit == Init => WaitInv
BY ModelAssumption, ThreadKinds DEF Init, WaitInv, Inside

\* A thread of a timer that moves outside the mutex.
LEMMA TimerMoves ==
  ASSUME TypeOK, WaitInv, NEW t \in Timers, NEW w \in TimerPc \ Inside,
         pc[t] \notin Inside, pc[t] # "none", pc' = [pc EXCEPT ![t] = w],
         UNCHANGED <<mtx, listener>>
  PROVE  WaitInv'
<1>1. \A u \in Threads : pc'[u] = IF u = t THEN w ELSE pc[u]
  BY DEF TypeOK, PcOK
<1>2. \A u \in Timers : u \in Free => pc'[u] = "none"
  BY <1>1, ThreadKinds DEF Free
<1> QED
  BY <1>1, <1>2, ThreadKinds DEF WaitInv, Free, Inside

\* A thread that takes the mutex, which nobody holds, and goes inside.
LEMMA Enters ==
  ASSUME TypeOK, WaitInv, NEW t \in Threads, NEW w \in {"apply", "hung", "notify"},
         mtx = NoThread, mtx' = t, pc' = [pc EXCEPT ![t] = w],
         pc[t] # "none", w = "apply" => t = Feed /\ pc[t] = "arrived",
         UNCHANGED listener
  PROVE  WaitInv'
<1>1. /\ \A u \in Threads : pc'[u] = IF u = t THEN w ELSE pc[u]
      /\ w \in Inside /\ w # "inListener" /\ w # "none"
      /\ \A u \in Threads : u # NoThread
  BY ModelAssumption DEF TypeOK, PcOK, Inside
<1>2. Free' = Free
  BY <1>1, ThreadKinds DEF Free
<1>3. pc'[Feed] \in {"arrived", "apply"} => pc[Feed] \in {"arrived", "apply"}
  BY <1>1, ThreadKinds
<1>4. \A u \in Threads : mtx' = u <=> pc'[u] \in Inside
  BY <1>1 DEF WaitInv
<1> QED
  BY <1>1, <1>2, <1>3, <1>4 DEF WaitInv

LEMMA WaitFeed ==
  ASSUME TypeOK, WaitInv, FeedArrives \/ FeedStep
  PROVE  WaitInv'
<1> USE ModelAssumption, ThreadKinds DEF Goto
<1>1. pc \in [Threads -> FeedPc \union UserPc \union TimerPc] /\ pc[Feed] \in FeedPc
  BY DEF TypeOK, PcOK
<1>2. CASE FeedArrives
  <2>1. /\ pc' = [pc EXCEPT ![Feed] = "arrived"] /\ pc[Feed] = "idle" /\ Free # {}
        /\ UNCHANGED <<mtx, listener>>
    BY <1>2 DEF FeedArrives
  <2>2. \A u \in Threads : pc'[u] = IF u = Feed THEN "arrived" ELSE pc[u]
    BY <1>1, <2>1
  <2>3. Free' = Free
    BY <2>2 DEF Free
  <2> QED
    BY <2>1, <2>2, <2>3 DEF WaitInv, Inside
<1>3. CASE UpdateBegins
  <2>1. PICK w \in {"apply", "hung"} : pc' = [pc EXCEPT ![Feed] = w]
    BY <1>3 DEF UpdateBegins
  <2>2. mtx = NoThread /\ mtx' = Feed /\ pc[Feed] = "arrived" /\ UNCHANGED listener
    BY <1>3 DEF UpdateBegins
  <2> QED
    BY <2>1, <2>2, Enters
<1>4. CASE ApplyOrder
  BY <1>4 DEF ApplyOrder, WaitInv, Free
<1>5. CASE UpdateEnds
  <2>1. pc[Feed] = "apply" /\ mtx = Feed /\ UNCHANGED listener
    BY <1>5 DEF UpdateEnds, WaitInv, Inside
  <2>2. \A u \in Threads : u # Feed => pc[u] \notin Inside
    BY <2>1 DEF WaitInv
  <2>3. \/ pc' = [pc EXCEPT ![Feed] = "idle"] /\ mtx' = NoThread
        \/ pc' = [pc EXCEPT ![Feed] = "notify"] /\ mtx' = mtx
        \/ \E t \in Timers : pc' = [pc EXCEPT ![Feed] = "idle", ![t] = "spawned"]
                             /\ mtx' = NoThread
    BY <1>5 DEF UpdateEnds
  <2>4. CASE pc' = [pc EXCEPT ![Feed] = "idle"] /\ mtx' = NoThread
    BY <1>1, <2>1, <2>2, <2>4 DEF WaitInv, Inside
  <2>5. CASE pc' = [pc EXCEPT ![Feed] = "notify"] /\ mtx' = mtx
    BY <1>1, <2>1, <2>2, <2>5 DEF WaitInv, Inside
  <2>6. ASSUME NEW t \in Timers, mtx' = NoThread,
               pc' = [pc EXCEPT ![Feed] = "idle", ![t] = "spawned"]
        PROVE  WaitInv'
    <3>1. \A u \in Threads :
            pc'[u] = IF u = t THEN "spawned" ELSE IF u = Feed THEN "idle" ELSE pc[u]
      BY <1>1, <2>6
    <3>2. \A u \in Threads : pc'[u] \notin Inside /\ pc'[u] # "inListener"
      BY <2>2, <3>1 DEF Inside
    <3>3. pc'[Feed] = "idle"
      BY <3>1
    <3> QED
      BY <2>6, <3>2, <3>3 DEF WaitInv
  <2> QED
    BY <2>3, <2>4, <2>5, <2>6
<1> QED
  BY <1>2, <1>3, <1>4, <1>5 DEF FeedStep

LEMMA WaitNotify ==
  ASSUME TypeOK, WaitInv, NEW t \in Threads, NotifyStep(t)
  PROVE  WaitInv'
<1> USE ModelAssumption, ThreadKinds DEF Goto
<1>1. /\ pc[t] \in {"notify", "inListener"} /\ mtx = t
      /\ \A u \in Threads : u # t => pc[u] \notin Inside
  BY DEF NotifyStep, NotifyBegins, ListenerReturns, WaitInv, Inside
<1>2. PICK w \in {"inListener", "finishing", "idle"} : pc' = [pc EXCEPT ![t] = w]
  BY DEF NotifyStep, NotifyBegins, ListenerReturns, AfterNotify
<1>3. \A u \in Threads : pc'[u] = IF u = t THEN w ELSE pc[u]
  BY <1>2 DEF TypeOK, PcOK
<1>4. Free' = Free /\ (pc'[Feed] \in {"arrived", "apply"} => pc[Feed] \in {"arrived", "apply"})
  BY <1>1, <1>3 DEF Free
<1>5. CASE NotifyBegins(t)
  <2>1. mtx' = mtx /\ listener' = "running" /\ pc'[t] = "inListener"
    BY <1>5 DEF NotifyBegins, TypeOK, PcOK
  <2> QED
    BY <1>1, <1>3, <1>4, <2>1 DEF WaitInv, Inside
<1>6. CASE ListenerReturns(t)
  <2>1. mtx' = NoThread /\ pc'[t] \in {"finishing", "idle"}
    BY <1>6 DEF ListenerReturns, AfterNotify, TypeOK, PcOK
  <2> QED
    BY <1>1, <1>3, <1>4, <2>1 DEF WaitInv, Inside
<1> QED
  BY <1>5, <1>6 DEF NotifyStep

LEMMA WaitTimer ==
  ASSUME TypeOK, WaitInv, NEW t \in Timers, TimerStep(t)
  PROVE  WaitInv'
<1> USE DEF Goto
<1>1. CASE TimerStarts(t)
  BY <1>1, TimerMoves DEF TimerStarts, TimerPc, Inside
<1>2. CASE TimerWakes(t)
  <2>1. PICK w \in {"firing", "none"} : pc' = [pc EXCEPT ![t] = w]
    BY <1>2 DEF TimerWakes
  <2> QED
    BY <1>2, <2>1, TimerMoves DEF TimerWakes, TimerPc, Inside
<1>3. CASE TimerFires(t)
  <2>1. pc[t] = "firing" /\ UNCHANGED listener
    BY <1>3 DEF TimerFires
  <2>2. CASE pc' = [pc EXCEPT ![t] = "dangling"] /\ UNCHANGED mtx
    BY <2>1, <2>2, TimerMoves DEF TimerPc, Inside
  <2>3. CASE mtx = NoThread /\ mtx' = t /\ pc' = [pc EXCEPT ![t] = "notify"]
    BY <2>1, <2>3, Enters, ThreadKinds
  <2> QED
    BY <1>3, <2>2, <2>3 DEF TimerFires
<1>4. CASE TimerFinishes(t)
  BY <1>4, TimerMoves DEF TimerFinishes, TimerPc, Inside
<1> QED
  BY <1>1, <1>2, <1>3, <1>4 DEF TimerStep

LEMMA WaitUser ==
  ASSUME TypeOK, WaitInv, NEW u \in Users, UserCall(u)
  PROVE  WaitInv'
<1> USE ModelAssumption, ThreadKinds DEF Goto, Calls
<1>1. ASSUME NEW n \in DepthLimits, SetDepthLimit(u, n)
      PROVE  WaitInv'
  BY <1>1, Enters DEF SetDepthLimit
<1>2. ASSUME NEW p \in Periods, SetAggregationPeriod(u, p)
      PROVE  WaitInv'
  <2>1. UNCHANGED <<mtx, listener>> /\ Cardinality(Free) > 1
    BY <1>2 DEF SetAggregationPeriod
  <2>2. CASE UNCHANGED pc
    BY <2>1, <2>2 DEF WaitInv, Free
  <2>3. ASSUME NEW t \in Timers, t \in Free, pc' = [pc EXCEPT ![t] = "spawned"]
        PROVE  WaitInv'
    <3>1. \A v \in Threads : pc'[v] = IF v = t THEN "spawned" ELSE pc[v]
      BY <2>3 DEF TypeOK, PcOK
    <3>2. pc[t] = "none" /\ Free' = Free \ {t}
      BY <2>3, <3>1 DEF Free
    <3>3. Free \ {t} # {}
      <4>1. Cardinality({t}) = 1
        BY FS_Singleton
      <4>2. Free = {t} => Cardinality(Free) = 1
        BY <4>1, Zenon
      <4>3. Cardinality(Free) # 1
        BY <2>1
      <4> QED
        BY <2>3, <4>2, <4>3
    <3> QED
      BY <2>1, <3>1, <3>2, <3>3 DEF WaitInv, Inside
  <2>4. UNCHANGED pc \/ \E t \in Timers : t \in Free /\ pc' = [pc EXCEPT ![t] = "spawned"]
    BY <1>2 DEF SetAggregationPeriod, RunOnce
  <2> QED
    BY <2>2, <2>3, <2>4
<1>3. CASE Close(u) \/ Destroy(u)
  BY <1>3 DEF Close, Destroy, WaitInv, Free
<1> QED
  BY <1>1, <1>2, <1>3 DEF UserCall

LEMMA WaitStep == TypeOK /\ WaitInv /\ [Next]_vars => WaitInv'
<1> SUFFICES ASSUME TypeOK, WaitInv, [Next]_vars PROVE WaitInv'
  OBVIOUS
<1>1. CASE FeedArrives \/ FeedStep
  BY <1>1, WaitFeed
<1>2. CASE ListenerCalls
  BY <1>2 DEF ListenerCalls, WaitInv, Free
<1>3. CASE UNCHANGED vars
  BY <1>3 DEF vars, WaitInv, Free
<1> QED
  BY <1>1, <1>2, <1>3, WaitNotify, WaitTimer, WaitUser DEF Next

\* A thread is doing something, or holds the mutex that calls wait for.
UnderWay ==
  \/ mtx # NoThread
  \/ \E t \in Threads : pc[t] \notin {"idle", "none", "dangling"}

\* What a thread waits for where it is, in the guards of FeedStep, NotifyStep
\* and TimerStep.
CanGoOn(t) ==
  \/ pc[t] = "arrived" /\ mtx = NoThread
  \/ pc[t] = "apply" /\ Free # {}
  \/ pc[t] = "notify"
  \/ pc[t] = "inListener" /\ listener = "running"
  \/ pc[t] \in {"spawned", "sleeping", "finishing"}
  \/ pc[t] = "firing" /\ (destroyed \/ mtx = NoThread)

NeverStuck ==
  UnderWay =>
    \/ listener = "blocked"
    \/ pc[Feed] = "hung"
    \/ \E t \in Threads : CanGoOn(t)

\* The feed, the clients, the timers and the listener's thread never all wait
\* for each other, however many they are: only a listener that calls the model
\* back, or the loop of clearBySource when it does not end, stops the rest.
THEOREM NobodyWaitsForEver == Spec => []NeverStuck
<1>1. TypeOK /\ WaitInv => NeverStuck
  <2> SUFFICES ASSUME TypeOK, WaitInv, UnderWay, listener # "blocked", pc[Feed] # "hung"
               PROVE  \E t \in Threads : CanGoOn(t)
    BY DEF NeverStuck
  <2> USE ThreadKinds
  <2>1. /\ mtx \in Threads \union {NoThread} /\ listener \in {"idle", "running"}
        /\ \A t \in Threads : pc[t] \in Places(t)
    BY DEF TypeOK, PcOK
  <2>2. \A t \in Threads : pc[t] = "apply" => t = Feed
    BY <2>1 DEF Threads, UserPc, TimerPc
  <2>3. \A t \in Threads : pc[t] = "hung" => t = Feed
    BY <2>1 DEF Threads, UserPc, TimerPc
  <2>4. CASE mtx # NoThread
    <3>1. mtx \in Threads /\ pc[mtx] \in Inside
      BY <2>1, <2>4 DEF WaitInv
    <3> QED
      BY <2>1, <2>2, <2>3, <3>1 DEF WaitInv, Inside, CanGoOn
  <2>5. CASE mtx = NoThread
    <3>1. PICK t \in Threads : pc[t] \notin {"idle", "none", "dangling"}
      BY <2>5 DEF UnderWay
    <3>2. pc[t] \notin Inside
      BY <2>5, ModelAssumption DEF WaitInv
    <3>3. pc[t] \in {"arrived", "spawned", "sleeping", "firing", "finishing"}
      BY <2>1, <3>1, <3>2 DEF Threads, FeedPc, UserPc, TimerPc, Inside
    <3> QED
      BY <2>5, <3>3 DEF CanGoOn
  <2> QED
    BY <2>4, <2>5
<1> QED
  BY <1>1, WaitInit, WaitStep, TypeCorrect, PTL DEF Spec

-----------------------------------------------------------------------------
(***************************************************************************)
(* What a feed with one source that never re-sends a snapshot may rely on: *)
(* the cache of each book is what it should be, no change is stranded, and *)
(* the model implements MarketDepthBook.                                   *)
(***************************************************************************)

-----------------------------------------------------------------------------
(* A change that is not marked does not concern the cached orders.         *)

\* Insert does not disturb the cache unless it says so.
LEMMA InsertCoherent ==
  ASSUME NEW s, NEW set \in OrderSet, IsFiniteSet(set.orders),
         NEW limit \in Nat, NEW o \in Order, Coherent(s, set, limit)
  PROVE  Coherent(s, Insert(s, set, limit, o), limit)
<1> DEFINE more == [set EXCEPT !.orders = @ \union {o}]
           new == MarkAsChangedIfNeeded(s, more, limit, o)
<1>1. CASE o \in set.orders
  BY <1>1 DEF Insert
<1>2. CASE o \notin set.orders
  <2>1. more \in OrderSet /\ more.orders = set.orders \union {o}
        /\ more.snapshot = set.snapshot /\ more.isChanged = set.isChanged
    BY DEF OrderSet
  <2>2. Insert(s, set, limit, o) = new
    BY <1>2 DEF Insert
  <2> HIDE DEF more
  <2>3. /\ new.orders = set.orders \union {o}
        /\ new.snapshot = set.snapshot
    BY <2>1, MarkType
  <2>4. new.isChanged = \/ more.isChanged
                        \/ Unbounded(limit)
                        \/ CountWithinLimit(more, limit)
                        \/ OrderWithinLimit(s, more, o)
    BY <2>1 DEF MarkAsChangedIfNeeded, OrderSet
  <2> HIDE DEF new
  <2> SUFFICES ASSUME ~ new.isChanged
               PROVE  IsTop(s, set.snapshot, set.orders \union {o}, limit)
    BY <2>2, <2>3 DEF Coherent
  <2>5. /\ ~ set.isChanged
        /\ ~ Unbounded(limit)
        /\ ~ (Cardinality(set.orders \union {o}) <= limit)
        /\ \A b \in set.snapshot : Less(s, b, o)
    BY <2>1, <2>4 DEF CountWithinLimit, OrderWithinLimit
  <2>6. IsTop(s, set.snapshot, set.orders, limit)
    BY <2>5 DEF Coherent
  <2>7. /\ Cardinality(set.orders) \in Nat
        /\ Cardinality(set.orders \union {o}) = Cardinality(set.orders) + 1
    BY <1>2, FS_AddElement, FS_CardinalityType
  <2>8. Cardinality(set.snapshot) = limit
    BY <2>5, <2>6, <2>7 DEF IsTop
  <2> QED
    BY <2>5, <2>6, <2>7, <2>8 DEF IsTop
<1> QED
  BY <1>1, <1>2

\* Nor does Erase.
LEMMA EraseCoherent ==
  ASSUME NEW s, NEW set \in OrderSet, IsFiniteSet(set.orders),
         NEW limit \in Nat, NEW o, o.price \in Int, o.index \in Int,
         Coherent(s, set, limit)
  PROVE  Coherent(s, Erase(s, set, limit, o), limit)
<1> DEFINE fewer == [set EXCEPT !.orders = @ \ {o}]
           new == MarkAsChangedIfNeeded(s, fewer, limit, o)
<1>1. CASE o \notin set.orders
  BY <1>1 DEF Erase
<1>2. CASE o \in set.orders
  <2>1. fewer \in OrderSet /\ fewer.orders = set.orders \ {o}
        /\ fewer.snapshot = set.snapshot /\ fewer.isChanged = set.isChanged
    BY DEF OrderSet
  <2>2. Erase(s, set, limit, o) = new
    BY <1>2 DEF Erase
  <2> HIDE DEF fewer
  <2>3. /\ new.orders = set.orders \ {o}
        /\ new.snapshot = set.snapshot
    BY <2>1, MarkType
  <2>4. new.isChanged = \/ fewer.isChanged
                        \/ Unbounded(limit)
                        \/ CountWithinLimit(fewer, limit)
                        \/ OrderWithinLimit(s, fewer, o)
    BY <2>1 DEF MarkAsChangedIfNeeded, OrderSet
  <2> HIDE DEF new
  <2> SUFFICES ASSUME ~ new.isChanged
               PROVE  IsTop(s, set.snapshot, set.orders \ {o}, limit)
    BY <2>2, <2>3 DEF Coherent
  <2>5. /\ ~ set.isChanged
        /\ ~ Unbounded(limit)
        /\ ~ (Cardinality(set.orders \ {o}) <= limit)
        /\ \A b \in set.snapshot : Less(s, b, o)
    BY <2>1, <2>4 DEF CountWithinLimit, OrderWithinLimit
  <2>6. IsTop(s, set.snapshot, set.orders, limit)
    BY <2>5 DEF Coherent
  <2>7. /\ Cardinality(set.orders) \in Nat
        /\ Cardinality(set.orders \ {o}) = Cardinality(set.orders) - 1
    BY <1>2, FS_RemoveElement, FS_CardinalityType
  <2>8. Cardinality(set.snapshot) = limit
    BY <2>5, <2>6, <2>7 DEF IsTop
  <2>9. o \notin set.snapshot
    BY <2>5 DEF Less
  <2> QED
    BY <2>5, <2>6, <2>7, <2>8, <2>9 DEF IsTop
<1> QED
  BY <1>1, <1>2

\* The cache that toVector leaves is that of an unchanged set.
LEMMA RefreshedCoherent ==
  ASSUME NEW s, NEW set \in OrderSet, NEW limit \in Nat,
         NEW r \in Refreshed(s, set, limit), Coherent(s, set, limit)
  PROVE  IsTop(s, r.snapshot, set.orders, limit)
<1>1. CASE set.isChanged
  <2>1. PICK T \in Tops(s, set.orders, limit) :
          r = [set EXCEPT !.isChanged = FALSE, !.snapshot = T]
    BY <1>1 DEF Refreshed
  <2>2. r.snapshot = T
    BY <2>1 DEF OrderSet
  <2> QED
    BY <2>1, <2>2 DEF Tops
<1>2. CASE ~ set.isChanged
  BY <1>2 DEF Refreshed, Coherent
<1> QED
  BY <1>1, <1>2

-----------------------------------------------------------------------------
(* The inductive invariant.                                                *)

\* A feed of one source whose first transaction is its only snapshot.
OneSnapshot == ~ Resnapshot /\ \E src : Source = {src}

\* No client switches aggregation off.
AggregationStays == "setAggregationPeriod" \notin UserOps \/ 0 \notin Periods

InUpdate(t) == pc[t] \in {"apply", "hung"}

InNotify(t) == pc[t] \in {"notify", "inListener"}

\* mtx_ is held by the one thread that is inside an update or a notification.
LockHeld == \A t \in Threads : (InUpdate(t) \/ InNotify(t)) <=> mtx = t

\* Until the snapshot is applied there is nothing to clear and nothing shown.
BeforeSnapshot == synced = {} \/ (pc[Feed] = "arrived" /\ tx.isSnapshot)

Fresh ==
  /\ pc[Feed] # "idle" => synced # {}
  /\ BeforeSnapshot =>
       /\ \A i \in Index : byIndex[i] = NoOrder
       /\ \A s \in BookSide : /\ sets[s].orders = {}
                              /\ sets[s].snapshot = {}
                              /\ delivered[s] = {}

FiniteBooks == \A s \in BookSide : IsFiniteSet(sets[s].orders)

\* What the listener is being shown, and what it was shown last.
ShownIsCached ==
  IF \E t \in Threads : pc[t] = "inListener"
    THEN \A s \in BookSide : ~ sets[s].isChanged
    ELSE \A s \in BookSide : delivered[s] = sets[s].snapshot

BookInv ==
  /\ TypeOK
  /\ IndexedInBook
  /\ LockHeld
  /\ Fresh
  /\ FiniteBooks
  /\ BookIsIndexed
  /\ SnapshotIsTop
  /\ ShownIsCached

\* A changed set is on its way to the listener, or is what it has seen.
ChangeIsPending ==
  \A s \in BookSide : sets[s].isChanged =>
    \/ taskScheduled
    \/ \E t \in Threads : InNotify(t)
    \/ pc[Feed] = "apply"
    \/ IsTop(s, sets[s].snapshot, sets[s].orders, depthLimit)

-----------------------------------------------------------------------------
(* The mutex.                                                              *)

LEMMA LockInit == Init => LockHeld
BY ModelAssumption DEF Init, LockHeld, InUpdate, InNotify, Threads

LEMMA LockStep ==
  ASSUME TypeOK, LockHeld, [Next]_vars
  PROVE  LockHeld'
<1> USE ModelAssumption, ThreadKinds DEF LockHeld, InUpdate, InNotify, Goto
<1>1. pc \in [Threads -> FeedPc \union UserPc \union TimerPc]
      /\ pc[Feed] \in FeedPc /\ NoThread \notin Threads
      /\ (\A u \in Users : pc[u] \in UserPc) /\ (\A t \in Timers : pc[t] \in TimerPc)
  BY DEF TypeOK, PcOK
<1>2. CASE FeedArrives
  BY <1>1, <1>2 DEF FeedArrives
<1>3. CASE UpdateBegins
  BY <1>1, <1>3 DEF UpdateBegins
<1>4. CASE ApplyOrder
  BY <1>4 DEF ApplyOrder
<1>5. CASE UpdateEnds
  BY <1>1, <1>5 DEF UpdateEnds, RunOnce, Free
<1>6. ASSUME NEW t \in Threads, NotifyBegins(t)
      PROVE  LockHeld'
  BY <1>1, <1>6 DEF NotifyBegins
<1>7. ASSUME NEW t \in Threads, ListenerReturns(t)
      PROVE  LockHeld'
  BY <1>1, <1>7 DEF ListenerReturns, AfterNotify
<1>8. ASSUME NEW t \in Timers, TimerStep(t)
      PROVE  LockHeld'
  BY <1>1, <1>8 DEF TimerStep, TimerStarts, TimerWakes, TimerFires, TimerFinishes
<1>9. ASSUME NEW u \in Users, NEW n \in DepthLimits, SetDepthLimit(u, n)
      PROVE  LockHeld'
  BY <1>1, <1>9 DEF SetDepthLimit, Calls
<1>10. ASSUME NEW u \in Users, NEW p \in Periods, SetAggregationPeriod(u, p)
       PROVE  LockHeld'
  BY <1>1, <1>10 DEF SetAggregationPeriod, RunOnce, Free, Calls
<1>11. ASSUME NEW u \in Users, Close(u) \/ Destroy(u)
       PROVE  LockHeld'
  BY <1>11 DEF Close, Destroy
<1>12. CASE ListenerCalls \/ UNCHANGED vars
  BY <1>12 DEF ListenerCalls, vars
<1> QED
  BY <1>2, <1>3, <1>4, <1>5, <1>6, <1>7, <1>8, <1>9, <1>10, <1>11, <1>12
     DEF Next, FeedStep, NotifyStep, UserCall

-----------------------------------------------------------------------------
(* The books.                                                              *)

\* What changes the sets, and what leaves both them and the limit alone.
LEMMA SetsUnchanged ==
  ASSUME TypeOK, [Next]_vars
  PROVE  \/ UpdateBegins
         \/ ApplyOrder
         \/ \E t \in Threads : NotifyBegins(t)
         \/ \E u \in Users, n \in DepthLimits : SetDepthLimit(u, n)
         \/ UNCHANGED bookVars
<1> USE DEF bookVars
<1>1. CASE FeedArrives \/ UpdateEnds \/ ListenerCalls \/ UNCHANGED vars
  BY <1>1 DEF FeedArrives, UpdateEnds, ListenerCalls, vars
<1>2. ASSUME NEW t \in Threads, ListenerReturns(t)
      PROVE  UNCHANGED bookVars
  BY <1>2 DEF ListenerReturns
<1>3. ASSUME NEW t \in Timers, TimerStep(t)
      PROVE  UNCHANGED bookVars
  BY <1>3 DEF TimerStep, TimerStarts, TimerWakes, TimerFires, TimerFinishes
<1>4. ASSUME NEW u \in Users, NEW p \in Periods, SetAggregationPeriod(u, p)
      PROVE  UNCHANGED bookVars
  BY <1>4 DEF SetAggregationPeriod
<1>5. ASSUME NEW u \in Users, Close(u) \/ Destroy(u)
      PROVE  UNCHANGED bookVars
  BY <1>5 DEF Close, Destroy
<1> QED
  BY <1>1, <1>2, <1>3, <1>4, <1>5 DEF Next, FeedStep, NotifyStep, UserCall

\* Clearing a book that is empty leaves it empty and unchanged.
LEMMA ClearedEmpty ==
  ASSUME NEW s, NEW set \in OrderSet, set.orders = {}, NEW src,
         NEW R \in ClearOutcomes(s, set.orders, src)
  PROVE  Cleared(set, R) = [orders |-> {}, snapshot |-> set.snapshot, isChanged |-> FALSE]
<1>1. R = {}
  BY ClearOutcomesSubset
<1>2. Cleared(set, R) = [set EXCEPT !.orders = R, !.isChanged = FALSE]
  BY <1>1 DEF Cleared
<1> QED
  BY <1>1, <1>2 DEF OrderSet

\* Before its snapshot a source has nothing to be cleared: UpdateBegins only
\* takes back a changed flag.
LEMMA FreshClear ==
  ASSUME TypeOK, Fresh, UpdateBegins, tx.isSnapshot
  PROVE  /\ byIndex' = byIndex
         /\ pc' = [pc EXCEPT ![Feed] = "apply"]
         /\ \A s \in BookSide :
              sets'[s] = [orders |-> {}, snapshot |-> {}, isChanged |-> FALSE]
<1>1. /\ \A i \in Index : byIndex[i] = NoOrder
      /\ \A s \in BookSide : sets[s].orders = {} /\ sets[s].snapshot = {}
  BY DEF Fresh, BeforeSnapshot, UpdateBegins
<1>2. byIndex' = byIndex
  BY <1>1 DEF UpdateBegins, ForgetSource, TypeOK
<1>3. sets["BUY"] \in OrderSet /\ sets["SELL"] \in OrderSet
      /\ "BUY" \in BookSide /\ "SELL" \in BookSide
  BY DEF TypeOK, BookSide
<1>4. PICK b \in ClearOutcomes("BUY", sets["BUY"].orders, tx.source),
           a \in ClearOutcomes("SELL", sets["SELL"].orders, tx.source) :
        \/ /\ sets' = Both(Cleared(sets["BUY"], b), Cleared(sets["SELL"], a))
           /\ Goto(Feed, "apply")
        \/ \/ MayHang("BUY", sets["BUY"].orders, tx.source, b)
           \/ MayHang("SELL", sets["SELL"].orders, tx.source, a)
  BY DEF UpdateBegins
<1>5. /\ ~ MayHang("BUY", sets["BUY"].orders, tx.source, b)
      /\ ~ MayHang("SELL", sets["SELL"].orders, tx.source, a)
  BY <1>1, <1>3 DEF MayHang, StepsPastEnd, LastOf
<1>6. LET empty == [orders |-> {}, snapshot |-> {}, isChanged |-> FALSE]
      IN  Cleared(sets["BUY"], b) = empty /\ Cleared(sets["SELL"], a) = empty
  <2> DEFINE buy == sets["BUY"]
             sell == sets["SELL"]
  <2>1. buy \in OrderSet /\ buy.orders = {} /\ buy.snapshot = {}
        /\ b \in ClearOutcomes("BUY", buy.orders, tx.source)
    BY <1>1, <1>3
  <2>2. sell \in OrderSet /\ sell.orders = {} /\ sell.snapshot = {}
        /\ a \in ClearOutcomes("SELL", sell.orders, tx.source)
    BY <1>1, <1>3
  <2> HIDE DEF buy, sell
  <2>3. Cleared(buy, b) = [orders |-> {}, snapshot |-> {}, isChanged |-> FALSE]
    BY <2>1, ClearedEmpty
  <2>4. Cleared(sell, a) = [orders |-> {}, snapshot |-> {}, isChanged |-> FALSE]
    BY <2>2, ClearedEmpty
  <2> QED
    BY <2>3, <2>4 DEF buy, sell
<1> QED
  BY <1>2, <1>4, <1>5, <1>6 DEF Both, BookSide, Goto

LEMMA FreshStep ==
  ASSUME TypeOK, Fresh, OneSnapshot, [Next]_vars
  PROVE  Fresh'
<1> USE ModelAssumption, ThreadKinds DEF Fresh, BeforeSnapshot, Goto
<1>1. pc \in [Threads -> FeedPc \union UserPc \union TimerPc]
      /\ (\A u \in Users : u # Feed) /\ (\A t \in Timers : t # Feed)
  BY DEF TypeOK, PcOK
<1>2. CASE FeedArrives
  <2>1. PICK t \in Transactions :
          MayDeliver(t) /\ tx' = t /\ synced' = synced \union {t.source}
    BY <1>2 DEF FeedArrives
  <2>2. UNCHANGED <<byIndex, sets, delivered>>
    BY <1>2 DEF FeedArrives, bookVars
  <2>3. BeforeSnapshot' => BeforeSnapshot
    <3> SUFFICES ASSUME t.isSnapshot PROVE synced = {}
      BY <2>1
    <3>1. t.source \notin synced
      BY <2>1 DEF MayDeliver, OneSnapshot
    <3>2. t.source \in Source /\ synced \subseteq Source
      BY <2>1 DEF TypeOK, Transaction
    <3> QED
      BY <3>1, <3>2 DEF OneSnapshot
  <2> QED
    BY <2>1, <2>2, <2>3
<1>3. CASE UpdateBegins \/ ApplyOrder \/ UpdateEnds
  <2>1. pc[Feed] # "idle" /\ pc'[Feed] # "arrived" /\ synced' = synced
    BY <1>1, <1>3 DEF UpdateBegins, ApplyOrder, UpdateEnds, lifeVars
  <2> QED
    BY <2>1
<1>4. ASSUME NEW t \in Threads, NotifyBegins(t)
      PROVE  Fresh'
  <2>1. /\ UNCHANGED <<tx, byIndex, delivered, synced>>
        /\ pc[t] = "notify" /\ pc' = [pc EXCEPT ![t] = "inListener"]
    BY <1>4 DEF NotifyBegins, lifeVars
  <2>2. PICK b \in Refreshed("BUY", sets["BUY"], depthLimit),
             a \in Refreshed("SELL", sets["SELL"], depthLimit) : sets' = Both(b, a)
    BY <1>4 DEF NotifyBegins
  <2>3. ASSUME NEW s, NEW set \in OrderSet, set.orders = {}, set.snapshot = {},
               NEW r \in Refreshed(s, set, depthLimit)
        PROVE  r.orders = {} /\ r.snapshot = {}
    <3>1. CASE set.isChanged
      <4>1. PICK T \in SUBSET set.orders :
              r = [set EXCEPT !.isChanged = FALSE, !.snapshot = T]
        BY <3>1 DEF Refreshed, Tops
      <4> QED
        BY <2>3, <4>1 DEF OrderSet
    <3>2. CASE ~ set.isChanged
      BY <2>3, <3>2 DEF Refreshed
    <3> QED
      BY <3>1, <3>2
  <2>4. sets["BUY"] \in OrderSet /\ sets["SELL"] \in OrderSet
        /\ "BUY" \in BookSide /\ "SELL" \in BookSide
    BY DEF TypeOK, BookSide
  <2>5. (\A s \in BookSide : sets[s].orders = {} /\ sets[s].snapshot = {})
          => \A s \in BookSide : sets'[s].orders = {} /\ sets'[s].snapshot = {}
    BY <2>2, <2>3, <2>4 DEF Both, BookSide
  <2> QED
    BY <1>1, <2>1, <2>5
<1>5. ASSUME NEW t \in Threads, ListenerReturns(t)
      PROVE  Fresh'
  BY <1>1, <1>5 DEF ListenerReturns, bookVars, lifeVars, AfterNotify
<1>6. ASSUME NEW t \in Timers, TimerStep(t)
      PROVE  Fresh'
  BY <1>1, <1>6 DEF TimerStep, TimerStarts, TimerWakes, TimerFires, TimerFinishes,
                    bookVars, lifeVars
<1>7. ASSUME NEW u \in Users, NEW n \in DepthLimits, SetDepthLimit(u, n)
      PROVE  Fresh'
  BY <1>1, <1>7 DEF SetDepthLimit, lifeVars, TypeOK, OrderSet
<1>8. ASSUME NEW u \in Users, NEW p \in Periods, SetAggregationPeriod(u, p)
      PROVE  Fresh'
  BY <1>1, <1>8 DEF SetAggregationPeriod, bookVars, lifeVars
<1>9. ASSUME NEW u \in Users, Close(u) \/ Destroy(u)
      PROVE  Fresh'
  BY <1>9 DEF Close, Destroy, bookVars
<1>10. CASE ListenerCalls \/ UNCHANGED vars
  BY <1>10 DEF ListenerCalls, vars, bookVars, lifeVars
<1> QED
  BY <1>2, <1>3, <1>4, <1>5, <1>6, <1>7, <1>8, <1>9, <1>10
     DEF Next, FeedStep, NotifyStep, UserCall

LEMMA FiniteStep ==
  ASSUME TypeOK, FiniteBooks, [Next]_vars
  PROVE  FiniteBooks'
<1>1. CASE UpdateBegins
  <2>1. \A s \in BookSide : sets'[s].orders \subseteq sets[s].orders
    BY <1>1, ClearedBooks DEF UpdateBegins
  <2> QED
    BY <2>1, FS_Subset DEF FiniteBooks
<1>2. CASE ApplyOrder
  <2> DEFINE o == Head(tx.events)
             kept == WithoutOld(o)
  <2>1. o \in Order /\ o.index \in Index /\ depthLimit \in Nat
    BY <1>2, HeadIsOrder DEF TypeOK
  <2>2. sets' = WithNew(kept, o)
    BY <1>2 DEF ApplyOrder
  <2> HIDE DEF o
  <2>3. kept \in [BookSide -> OrderSet]
        /\ \A s \in BookSide : kept[s].orders \subseteq sets[s].orders
    BY <2>1, WithoutOldType
  <2> HIDE DEF kept
  <2>4. \A s \in BookSide : sets'[s].orders \subseteq sets[s].orders \union {o}
    <3>0. \A s \in BookSide :
            WithNew(kept, o)[s].orders \subseteq kept[s].orders \union {o}
      <4>1. \A s \in BookSide : WithNew(kept, o)[s].orders =
              IF o.live /\ s = BookOf(o)
                THEN kept[s].orders \union {o}
                ELSE kept[s].orders
        BY <2>1, <2>3, WithNewType
      <4> QED
        BY <4>1
    <3>1. \A s \in BookSide : sets'[s].orders \subseteq kept[s].orders \union {o}
      BY <2>2, <3>0
    <3> QED
      BY <2>3, <3>1
  <2>5. \A s \in BookSide : IsFiniteSet(sets[s].orders \union {o})
    BY FS_AddElement DEF FiniteBooks
  <2> QED
    BY <2>4, <2>5, FS_Subset DEF FiniteBooks
<1>3. CASE \A s \in BookSide : sets'[s].orders = sets[s].orders
  BY <1>3 DEF FiniteBooks
<1> QED
  BY <1>1, <1>2, <1>3, BookUnchanged

LEMMA BookIndexedStep ==
  ASSUME TypeOK, IndexedInBook, Fresh, BookIsIndexed, OneSnapshot, [Next]_vars
  PROVE  BookIsIndexed'
<1> USE ModelAssumption
<1>1. CASE UpdateBegins /\ tx.isSnapshot
  <2>1. /\ byIndex' = byIndex
        /\ \A s \in BookSide : sets'[s].orders = {}
    BY <1>1, FreshClear
  <2>2. \A i \in Index : byIndex[i] = NoOrder
    BY <1>1 DEF Fresh, BeforeSnapshot, UpdateBegins
  <2> QED
    BY <2>1, <2>2 DEF BookIsIndexed, Indexed
<1>2. CASE ApplyOrder
  <2> DEFINE o == Head(tx.events)
             kept == WithoutOld(o)
             old == byIndex[o.index]
  <2>1. o \in Order /\ o.index \in Index /\ depthLimit \in Nat
    BY <1>2, HeadIsOrder DEF TypeOK
  <2>2. /\ sets' = WithNew(kept, o)
        /\ byIndex' = [byIndex EXCEPT ![o.index] = IF o.live THEN o ELSE NoOrder]
    BY <1>2 DEF ApplyOrder
  <2> HIDE DEF o
  <2>3. /\ kept \in [BookSide -> OrderSet]
        /\ \A s \in BookSide : kept[s].orders =
             IF Filed(o) /\ s = BookOf(old) THEN sets[s].orders \ {old}
                                           ELSE sets[s].orders
    BY <2>1, WithoutOldType
  <2> HIDE DEF kept
  <2>4. \A s \in BookSide : sets'[s].orders =
          IF o.live /\ s = BookOf(o) THEN kept[s].orders \union {o} ELSE kept[s].orders
    <3>1. \A s \in BookSide : WithNew(kept, o)[s].orders =
            IF o.live /\ s = BookOf(o) THEN kept[s].orders \union {o} ELSE kept[s].orders
      BY <2>1, <2>3, WithNewType
    <3> QED
      BY <2>2, <3>1
  <2>5. \A i \in Index : byIndex[i] # NoOrder => byIndex[i].index = i
    BY DEF IndexedInBook
  <2> SUFFICES ASSUME NEW s \in BookSide
               PROVE  sets'[s].orders = Indexed(s)'
    BY DEF BookIsIndexed
  <2> DEFINE others == {byIndex[i] : i \in {j \in Index : /\ j # o.index
                                                        /\ byIndex[j] # NoOrder
                                                        /\ BookOf(byIndex[j]) = s}}
  <2>6. kept[s].orders = others
    <3>1. sets[s].orders = Indexed(s)
      BY DEF BookIsIndexed
    <3>2. CASE Filed(o) /\ s = BookOf(old)
      <4>1. old # NoOrder /\ old.index = o.index /\ old \notin others
        BY <2>1, <2>5, <3>2 DEF Filed
      <4>2. Indexed(s) = others \union {old}
        BY <2>1, <3>2 DEF Indexed, Filed
      <4>3. kept[s].orders = sets[s].orders \ {old}
        BY <2>3, <3>2
      <4> HIDE DEF others, old
      <4> QED
        BY <3>1, <4>1, <4>2, <4>3
    <3>3. CASE ~ (Filed(o) /\ s = BookOf(old))
      <4>1. Indexed(s) = others
        BY <3>3 DEF Indexed, Filed
      <4> QED
        BY <2>3, <3>1, <3>3, <4>1
    <3> QED
      BY <3>2, <3>3
  <2>7. byIndex' \in [Index -> Order \union {NoOrder}]
        /\ (\A i \in Index : i # o.index => byIndex'[i] = byIndex[i])
        /\ byIndex'[o.index] = IF o.live THEN o ELSE NoOrder
    BY <2>1, <2>2 DEF TypeOK
  <2>8. Indexed(s)' = IF o.live /\ s = BookOf(o) THEN others \union {o} ELSE others
    <3>1. Indexed(s)' = {byIndex'[i] : i \in {j \in Index : /\ byIndex'[j] # NoOrder
                                                          /\ BookOf(byIndex'[j]) = s}}
      BY DEF Indexed
    <3>2. o # NoOrder
      BY <2>1
    <3> QED
      BY <2>1, <2>7, <3>1, <3>2
  <2> QED
    BY <2>4, <2>6, <2>8
<1>3. CASE /\ byIndex' = byIndex
           /\ \A s \in BookSide : sets'[s].orders = sets[s].orders
  BY <1>3 DEF BookIsIndexed, Indexed
<1>4. CASE UpdateBegins /\ ~ tx.isSnapshot
  BY <1>3, <1>4 DEF UpdateBegins
<1> QED
  BY <1>1, <1>2, <1>3, <1>4, BookUnchanged

-----------------------------------------------------------------------------
(* The caches.                                                             *)

\* One turn of the loop keeps both caches coherent, or marks their sets.
LEMMA ApplyCoherent ==
  ASSUME TypeOK, FiniteBooks, SnapshotIsTop, ApplyOrder
  PROVE  SnapshotIsTop'
<1> USE OrdersAssumption
<1> DEFINE o == Head(tx.events)
           old == byIndex[o.index]
           kept == WithoutOld(o)
<1>1. o \in Order /\ o.index \in Index /\ depthLimit \in Nat
      /\ sets \in [BookSide -> OrderSet]
  BY HeadIsOrder DEF TypeOK
<1>2. sets' = WithNew(kept, o) /\ depthLimit' = depthLimit
  BY DEF ApplyOrder
<1>3. old \in Order \union {NoOrder}
  BY <1>1 DEF TypeOK
<1> HIDE DEF o
<1>4. kept \in [BookSide -> OrderSet]
      /\ \A s \in BookSide : kept[s].orders \subseteq sets[s].orders
  BY <1>1, WithoutOldType
<1>5. \A s \in BookSide : IsFiniteSet(kept[s].orders)
  BY <1>4, FS_Subset DEF FiniteBooks
<1>6. \A s \in BookSide : Coherent(s, kept[s], depthLimit)
  <2>1. CASE ~ Filed(o)
    BY <2>1 DEF WithoutOld, SnapshotIsTop
  <2>2. CASE Filed(o)
    <3> DEFINE side == BookOf(old)
               e == Erase(side, sets[side], depthLimit, old)
    <3>1. old.price \in Int /\ old.index \in Int
      BY <1>3, <2>2 DEF Filed, Order
    <3>2. side \in BookSide
      BY DEF BookOf, BookSide
    <3>3. kept = [sets EXCEPT ![side] = e]
      BY <2>2 DEF WithoutOld
    <3> HIDE DEF side, kept, old
    <3>4. Coherent(side, e, depthLimit)
      <4> DEFINE set == sets[side]
      <4>1. set \in OrderSet /\ IsFiniteSet(set.orders) /\ Coherent(side, set, depthLimit)
        BY <1>1, <3>2 DEF FiniteBooks, SnapshotIsTop
      <4> HIDE DEF set
      <4>2. Coherent(side, Erase(side, set, depthLimit, old), depthLimit)
        BY <1>1, <3>1, <4>1, EraseCoherent
      <4> QED
        BY <4>2 DEF set
    <3> HIDE DEF e
    <3> QED
      BY <1>1, <3>2, <3>3, <3>4 DEF SnapshotIsTop
  <2> QED
    BY <2>1, <2>2
<1> HIDE DEF kept
<1>7. \A s \in BookSide : Coherent(s, sets'[s], depthLimit)
  <2>1. CASE ~ o.live
    BY <1>2, <1>6, <2>1 DEF WithNew
  <2>2. CASE o.live
    <3> DEFINE side == BookOf(o)
               n == Insert(side, kept[side], depthLimit, o)
    <3>1. side \in BookSide
      BY DEF BookOf, BookSide
    <3>2. sets' = [kept EXCEPT ![side] = n]
      BY <1>2, <2>2 DEF WithNew
    <3> HIDE DEF side
    <3>3. Coherent(side, n, depthLimit)
      <4> DEFINE set == kept[side]
      <4>1. set \in OrderSet /\ IsFiniteSet(set.orders) /\ Coherent(side, set, depthLimit)
        BY <1>4, <1>5, <1>6, <3>1
      <4> HIDE DEF set
      <4>2. Coherent(side, Insert(side, set, depthLimit, o), depthLimit)
        BY <1>1, <4>1, InsertCoherent
      <4> QED
        BY <4>2 DEF set
    <3> HIDE DEF n
    <3> QED
      BY <1>4, <1>6, <3>1, <3>2, <3>3
  <2> QED
    BY <2>1, <2>2
<1> QED
  BY <1>2, <1>7 DEF SnapshotIsTop, Coherent

\* What notifyListeners reads is the top of each book.
LEMMA RefreshedIsTop ==
  ASSUME TypeOK, SnapshotIsTop, NEW t \in Threads, NotifyBegins(t)
  PROVE  \A s \in BookSide : /\ sets'[s].orders = sets[s].orders
                             /\ ~ sets'[s].isChanged
                             /\ IsTop(s, sets'[s].snapshot, sets[s].orders, depthLimit)
<1>1. PICK b \in Refreshed("BUY", sets["BUY"], depthLimit),
           a \in Refreshed("SELL", sets["SELL"], depthLimit) : sets' = Both(b, a)
  BY DEF NotifyBegins
<1>2. \A s \in BookSide : sets'[s].orders = sets[s].orders /\ ~ sets'[s].isChanged
  BY <1>1, RefreshedBooks
<1>3. depthLimit \in Nat /\ sets["BUY"] \in OrderSet /\ sets["SELL"] \in OrderSet
      /\ "BUY" \in BookSide /\ "SELL" \in BookSide
  BY DEF TypeOK, BookSide
<1>4. IsTop("BUY", b.snapshot, sets["BUY"].orders, depthLimit)
  <2> DEFINE buy == sets["BUY"]
  <2>1. buy \in OrderSet /\ b \in Refreshed("BUY", buy, depthLimit)
        /\ Coherent("BUY", buy, depthLimit)
    BY <1>3 DEF SnapshotIsTop
  <2> HIDE DEF buy
  <2>2. IsTop("BUY", b.snapshot, buy.orders, depthLimit)
    BY <1>3, <2>1, RefreshedCoherent
  <2> QED
    BY <2>2 DEF buy
<1>5. IsTop("SELL", a.snapshot, sets["SELL"].orders, depthLimit)
  <2> DEFINE sell == sets["SELL"]
  <2>1. sell \in OrderSet /\ a \in Refreshed("SELL", sell, depthLimit)
        /\ Coherent("SELL", sell, depthLimit)
    BY <1>3 DEF SnapshotIsTop
  <2> HIDE DEF sell
  <2>2. IsTop("SELL", a.snapshot, sell.orders, depthLimit)
    BY <1>3, <2>1, RefreshedCoherent
  <2> QED
    BY <2>2 DEF sell
<1> QED
  BY <1>1, <1>2, <1>4, <1>5 DEF Both, BookSide

LEMMA EmptyTop ==
  ASSUME NEW s, NEW limit \in Nat
  PROVE  IsTop(s, {}, {}, limit)
BY FS_EmptySet DEF IsTop

LEMMA SnapshotStep ==
  ASSUME TypeOK, Fresh, FiniteBooks, SnapshotIsTop, [Next]_vars
  PROVE  SnapshotIsTop'
<1>1. CASE UpdateBegins /\ tx.isSnapshot
  <2>1. depthLimit' = depthLimit /\ depthLimit \in Nat
    BY <1>1 DEF UpdateBegins, TypeOK
  <2>2. \A s \in BookSide : sets'[s].snapshot = {} /\ sets'[s].orders = {}
    BY <1>1, FreshClear
  <2>3. \A s \in BookSide : IsTop(s, {}, {}, depthLimit)
    BY <2>1, EmptyTop
  <2> QED
    BY <2>1, <2>2, <2>3 DEF SnapshotIsTop, Coherent
<1>2. CASE UpdateBegins /\ ~ tx.isSnapshot
  BY <1>2 DEF UpdateBegins, SnapshotIsTop, Coherent
<1>3. CASE ApplyOrder
  BY <1>3, ApplyCoherent
<1>4. ASSUME NEW t \in Threads, NotifyBegins(t)
      PROVE  SnapshotIsTop'
  <2>1. depthLimit' = depthLimit
    BY <1>4 DEF NotifyBegins
  <2> QED
    BY <1>4, <2>1, RefreshedIsTop DEF SnapshotIsTop, Coherent
<1>5. ASSUME NEW u \in Users, NEW n \in DepthLimits, SetDepthLimit(u, n)
      PROVE  SnapshotIsTop'
  BY <1>5 DEF SetDepthLimit, SnapshotIsTop, Coherent, TypeOK, OrderSet
<1>6. CASE UNCHANGED bookVars
  BY <1>6 DEF bookVars, SnapshotIsTop, Coherent
<1> QED
  BY <1>1, <1>2, <1>3, <1>4, <1>5, <1>6, SetsUnchanged

\* The loop of update() leaves the caches themselves alone.
LEMMA ApplyKeepsSnapshot ==
  ASSUME TypeOK, ApplyOrder
  PROVE  \A s \in BookSide : sets'[s].snapshot = sets[s].snapshot
<1> DEFINE o == Head(tx.events)
           old == byIndex[o.index]
           kept == WithoutOld(o)
<1>1. o \in Order /\ depthLimit \in Nat /\ sets \in [BookSide -> OrderSet]
  BY HeadIsOrder DEF TypeOK
<1>2. sets' = WithNew(kept, o)
  BY DEF ApplyOrder
<1> HIDE DEF o
<1>3. ASSUME NEW s, NEW set \in OrderSet, NEW p
      PROVE  Erase(s, set, depthLimit, p).snapshot = set.snapshot
  <2> DEFINE fewer == [set EXCEPT !.orders = @ \ {p}]
  <2>1. fewer \in OrderSet /\ fewer.snapshot = set.snapshot
    BY DEF OrderSet
  <2> HIDE DEF fewer
  <2>2. MarkAsChangedIfNeeded(s, fewer, depthLimit, p).snapshot = fewer.snapshot
    BY <1>1, <2>1, MarkType
  <2> QED
    BY <2>1, <2>2 DEF Erase, fewer
<1>4. ASSUME NEW s, NEW set \in OrderSet, NEW p \in Order
      PROVE  Insert(s, set, depthLimit, p).snapshot = set.snapshot
  <2> DEFINE more == [set EXCEPT !.orders = @ \union {p}]
  <2>1. more \in OrderSet /\ more.snapshot = set.snapshot
    BY DEF OrderSet
  <2> HIDE DEF more
  <2>2. MarkAsChangedIfNeeded(s, more, depthLimit, p).snapshot = more.snapshot
    BY <1>1, <2>1, MarkType
  <2> QED
    BY <2>1, <2>2 DEF Insert, more
<1>5. kept \in [BookSide -> OrderSet]
  BY <1>1, WithoutOldType
<1>6. BookOf(old) \in BookSide /\ BookOf(o) \in BookSide
  BY DEF BookOf, BookSide
<1> HIDE DEF old
<1>7. \A s \in BookSide : kept[s].snapshot = sets[s].snapshot
  BY <1>1, <1>3, <1>6 DEF WithoutOld, old
<1> HIDE DEF kept
<1> QED
  BY <1>1, <1>2, <1>4, <1>5, <1>6, <1>7 DEF WithNew

-----------------------------------------------------------------------------
(* The listener.                                                           *)

LEMMA ShownStep ==
  ASSUME TypeOK, LockHeld, Fresh, SnapshotIsTop, ShownIsCached, [Next]_vars
  PROVE  ShownIsCached'
<1> USE ModelAssumption, ThreadKinds DEF Goto
<1> DEFINE Busy == \E t \in Threads : pc[t] = "inListener"
<1>1. pc \in [Threads -> FeedPc \union UserPc \union TimerPc]
      /\ (\A u \in Users : u # Feed) /\ (\A t \in Timers : t # Feed)
      /\ NoThread \notin Threads
  BY DEF TypeOK, PcOK
<1>2. Busy => mtx # NoThread /\ \A t \in Threads : ~ InUpdate(t) /\ pc[t] # "notify"
  BY <1>1 DEF LockHeld, InUpdate, InNotify
<1>3. CASE UpdateBegins \/ ApplyOrder
  <2>1. ~ Busy
    BY <1>2, <1>3 DEF UpdateBegins, ApplyOrder, InUpdate
  <2>2. ~ Busy' /\ delivered' = delivered
    BY <1>1, <1>3, <2>1 DEF UpdateBegins, ApplyOrder
  <2>3. \A s \in BookSide : sets'[s].snapshot = sets[s].snapshot
    <3>1. CASE UpdateBegins /\ tx.isSnapshot
      <4>1. \A s \in BookSide : sets'[s].snapshot = {}
        BY <3>1, FreshClear
      <4> QED
        BY <3>1, <4>1 DEF Fresh, BeforeSnapshot, UpdateBegins
    <3>2. CASE UpdateBegins /\ ~ tx.isSnapshot
      BY <3>2 DEF UpdateBegins
    <3>3. CASE ApplyOrder
      BY <3>3, ApplyKeepsSnapshot
    <3> QED
      BY <1>3, <3>1, <3>2, <3>3
  <2> QED
    BY <2>1, <2>2, <2>3 DEF ShownIsCached
<1>4. ASSUME NEW t \in Threads, NotifyBegins(t)
      PROVE  ShownIsCached'
  <2>1. Busy'
    BY <1>1, <1>4 DEF NotifyBegins
  <2> QED
    BY <1>4, <2>1, RefreshedIsTop DEF ShownIsCached
<1>5. ASSUME NEW t \in Threads, ListenerReturns(t)
      PROVE  ShownIsCached'
  <2>1. /\ sets' = sets /\ \A s \in BookSide : delivered'[s] = sets[s].snapshot
        /\ pc[t] = "inListener" /\ pc' = [pc EXCEPT ![t] = AfterNotify(t)]
    BY <1>5 DEF ListenerReturns, bookVars
  <2>2. ~ Busy'
    BY <1>1, <2>1 DEF LockHeld, InNotify, AfterNotify
  <2> QED
    BY <2>1, <2>2 DEF ShownIsCached
<1>6. ASSUME NEW u \in Users, NEW n \in DepthLimits, SetDepthLimit(u, n)
      PROVE  ShownIsCached'
  <2>1. ~ Busy /\ delivered' = delivered
    BY <1>2, <1>6 DEF SetDepthLimit, Calls
  <2>2. ~ Busy'
    BY <1>1, <1>6, <2>1 DEF SetDepthLimit
  <2>3. \A s \in BookSide : sets'[s].snapshot = sets[s].snapshot
    BY <1>6 DEF SetDepthLimit, TypeOK, OrderSet
  <2> QED
    BY <2>1, <2>2, <2>3 DEF ShownIsCached
<1>7. ASSUME UNCHANGED <<bookVars, delivered>>, Busy' = Busy
      PROVE  ShownIsCached'
  BY <1>7 DEF ShownIsCached, bookVars
<1>8. CASE FeedArrives \/ UpdateEnds
  <2>1. UNCHANGED <<bookVars, delivered>>
    BY <1>8 DEF FeedArrives, UpdateEnds
  <2>2. Busy' = Busy
    BY <1>1, <1>8 DEF FeedArrives, UpdateEnds, RunOnce, Free
  <2> QED
    BY <1>7, <2>1, <2>2
<1>9. ASSUME NEW t \in Timers, TimerStep(t)
      PROVE  ShownIsCached'
  <2>1. UNCHANGED <<bookVars, delivered>>
    BY <1>9 DEF TimerStep, TimerStarts, TimerWakes, TimerFires, TimerFinishes
  <2>2. Busy' = Busy
    BY <1>1, <1>9 DEF TimerStep, TimerStarts, TimerWakes, TimerFires, TimerFinishes
  <2> QED
    BY <1>7, <2>1, <2>2
<1>10. ASSUME NEW u \in Users, NEW p \in Periods, SetAggregationPeriod(u, p)
       PROVE  ShownIsCached'
  <2>1. UNCHANGED <<bookVars, delivered>>
    BY <1>10 DEF SetAggregationPeriod
  <2>2. Busy' = Busy
    BY <1>1, <1>10 DEF SetAggregationPeriod, RunOnce, Free
  <2> QED
    BY <1>7, <2>1, <2>2
<1>11. ASSUME NEW u \in Users, Close(u) \/ Destroy(u)
       PROVE  ShownIsCached'
  BY <1>7, <1>11 DEF Close, Destroy
<1>12. CASE ListenerCalls \/ UNCHANGED vars
  BY <1>7, <1>12 DEF ListenerCalls, vars, bookVars
<1> QED
  BY <1>3, <1>4, <1>5, <1>6, <1>8, <1>9, <1>10, <1>11, <1>12
     DEF Next, FeedStep, NotifyStep, UserCall

-----------------------------------------------------------------------------
(* The theorems of a feed of one snapshot.                                 *)

LEMMA BookInit == Init => BookInv
<1> SUFFICES ASSUME Init PROVE BookInv
  OBVIOUS
<1> USE ModelAssumption
<1>1. TypeOK /\ LockHeld
  BY TypeInit, LockInit
<1>2. \A s \in BookSide : /\ sets[s].orders = {}
                         /\ sets[s].snapshot = {}
                         /\ delivered[s] = {}
  BY DEF Init, EmptyOrderSet
<1>3. IndexedInBook /\ BookIsIndexed
  BY <1>2 DEF Init, IndexedInBook, BookIsIndexed, Indexed
<1>7. Fresh
  BY <1>2, ThreadKinds DEF Init, Fresh
<1>4. FiniteBooks
  BY <1>2, FS_EmptySet DEF FiniteBooks
<1>5. SnapshotIsTop
  <2>1. depthLimit \in Nat
    BY <1>1 DEF TypeOK
  <2> QED
    BY <1>2, <2>1, EmptyTop DEF SnapshotIsTop, Coherent
<1>6. ShownIsCached
  <2>1. \A t \in Threads : pc[t] # "inListener"
    BY DEF Init
  <2> QED
    BY <1>2, <2>1 DEF ShownIsCached
<1> QED
  BY <1>1, <1>3, <1>4, <1>5, <1>6, <1>7 DEF BookInv

LEMMA BookStep == OneSnapshot /\ BookInv /\ [Next]_vars => BookInv'
BY TypeStep, IndexedStep, LockStep, FreshStep, FiniteStep, BookIndexedStep,
   SnapshotStep, ShownStep DEF BookInv

LEMMA BookInvariant == OneSnapshot /\ Spec => []BookInv
<1> SUFFICES ASSUME OneSnapshot PROVE Spec => []BookInv
  OBVIOUS
<1>1. BookInv /\ [Next]_vars => BookInv'
  BY BookStep
<1> QED
  BY <1>1, BookInit, PTL DEF Spec

\* With one source that never sends a second snapshot, the two sets hold
\* exactly the orders of ordersByIndex_.
THEOREM BookAlwaysIndexed == OneSnapshot /\ Spec => []BookIsIndexed
<1>1. BookInv => BookIsIndexed
  BY DEF BookInv
<1> QED
  BY <1>1, BookInvariant, PTL

\* ... and the cached snapshot of a set that is not marked as changed is the
\* best depthLimit_ orders of it, whatever came and went behind the limit.
THEOREM SnapshotAlwaysTop == OneSnapshot /\ Spec => []SnapshotIsTop
<1>1. BookInv => SnapshotIsTop
  BY DEF BookInv
<1> QED
  BY <1>1, BookInvariant, PTL

-----------------------------------------------------------------------------
(* Nothing is stranded.                                                    *)

LEMMA PendingStep ==
  ASSUME BookInv, ChangeIsPending, OneSnapshot, AggregationStays, [Next]_vars
  PROVE  ChangeIsPending'
<1> USE ModelAssumption, ThreadKinds DEF Goto
<1> DEFINE Due == \/ taskScheduled
                  \/ \E t \in Threads : InNotify(t)
                  \/ pc[Feed] = "apply"
           Seen(s) == IsTop(s, sets[s].snapshot, sets[s].orders, depthLimit)
<1>1. TypeOK /\ pc \in [Threads -> FeedPc \union UserPc \union TimerPc]
      /\ (\A u \in Users : u # Feed) /\ (\A t \in Timers : t # Feed)
  BY DEF BookInv, TypeOK, PcOK
<1>2. ASSUME Due' PROVE ChangeIsPending'
  BY <1>2 DEF ChangeIsPending
<1>3. ASSUME UNCHANGED bookVars, Due => Due'
      PROVE  ChangeIsPending'
  BY <1>3 DEF ChangeIsPending, bookVars
<1>4. CASE FeedArrives
  <2>1. UNCHANGED bookVars
    BY <1>4 DEF FeedArrives
  <2>2. Due => Due'
    BY <1>1, <1>4 DEF FeedArrives, InNotify, taskVars
  <2> QED
    BY <1>3, <2>1, <2>2
<1>5. CASE UpdateBegins
  <2>1. CASE tx.isSnapshot
    <3>1. Fresh
      BY DEF BookInv
    <3>2. pc' = [pc EXCEPT ![Feed] = "apply"]
      BY <1>1, <1>5, <2>1, <3>1, FreshClear
    <3> QED
      BY <1>1, <1>2, <3>2
  <2>2. CASE ~ tx.isSnapshot
    BY <1>1, <1>2, <1>5, <2>2 DEF UpdateBegins
  <2> QED
    BY <2>1, <2>2
<1>6. CASE ApplyOrder
  BY <1>1, <1>2, <1>6 DEF ApplyOrder
<1>7. CASE UpdateEnds
  <2>1. CASE ~ SomeSetChanged
    BY <1>7, <2>1 DEF UpdateEnds, SomeSetChanged, ChangeIsPending, bookVars
  <2>2. CASE SomeSetChanged
    <3>1. pc'[Feed] = "notify" \/ taskScheduled'
      BY <1>1, <1>7, <2>2 DEF UpdateEnds, RunOnce, taskVars, TypeOK
    <3> QED
      BY <1>2, <3>1 DEF InNotify
  <2> QED
    BY <2>1, <2>2
<1>8. ASSUME NEW t \in Threads, NotifyBegins(t)
      PROVE  ChangeIsPending'
  BY <1>1, <1>2, <1>8 DEF NotifyBegins, InNotify
<1>9. ASSUME NEW t \in Threads, ListenerReturns(t)
      PROVE  ChangeIsPending'
  <2>1. \A s \in BookSide : ~ sets[s].isChanged
    BY <1>9 DEF BookInv, ShownIsCached, ListenerReturns
  <2> QED
    BY <1>9, <2>1 DEF ListenerReturns, bookVars, ChangeIsPending
<1>10. ASSUME NEW t \in Timers, TimerStep(t)
       PROVE  ChangeIsPending'
  <2>1. UNCHANGED bookVars
    BY <1>10 DEF TimerStep, TimerStarts, TimerWakes, TimerFires, TimerFinishes
  <2>2. Due => Due'
    BY <1>1, <1>10 DEF TimerStep, TimerStarts, TimerWakes, TimerFires, TimerFinishes,
                       InNotify, taskVars
  <2> QED
    BY <1>3, <2>1, <2>2
<1>11. ASSUME NEW u \in Users, NEW n \in DepthLimits, SetDepthLimit(u, n)
       PROVE  ChangeIsPending'
  BY <1>1, <1>2, <1>11 DEF SetDepthLimit, InNotify
<1>12. ASSUME NEW u \in Users, NEW p \in Periods, SetAggregationPeriod(u, p)
       PROVE  ChangeIsPending'
  <2>1. UNCHANGED bookVars /\ p # 0
    BY <1>12 DEF SetAggregationPeriod, Calls, AggregationStays
  <2>2. Due => Due'
    BY <1>1, <1>12, <2>1 DEF SetAggregationPeriod, RunOnce, Free, InNotify, taskVars
  <2> QED
    BY <1>3, <2>1, <2>2
<1>13. ASSUME NEW u \in Users, Close(u) \/ Destroy(u)
       PROVE  ChangeIsPending'
  BY <1>3, <1>13 DEF Close, Destroy, InNotify, taskVars
<1>14. CASE ListenerCalls \/ UNCHANGED vars
  BY <1>3, <1>14 DEF ListenerCalls, vars, bookVars, taskVars, InNotify
<1> QED
  BY <1>4, <1>5, <1>6, <1>7, <1>8, <1>9, <1>10, <1>11, <1>12, <1>13, <1>14
     DEF Next, FeedStep, NotifyStep, UserCall

\* ... and no change is ever left with nobody to show it, unless a client
\* sets the period to 0.
THEOREM NothingStranded ==
  OneSnapshot /\ AggregationStays /\ Spec => []NoStrandedChange
<1> SUFFICES ASSUME OneSnapshot, AggregationStays
             PROVE  Spec => []NoStrandedChange
  OBVIOUS
<1>1. Init => ChangeIsPending
  <2> SUFFICES ASSUME Init PROVE ChangeIsPending
    OBVIOUS
  <2>1. \A s \in BookSide : sets[s].orders = {} /\ sets[s].snapshot = {}
    BY DEF Init, EmptyOrderSet
  <2>2. depthLimit \in Nat
    BY ModelAssumption DEF Init
  <2> QED
    BY <2>1, <2>2, EmptyTop DEF ChangeIsPending
<1>2. BookInv /\ ChangeIsPending /\ [Next]_vars => ChangeIsPending'
  BY PendingStep
<1>3. BookInv /\ ChangeIsPending => NoStrandedChange
  <2> SUFFICES ASSUME BookInv, ChangeIsPending, mtx = NoThread, ~ taskScheduled,
                      NEW s \in BookSide
               PROVE  IsTop(s, delivered[s], sets[s].orders, depthLimit)
    BY DEF NoStrandedChange, DeliveredIsTop
  <2>1. \A t \in Threads : ~ InUpdate(t) /\ ~ InNotify(t)
    BY ModelAssumption DEF BookInv, LockHeld
  <2>2. delivered[s] = sets[s].snapshot
    BY <2>1 DEF BookInv, ShownIsCached, InNotify
  <2>3. CASE sets[s].isChanged
    BY <2>1, <2>2, <2>3, ThreadKinds DEF ChangeIsPending, InUpdate
  <2>4. CASE ~ sets[s].isChanged
    BY <2>2, <2>4 DEF BookInv, SnapshotIsTop, Coherent
  <2> QED
    BY <2>3, <2>4
<1> QED
  BY <1>1, <1>2, <1>3, BookInvariant, PTL DEF Spec

-----------------------------------------------------------------------------
(* The refinement of MarketDepthBook.                                      *)

\* The first `limit' orders mean the same to both specifications.
LEMMA SameTop ==
  \A s, T, S, limit : Book!IsTop(s, T, S, limit) <=> IsTop(s, T, S, limit)
<1>1. \A s, a, b : Book!Less(s, a, b) <=> Less(s, a, b)
  BY DEF Less, Book!Less
<1>2. \A limit : Book!Unbounded(limit) <=> Unbounded(limit)
  BY DEF Unbounded, Book!Unbounded
<1>3. \A S : Book!Cardinality(S) = Cardinality(S)
  BY DEF Cardinality, Book!Cardinality
<1> QED
  BY <1>1, <1>2, <1>3 DEF IsTop, Book!IsTop

LEMMA BookInitRefines == Init => Book!Init
BY DEF Init, Book!Init, BookSide, Book!BookSide

\* Every step is a step of MarketDepthBook or leaves its state alone.
LEMMA BookStepRefines ==
  ASSUME BookInv, [Next]_vars
  PROVE  [Book!Next]_(Book!vars)
<1> USE ModelAssumption
<1> DEFINE Same == UNCHANGED <<byIndex, depthLimit, delivered>>
<1>1. TypeOK
  BY DEF BookInv
<1>2. CASE UpdateBegins
  <2>1. CASE tx.isSnapshot
    <3>1. byIndex' = [i \in Index |-> IF SourceOf[i] = tx.source THEN NoOrder ELSE byIndex[i]]
      BY <1>1, <1>2, <2>1 DEF UpdateBegins, ForgetSource, TypeOK
    <3>2. depthLimit' = depthLimit /\ delivered' = delivered /\ tx.source \in Source
      BY <1>1, <1>2 DEF UpdateBegins, TypeOK, Transaction
    <3>3. Book!Forget(tx.source)
      BY <3>1, <3>2 DEF Book!Forget
    <3> QED
      BY <3>2, <3>3 DEF Book!Next
  <2>2. CASE ~ tx.isSnapshot
    BY <1>2, <2>2 DEF UpdateBegins, Book!vars
  <2> QED
    BY <2>1, <2>2
<1>3. CASE ApplyOrder
  <2>1. Head(tx.events) \in Order
    BY <1>1, <1>3, HeadIsOrder
  <2>2. Book!Apply(Head(tx.events))
    BY <1>3 DEF ApplyOrder, Book!Apply
  <2> QED
    BY <2>1, <2>2 DEF Book!Next, Order, Book!Order
<1>4. ASSUME NEW t \in Threads, ListenerReturns(t)
      PROVE  Book!Next
  <2>1. \A s \in BookSide : /\ ~ sets[s].isChanged
                           /\ IsTop(s, sets[s].snapshot, Indexed(s), depthLimit)
    BY <1>4 DEF ListenerReturns, BookInv, ShownIsCached, SnapshotIsTop, Coherent,
                BookIsIndexed
  <2>2. \A s \in BookSide : Book!OrdersOf(s) = Indexed(s)
    BY DEF Book!OrdersOf, Indexed, BookOf, Book!BookOf
  <2>3. \A s \in BookSide :
          sets[s].snapshot \in Book!Tops(s, Book!OrdersOf(s), depthLimit)
    <3>1. \A s \in BookSide :
            Book!IsTop(s, sets[s].snapshot, Book!OrdersOf(s), depthLimit)
      BY <2>1, <2>2, SameTop
    <3>2. \A s \in BookSide : sets[s].snapshot \subseteq Book!OrdersOf(s)
      BY <2>1, <2>2 DEF IsTop
    <3> QED
      BY <3>1, <3>2 DEF Book!Tops
  <2>4. delivered' = Book!Both(sets["BUY"].snapshot, sets["SELL"].snapshot)
    BY <1>4 DEF ListenerReturns, Book!Both, BookSide, Book!BookSide
  <2>5. UNCHANGED <<byIndex, depthLimit>>
    BY <1>4 DEF ListenerReturns, bookVars
  <2>6. Book!Deliver
    BY <2>3, <2>4, <2>5 DEF Book!Deliver, BookSide
  <2> QED
    BY <2>6 DEF Book!Next
<1>5. ASSUME NEW u \in Users, NEW n \in DepthLimits, SetDepthLimit(u, n)
      PROVE  Book!Next
  <2>1. Book!SetLimit(n)
    BY <1>5 DEF SetDepthLimit, Book!SetLimit
  <2> QED
    BY <2>1 DEF Book!Next
<1>6. ASSUME Same PROVE [Book!Next]_(Book!vars)
  BY <1>6 DEF Book!vars
<1>7. CASE FeedArrives \/ UpdateEnds \/ ListenerCalls \/ UNCHANGED vars
  BY <1>6, <1>7 DEF FeedArrives, UpdateEnds, ListenerCalls, vars, bookVars
<1>8. ASSUME NEW t \in Threads, NotifyBegins(t) PROVE Same
  BY <1>8 DEF NotifyBegins
<1>9. ASSUME NEW t \in Timers, TimerStep(t) PROVE Same
  BY <1>9 DEF TimerStep, TimerStarts, TimerWakes, TimerFires, TimerFinishes, bookVars
<1>10. ASSUME NEW u \in Users, NEW p \in Periods, SetAggregationPeriod(u, p) PROVE Same
  BY <1>10 DEF SetAggregationPeriod, bookVars
<1>11. ASSUME NEW u \in Users, Close(u) \/ Destroy(u) PROVE Same
  BY <1>11 DEF Close, Destroy, bookVars
<1> QED
  BY <1>2, <1>3, <1>4, <1>5, <1>6, <1>7, <1>8, <1>9, <1>10, <1>11
     DEF Next, FeedStep, NotifyStep, UserCall

\* The model implements its abstract specification: every notification shows
\* the best orders of the live orders of its moment, for every number of
\* orders, clients and timers and whatever the interleaving.
THEOREM Implementation == OneSnapshot /\ Spec => ImplementsBook
<1>1. BookInv /\ [Next]_vars => [Book!Next]_(Book!vars)
  BY BookStepRefines
<1> QED
  BY <1>1, BookInitRefines, BookInvariant, PTL DEF Spec, ImplementsBook, Book!Spec

=============================================================================
