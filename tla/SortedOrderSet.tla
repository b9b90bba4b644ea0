--------------------------- MODULE SortedOrderSet ---------------------------
(***************************************************************************)
(* MarketDepthModel<O>::SortedOrderSet of model/MarketDepthModel.hpp: one  *)
(* side of an order book.  The std::set orders_ is kept sorted by a        *)
(* comparator, and snapshot_ caches its first depthLimit_ orders; the flag *)
(* isChanged_ says that the cache must be rebuilt before it is read.       *)
(*                                                                         *)
(* A sorted container is a set here, because the comparator is a total     *)
(* order: the vector the code builds is the set listed in that order.  The *)
(* inner mutex_ is left out: every call is made under the model's mtx_.    *)
(***************************************************************************)
EXTENDS Integers, FiniteSets

CONSTANTS
  Index,      \* indices of orders (OrderBase::getIndex)
  Price,      \* prices of orders; NaN is not among them, see OrderComparator
  Source,     \* sources of orders
  SourceOf    \* OrderBase::getSource: the source is read from the index

ASSUME OrdersAssumption ==
  /\ Index \subseteq Int
  /\ Price \subseteq Int
  /\ SourceOf \in [Index -> Source]

\* live = hasSize() and no REMOVE_EVENT flag, what shallAdd asks of an order.
Order == [index : Index, side : {"BUY", "SELL", "UNDEFINED"},
          price : Price, live : BOOLEAN]

BookSide == {"BUY", "SELL"}

\* A value for the buy orders and one for the sell orders.
Both(buy, sell) == [s \in BookSide |-> IF s = "BUY" THEN buy ELSE sell]

\* The book an order is filed in: everything that is not a buy is a sell.
BookOf(o) == IF o.side = "BUY" THEN "BUY" ELSE "SELL"

IsFrom(src, o) == SourceOf[o.index] = src

(***************************************************************************)
(* BuyLess and SellLess: the better price first, then OrderComparator,     *)
(* which always ends in the index.                                         *)
(***************************************************************************)
Less(s, o1, o2) ==
  \/ s = "BUY" /\ o1.price > o2.price
  \/ s = "SELL" /\ o1.price < o2.price
  \/ o1.price = o2.price /\ o1.index < o2.index

OrderSet == [orders : SUBSET Order, snapshot : SUBSET Order, isChanged : BOOLEAN]

EmptyOrderSet(limit) ==
  [orders |-> {}, snapshot |-> {}, isChanged |-> limit # 0]

-----------------------------------------------------------------------------
(***************************************************************************)
(* T is the first `limit' orders of S: an initial segment of S with as     *)
(* many orders as the limit and S allow.  A limit of 0 is no limit.        *)
(***************************************************************************)
Unbounded(limit) == limit = 0

IsTop(s, T, S, limit) ==
  /\ T \subseteq S
  /\ \A a \in T, b \in S \ T : Less(s, a, b)
  /\ IF Unbounded(limit) \/ Cardinality(S) <= limit
       THEN T = S
       ELSE Cardinality(T) = limit

Tops(s, S, limit) == {T \in SUBSET S : IsTop(s, T, S, limit)}

CountWithinLimit(set, limit) == Cardinality(set.orders) <= limit

\* Mutant: snapshot_.back() itself counts as out of the limit.
OrderWithinLimit_Back(s, set, o) ==
  \/ set.snapshot = {}
  \/ \E b \in set.snapshot : Less(s, o, b)

\* The order is not behind snapshot_.back(), the last order of the cache.
OrderWithinLimit(s, set, o) ==
  \/ set.snapshot = {}
  \/ \E b \in set.snapshot : ~ Less(s, b, o)

MarkAsChangedIfNeeded(s, set, limit, o) ==
  [set EXCEPT !.isChanged = \/ @
                            \/ Unbounded(limit)
                            \/ CountWithinLimit(set, limit)
                            \/ OrderWithinLimit(s, set, o)]

\* std::set::insert refuses an order equivalent to one it already holds.
Insert(s, set, limit, o) ==
  IF o \in set.orders
    THEN set
    ELSE MarkAsChangedIfNeeded(s, [set EXCEPT !.orders = @ \union {o}], limit, o)

Erase(s, set, limit, o) ==
  IF o \notin set.orders
    THEN set
    ELSE MarkAsChangedIfNeeded(s, [set EXCEPT !.orders = @ \ {o}], limit, o)

\* toVector: what it leaves in the set; the caller gets its snapshot.
Refreshed(s, set, limit) ==
  IF set.isChanged
    THEN {[set EXCEPT !.isChanged = FALSE, !.snapshot = T] :
             T \in Tops(s, set.orders, limit)}
    ELSE {set}

-----------------------------------------------------------------------------
(***************************************************************************)
(* clearBySource erases while it iterates: `it = orders_.erase(it)' moves  *)
(* to the next order and the loop's ++it skips it.  Of a run of adjacent   *)
(* orders of the source it therefore erases the first, third, ...: those   *)
(* with an even number of the source's orders right in front of them.      *)
(***************************************************************************)
RunBefore(s, S, src, o) ==
  {p \in S : /\ Less(s, p, o)
             /\ \A q \in S : (q = p \/ Less(s, p, q)) /\ Less(s, q, o)
                               => IsFrom(src, q)}

FirstPass(s, S, src) ==
  {o \in S : ~ (IsFrom(src, o) /\ Cardinality(RunBefore(s, S, src, o)) % 2 = 0)}

LastOf(s, S) == {o \in S : \A p \in S \ {o} : Less(s, p, o)}

\* The last order was erased, so that ++it is applied to end().
StepsPastEnd(s, S, src) == \E o \in LastOf(s, S) : o \notin FirstPass(s, S, src)

(***************************************************************************)
(* Stepping past end() is undefined.  The red-black trees of libstdc++ and *)
(* MSVC go on with the last order, or with the one in front of it when     *)
(* that is its left child; so the loop also erases the run of the source's *)
(* orders at the end, or stops early, having erased one order and skipped  *)
(* its successor.                                                          *)
(***************************************************************************)
TrailingRun(s, R, src) ==
  {o \in R : \A p \in R : (p = o \/ Less(s, o, p)) => IsFrom(src, p)}

AfterEnd(s, R, src) ==
  LET Above(o) == {p \in R : Less(s, o, p)}
      ButSuccessor(o) == {o} \union UNION {Above(p) : p \in Above(o)}
      Stops == {o \in R : /\ Above(o) # {}
                          /\ \A p \in ButSuccessor(o) : IsFrom(src, p)}
  IN  {R \ TrailingRun(s, R, src)} \union {R \ ButSuccessor(o) : o \in Stops}

\* What the loop can leave behind.
ClearOutcomes(s, S, src) ==
  IF StepsPastEnd(s, S, src)
    THEN AfterEnd(s, FirstPass(s, S, src), src)
    ELSE {FirstPass(s, S, src)}

\* On an emptied tree the increment of libstdc++ never ends.
MayHang(s, S, src, R) == StepsPastEnd(s, S, src) /\ R = {}

\* The flag is overwritten with "some order was erased".
Cleared(set, R) ==
  [set EXCEPT !.orders = R,
              !.isChanged = Cardinality(R) # Cardinality(set.orders)]
=============================================================================
