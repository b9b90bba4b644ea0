-------------------------- MODULE MarketDepthBook --------------------------
(***************************************************************************)
(* What a market depth model promises, without sets, caches, threads and   *)
(* timers: it follows the live orders by their index, and every time it    *)
(* calls its listener it shows the best `limit' buy and sell orders of     *)
(* that moment.                                                            *)
(***************************************************************************)
EXTENDS SortedOrderSet

CONSTANTS DepthLimits, NoOrder

VARIABLES
  live,       \* the live order of each index, or NoOrder
  limit,      \* the depth limit
  delivered   \* the buy and sell orders the listener was last shown

vars == <<live, limit, delivered>>

OrdersOf(s) ==
  {live[i] : i \in {j \in Index : live[j] # NoOrder /\ BookOf(live[j]) = s}}

Init ==
  /\ live = [i \in Index |-> NoOrder]
  /\ limit \in DepthLimits
  /\ delivered = [s \in BookSide |-> {}]

Apply(o) ==
  /\ live' = [live EXCEPT ![o.index] = IF o.live THEN o ELSE NoOrder]
  /\ UNCHANGED <<limit, delivered>>

Forget(src) ==
  /\ live' = [i \in Index |-> IF SourceOf[i] = src THEN NoOrder ELSE live[i]]
  /\ UNCHANGED <<limit, delivered>>

SetLimit(n) ==
  /\ limit' = n
  /\ UNCHANGED <<live, delivered>>

Deliver ==
  /\ \E b \in Tops("BUY", OrdersOf("BUY"), limit),
        a \in Tops("SELL", OrdersOf("SELL"), limit) :
       delivered' = Both(b, a)
  /\ UNCHANGED <<live, limit>>

Next ==
  \/ \E o \in Order : Apply(o)
  \/ \E src \in Source : Forget(src)
  \/ \E n \in DepthLimits : SetLimit(n)
  \/ Deliver

Spec == Init /\ [][Next]_vars
=============================================================================
