--------------------------- MODULE MCMarketDepth ---------------------------
(***************************************************************************)
(* Small feeds for MarketDepthModel.                                       *)
(***************************************************************************)
EXTENDS MarketDepthProperties, TLC

CONSTANTS ntv, dex

\* Three orders of one source, or the third of another source.
OneSource  == [i \in Index |-> ntv]
TwoSources == [i \in Index |-> IF i = 3 THEN dex ELSE ntv]

Buy(i, p)  == [index |-> i, side |-> "BUY", price |-> p, live |-> TRUE]
Sell(i, p) == [index |-> i, side |-> "SELL", price |-> p, live |-> TRUE]
Gone(i)    == [index |-> i, side |-> "UNDEFINED", price |-> 1, live |-> FALSE]

Tx(snapshot, events) ==
  [source |-> SourceOf[Head(events).index], isSnapshot |-> snapshot,
   events |-> events]

(***************************************************************************)
(* Three orders compete for the buy side, the first two also change price  *)
(* and the second one also changes sides: enough to push an order out of a *)
(* limit of 1 or 2, to bring it back, and to fill and empty both sides.    *)
(***************************************************************************)
BookFeed ==
  {Tx(TRUE, <<Gone(1)>>), Tx(TRUE, <<Buy(1, 1), Buy(2, 2)>>)}
    \union {Tx(FALSE, <<o>>) :
              o \in {Buy(1, 1), Buy(1, 2), Gone(1), Buy(2, 1), Buy(2, 2),
                     Sell(2, 1), Gone(2), Buy(3, 1), Gone(3)}}
    \union {Tx(FALSE, <<Gone(1), Sell(2, 2)>>), Tx(FALSE, <<Sell(1, 1), Buy(3, 2)>>)}

\* Two orders on each side at one price, for runs about threads and timers.
TaskFeed ==
  {Tx(TRUE, <<Gone(1)>>), Tx(FALSE, <<Buy(1, 1)>>), Tx(FALSE, <<Sell(1, 1)>>),
   Tx(FALSE, <<Gone(1)>>), Tx(FALSE, <<Sell(2, 1)>>)}

\* Orders 1 and 2 of one source, order 3 of another one.
TwoSourceFeed ==
  {Tx(TRUE, <<Gone(1)>>), Tx(TRUE, <<Buy(1, 1), Buy(2, 1)>>),
   Tx(TRUE, <<Buy(3, 1)>>), Tx(FALSE, <<Buy(1, 1)>>),
   Tx(FALSE, <<Sell(1, 1)>>), Tx(FALSE, <<Gone(1)>>)}

TimerSymmetry == Permutations(Timers)
=============================================================================
