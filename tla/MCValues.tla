---------------------------- MODULE MCValues ----------------------------
(* Symbols, events, a quote and flags have nothing to do with each other:  *)
(* a behaviour changes one of them.                                        *)
EXTENDS MarketEventSymbols, EventFields

B2 == {<<1>>, <<1, CLOSE>>}
K3 == {<<1>>, <<1, 2>>, <<2, COMMA>>}
V2 == {<<>>, <<3, EQUALS>>}
T11 == {-25, -21, -20, -19, -10, -1, 0, 9, 10, 19, 21}

AllVars == <<symbolVars, eventVars, quoteVars, flagVars>>

MCInit == SymbolInit /\ EventsInit /\ QuoteInit /\ FlagsInit

MCNext ==
  \/ /\ SymbolNext /\ EventsInit /\ QuoteInit /\ FlagsInit
     /\ UNCHANGED <<eventVars, quoteVars, flagVars>>
  \/ /\ symbol = <<1>>
     /\ UNCHANGED symbolVars
     /\ \/ EventsNext /\ QuoteInit /\ FlagsInit /\ UNCHANGED <<quoteVars, flagVars>>
        \/ QuoteNext /\ EventsInit /\ FlagsInit /\ UNCHANGED <<eventVars, flagVars>>
        \/ SetFlags /\ EventsInit /\ QuoteInit /\ UNCHANGED <<eventVars, quoteVars>>

MCSpec == MCInit /\ [][MCNext]_AllVars
=========================================================================
