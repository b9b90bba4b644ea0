--------------------------- MODULE MCGraalLists ---------------------------
EXTENDS GraalListsProperties

(* Every class of events, with all its strings or with none of them.       *)
MCEvents ==
  {[kind |-> "event", class |-> c, fields |-> c.reads \union c.writes, nulls |-> n] :
     c \in EventClass, n \in {{}} \union {c.deletes : c \in EventClass}}

MCEventElements == {e \in MCEvents : e.nulls \in {{}, e.class.deletes}}

MCForeign == [kind |-> "foreign"]

MCNull == {MCForeign}

MCStrings == {[kind |-> "string", nulls |-> n] : n \in {{}, {"symbol"}}}
MCCandles == {[kind |-> "candle", nulls |-> n] : n \in {{}, {"candle.symbol"}}}
MCSimple  == MCStrings \union MCCandles \union {[kind |-> "wildcard"]}
MCSources == {[kind |-> "source", nulls |-> n] : n \in {{}, {"source.name"}}}
MCSymbols ==
  MCSimple \union {[kind |-> "indexed", of |-> o, nulls |-> {}] : o \in MCSimple}
           \union {[kind |-> "time_series", of |-> o] : o \in MCSimple}

MCElement == MCEventElements \union {MCForeign} \union MCSymbols \union MCSources

MCBlocks  == [e \in MCElement |-> ToGraal(e)]
MCDeletes == [e \in MCElement |-> FreeGraal(e)]
MCThrows  == [e \in MCElement |-> Throwing(e)]
MCBack    == [e \in MCElement |-> FromGraal(e)]
MCBlock   == UNION {MCDeletes[e] : e \in MCElement}

Upto2(S) == {<<>>} \union {<<a>> : a \in S} \union (S \X S)

(* Lists hold elements of one family; some are longer than MaxSize.        *)
MCList ==
  LET some == {e \in MCEventElements : e.class \in {Quote, Message} /\ e.nulls = {}}
  IN  Upto2(MCEventElements \union {MCForeign}) \union Upto2(MCSymbols)
        \union Upto2(MCSources) \union (some \X some \X some)
============================================================================
