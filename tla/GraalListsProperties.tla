----------------------- MODULE GraalListsProperties -----------------------
(***************************************************************************)
(* What a listener gets back of a list that was handed to Java: the        *)
(* conversion of lists with the classes of events, symbols and sources.    *)
(***************************************************************************)
EXTENDS GraalLists, GraalTypes

(* What a list may hold: events with their fields and some of their        *)
(* strings null, symbols, sources, and events of the program's own.        *)
Strings == SUBSET STRING

EventElement ==
  {e \in [kind : {"event"}, class : EventClass, fields : Strings, nulls : Strings] :
     e.fields = e.class.reads \union e.class.writes}

SimpleSymbol == [kind : {"string", "candle"}, nulls : Strings] \union [kind : {"wildcard"}]

Symbol ==
  SimpleSymbol \union [kind : {"indexed"}, of : SimpleSymbol, nulls : Strings]
               \union [kind : {"time_series"}, of : SimpleSymbol]

Source == [kind : {"source"}, nulls : Strings]

Foreign == [kind : {"foreign"}]

ASSUME ElementsAssumption ==
  \A e \in Element :
    /\ e \in EventElement \/ e \in Symbol \/ e \in Source \/ e \in Foreign
    /\ Back[e] = FromGraal(e)

(* What is lost: the time of a Message, which fillData does not read       *)
(* (Message.cpp:18), and that a candle symbol or a source has no name.     *)
Lost(e) ==
  IF e.kind = "event" /\ e.class = Message THEN {"event_time"} ELSE {}

ComesBack(a, b) ==
  /\ b.kind = a.kind
  /\ a.kind = "event" => /\ b.class = a.class
                         /\ b.fields = a.fields \ Lost(a)
                         /\ b.nulls = a.nulls
  /\ a.kind \in {"string", "wildcard", "indexed", "time_series"} => b = a

(* A listener gets the events, symbols and sources that were handed over,  *)
(* in their order, and of a collection that is too long its first ones     *)
(* (EventMapper.cpp:233): every conversion has its inverse, field by       *)
(* field, but for what is Lost.                                            *)
RoundTrip ==
  received # <<>> =>
    /\ Len(received) = Smaller(Len(list), MaxSize)
    /\ \A i \in 1..Len(received) : ComesBack(list[i], received[i])
=============================================================================
