---------------------------- MODULE GraalTypes ----------------------------
(***************************************************************************)
(* The C structures that events, symbols and event sources are turned into *)
(* before they are handed to the Java library: which blocks of memory a    *)
(* conversion allocates and in which order, which ones the matching        *)
(* freeGraal deletes, and which fields are written and read back.          *)
(***************************************************************************)
EXTENDS Naturals, Sequences, SequencesExt

(* A class of events: the structure it is stored in, the tag its           *)
(* fillGraalData leaves in it, the fields fillData reads and fillGraalData *)
(* writes, the strings allocated and deleted; `quiet` when fillGraalData   *)
(* is noexcept.                                                            *)
Derived(base, struct, reads, writes, strings, deletes) ==
  [struct  |-> struct,
   reads   |-> base.reads \union reads,
   writes  |-> base.writes \union writes,
   strings |-> base.strings \o strings,
   deletes |-> base.deletes \union deletes,
   quiet   |-> base.quiet]

Root(quiet) ==
  [struct |-> "event_type", reads |-> {}, writes |-> {}, strings |-> <<>>, deletes |-> {},
   quiet |-> quiet]

MarketEvent ==
  LET f == {"event_symbol", "event_time"}
  IN  Derived(Root(TRUE), "market_event", f, f, <<"event_symbol">>, {"event_symbol"})

Quote ==
  LET f == {"time_millis_sequence", "time_nano_part",
            "bid_time", "bid_exchange_code", "bid_price", "bid_size",
            "ask_time", "ask_exchange_code", "ask_price", "ask_size"}
  IN  Derived(MarketEvent, "quote", f, f, <<>>, {})

Profile ==
  LET s == <<"description", "status_reason">>
      f == {"beta", "earnings_per_share", "dividend_frequency", "ex_dividend_amount",
            "ex_dividend_day_id", "shares", "free_float", "flags", "halt_start_time",
            "halt_end_time", "high_limit_price", "low_limit_price",
            "high_52_week_price", "low_52_week_price"} \union ToSet(s)
  IN  Derived(MarketEvent, "profile", f, f, s, ToSet(s))

Summary ==
  LET f == {"day_id", "day_open_price", "day_high_price", "day_low_price",
            "day_close_price", "prev_day_id", "prev_day_close_price",
            "prev_day_volume", "open_interest", "flags"}
  IN  Derived(MarketEvent, "summary", f, f, <<>>, {})

TradeBase ==
  LET f == {"time_sequence", "time_nano_part", "exchange_code", "price", "change",
            "size", "day_id", "day_volume", "day_turnover", "flags"}
  IN  Derived(MarketEvent, "trade_base", f, f, <<>>, {})

Trade == Derived(TradeBase, "trade", {}, {}, <<>>, {})

TradeETH == Derived(TradeBase, "trade_eth", {}, {}, <<>>, {})

TimeAndSale ==
  LET s == <<"exchange_sale_conditions", "buyer", "seller">>
      f == {"event_flags", "index", "time_nano_part", "exchange_code", "price", "size",
            "bid_price", "ask_price", "flags"} \union ToSet(s)
  IN  Derived(MarketEvent, "time_and_sale", f, f, s, ToSet(s))

OrderBase ==
  LET f == {"event_flags", "index", "time_sequence", "time_nano_part", "action_time",
            "order_id", "aux_order_id", "price", "size", "executed_size", "count",
            "flags", "trade_id", "trade_price", "trade_size"}
  IN  Derived(MarketEvent, "order_base", f, f, <<>>, {})

Order ==
  Derived(OrderBase, "order", {"market_maker"}, {"market_maker"},
          <<"market_maker">>, {"market_maker"})

AnalyticOrder ==
  LET f == {"iceberg_peak_size", "iceberg_hidden_size", "iceberg_executed_size",
            "iceberg_flags"}
  IN  Derived(Order, "analytic_order", f, f, <<>>, {})

OtcMarketsOrder ==
  LET f == {"quote_access_payment", "otc_markets_flags"}
  IN  Derived(Order, "otc_markets_order", f, f, <<>>, {})

SpreadOrder ==
  Derived(OrderBase, "spread_order", {"spread_symbol"}, {"spread_symbol"},
          <<"spread_symbol">>, {"spread_symbol"})

OptionSale ==
  LET s == <<"exchange_sale_conditions", "option_symbol">>
      f == {"event_flags", "index", "time_sequence", "time_nano_part", "exchange_code",
            "price", "size", "bid_price", "ask_price", "flags", "underlying_price",
            "volatility", "delta"} \union ToSet(s)
  IN  Derived(MarketEvent, "option_sale", f, f, s, ToSet(s))

Greeks ==
  LET f == {"event_flags", "index", "price", "volatility", "delta", "gamma", "theta",
            "rho", "vega"}
  IN  Derived(MarketEvent, "greeks", f, f, <<>>, {})

Series ==
  LET f == {"event_flags", "index", "time_sequence", "expiration", "volatility",
            "call_volume", "put_volume", "put_call_ratio", "forward_price", "dividend",
            "interest"}
  IN  Derived(MarketEvent, "series", f, f, <<>>, {})

TheoPrice ==
  LET f == {"event_flags", "index", "price", "underlying_price", "delta", "gamma",
            "dividend", "interest"}
  IN  Derived(MarketEvent, "theo_price", f, f, <<>>, {})

Underlying ==
  LET f == {"event_flags", "index", "volatility", "front_volatility",
            "back_volatility", "call_volume", "put_volume", "put_call_ratio"}
  IN  Derived(MarketEvent, "underlying", f, f, <<>>, {})

Candle ==
  LET f == {"event_symbol", "event_time", "event_flags", "index", "count", "open",
            "high", "low", "close", "volume", "vwap", "bid_volume", "ask_volume",
            "imp_volatility", "open_interest"}
  IN  Derived(Root(FALSE), "candle", f, f, <<"event_symbol">>, {"event_symbol"})

(* fillData leaves the time of the event alone.                            *)
Message ==
  LET s == <<"event_symbol", "attachment">>
  IN  Derived(Root(FALSE), "message", ToSet(s), ToSet(s) \union {"event_time"}, s, ToSet(s))

\* Mutant: the time is not read back, as with Message.
TextMessage_NoTime ==
  LET s == <<"event_symbol", "text">>
      f == {"time_sequence"} \union ToSet(s)
  IN  Derived(Root(FALSE), "text_message", f, f \union {"event_time"}, s, ToSet(s))

TextMessage ==
  LET s == <<"event_symbol", "text">>
      f == {"event_time", "time_sequence"} \union ToSet(s)
  IN  Derived(Root(FALSE), "text_message", f, f, s, ToSet(s))

EventClass ==
  {Quote, Profile, Summary, Greeks, Candle, Underlying, TheoPrice, Trade, TradeETH,
   Message, TimeAndSale, Order, AnalyticOrder, OtcMarketsOrder, SpreadOrder, Series,
   OptionSale, TextMessage}

(***************************************************************************)
(* An element of a list: `kind` is "event", with the class and the strings *)
(* that are null; a symbol (of the kinds below, with the symbol it wraps); *)
(* a source; or "foreign", an event of the program's own whose toGraal     *)
(* returns nullptr.                                                        *)
(***************************************************************************)
NotNull(strings, nulls) == SelectSeq(strings, LAMBDA s : s \notin nulls)

(* EventMapper::freeGraal and fromGraal choose the class by the tag that   *)
(* is found in the structure, never by what the caller thinks it is.       *)
ClassOf(tag) == CHOOSE c \in EventClass : c.struct = tag

EventBlocks(e)  == <<e.class.struct>> \o NotNull(e.class.strings, e.nulls)
EventDeletes(e) == LET c == ClassOf(e.class.struct)
                   IN  {c.struct} \union (c.deletes \ e.nulls)

(* What a listener gets back: only what fillData reads of what             *)
(* fillGraalData wrote.                                                    *)
EventBack(e) == LET c == ClassOf(e.class.struct)
                IN  [e EXCEPT !.class = c, !.fields = c.reads \intersect e.class.writes]

StringSymbolBlocks(e)  == <<"string_symbol">> \o NotNull(<<"symbol">>, e.nulls)
StringSymbolDeletes(e) == {"string_symbol"} \union ({"symbol"} \ e.nulls)

CandleSymbolBlocks(e)  == <<"candle_symbol">> \o NotNull(<<"candle.symbol">>, e.nulls)
CandleSymbolDeletes(e) == {"candle_symbol"} \union ({"candle.symbol"} \ e.nulls)

(* The structure of the wildcard is static.                                *)
WildcardBlocks == <<>>

SourceBlocks(e)  == <<"source">> \o NotNull(<<"source.name">>, e.nulls)
SourceDeletes(e) == {"source"} \union ({"source.name"} \ e.nulls)

SimpleBlocks(e) ==
  CASE e.kind = "string"   -> StringSymbolBlocks(e)
    [] e.kind = "candle"   -> CandleSymbolBlocks(e)
    [] e.kind = "wildcard" -> WildcardBlocks

SimpleDeletes(e) ==
  CASE e.kind = "string"   -> StringSymbolDeletes(e)
    [] e.kind = "candle"   -> CandleSymbolDeletes(e)
    [] e.kind = "wildcard" -> {}

(* The two subscription symbols wrap another symbol; only the indexed one  *)
(* carries a source.                                                       *)
IndexedBlocks(e)  == <<"indexed_symbol">> \o SimpleBlocks(e.of) \o SourceBlocks(e)
IndexedDeletes(e) == {"indexed_symbol"} \union SimpleDeletes(e.of) \union SourceDeletes(e)

TimeSeriesBlocks(e)  == <<"time_series_symbol">> \o SimpleBlocks(e.of)
TimeSeriesDeletes(e) == {"time_series_symbol"} \union SimpleDeletes(e.of)

ToGraal(e) ==
  CASE e.kind = "event"       -> EventBlocks(e)
    [] e.kind = "foreign"     -> <<>>
    [] e.kind = "source"      -> SourceBlocks(e)
    [] e.kind = "indexed"     -> IndexedBlocks(e)
    [] e.kind = "time_series" -> TimeSeriesBlocks(e)
    [] OTHER                  -> SimpleBlocks(e)

FreeGraal(e) ==
  CASE e.kind = "event"       -> EventDeletes(e)
    [] e.kind = "foreign"     -> {}
    [] e.kind = "source"      -> SourceDeletes(e)
    [] e.kind = "indexed"     -> IndexedDeletes(e)
    [] e.kind = "time_series" -> TimeSeriesDeletes(e)
    [] OTHER                  -> SimpleDeletes(e)

(* The allocations whose failure is thrown to the caller. Below a function *)
(* that is noexcept a failure ends the program; the structure of an event  *)
(* is allocated outside its fillGraalData.                                 *)
Throwing(e) ==
  IF e.kind # "event" THEN {}
  ELSE IF e.class.quiet THEN {e.class.struct}
  ELSE ToSet(EventBlocks(e))

(* fromGraal. A symbol or a source gives itself back, except that a candle *)
(* symbol and a source without a name get an empty one.                    *)
FromGraal(e) ==
  CASE e.kind = "event" -> EventBack(e)
    [] e.kind \in {"candle", "source"} -> [e EXCEPT !.nulls = {}]
    [] OTHER -> e
============================================================================
