---------------------------- MODULE EventFields ----------------------------
(***************************************************************************)
(* The packed numbers of market events and their setters: seconds,         *)
(* milliseconds and a sequence number in one word of orders, trades,       *)
(* candles and other events, the milliseconds of a quote beside its two    *)
(* times, and the flags of an order. A word is the number it stands for:   *)
(* where the bits of its parts do not overlap, `or' adds them. The widths  *)
(* of the parts are constants.                                             *)
(***************************************************************************)
EXTENDS Integers

CONSTANTS
  EventIds,
  Times,       \* milliseconds
  MaxSeconds,  \* the largest number of seconds; the smallest is -MaxSeconds - 1
  SECOND,      \* milliseconds of a second
  MILLIS,      \* 2 to the number of bits of the milliseconds
  SEQUENCES,   \* 2 to the number of bits of the sequence number
  NANOS_IN_MILLIS,
  ExchangeCodes  \* exchange codes, of seven bits

ASSUME FieldsAssumption ==
  /\ Times \subseteq Int /\ MaxSeconds \in Nat
  /\ {SECOND, MILLIS, SEQUENCES, NANOS_IN_MILLIS} \subseteq Nat \ {0}
  /\ SECOND <= MILLIS
  /\ ExchangeCodes \subseteq 0..127

LOW == MILLIS * SEQUENCES  \* the low half of the word, below the seconds

Sequences == 0..(SEQUENCES - 1)
NanoParts == 0..(NANOS_IN_MILLIS - 1)

Least(a, b)    == IF a < b THEN a ELSE b
Greatest(a, b) == IF a < b THEN b ELSE a

-----------------------------------------------------------------------------
(* Arithmetic: the division of C++ rounds towards zero.                    *)

Quotient(x, y) == IF x >= 0 THEN x \div y ELSE -((-x) \div y)

\* Mutant: floorDiv does not round down.
floorDiv_Zero(x, y) == Quotient(x, y)

floorDiv(x, y) ==
  LET r == Quotient(x, y) IN
  IF x < 0 /\ r * y # x THEN r - 1 ELSE r

floorMod(x, y) == x - floorDiv(x, y) * y

getMillisFromTime(time) == floorMod(time, SECOND)

getSecondsFromTime(time) ==
  IF time >= 0
    THEN Least(Quotient(time, SECOND), MaxSeconds)
    ELSE Greatest(Quotient(time + 1, SECOND) - 1, -MaxSeconds - 1)

-----------------------------------------------------------------------------
(* The word of time and sequence.                                          *)

Word(seconds, millis, sequence) == seconds * LOW + millis * SEQUENCES + sequence

getTime(w)     == (w \div LOW) * SECOND + ((w \div SEQUENCES) % MILLIS)
getSequence(w) == w % SEQUENCES

\* Mutant: a new time begins a new sequence.
WithTime_Resets(w, time) ==
  Word(getSecondsFromTime(time), getMillisFromTime(time), 0)

WithTime(w, time) ==
  Word(getSecondsFromTime(time), getMillisFromTime(time), getSequence(w))

(* The complement of a mask of 32 bits has 32 bits: the seconds go too.    *)
WithSequence(w, sequence) == ((w % LOW) - (w % SEQUENCES)) + sequence

VARIABLES
  word, nanoPart,  \* of each event
  given            \* what each event was given; timely: the time came last

eventVars == <<word, nanoPart, given>>

EventsInit ==
  /\ word = [e \in EventIds |-> 0]
  /\ nanoPart = [e \in EventIds |-> 0]
  /\ given = [e \in EventIds |-> [time |-> 0, sequence |-> 0, nanos |-> 0, timely |-> TRUE]]

(* An event that arrives from Java, which packs its word.                  *)
FillData(e) ==
  \E time \in Times, sequence \in Sequences :
    /\ word' = [word EXCEPT ![e] = WithTime(sequence, time)]
    /\ nanoPart' = [nanoPart EXCEPT ![e] = 0]
    /\ given' = [given EXCEPT ![e] =
                   [time |-> time, sequence |-> sequence, nanos |-> 0, timely |-> TRUE]]

SetTime(e) ==
  \E time \in Times :
    /\ word' = [word EXCEPT ![e] = WithTime(@, time)]
    /\ given' = [given EXCEPT ![e] =
                   [time |-> time, sequence |-> @.sequence, nanos |-> @.nanos, timely |-> TRUE]]
    /\ UNCHANGED nanoPart

SetTimeNanos(e) ==
  \E time \in Times, nanos \in NanoParts :
    LET timeNanos == time * NANOS_IN_MILLIS + nanos IN
    /\ word' = [word EXCEPT ![e] = WithTime(@, floorDiv(timeNanos, NANOS_IN_MILLIS))]
    /\ nanoPart' = [nanoPart EXCEPT ![e] = floorMod(timeNanos, NANOS_IN_MILLIS)]
    /\ given' = [given EXCEPT ![e] =
                   [time |-> time, sequence |-> @.sequence, nanos |-> nanos, timely |-> TRUE]]

SetTimeNanoPart(e) ==
  \E nanos \in NanoParts :
    /\ nanoPart' = [nanoPart EXCEPT ![e] = nanos]
    /\ given' = [given EXCEPT ![e] = [time |-> @.time, sequence |-> @.sequence,
                                      nanos |-> nanos, timely |-> @.timely]]
    /\ UNCHANGED word

(* A number outside the range is refused.                                  *)
SetSequence(e) ==
  \E sequence \in Sequences :
    /\ word' = [word EXCEPT ![e] = WithSequence(@, sequence)]
    /\ given' = [given EXCEPT ![e] =
                   [time |-> @.time, sequence |-> sequence, nanos |-> @.nanos, timely |-> FALSE]]
    /\ UNCHANGED nanoPart

EventsNext ==
  \E e \in EventIds :
    FillData(e) \/ SetTime(e) \/ SetTimeNanos(e) \/ SetTimeNanoPart(e) \/ SetSequence(e)

EventsSpec == EventsInit /\ [][EventsNext]_eventVars

getTimeNanos(e) == getTime(word[e]) * NANOS_IN_MILLIS + nanoPart[e]

-----------------------------------------------------------------------------
(* A quote: its word has no seconds, and its time follows the later of the *)
(* times of its bid and its ask.                                           *)

VARIABLES
  quote,      \* [bid, ask, word]
  quoteGiven  \* [time, sequence]: what its getters should return

quoteVars == <<quote, quoteGiven>>

QuoteInit ==
  /\ quote = [bid |-> 0, ask |-> 0, word |-> 0]
  /\ quoteGiven = [time |-> 0, sequence |-> 0]

Later(q) == Greatest(q.bid, q.ask)

quoteTime(q) == floorDiv(Later(q), SECOND) * SECOND + q.word \div SEQUENCES

\* Mutant: the milliseconds of the bid, whichever is later.
recomputeTimeMillisPart_Bid(q) ==
  [q EXCEPT !.word = getMillisFromTime(q.bid) * SEQUENCES + getSequence(@)]

recomputeTimeMillisPart(q) ==
  [q EXCEPT !.word = getMillisFromTime(Later(q)) * SEQUENCES + getSequence(@)]

(* Quotes of the feed have times in whole seconds and the milliseconds of  *)
(* the later one in the word.                                              *)
FillQuote ==
  \E bid, ask \in {time \in Times : time % SECOND = 0}, millis \in 0..(SECOND - 1),
     sequence \in Sequences :
    /\ quote' = [bid |-> bid, ask |-> ask, word |-> millis * SEQUENCES + sequence]
    /\ quoteGiven' = [time |-> Greatest(bid, ask) + millis, sequence |-> sequence]

SetQuoteTime ==
  \E time \in Times, side \in {"bid", "ask"} :
    /\ quote' = recomputeTimeMillisPart([quote EXCEPT ![side] = time])
    /\ quoteGiven' = [quoteGiven EXCEPT !.time = Later([quote EXCEPT ![side] = time])]

(* Here mask and word have 32 bits both.                                   *)
WithQuoteSequence(w, sequence) == (w - (w % SEQUENCES)) + sequence

SetQuoteSequence ==
  \E sequence \in Sequences :
    /\ quote' = [quote EXCEPT !.word = WithQuoteSequence(@, sequence)]
    /\ quoteGiven' = [quoteGiven EXCEPT !.sequence = sequence]

QuoteNext == FillQuote \/ SetQuoteTime \/ SetQuoteSequence

QuoteSpec == QuoteInit /\ [][QuoteNext]_quoteVars

-----------------------------------------------------------------------------
(* The flags of an order: action, exchange, side and scope.                *)

VARIABLES flags, flagsGiven

flagVars == <<flags, flagsGiven>>

\* Mutant: the side begins one bit lower.
Shift_Side == [scope |-> 1, side |-> 2, exchange |-> 16, action |-> 2048]

Shift == [scope |-> 1, side |-> 4, exchange |-> 16, action |-> 2048]  \* 2 to the shift
Size  == [scope |-> 4, side |-> 4, exchange |-> 128, action |-> 16]   \* the mask, plus 1

Codes == [scope |-> 0..3, side |-> 0..2, exchange |-> ExchangeCodes, action |-> 0..9]
Field == DOMAIN Codes

getBits(w, mask, shift) == (w \div shift) % mask

setBits(w, mask, shift, bits) ==
  w - getBits(w, mask, shift) * shift + (bits % mask) * shift

FlagsInit == flags = 0 /\ flagsGiven = [field \in Field |-> 0]

SetFlags ==
  \E field \in Field : \E code \in Codes[field] :
    /\ flags' = setBits(flags, Size[field], Shift[field], code)
    /\ flagsGiven' = [flagsGiven EXCEPT ![field] = code]

FlagsSpec == FlagsInit /\ [][SetFlags]_flagVars

-----------------------------------------------------------------------------

InRange(time) == -(MaxSeconds + 1) * SECOND <= time /\ time < (MaxSeconds + 1) * SECOND

(* Setters of one part of the word keep the others, but for the time that  *)
(* setSequence takes away: a time, before 1970 or in nanoseconds too, is   *)
(* what it was set to for as long as its seconds fit into 32 bits.         *)
EventPartsAgree ==
  \A e \in EventIds :
    /\ getSequence(word[e]) = given[e].sequence
    /\ nanoPart[e] = given[e].nanos
    /\ (given[e].timely /\ InRange(given[e].time)) =>
         /\ getTime(word[e]) = given[e].time
         /\ getTimeNanos(e) = given[e].time * NANOS_IN_MILLIS + given[e].nanos

(* Words are compared instead of times and sequence numbers, as the index  *)
(* of time series and as the priority of orders: the order is the same,    *)
(* times before 1970 included, and no two events share a word.             *)
WordsAreOrdered ==
  \A d, e \in EventIds :
    (\A x \in {d, e} : given[x].timely /\ InRange(given[x].time)) =>
      (word[d] < word[e] <=>
         \/ given[d].time < given[e].time
         \/ given[d].time = given[e].time /\ given[d].sequence < given[e].sequence)

(* A quote's time is the later of its two times, whichever was set last,   *)
(* and keeps the milliseconds that came with it; its sequence number stays.*)
QuotePartsAgree ==
  /\ quoteTime(quote) = quoteGiven.time
  /\ getSequence(quote.word) = quoteGiven.sequence

(* The codes in an order's flags do not disturb one another.               *)
FlagsAgree ==
  \A field \in Field : getBits(flags, Size[field], Shift[field]) = flagsGiven[field]

(* TradeBase::setSequence and its like change the sequence number: the     *)
(* time of the event, which is in the same word, is still what it was.     *)
TimeIsKept ==
  \A e \in EventIds : InRange(given[e].time) => getTime(word[e]) = given[e].time
=============================================================================
