------------------------- MODULE MarketEventSymbols -------------------------
(***************************************************************************)
(* MarketEventSymbols: the base symbol, the exchange code and the          *)
(* attributes of a symbol such as A&X{k=1,l=2}, and the functions that     *)
(* change them one at a time. Symbols are sequences of characters, because *)
(* the code edits them by positions, which begin with 0 as in the code.    *)
(***************************************************************************)
EXTENDS Integers, Sequences, FiniteSets, FiniteSetsExt, SequencesExt

CONSTANTS
  Bases,       \* base symbols, keys and values: sequences of characters
  Exchanges,   \* exchange codes: characters
  Keys,
  Values,
  MaxInitial   \* bound: attributes in the symbol one begins with

(* Characters are numbers, in the order of their codes.                    *)
SEPARATOR == 101  \* EXCHANGE_SEPARATOR '&'
OPEN      == 102  \* ATTRIBUTES_OPEN '{'
CLOSE     == 103  \* ATTRIBUTES_CLOSE '}'
COMMA     == 104  \* ATTRIBUTES_SEPARATOR ','
EQUALS    == 105  \* ATTRIBUTE_VALUE '='

NoCode == 0       \* '\0'
None   == <<-1>>  \* std::nullopt
npos   == -1

(* What a symbol can be told apart by: a base symbol has no & and no {, a  *)
(* key no = and no {, a value no comma and no {.                           *)
ASSUME SymbolsAssumption ==
  /\ Bases \subseteq Seq(Nat \ {SEPARATOR, OPEN})
  /\ Exchanges \subseteq Nat \ {NoCode, OPEN}
  /\ Keys \subseteq Seq(Nat \ {EQUALS, OPEN})
  /\ Values \subseteq Seq(Nat \ {COMMA, OPEN})
  /\ MaxInitial \in Nat

-----------------------------------------------------------------------------
(* std::string                                                             *)

String   == Seq(Int)
Position == Nat \ {0}

substr(s, i)  == SubSeq(s, i + 1, Len(s))
sub(s, i, n)  == SubSeq(s, i + 1, i + n)

Occurs(s, c) == {p \in 0..(Len(s) - 1) : s[p + 1] = c}

find_first_of(s, c, i) ==
  LET P == {p \in Occurs(s, c) : p >= i} IN IF P = {} THEN npos ELSE Min(P)

find_last_of(s, c, i) ==
  LET P == {p \in Occurs(s, c) : p <= i} IN IF P = {} THEN npos ELSE Max(P)

Less(a, b) ==
  \E n \in 0..Len(a) :
    /\ n < Len(b) /\ sub(a, 0, n) = sub(b, 0, n)
    /\ n = Len(a) \/ a[n + 1] < b[n + 1]

-----------------------------------------------------------------------------

hasAttributesInternal(s) ==
  /\ Len(s) >= 3 /\ Last(s) = CLOSE
  /\ LET p == find_last_of(s, OPEN, Len(s) - 2) IN p # npos /\ p < Len(s) - 2

getLengthWithoutAttributesInternal(s) ==
  IF hasAttributesInternal(s) THEN find_last_of(s, OPEN, Len(s) - 1) ELSE Len(s)

hasExchangeCodeInternal(s, length) == length >= 2 /\ s[length - 1] = SEPARATOR

getBaseSymbolInternal(s, length) ==
  sub(s, 0, IF hasExchangeCodeInternal(s, length) THEN length - 2 ELSE length)

getKeyInternal(s, i) ==
  LET found == find_first_of(s, EQUALS, i) IN
  IF found = npos THEN None ELSE sub(s, i, found - i)

getNextKeyInternal(s, i) ==
  LET p == find_first_of(s, COMMA, find_first_of(s, EQUALS, i) + 1) IN
  IF p = npos THEN Len(s) ELSE p + 1

getValueInternal(s, i, j) ==
  LET offset == find_first_of(s, EQUALS, i) + 1 IN sub(s, offset, j - 1 - offset)

\* Mutant: the comma before the last attribute stays.
dropKeyAndValueInternal_Comma(s, length, i, j) ==
  IF j = Len(s)
    THEN IF i = length + 1 THEN sub(s, 0, length)
                           ELSE sub(s, 0, i) \o substr(s, j - 1)
    ELSE sub(s, 0, i) \o substr(s, j)

dropKeyAndValueInternal(s, length, i, j) ==
  IF j = Len(s)
    THEN IF i = length + 1 THEN sub(s, 0, length)
                           ELSE sub(s, 0, i - 1) \o substr(s, j - 1)
    ELSE sub(s, 0, i) \o substr(s, j)

(* The end of a loop over the attributes that is at position i.             *)
Ended(s, i) == i >= Len(s) \/ getKeyInternal(s, i) = None

getAttributeInternal(s, length, key) ==
  LET find[i \in Nat] ==
        LET j == getNextKeyInternal(s, i) IN
        IF Ended(s, i) THEN None
        ELSE IF getKeyInternal(s, i) = key THEN getValueInternal(s, i, j) ELSE find[j]
  IN IF length = Len(s) THEN None ELSE find[length + 1]

(* One turn of the loop: the symbol and the position after it.             *)
removeTurn(s, length, i, key) ==
  LET j == getNextKeyInternal(s, i) IN
  IF getKeyInternal(s, i) = key
    THEN <<dropKeyAndValueInternal(s, length, i, j), i>>
    ELSE <<s, j>>

removeAttributeInternal(s, length, key) ==
  LET loop[at \in String \X Position] ==
        IF Ended(at[1], at[2]) THEN at[1]
        ELSE loop[removeTurn(at[1], length, at[2], key)]
  IN IF length = Len(s) THEN s ELSE loop[<<s, length + 1>>]

Attribute(key, value) == key \o <<EQUALS>> \o value

\* Mutant: a new key goes before a smaller one.
goesBefore_Greater(key, current) == Less(current, key)

goesBefore(key, current) == Less(key, current)

(* Replaces the value of the key or inserts the attribute before the first *)
(* greater key, and drops the key from then on.                            *)
addTurn(s, length, i, added, key, value) ==
  LET current == getKeyInternal(s, i)
      j       == getNextKeyInternal(s, i)
      after   == i + Len(key) + Len(value) + 2
  IN
  IF current = key
    THEN IF added
      THEN <<dropKeyAndValueInternal(s, length, i, j), i, TRUE>>
      ELSE <<sub(s, 0, i) \o Attribute(key, value) \o substr(s, j - 1), after, TRUE>>
  ELSE IF goesBefore(key, current) /\ ~added
    THEN <<sub(s, 0, i) \o Attribute(key, value) \o <<COMMA>> \o substr(s, i), after, TRUE>>
  ELSE <<s, j, added>>

appendAttribute(s, i, key, value) ==
  sub(s, 0, i - 1) \o <<COMMA>> \o Attribute(key, value) \o substr(s, i - 1)

addAttributeInternal(s, length, key, value) ==
  LET loop[at \in String \X Position \X BOOLEAN] ==
        IF Ended(at[1], at[2])
          THEN IF at[3] THEN at[1] ELSE appendAttribute(at[1], at[2], key, value)
          ELSE loop[addTurn(at[1], length, at[2], at[3], key, value)]
  IN IF length = Len(s) THEN s \o <<OPEN>> \o Attribute(key, value) \o <<CLOSE>>
     ELSE loop[<<s, length + 1, FALSE>>]

-----------------------------------------------------------------------------
(* The functions for users.                                                *)

getBaseSymbol(s) == getBaseSymbolInternal(s, getLengthWithoutAttributesInternal(s))

getExchangeCode(s) ==
  LET length == getLengthWithoutAttributesInternal(s) IN
  IF hasExchangeCodeInternal(s, length) THEN s[length] ELSE NoCode

getAttributeStringByKey(s, key) ==
  getAttributeInternal(s, getLengthWithoutAttributesInternal(s), key)

changeExchangeCode(s, code) ==
  LET length == getLengthWithoutAttributesInternal(s) IN
  getBaseSymbolInternal(s, length)
    \o (IF code = NoCode THEN <<>> ELSE <<SEPARATOR, code>>) \o substr(s, length)

changeBaseSymbol(s, base) ==
  LET length == getLengthWithoutAttributesInternal(s) IN
  base \o (IF hasExchangeCodeInternal(s, length) THEN <<SEPARATOR, s[length]>> ELSE <<>>)
       \o substr(s, length)

changeAttributeStringByKey(s, key, value) ==
  LET length == getLengthWithoutAttributesInternal(s) IN
  IF length = Len(s)
    THEN s \o <<OPEN>> \o Attribute(key, value) \o <<CLOSE>>
    ELSE addAttributeInternal(s, length, key, value)

removeAttributeStringByKey(s, key) ==
  removeAttributeInternal(s, getLengthWithoutAttributesInternal(s), key)

-----------------------------------------------------------------------------
(* A symbol that is changed again and again, beside what it stands for.    *)

VARIABLES
  symbol,
  base, exchange,  \* what the symbol should say
  attributes       \* attributes[key]: the value, or None

symbolVars == <<symbol, base, exchange, attributes>>

(* Symbols from elsewhere, whose keys need be neither sorted nor distinct. *)
Lists == UNION {[1..n -> Keys \X Values] : n \in 0..MaxInitial}

Prefix(b, x) == b \o (IF x = NoCode THEN <<>> ELSE <<SEPARATOR, x>>)

Text(b, x, list) ==
  LET text[n \in 0..Len(list)] ==
        IF n = 0 THEN Prefix(b, x)
        ELSE text[n - 1] \o <<IF n = 1 THEN OPEN ELSE COMMA>>
                         \o Attribute(list[n][1], list[n][2])
  IN IF list = <<>> THEN Prefix(b, x) ELSE text[Len(list)] \o <<CLOSE>>

(* The first attribute of a key counts.                                    *)
Meaning(list) ==
  [key \in Keys |->
     LET N == {n \in DOMAIN list : list[n][1] = key} IN
     IF N = {} THEN None ELSE list[Min(N)][2]]

SymbolInit ==
  \E b \in Bases, x \in Exchanges \union {NoCode}, list \in Lists :
    /\ symbol = Text(b, x, list)
    /\ base = b /\ exchange = x /\ attributes = Meaning(list)

ChangeExchange ==
  \E x \in Exchanges \union {NoCode} :
    /\ symbol' = changeExchangeCode(symbol, x)
    /\ exchange' = x
    /\ UNCHANGED <<base, attributes>>

ChangeBase ==
  \E b \in Bases :
    /\ symbol' = changeBaseSymbol(symbol, b)
    /\ base' = b
    /\ UNCHANGED <<exchange, attributes>>

ChangeAttribute ==
  \E key \in Keys, value \in Values :
    /\ symbol' = changeAttributeStringByKey(symbol, key, value)
    /\ attributes' = [attributes EXCEPT ![key] = value]
    /\ UNCHANGED <<base, exchange>>

RemoveAttribute ==
  \E key \in Keys :
    /\ symbol' = removeAttributeStringByKey(symbol, key)
    /\ attributes' = [attributes EXCEPT ![key] = None]
    /\ UNCHANGED <<base, exchange>>

SymbolNext == ChangeExchange \/ ChangeBase \/ ChangeAttribute \/ RemoveAttribute

SymbolSpec == SymbolInit /\ [][SymbolNext]_symbolVars

-----------------------------------------------------------------------------

(* Whatever is changed in which order, each part of a symbol is what it    *)
(* was last changed to, and no change touches another part.                *)
PartsAgree ==
  /\ getBaseSymbol(symbol) = base
  /\ getExchangeCode(symbol) = exchange
  /\ \A key \in Keys : getAttributeStringByKey(symbol, key) = attributes[key]

Canonical(list) ==
  \A m, n \in DOMAIN list : m < n => Less(list[m][1], list[n][1])

(* The keys are sorted and distinct: there is one such text for what the   *)
(* symbol stands for.                                                      *)
InCanonicalForm ==
  LET In == {key \in Keys : attributes[key] # None} IN
  \E keys \in [1..Cardinality(In) -> In] :
    LET list == [n \in DOMAIN keys |-> <<keys[n], attributes[keys[n]]>>]
    IN  Canonical(list) /\ symbol = Text(base, exchange, list)

(* A symbol in canonical form stays in it, whatever is changed: the text is *)
(* the name that events and subscriptions are compared by.                 *)
StaysCanonical == [][InCanonicalForm => InCanonicalForm']_symbolVars
=============================================================================
