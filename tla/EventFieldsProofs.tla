------------------------- MODULE EventFieldsProofs -------------------------
(***************************************************************************)
(* Proofs about the word of an event's time and sequence number, for all   *)
(* widths of its parts, those of the code (10 bits of milliseconds, 22 of  *)
(* the sequence number) among them, and for all times.                     *)
(***************************************************************************)
EXTENDS EventFields, TLAPS

Positive == Nat \ {0}

LEMMA Widths ==
  /\ SECOND \in Positive /\ MILLIS \in Positive /\ SEQUENCES \in Positive
  /\ NANOS_IN_MILLIS \in Positive /\ SECOND <= MILLIS /\ MaxSeconds \in Nat
  /\ Times \subseteq Int
BY FieldsAssumption DEF Positive

-----------------------------------------------------------------------------
(* Numbers of the form a * H + r with 0 <= r < H.                          *)

LEMMA Product ==
  ASSUME NEW H \in Positive, NEW a \in Int, NEW b \in Int, a < b
  PROVE  a * H + H <= b * H
<1>1. a + 1 <= b /\ H > 0 /\ H \in Nat
  BY DEF Positive
<1>2. (a + 1) * H <= b * H
  BY <1>1
<1>3. (a + 1) * H = a * H + H
  BY <1>1
<1> QED
  BY <1>2, <1>3

(* They are ordered by a, and then by r.                                   *)
LEMMA Lexicographic ==
  ASSUME NEW H \in Positive, NEW a \in Int, NEW b \in Int,
         NEW r \in 0..(H - 1), NEW s \in 0..(H - 1)
  PROVE  a * H + r < b * H + s <=> a < b \/ (a = b /\ r < s)
<1>1. H \in Nat /\ a * H \in Int /\ b * H \in Int /\ r \in Int /\ s \in Int
      /\ 0 <= r /\ r < H /\ 0 <= s /\ s < H
  BY DEF Positive
<1> DEFINE p == a * H  q == b * H
<1>2. p \in Int /\ q \in Int /\ (a < b => p + H <= q) /\ (b < a => q + H <= p)
      /\ (a = b => p = q)
  BY <1>1, Product
<1> HIDE DEF p, q
<1>3. p + r < q + s <=> a < b \/ (a = b /\ r < s)
  BY <1>1, <1>2
<1> QED
  BY <1>3 DEF p, q

LEMMA Unique ==
  ASSUME NEW H \in Positive, NEW a \in Int, NEW b \in Int,
         NEW r \in 0..(H - 1), NEW s \in 0..(H - 1), a * H + r = b * H + s
  PROVE  a = b /\ r = s
<1>1. ~(a * H + r < b * H + s) /\ ~(b * H + s < a * H + r)
  BY DEF Positive
<1>2. ~(a < b \/ (a = b /\ r < s)) /\ ~(b < a \/ (b = a /\ s < r))
  BY <1>1, Lexicographic
<1> QED
  BY <1>2 DEF Positive

(* Quotient and remainder.                                                 *)
LEMMA Division ==
  ASSUME NEW H \in Positive, NEW x \in Int
  PROVE  /\ x \div H \in Int /\ x % H \in 0..(H - 1)
         /\ x = (x \div H) * H + (x % H)
<1>1. H \in Nat /\ H > 0
  BY DEF Positive
<1>2. x \div H \in Int /\ x % H \in 0..(H - 1) /\ x = H * (x \div H) + (x % H)
  BY <1>1
<1>3. H * (x \div H) = (x \div H) * H
  BY <1>1, <1>2
<1> QED
  BY <1>2, <1>3

LEMMA Parts ==
  ASSUME NEW H \in Positive, NEW a \in Int, NEW r \in 0..(H - 1)
  PROVE  (a * H + r) \div H = a /\ (a * H + r) % H = r
<1> DEFINE x == a * H + r
<1>1. x \in Int
  BY DEF Positive
<1>2. /\ x \div H \in Int /\ x % H \in 0..(H - 1)
      /\ x = (x \div H) * H + (x % H)
  BY <1>1, Division
<1>3. a * H + r = (x \div H) * H + (x % H)
  BY <1>2
<1> QED
  BY <1>2, <1>3, Unique

-----------------------------------------------------------------------------
(* floorDiv rounds down, floorMod is the remainder.                        *)
LEMMA FloorDiv ==
  ASSUME NEW y \in Positive, NEW x \in Int
  PROVE  floorDiv(x, y) = x \div y /\ floorMod(x, y) = x % y
<1>1. y \in Int /\ y > 0
  BY DEF Positive
<1>2. x \div y \in Int /\ x % y \in 0..(y - 1) /\ x = (x \div y) * y + (x % y)
  BY Division
<1>3. floorDiv(x, y) = x \div y
  <2>1. CASE x >= 0
    BY <2>1 DEF floorDiv, Quotient
  <2>2. CASE x < 0
    <3> DEFINE p == (-x) \div y  s == (-x) % y
    <3>1. -x \in Int
      OBVIOUS
    <3>2. p \in Int /\ s \in 0..(y - 1) /\ -x = p * y + s
      BY <3>1, Division
    <3>3. floorDiv(x, y) = IF (-p) * y # x THEN (-p) - 1 ELSE -p
      BY <2>2 DEF floorDiv, Quotient
    <3> HIDE DEF p, s
    <3>4. (-p) * y = -(p * y) /\ p * y \in Int
      BY <1>1, <3>2
    <3>5. CASE s = 0
      <4>1. x = (-p) * y + 0
        BY <3>2, <3>4, <3>5, <1>1
      <4>2. x \div y = -p
        BY <4>1, <1>1, <3>2, Parts
      <4> QED
        BY <4>1, <4>2, <3>3, <3>4, <1>1
    <3>6. CASE s # 0
      <4>1. (-p) * y # x
        BY <3>2, <3>4, <3>6
      <4>2. (-p - 1) * y = (-p) * y - y
        BY <1>1, <3>2
      <4>3. x = (-p - 1) * y + (y - s) /\ y - s \in 0..(y - 1)
        BY <4>2, <3>2, <3>4, <3>6, <1>1
      <4>4. x \div y = -p - 1
        BY <4>3, <3>2, Parts
      <4> QED
        BY <4>1, <4>4, <3>3
    <3> QED
      BY <3>5, <3>6
  <2> QED
    BY <2>1, <2>2
<1> QED
  BY <1>1, <1>2, <1>3 DEF floorMod

(* Seconds and milliseconds make up the time, before 1970 too.             *)
LEMMA TimeParts ==
  ASSUME NEW time \in Int
  PROVE  /\ getMillisFromTime(time) \in 0..(SECOND - 1)
         /\ getSecondsFromTime(time) \in Int
         /\ InRange(time) =>
              time = getSecondsFromTime(time) * SECOND + getMillisFromTime(time)
<1> DEFINE d == time \div SECOND
<1>1. SECOND \in Positive /\ SECOND \in Int /\ SECOND > 0 /\ MaxSeconds \in Int /\ 0 <= MaxSeconds
  BY Widths DEF Positive
<1>2. d \in Int /\ time % SECOND \in 0..(SECOND - 1) /\ time = d * SECOND + (time % SECOND)
  BY <1>1, Division
<1>3. getMillisFromTime(time) = time % SECOND
  BY <1>1, FloorDiv DEF getMillisFromTime
<1>4. getSecondsFromTime(time) =
        IF time >= 0 THEN Least(d, MaxSeconds) ELSE Greatest(d, -MaxSeconds - 1)
  <2>1. CASE time >= 0
    BY <2>1 DEF getSecondsFromTime, Quotient
  <2>2. CASE time < 0
    <3> DEFINE x == -(time + 1)  p == x \div SECOND  s == x % SECOND
    <3>1. x \in Int
      OBVIOUS
    <3>2. p \in Int /\ s \in 0..(SECOND - 1) /\ x = p * SECOND + s
      BY <3>1, <1>1, Division
    <3>3. Quotient(time + 1, SECOND) = -p
      <4>1. CASE time + 1 < 0
        BY <4>1 DEF Quotient
      <4>2. CASE time + 1 >= 0
        <5>1. time + 1 = 0 /\ x = 0
          BY <2>2, <4>2
        <5>2. 0 = 0 * SECOND + 0 /\ 0 \in 0..(SECOND - 1)
          BY <1>1
        <5>3. (0 * SECOND + 0) \div SECOND = 0
          BY <1>1, <5>2, Parts
        <5>4. 0 \div SECOND = 0
          BY <5>2, <5>3
        <5>5. Quotient(time + 1, SECOND) = (time + 1) \div SECOND
          BY <4>2 DEF Quotient
        <5> QED
          BY <5>1, <5>4, <5>5
      <4> QED
        BY <4>1, <4>2
    <3> HIDE DEF p, s
    <3>4. time = -(p * SECOND) - s - 1 /\ p * SECOND \in Int
      BY <3>2, <1>1
    <3>5. (-p - 1) * SECOND = -(p * SECOND) - SECOND
      BY <3>2, <1>1
    <3>6. time = (-p - 1) * SECOND + (SECOND - 1 - s) /\ SECOND - 1 - s \in 0..(SECOND - 1)
      BY <3>2, <3>4, <3>5, <1>1
    <3>7. d = -p - 1
      BY <3>2, <3>6, <1>1, Parts
    <3> QED
      BY <2>2, <3>3, <3>7 DEF getSecondsFromTime
  <2> QED
    BY <2>1, <2>2
<1> HIDE DEF d
<1>5. getSecondsFromTime(time) \in Int
  BY <1>1, <1>2, <1>4 DEF Least, Greatest
<1>6. InRange(time) => getSecondsFromTime(time) = d
  <2> SUFFICES ASSUME InRange(time) PROVE getSecondsFromTime(time) = d
    OBVIOUS
  <2>1. ~ d > MaxSeconds
    <3> SUFFICES ASSUME d > MaxSeconds PROVE FALSE
      OBVIOUS
    <3>1. MaxSeconds * SECOND + SECOND <= d * SECOND
      BY <1>1, <1>2, Product
    <3>2. (MaxSeconds + 1) * SECOND = MaxSeconds * SECOND + SECOND /\ MaxSeconds * SECOND \in Int
      BY <1>1
    <3>3. d * SECOND <= time /\ d * SECOND \in Int
      BY <1>1, <1>2
    <3>4. time < (MaxSeconds + 1) * SECOND
      BY DEF InRange
    <3> DEFINE k == MaxSeconds * SECOND  e == d * SECOND  h == (MaxSeconds + 1) * SECOND
    <3>5. k + SECOND <= e /\ h = k + SECOND /\ e <= time /\ time < h /\ k \in Int /\ e \in Int
      BY <3>1, <3>2, <3>3, <3>4
    <3> HIDE DEF k, e, h
    <3> QED
      BY <3>5, <1>1
  <2>2. ~ d < -MaxSeconds - 1
    <3> SUFFICES ASSUME d < -MaxSeconds - 1 PROVE FALSE
      OBVIOUS
    <3>1. d * SECOND + SECOND <= (-MaxSeconds - 1) * SECOND
      BY <1>1, <1>2, Product
    <3>2. (-MaxSeconds - 1) * SECOND = -(MaxSeconds + 1) * SECOND
          /\ (-MaxSeconds - 1) * SECOND \in Int
      BY <1>1
    <3>3. time < d * SECOND + SECOND /\ d * SECOND \in Int
      BY <1>1, <1>2
    <3>4. -(MaxSeconds + 1) * SECOND <= time
      BY DEF InRange
    <3> DEFINE k == (-MaxSeconds - 1) * SECOND  e == d * SECOND  h == -(MaxSeconds + 1) * SECOND
    <3>5. e + SECOND <= k /\ k = h /\ h <= time /\ time < e + SECOND /\ k \in Int /\ e \in Int
      BY <3>1, <3>2, <3>3, <3>4
    <3> HIDE DEF k, e, h
    <3> QED
      BY <3>5, <1>1
  <2> QED
    BY <2>1, <2>2, <1>1, <1>2, <1>4 DEF Least, Greatest
<1> QED
  BY <1>2, <1>3, <1>5, <1>6
-----------------------------------------------------------------------------
(* The word.                                                               *)

Millis == 0..(MILLIS - 1)

LEMMA LowHalf ==
  ASSUME NEW m \in Millis, NEW q \in Sequences
  PROVE  /\ LOW \in Positive /\ m * SEQUENCES \in Nat
         /\ m * SEQUENCES + q \in 0..(LOW - 1)
<1>1. /\ MILLIS \in Nat /\ MILLIS > 0 /\ SEQUENCES \in Nat /\ SEQUENCES > 0
      /\ SEQUENCES \in Positive /\ m \in Nat /\ m < MILLIS
  BY Widths DEF Positive, Millis
<1>2. LOW \in Nat /\ LOW > 0 /\ m * SEQUENCES \in Nat
  BY <1>1 DEF LOW
<1>3. m * SEQUENCES + SEQUENCES <= LOW
  BY <1>1, Product DEF LOW
<1> QED
  BY <1>1, <1>2, <1>3 DEF Positive, Sequences

LEMMA WordParts ==
  ASSUME NEW s \in Int, NEW m \in Millis, NEW q \in Sequences
  PROVE  /\ Word(s, m, q) \in Int
         /\ Word(s, m, q) \div LOW = s /\ Word(s, m, q) % LOW = m * SEQUENCES + q
         /\ Word(s, m, q) \div SEQUENCES = s * MILLIS + m
         /\ (Word(s, m, q) \div SEQUENCES) % MILLIS = m
         /\ getSequence(Word(s, m, q)) = q
         /\ Word(s, m, q) = (s * MILLIS + m) * SEQUENCES + q
<1>1. /\ MILLIS \in Nat /\ MILLIS \in Positive /\ SEQUENCES \in Nat /\ SEQUENCES \in Positive
      /\ m \in Nat /\ q \in 0..(SEQUENCES - 1) /\ m \in 0..(MILLIS - 1)
  BY Widths DEF Positive, Millis, Sequences
<1>2. LOW \in Positive /\ LOW \in Nat /\ m * SEQUENCES + q \in 0..(LOW - 1)
  BY LowHalf DEF Positive
<1>3. Word(s, m, q) = s * LOW + (m * SEQUENCES + q) /\ Word(s, m, q) \in Int
  BY <1>1, <1>2 DEF Word
<1>4. Word(s, m, q) \div LOW = s /\ Word(s, m, q) % LOW = m * SEQUENCES + q
  BY <1>2, <1>3, Parts
<1>5. Word(s, m, q) = (s * MILLIS + m) * SEQUENCES + q /\ s * MILLIS + m \in Int
  <2>1. s * LOW = (s * MILLIS) * SEQUENCES
    BY <1>1 DEF LOW
  <2>2. (s * MILLIS + m) * SEQUENCES = (s * MILLIS) * SEQUENCES + m * SEQUENCES
    BY <1>1
  <2> QED
    BY <2>1, <2>2, <1>1, <1>3
<1>6. Word(s, m, q) \div SEQUENCES = s * MILLIS + m /\ Word(s, m, q) % SEQUENCES = q
  BY <1>1, <1>5, Parts
<1>7. (s * MILLIS + m) % MILLIS = m
  BY <1>1, Parts
<1> QED
  BY <1>3, <1>4, <1>5, <1>6, <1>7 DEF getSequence

(* Its parts one by one.                                                   *)
LEMMA WordSeconds ==
  ASSUME NEW s \in Int, NEW m \in Millis, NEW q \in Sequences
  PROVE  Word(s, m, q) \div LOW = s
BY WordParts

LEMMA WordMillis ==
  ASSUME NEW s \in Int, NEW m \in Millis, NEW q \in Sequences
  PROVE  (Word(s, m, q) \div SEQUENCES) % MILLIS = m
BY WordParts

LEMMA WordLow ==
  ASSUME NEW s \in Int, NEW m \in Millis, NEW q \in Sequences
  PROVE  Word(s, m, q) % LOW = m * SEQUENCES + q
BY WordParts

LEMMA WordSequence ==
  ASSUME NEW s \in Int, NEW m \in Millis, NEW q \in Sequences
  PROVE  Word(s, m, q) \in Int /\ getSequence(Word(s, m, q)) = q
BY WordParts

(* Every number is a word of some parts.                                   *)
LEMMA WordOfParts ==
  ASSUME NEW w \in Int
  PROVE  \E s \in Int, m \in Millis, q \in Sequences : w = Word(s, m, q)
<1> DEFINE a == w \div SEQUENCES  q == w % SEQUENCES  s == a \div MILLIS  m == a % MILLIS
<1>1. MILLIS \in Positive /\ SEQUENCES \in Positive /\ MILLIS \in Nat /\ SEQUENCES \in Nat
  BY Widths DEF Positive
<1>2. a \in Int /\ q \in Sequences /\ w = a * SEQUENCES + q
  BY <1>1, Division DEF Sequences
<1>3. s \in Int /\ m \in Millis /\ a = s * MILLIS + m
  BY <1>1, <1>2, Division DEF Millis
<1> HIDE DEF a, q, s, m
<1>4. Word(s, m, q) = w
  BY <1>2, <1>3, WordParts
<1> QED
  BY <1>2, <1>3, <1>4

LEMMA MillisOfSecond == ASSUME NEW time \in Int PROVE getMillisFromTime(time) \in Millis
BY TimeParts, Widths DEF Millis, Positive

(* What setTime makes of any word, ...                                     *)
LEMMA WithTimeParts ==
  ASSUME NEW w \in Int, NEW time \in Int
  PROVE  /\ getSequence(w) \in Sequences /\ WithTime(w, time) \in Int
         /\ getSequence(WithTime(w, time)) = getSequence(w)
<1>1. getSequence(w) \in Sequences
  BY Widths, Division DEF getSequence, Sequences
<1>2. getSecondsFromTime(time) \in Int /\ getMillisFromTime(time) \in Millis
  BY TimeParts, MillisOfSecond
<1> QED
  BY <1>1, <1>2, WordParts DEF WithTime

LEMMA TimeOfWord ==
  ASSUME NEW time \in Int, NEW q \in Sequences, InRange(time)
  PROVE  getTime(Word(getSecondsFromTime(time), getMillisFromTime(time), q)) = time
<1>1. getSecondsFromTime(time) \in Int /\ getMillisFromTime(time) \in Millis
  BY TimeParts, MillisOfSecond
<1> DEFINE s == getSecondsFromTime(time)  m == getMillisFromTime(time)
<1> HIDE DEF s, m
<1>2. Word(s, m, q) \div LOW = s /\ (Word(s, m, q) \div SEQUENCES) % MILLIS = m
  <2>1. s \in Int /\ m \in Millis
    BY <1>1 DEF s, m
  <2>2. Word(s, m, q) \div LOW = s
    BY <2>1, WordSeconds
  <2>3. (Word(s, m, q) \div SEQUENCES) % MILLIS = m
    BY <2>1, WordMillis
  <2> QED
    BY <2>2, <2>3
<1>3. getTime(Word(s, m, q)) = s * SECOND + m
  BY ONLY <1>2 DEF getTime
<1>4. time = s * SECOND + m
  BY TimeParts DEF s, m
<1> QED
  BY <1>3, <1>4 DEF s, m

(* ... and setSequence.                                                    *)
LEMMA WithSequenceParts ==
  ASSUME NEW w \in Int, NEW p \in Sequences
  PROVE  WithSequence(w, p) \in Int /\ getSequence(WithSequence(w, p)) = p
<1>1. PICK s \in Int, m \in Millis, q \in Sequences : w = Word(s, m, q)
  BY WordOfParts
<1>2. w % LOW = m * SEQUENCES + q /\ getSequence(w) = q
  <2>1. Word(s, m, q) % LOW = m * SEQUENCES + q
    BY WordLow
  <2>2. getSequence(Word(s, m, q)) = q
    BY WordSequence
  <2> QED
    BY <1>1, <2>1, <2>2
<1>3. m * SEQUENCES \in Nat /\ q \in Int /\ p \in Int
  BY LowHalf DEF Sequences
<1>4. WithSequence(w, p) = m * SEQUENCES + p
  BY <1>2, <1>3 DEF WithSequence, getSequence
<1>5. Word(0, m, p) = m * SEQUENCES + p
  BY <1>3, LowHalf DEF Word, Positive
<1>6. Word(0, m, p) \in Int /\ getSequence(Word(0, m, p)) = p
  BY WordParts, 0 \in Int
<1> QED
  BY <1>4, <1>5, <1>6

(* Words are ordered as the times and sequence numbers they are made of.   *)
LEMMA WordOrder ==
  ASSUME NEW t \in Int, NEW u \in Int, NEW p \in Sequences, NEW q \in Sequences,
         InRange(t), InRange(u)
  PROVE  Word(getSecondsFromTime(t), getMillisFromTime(t), p) <
           Word(getSecondsFromTime(u), getMillisFromTime(u), q)
         <=> t < u \/ (t = u /\ p < q)
<1> DEFINE a == getSecondsFromTime(t)  m == getMillisFromTime(t)
           b == getSecondsFromTime(u)  n == getMillisFromTime(u)
           x == a * MILLIS + m         y == b * MILLIS + n
<1>1. /\ a \in Int /\ b \in Int /\ m \in Millis /\ n \in Millis
      /\ m \in 0..(SECOND - 1) /\ n \in 0..(SECOND - 1)
      /\ t = a * SECOND + m /\ u = b * SECOND + n
  BY TimeParts, MillisOfSecond
<1> HIDE DEF a, b, m, n
<1>2. t < u <=> a < b \/ (a = b /\ m < n)
  BY <1>1, Widths, Lexicographic
<1>3. x < y <=> a < b \/ (a = b /\ m < n)
  BY <1>1, Widths, Lexicographic DEF Millis
<1>4. t = u <=> a = b /\ m = n
  BY <1>1, Widths, Unique
<1>5. x = y <=> a = b /\ m = n
  BY <1>1, Widths, Unique DEF Millis
<1>6. x \in Int /\ y \in Int
  BY <1>1, Widths DEF Millis, Positive
<1>7. Word(a, m, p) = x * SEQUENCES + p /\ Word(b, n, q) = y * SEQUENCES + q
  BY <1>1, WordParts
<1> HIDE DEF x, y
<1>8. x * SEQUENCES + p < y * SEQUENCES + q <=> x < y \/ (x = y /\ p < q)
  BY <1>6, Widths, Lexicographic DEF Sequences
<1> QED
  BY <1>2, <1>3, <1>4, <1>5, <1>7, <1>8 DEF a, b, m, n

-----------------------------------------------------------------------------
(* The invariant: a word holds the sequence number it was given, and the   *)
(* time, unless the sequence number came after it.                         *)
History == [time : Int, sequence : Sequences, nanos : NanoParts, timely : BOOLEAN]

EventsInv ==
  /\ word \in [EventIds -> Int] /\ nanoPart \in [EventIds -> NanoParts]
  /\ given \in [EventIds -> History]
  /\ \A e \in EventIds :
       /\ getSequence(word[e]) = given[e].sequence
       /\ nanoPart[e] = given[e].nanos
       /\ given[e].timely =>
            word[e] = Word(getSecondsFromTime(given[e].time), getMillisFromTime(given[e].time),
                           given[e].sequence)

LEMMA InitOK == EventsInit => EventsInv
<1> SUFFICES ASSUME EventsInit PROVE EventsInv
  OBVIOUS
<1>1. 0 \in Sequences /\ 0 \in NanoParts /\ 0 \in Millis
  BY Widths DEF Positive, Sequences, NanoParts, Millis
<1>2. Word(0, 0, 0) = 0 /\ getSequence(Word(0, 0, 0)) = 0
  BY <1>1, LowHalf, WordParts, Widths DEF Word, Positive
<1>3. getMillisFromTime(0) = 0 /\ getSecondsFromTime(0) = 0
  <2>1. 0 = 0 * SECOND + 0 /\ 0 \in 0..(SECOND - 1)
    BY Widths DEF Positive
  <2>2. 0 \div SECOND = 0 /\ 0 % SECOND = 0
    BY <2>1, Widths, Parts, 0 \in Int
  <2>3. getMillisFromTime(0) = 0
    BY <2>2, Widths, FloorDiv, 0 \in Int DEF getMillisFromTime
  <2>4. getSecondsFromTime(0) = 0
    BY <2>2, Widths DEF getSecondsFromTime, Quotient, Least
  <2> QED
    BY <2>3, <2>4
<1> DEFINE g == [time |-> 0, sequence |-> 0, nanos |-> 0, timely |-> TRUE]
<1>4. g \in History /\ g.time = 0 /\ g.sequence = 0 /\ g.nanos = 0
  BY <1>1 DEF History
<1>5. \A e \in EventIds : word[e] = 0 /\ nanoPart[e] = 0 /\ given[e] = g
  BY DEF EventsInit
<1>6. /\ word \in [EventIds -> Int] /\ nanoPart \in [EventIds -> NanoParts]
      /\ given \in [EventIds -> History]
  BY <1>1, <1>4 DEF EventsInit
<1> HIDE DEF g
<1> QED
  BY <1>2, <1>3, <1>4, <1>5, <1>6 DEF EventsInv

(* An event whose word, nanoseconds and history change together.           *)
LEMMA Changed ==
  ASSUME EventsInv, NEW e \in EventIds, NEW w \in Int, NEW n \in NanoParts,
         NEW time \in Int, NEW q \in Sequences, NEW timely \in BOOLEAN,
         word' = [word EXCEPT ![e] = w], nanoPart' = [nanoPart EXCEPT ![e] = n],
         given' = [given EXCEPT ![e] =
                     [time |-> time, sequence |-> q, nanos |-> n, timely |-> timely]],
         getSequence(w) = q,
         timely => w = Word(getSecondsFromTime(time), getMillisFromTime(time), q)
  PROVE  EventsInv'
<1> DEFINE g == [time |-> time, sequence |-> q, nanos |-> n, timely |-> timely]
<1>1. g \in History
  BY DEF History
<1>2. /\ word' \in [EventIds -> Int] /\ nanoPart' \in [EventIds -> NanoParts]
      /\ given' \in [EventIds -> History]
  BY <1>1 DEF EventsInv
<1>3. g.time = time /\ g.sequence = q /\ g.nanos = n /\ g.timely = timely
  OBVIOUS
<1> HIDE DEF g
<1>4. \A d \in EventIds : /\ word'[d] = IF d = e THEN w ELSE word[d]
                          /\ nanoPart'[d] = IF d = e THEN n ELSE nanoPart[d]
                          /\ given'[d] = IF d = e THEN g ELSE given[d]
  BY DEF EventsInv, g
<1>5. ASSUME NEW d \in EventIds
      PROVE  /\ getSequence(word'[d]) = given'[d].sequence
             /\ nanoPart'[d] = given'[d].nanos
             /\ given'[d].timely =>
                  word'[d] = Word(getSecondsFromTime(given'[d].time),
                                  getMillisFromTime(given'[d].time), given'[d].sequence)
  <2>1. CASE d = e
    BY <2>1, <1>3, <1>4
  <2>2. CASE d # e
    BY <2>2, <1>4 DEF EventsInv
  <2> QED
    BY <2>1, <2>2
<1> QED
  BY <1>2, <1>5 DEF EventsInv

LEMMA StepOK ==
  ASSUME EventsInv, NEW e \in EventIds,
         FillData(e) \/ SetTime(e) \/ SetTimeNanos(e) \/ SetTimeNanoPart(e) \/ SetSequence(e)
  PROVE  EventsInv'
<1>1. /\ word[e] \in Int /\ nanoPart[e] \in NanoParts /\ given[e].nanos = nanoPart[e]
      /\ given[e].time \in Int /\ given[e].sequence \in Sequences /\ given[e].timely \in BOOLEAN
      /\ getSequence(word[e]) = given[e].sequence
      /\ given[e].timely =>
           word[e] = Word(getSecondsFromTime(given[e].time), getMillisFromTime(given[e].time),
                          given[e].sequence)
      /\ given \in [EventIds -> History] /\ given[e] \in History
  BY DEF EventsInv, History
<1>2. word = [word EXCEPT ![e] = word[e]] /\ nanoPart = [nanoPart EXCEPT ![e] = given[e].nanos]
      /\ given[e].nanos \in NanoParts
  BY DEF EventsInv
<1>3. CASE FillData(e)
  <2>1. PICK time \in Times, sequence \in Sequences :
          /\ word' = [word EXCEPT ![e] = WithTime(sequence, time)]
          /\ nanoPart' = [nanoPart EXCEPT ![e] = 0]
          /\ given' = [given EXCEPT ![e] =
                         [time |-> time, sequence |-> sequence, nanos |-> 0, timely |-> TRUE]]
    BY <1>3 DEF FillData
  <2>2. time \in Int /\ sequence \in Int /\ 0 \in NanoParts
    BY Widths DEF Sequences, NanoParts, Positive
  <2>3. getSequence(sequence) = sequence
    <3>1. sequence = 0 * SEQUENCES + sequence
      BY Widths DEF Sequences, Positive
    <3>2. (0 * SEQUENCES + sequence) % SEQUENCES = sequence
      BY Widths, Parts, 0 \in Int DEF Sequences
    <3> QED
      BY <3>1, <3>2 DEF getSequence
  <2>4. /\ WithTime(sequence, time) \in Int /\ getSequence(WithTime(sequence, time)) = sequence
        /\ WithTime(sequence, time) =
             Word(getSecondsFromTime(time), getMillisFromTime(time), sequence)
    BY <2>2, <2>3, WithTimeParts DEF WithTime
  <2> QED
    BY <2>1, <2>2, <2>4, Changed
<1>4. CASE SetTime(e)
  <2>1. PICK time \in Times :
          /\ word' = [word EXCEPT ![e] = WithTime(word[e], time)]
          /\ given' = [given EXCEPT ![e] = [time |-> time, sequence |-> given[e].sequence,
                                            nanos |-> given[e].nanos, timely |-> TRUE]]
          /\ UNCHANGED nanoPart
    BY <1>4 DEF SetTime
  <2>2. time \in Int
    BY Widths
  <2>3. nanoPart' = [nanoPart EXCEPT ![e] = given[e].nanos]
    BY <2>1, <1>2
  <2>4. /\ WithTime(word[e], time) \in Int
        /\ getSequence(WithTime(word[e], time)) = given[e].sequence
        /\ WithTime(word[e], time) =
             Word(getSecondsFromTime(time), getMillisFromTime(time), given[e].sequence)
    BY <2>2, <1>1, WithTimeParts DEF WithTime
  <2> QED
    BY <2>1, <2>2, <2>3, <2>4, <1>1, Changed, TRUE \in BOOLEAN
<1>5. CASE SetTimeNanos(e)
  <2>1. PICK time \in Times, nanos \in NanoParts :
          LET timeNanos == time * NANOS_IN_MILLIS + nanos IN
          /\ word' = [word EXCEPT ![e] = WithTime(word[e], floorDiv(timeNanos, NANOS_IN_MILLIS))]
          /\ nanoPart' = [nanoPart EXCEPT ![e] = floorMod(timeNanos, NANOS_IN_MILLIS)]
          /\ given' = [given EXCEPT ![e] = [time |-> time, sequence |-> given[e].sequence,
                                            nanos |-> nanos, timely |-> TRUE]]
    BY <1>5 DEF SetTimeNanos
  <2>2. time \in Int /\ time * NANOS_IN_MILLIS + nanos \in Int
    BY Widths DEF NanoParts, Positive
  <2>3. /\ floorDiv(time * NANOS_IN_MILLIS + nanos, NANOS_IN_MILLIS) = time
        /\ floorMod(time * NANOS_IN_MILLIS + nanos, NANOS_IN_MILLIS) = nanos
    BY <2>2, Widths, FloorDiv, Parts DEF NanoParts
  <2>4. /\ WithTime(word[e], time) \in Int
        /\ getSequence(WithTime(word[e], time)) = given[e].sequence
        /\ WithTime(word[e], time) =
             Word(getSecondsFromTime(time), getMillisFromTime(time), given[e].sequence)
    BY <2>2, <1>1, WithTimeParts DEF WithTime
  <2> QED
    BY <2>1, <2>2, <2>3, <2>4, <1>1, Changed
<1>6. CASE SetTimeNanoPart(e)
  <2>1. PICK nanos \in NanoParts :
          /\ nanoPart' = [nanoPart EXCEPT ![e] = nanos]
          /\ given' = [given EXCEPT ![e] = [time |-> given[e].time,
                                            sequence |-> given[e].sequence,
                                            nanos |-> nanos, timely |-> given[e].timely]]
          /\ word' = word
    BY <1>6 DEF SetTimeNanoPart
  <2>2. word' = [word EXCEPT ![e] = word[e]]
    BY <2>1, <1>2
  <2> QED
    BY <2>1, <2>2, <1>1, Changed
<1>7. CASE SetSequence(e)
  <2>1. PICK sequence \in Sequences :
          /\ word' = [word EXCEPT ![e] = WithSequence(word[e], sequence)]
          /\ given' = [given EXCEPT ![e] = [time |-> given[e].time, sequence |-> sequence,
                                            nanos |-> given[e].nanos, timely |-> FALSE]]
          /\ UNCHANGED nanoPart
    BY <1>7 DEF SetSequence
  <2>2. nanoPart' = [nanoPart EXCEPT ![e] = given[e].nanos]
    BY <2>1, <1>2
  <2>3. WithSequence(word[e], sequence) \in Int
        /\ getSequence(WithSequence(word[e], sequence)) = sequence
    BY <1>1, WithSequenceParts
  <2> QED
    BY <2>1, <2>2, <2>3, <1>1, <1>2, Changed
<1> QED
  BY <1>3, <1>4, <1>5, <1>6, <1>7

LEMMA SpecInv == EventsSpec => []EventsInv
<1>1. EventsInv /\ [EventsNext]_eventVars => EventsInv'
  <2> SUFFICES ASSUME EventsInv, [EventsNext]_eventVars PROVE EventsInv'
    OBVIOUS
  <2>1. CASE EventsNext
    BY <2>1, StepOK DEF EventsNext
  <2>2. CASE UNCHANGED eventVars
    BY <2>2 DEF eventVars, EventsInv
  <2> QED
    BY <2>1, <2>2
<1> QED
  BY <1>1, InitOK, PTL DEF EventsSpec

(* Setters of one part keep the others, for all widths of the parts, but   *)
(* for setSequence, which clears the seconds (TradeBase.cpp:123): a time   *)
(* comes back as long as no sequence number was set after it.              *)
THEOREM SpecEventPartsAgree == EventsSpec => []EventPartsAgree
<1>1. EventsInv => EventPartsAgree
  <2> SUFFICES ASSUME EventsInv, NEW e \in EventIds
               PROVE  /\ getSequence(word[e]) = given[e].sequence
                      /\ nanoPart[e] = given[e].nanos
                      /\ (given[e].timely /\ InRange(given[e].time)) =>
                           /\ getTime(word[e]) = given[e].time
                           /\ getTimeNanos(e) = given[e].time * NANOS_IN_MILLIS + given[e].nanos
    BY DEF EventPartsAgree
  <2>1. /\ getSequence(word[e]) = given[e].sequence /\ nanoPart[e] = given[e].nanos
        /\ given[e].time \in Int /\ given[e].sequence \in Sequences
        /\ given[e].timely =>
             word[e] = Word(getSecondsFromTime(given[e].time), getMillisFromTime(given[e].time),
                            given[e].sequence)
    BY DEF EventsInv, History
  <2>2. given[e].timely /\ InRange(given[e].time) => getTime(word[e]) = given[e].time
    BY <2>1, TimeOfWord
  <2> QED
    BY <2>1, <2>2 DEF getTimeNanos
<1> QED
  BY <1>1, SpecInv, PTL

(* Words may be compared instead of times and sequence numbers.            *)
THEOREM SpecWordsAreOrdered == EventsSpec => []WordsAreOrdered
<1>1. EventsInv => WordsAreOrdered
  <2> SUFFICES ASSUME EventsInv, NEW d \in EventIds, NEW e \in EventIds,
                      \A x \in {d, e} : given[x].timely /\ InRange(given[x].time)
               PROVE  word[d] < word[e] <=>
                        \/ given[d].time < given[e].time
                        \/ given[d].time = given[e].time /\ given[d].sequence < given[e].sequence
    BY DEF WordsAreOrdered
  <2>1. \A x \in {d, e} :
          /\ given[x].time \in Int /\ given[x].sequence \in Sequences /\ InRange(given[x].time)
          /\ word[x] = Word(getSecondsFromTime(given[x].time), getMillisFromTime(given[x].time),
                            given[x].sequence)
    BY DEF EventsInv, History
  <2> QED
    BY <2>1, WordOrder
<1> QED
  BY <1>1, SpecInv, PTL

-----------------------------------------------------------------------------
(* The invariant of a quote: its word is the milliseconds of its time and  *)
(* its sequence number, and the seconds of its later time are the rest.    *)
QuoteRecord == [bid : Int, ask : Int, word : Int]

QuoteInv ==
  /\ quote \in QuoteRecord
  /\ quoteGiven \in [time : Int, sequence : Sequences]
  /\ \E m \in 0..(SECOND - 1) :
       /\ quote.word = m * SEQUENCES + quoteGiven.sequence
       /\ quoteGiven.time = floorDiv(Later(quote), SECOND) * SECOND + m

LEMMA LaterType ==
  ASSUME NEW q \in QuoteRecord
  PROVE  Later(q) \in Int /\ (Later(q) = q.bid \/ Later(q) = q.ask)
BY DEF QuoteRecord, Later, Greatest

(* What the getters return of a word made of these two parts.              *)
LEMMA QuoteWord ==
  ASSUME NEW m \in 0..(SECOND - 1), NEW s \in Sequences
  PROVE  /\ m * SEQUENCES + s \in Int
         /\ (m * SEQUENCES + s) \div SEQUENCES = m
         /\ getSequence(m * SEQUENCES + s) = s
<1>1. m \in Int /\ s \in 0..(SEQUENCES - 1) /\ SEQUENCES \in Positive
  BY Widths DEF Sequences
<1>2. (m * SEQUENCES + s) \div SEQUENCES = m /\ (m * SEQUENCES + s) % SEQUENCES = s
  BY <1>1, Parts
<1>3. m * SEQUENCES + s \in Int
  BY <1>1 DEF Positive
<1> QED
  BY <1>2, <1>3 DEF getSequence

(* The seconds and milliseconds of the later time make up that time.       *)
LEMMA MillisOfTime ==
  ASSUME NEW time \in Int
  PROVE  /\ getMillisFromTime(time) \in 0..(SECOND - 1)
         /\ floorDiv(time, SECOND) * SECOND + getMillisFromTime(time) = time
BY Widths, FloorDiv, Division DEF getMillisFromTime

LEMMA QuoteInitOK == QuoteInit => QuoteInv
<1> SUFFICES ASSUME QuoteInit PROVE QuoteInv
  OBVIOUS
<1>1. 0 \in 0..(SECOND - 1) /\ 0 \in Sequences /\ 0 * SEQUENCES + 0 = 0 /\ 0 * SECOND + 0 = 0
  BY Widths DEF Positive, Sequences
<1>2. (0 * SECOND + 0) \div SECOND = 0
  BY <1>1, Widths, Parts, 0 \in Int
<1>3. floorDiv(0, SECOND) = 0
  BY <1>1, <1>2, Widths, FloorDiv, 0 \in Int
<1>4. quote.bid = 0 /\ quote.ask = 0 /\ quote.word = 0 /\ Later(quote) = 0
  BY DEF QuoteInit, Later, Greatest
<1>5. quote \in QuoteRecord /\ quoteGiven \in [time : Int, sequence : Sequences]
      /\ quoteGiven.time = 0 /\ quoteGiven.sequence = 0
  BY <1>1 DEF QuoteInit, QuoteRecord
<1> QED
  BY <1>1, <1>3, <1>4, <1>5 DEF QuoteInv

(* A quote from the feed has whole seconds in both of its times.           *)
LEMMA FillQuoteOK == QuoteInv /\ FillQuote => QuoteInv'
<1> SUFFICES ASSUME FillQuote PROVE QuoteInv'
  OBVIOUS
<1>1. PICK bid \in Times, ask \in Times, m \in 0..(SECOND - 1), s \in Sequences :
        /\ bid % SECOND = 0 /\ ask % SECOND = 0
        /\ quote' = [bid |-> bid, ask |-> ask, word |-> m * SEQUENCES + s]
        /\ quoteGiven' = [time |-> Greatest(bid, ask) + m, sequence |-> s]
  BY DEF FillQuote
<1> DEFINE t == Greatest(bid, ask)
<1>2. bid \in Int /\ ask \in Int /\ t \in Int /\ t % SECOND = 0 /\ m \in Int
  BY <1>1, Widths DEF Greatest
<1>3. quote' \in QuoteRecord /\ Later(quote') = t /\ quote'.word = m * SEQUENCES + s
  BY <1>1, <1>2, QuoteWord DEF QuoteRecord, Later
<1>4. quoteGiven' \in [time : Int, sequence : Sequences]
      /\ quoteGiven'.time = t + m /\ quoteGiven'.sequence = s
  BY <1>1, <1>2
<1> HIDE DEF t
<1>5. floorDiv(t, SECOND) * SECOND = t
  <2>1. floorDiv(t, SECOND) * SECOND + 0 = t /\ floorDiv(t, SECOND) = t \div SECOND
    BY <1>2, Widths, FloorDiv, MillisOfTime DEF getMillisFromTime
  <2>2. (t \div SECOND) * SECOND \in Int
    BY <1>2, Widths, Division DEF Positive
  <2> QED
    BY <2>1, <2>2
<1>6. quoteGiven'.time = floorDiv(Later(quote'), SECOND) * SECOND + m
  BY <1>3, <1>4, <1>5
<1> QED
  BY <1>1, <1>3, <1>4, <1>6 DEF QuoteInv

(* setBidTime and setAskTime: the milliseconds follow the later time.      *)
LEMMA SetQuoteTimeOK == QuoteInv /\ SetQuoteTime => QuoteInv'
<1> SUFFICES ASSUME QuoteInv, SetQuoteTime PROVE QuoteInv'
  OBVIOUS
<1>1. PICK time \in Times, side \in {"bid", "ask"} :
        /\ quote' = recomputeTimeMillisPart([quote EXCEPT ![side] = time])
        /\ quoteGiven' = [quoteGiven EXCEPT !.time = Later([quote EXCEPT ![side] = time])]
  BY DEF SetQuoteTime
<1> DEFINE q == [quote EXCEPT ![side] = time]
           t == Later(q)
           m == getMillisFromTime(t)
           s == quoteGiven.sequence
<1>2. q \in QuoteRecord /\ q.word = quote.word
  BY Widths DEF QuoteInv, QuoteRecord
<1>3. t \in Int /\ s \in Sequences
  BY <1>2, LaterType DEF QuoteInv
<1>4. getSequence(quote.word) = s
  BY <1>3, QuoteWord DEF QuoteInv
<1>5. m \in 0..(SECOND - 1) /\ t = floorDiv(t, SECOND) * SECOND + m
  BY <1>3, MillisOfTime
<1>6. quote' = [q EXCEPT !.word = m * SEQUENCES + s]
  BY <1>1, <1>2, <1>4 DEF recomputeTimeMillisPart
<1>7. quoteGiven' = [quoteGiven EXCEPT !.time = t]
  BY <1>1
<1> HIDE DEF m
<1>8. m * SEQUENCES + s \in Int
  BY <1>3, <1>5, QuoteWord
<1> HIDE DEF q
<1>9. quote' \in QuoteRecord /\ quote'.word = m * SEQUENCES + s
      /\ quote'.bid = q.bid /\ quote'.ask = q.ask
  BY <1>2, <1>6, <1>8 DEF QuoteRecord
<1>10. Later(quote') = t
  BY <1>9 DEF Later
<1> HIDE DEF t, s
<1>11. /\ quoteGiven' \in [time : Int, sequence : Sequences]
       /\ quoteGiven'.time = t /\ quoteGiven'.sequence = s
  BY <1>3, <1>7 DEF QuoteInv, s
<1> QED
  BY <1>5, <1>9, <1>10, <1>11 DEF QuoteInv

(* setSequence leaves both times and the milliseconds alone.               *)
LEMMA SetQuoteSequenceOK == QuoteInv /\ SetQuoteSequence => QuoteInv'
<1> SUFFICES ASSUME QuoteInv, SetQuoteSequence PROVE QuoteInv'
  OBVIOUS
<1>1. PICK s \in Sequences :
        /\ quote' = [quote EXCEPT !.word = WithQuoteSequence(quote.word, s)]
        /\ quoteGiven' = [quoteGiven EXCEPT !.sequence = s]
  BY DEF SetQuoteSequence
<1>2. PICK m \in 0..(SECOND - 1) :
        /\ quote.word = m * SEQUENCES + quoteGiven.sequence
        /\ quoteGiven.time = floorDiv(Later(quote), SECOND) * SECOND + m
  BY DEF QuoteInv
<1>3. quoteGiven.sequence \in Sequences /\ quoteGiven.time \in Int
  BY DEF QuoteInv
<1>4. WithQuoteSequence(quote.word, s) = m * SEQUENCES + s
  <2>1. quote.word % SEQUENCES = quoteGiven.sequence
    BY <1>2, <1>3, QuoteWord DEF getSequence
  <2>2. m * SEQUENCES \in Int /\ s \in Int /\ quoteGiven.sequence \in Int
    BY <1>3, Widths DEF Positive, Sequences
  <2> QED
    BY <1>2, <2>1, <2>2 DEF WithQuoteSequence
<1>5. m * SEQUENCES + s \in Int
  BY QuoteWord
<1>6. quote' \in QuoteRecord /\ quote'.word = m * SEQUENCES + s
      /\ quote'.bid = quote.bid /\ quote'.ask = quote.ask
  BY <1>1, <1>4, <1>5 DEF QuoteInv, QuoteRecord
<1>7. Later(quote') = Later(quote)
  BY <1>6 DEF Later
<1>8. /\ quoteGiven' \in [time : Int, sequence : Sequences]
      /\ quoteGiven'.time = quoteGiven.time /\ quoteGiven'.sequence = s
  BY <1>1, <1>3 DEF QuoteInv
<1> QED
  BY <1>2, <1>6, <1>7, <1>8 DEF QuoteInv

(* The time and the sequence number of a quote are what was set last.      *)
THEOREM SpecQuotePartsAgree == QuoteSpec => []QuotePartsAgree
<1>1. QuoteInv /\ [QuoteNext]_quoteVars => QuoteInv'
  <2> SUFFICES ASSUME QuoteInv, [QuoteNext]_quoteVars PROVE QuoteInv'
    OBVIOUS
  <2>1. CASE UNCHANGED quoteVars
    BY <2>1 DEF quoteVars, QuoteInv
  <2> QED
    BY <2>1, FillQuoteOK, SetQuoteTimeOK, SetQuoteSequenceOK DEF QuoteNext
<1>2. QuoteInv => QuotePartsAgree
  <2> SUFFICES ASSUME QuoteInv PROVE QuotePartsAgree
    OBVIOUS
  <2>1. PICK m \in 0..(SECOND - 1) :
          /\ quote.word = m * SEQUENCES + quoteGiven.sequence
          /\ quoteGiven.time = floorDiv(Later(quote), SECOND) * SECOND + m
    BY DEF QuoteInv
  <2>2. /\ quote.word \div SEQUENCES = m
        /\ getSequence(quote.word) = quoteGiven.sequence
    BY <2>1, QuoteWord DEF QuoteInv
  <2> QED
    BY <2>1, <2>2 DEF QuotePartsAgree, quoteTime
<1> QED
  BY <1>1, <1>2, QuoteInitOK, PTL DEF QuoteSpec

-----------------------------------------------------------------------------
(* The invariant of the flags: they are the codes, each at its shift.      *)
Codes7 == [scope : 0..3, side : 0..3, exchange : 0..127, action : 0..15]

Packed(g) == g.scope + g.side * 4 + g.exchange * 16 + g.action * 2048

FlagsInv == flagsGiven \in Codes7 /\ flags = Packed(flagsGiven)

(* Where each field lies, and how many codes it has room for.              *)
LEMMA FieldTable ==
  /\ Field = {"scope", "side", "exchange", "action"}
  /\ Shift.scope = 1 /\ Shift.side = 4 /\ Shift.exchange = 16 /\ Shift.action = 2048
  /\ Size.scope = 4 /\ Size.side = 4 /\ Size.exchange = 128 /\ Size.action = 16
  /\ Codes["scope"] \subseteq 0..3 /\ Codes["side"] \subseteq 0..3
  /\ Codes["exchange"] \subseteq 0..127 /\ Codes["action"] \subseteq 0..15
<1>1. DOMAIN Codes = {"scope", "side", "exchange", "action"}
  BY DEF Codes
<1>2. 0..2 \subseteq 0..3 /\ 0..9 \subseteq 0..15
  OBVIOUS
<1>3. Codes["scope"] = 0..3 /\ Codes["side"] = 0..2
      /\ Codes["exchange"] = ExchangeCodes /\ Codes["action"] = 0..9
  BY DEF Codes
<1> QED
  BY <1>1, <1>2, <1>3, FieldsAssumption DEF Field, Shift, Size

(* What getBits finds in packed codes.                                     *)
LEMMA PackedBits ==
  ASSUME NEW g \in Codes7
  PROVE  /\ Packed(g) \in Nat
         /\ getBits(Packed(g), 4, 1) = g.scope
         /\ getBits(Packed(g), 4, 4) = g.side
         /\ getBits(Packed(g), 128, 16) = g.exchange
         /\ getBits(Packed(g), 16, 2048) = g.action
<1>1. PICK a \in 0..3, b \in 0..3, c \in 0..127, d \in 0..15 :
        a = g.scope /\ b = g.side /\ c = g.exchange /\ d = g.action
  BY DEF Codes7
<1> DEFINE p == a + b * 4 + c * 16 + d * 2048
<1>2. p = Packed(g) /\ p \in Nat
  BY <1>1 DEF Packed
<1>3. {1, 4, 16, 2048} \subseteq Positive
  BY DEF Positive
<1>4. getBits(p, 4, 1) = a
  <2>1. p = (b + c * 4 + d * 512) * 4 + a /\ b + c * 4 + d * 512 \in Int /\ p = p * 1 + 0
    OBVIOUS
  <2>2. (p * 1 + 0) \div 1 = p
    BY <1>2, <1>3, Parts, 0 \in 0..(1 - 1)
  <2>3. ((b + c * 4 + d * 512) * 4 + a) % 4 = a
    BY <2>1, <1>3, Parts, a \in 0..(4 - 1)
  <2> QED
    BY ONLY <2>1, <2>2, <2>3 DEF getBits
<1>5. getBits(p, 4, 4) = b
  <2>1. p = (b + c * 4 + d * 512) * 4 + a /\ b + c * 4 + d * 512 = (c + d * 128) * 4 + b
        /\ b + c * 4 + d * 512 \in Int /\ c + d * 128 \in Int
    OBVIOUS
  <2>2. ((b + c * 4 + d * 512) * 4 + a) \div 4 = b + c * 4 + d * 512
    BY <2>1, <1>3, Parts, a \in 0..(4 - 1)
  <2>3. ((c + d * 128) * 4 + b) % 4 = b
    BY <2>1, <1>3, Parts, b \in 0..(4 - 1)
  <2> QED
    BY ONLY <2>1, <2>2, <2>3 DEF getBits
<1>6. getBits(p, 128, 16) = c
  <2>1. p = (c + d * 128) * 16 + (a + b * 4) /\ c + d * 128 = d * 128 + c
        /\ c + d * 128 \in Int /\ d \in Int /\ a + b * 4 \in 0..(16 - 1)
    OBVIOUS
  <2>2. ((c + d * 128) * 16 + (a + b * 4)) \div 16 = c + d * 128
    BY <2>1, <1>3, Parts
  <2>3. (d * 128 + c) % 128 = c
    BY <2>1, Parts, c \in 0..(128 - 1) DEF Positive
  <2> QED
    BY ONLY <2>1, <2>2, <2>3 DEF getBits
<1>7. getBits(p, 16, 2048) = d
  <2>1. p = d * 2048 + (a + b * 4 + c * 16) /\ d = 0 * 16 + d
        /\ d \in Int /\ a + b * 4 + c * 16 \in 0..(2048 - 1)
    OBVIOUS
  <2>2. (d * 2048 + (a + b * 4 + c * 16)) \div 2048 = d
    BY <2>1, <1>3, Parts
  <2>3. (0 * 16 + d) % 16 = d
    BY <1>3, Parts, 0 \in Int, d \in 0..(16 - 1)
  <2> QED
    BY ONLY <2>1, <2>2, <2>3 DEF getBits
<1> QED
  BY <1>1, <1>2, <1>4, <1>5, <1>6, <1>7

(* setBits of one field of packed codes packs the codes with that one.     *)
LEMMA SetPackedBits ==
  ASSUME NEW g \in Codes7, NEW field \in Field, NEW code \in Codes[field]
  PROVE  /\ [g EXCEPT ![field] = code] \in Codes7
         /\ setBits(Packed(g), Size[field], Shift[field], code) = Packed([g EXCEPT ![field] = code])
<1>1. PICK a \in 0..3, b \in 0..3, c \in 0..127, d \in 0..15 :
        a = g.scope /\ b = g.side /\ c = g.exchange /\ d = g.action
  BY DEF Codes7
<1> DEFINE p == Packed(g)
<1>0. p = a + b * 4 + c * 16 + d * 2048
  BY <1>1 DEF Packed
<1> HIDE DEF p
<1>2. CASE field = "scope"
  <2>1. code \in 0..3 /\ Size[field] = 4 /\ Shift[field] = 1
    BY <1>2, FieldTable
  <2>2. [g EXCEPT ![field] = code] \in Codes7
        /\ Packed([g EXCEPT ![field] = code])
             = code + b * 4 + c * 16 + d * 2048
    BY <1>1, <1>2, <2>1 DEF Codes7, Packed
  <2>3. code % 4 = code
    BY <2>1
  <2>4. setBits(p, 4, 1, code) = p - a * 1 + code * 1
    BY <1>1, <2>3, PackedBits DEF setBits, p
  <2>5. p - a * 1 + code * 1
          = code + b * 4 + c * 16 + d * 2048
    BY <1>0, <2>1
  <2> QED
    BY <2>1, <2>2, <2>4, <2>5 DEF p
<1>3. CASE field = "side"
  <2>1. code \in 0..3 /\ Size[field] = 4 /\ Shift[field] = 4
    BY <1>3, FieldTable
  <2>2. [g EXCEPT ![field] = code] \in Codes7
        /\ Packed([g EXCEPT ![field] = code])
             = a + code * 4 + c * 16 + d * 2048
    BY <1>1, <1>3, <2>1 DEF Codes7, Packed
  <2>3. code % 4 = code
    BY <2>1
  <2>4. setBits(p, 4, 4, code) = p - b * 4 + code * 4
    BY <1>1, <2>3, PackedBits DEF setBits, p
  <2>5. p - b * 4 + code * 4
          = a + code * 4 + c * 16 + d * 2048
    BY <1>0, <2>1
  <2> QED
    BY <2>1, <2>2, <2>4, <2>5 DEF p
<1>4. CASE field = "exchange"
  <2>1. code \in 0..127 /\ Size[field] = 128 /\ Shift[field] = 16
    BY <1>4, FieldTable
  <2>2. [g EXCEPT ![field] = code] \in Codes7
        /\ Packed([g EXCEPT ![field] = code])
             = a + b * 4 + code * 16 + d * 2048
    BY <1>1, <1>4, <2>1 DEF Codes7, Packed
  <2>3. code % 128 = code
    BY <2>1
  <2>4. setBits(p, 128, 16, code) = p - c * 16 + code * 16
    BY <1>1, <2>3, PackedBits DEF setBits, p
  <2>5. p - c * 16 + code * 16
          = a + b * 4 + code * 16 + d * 2048
    BY <1>0, <2>1
  <2> QED
    BY <2>1, <2>2, <2>4, <2>5 DEF p
<1>5. CASE field = "action"
  <2>1. code \in 0..15 /\ Size[field] = 16 /\ Shift[field] = 2048
    BY <1>5, FieldTable
  <2>2. [g EXCEPT ![field] = code] \in Codes7
        /\ Packed([g EXCEPT ![field] = code])
             = a + b * 4 + c * 16 + code * 2048
    BY <1>1, <1>5, <2>1 DEF Codes7, Packed
  <2>3. code % 16 = code
    BY <2>1
  <2>4. setBits(p, 16, 2048, code) = p - d * 2048 + code * 2048
    BY <1>1, <2>3, PackedBits DEF setBits, p
  <2>5. p - d * 2048 + code * 2048
          = a + b * 4 + c * 16 + code * 2048
    BY <1>0, <2>1
  <2> QED
    BY <2>1, <2>2, <2>4, <2>5 DEF p
<1> QED
  BY <1>2, <1>3, <1>4, <1>5, FieldTable

LEMMA FlagsNextOK == FlagsInv /\ [SetFlags]_flagVars => FlagsInv'
<1> SUFFICES ASSUME FlagsInv, [SetFlags]_flagVars PROVE FlagsInv'
  OBVIOUS
<1>1. CASE SetFlags
  <2>1. PICK field \in Field : \E code \in Codes[field] :
          /\ flags' = setBits(flags, Size[field], Shift[field], code)
          /\ flagsGiven' = [flagsGiven EXCEPT ![field] = code]
    BY <1>1 DEF SetFlags
  <2>2. PICK code \in Codes[field] :
          /\ flags' = setBits(flags, Size[field], Shift[field], code)
          /\ flagsGiven' = [flagsGiven EXCEPT ![field] = code]
    BY <2>1
  <2> QED
    BY <2>2, SetPackedBits DEF FlagsInv
<1>2. CASE UNCHANGED flagVars
  BY <1>2 DEF flagVars, FlagsInv
<1> QED
  BY <1>1, <1>2

(* The flags of an order hold the action, exchange, side and scope that    *)
(* were set last, in whatever order the setters were called.               *)
THEOREM SpecFlagsAgree == FlagsSpec => []FlagsAgree
<1>1. FlagsInit => FlagsInv
  <2> SUFFICES ASSUME FlagsInit PROVE FlagsInv
    OBVIOUS
  <2>1. flagsGiven \in Codes7 /\ flagsGiven.scope = 0 /\ flagsGiven.side = 0
        /\ flagsGiven.exchange = 0 /\ flagsGiven.action = 0
    BY FieldTable DEF FlagsInit, Codes7
  <2> QED
    BY <2>1 DEF FlagsInit, FlagsInv, Packed
<1>2. FlagsInv => FlagsAgree
  <2> SUFFICES ASSUME FlagsInv, NEW field \in Field
               PROVE  getBits(flags, Size[field], Shift[field]) = flagsGiven[field]
    BY DEF FlagsAgree
  <2> QED
    BY FieldTable, PackedBits DEF FlagsInv
<1> QED
  BY <1>1, <1>2, FlagsNextOK, PTL DEF FlagsSpec
=============================================================================
