---------------------- MODULE MarketEventSymbolsProofs ----------------------
(***************************************************************************)
(* Proofs about MarketEventSymbols, for all base symbols, exchange codes,  *)
(* keys and values that can be told apart in a symbol, and for lists of    *)
(* attributes of any length: the parts of a symbol agree with what they    *)
(* were changed to, and a symbol in canonical form stays in it.            *)
(*                                                                         *)
(* The functions edit strings by positions in loops that change the string *)
(* they walk through. The argument gives the string a meaning at every     *)
(* turn: it shows a list of attributes, each at its place. One turn of a   *)
(* loop drops, replaces or inserts an attribute of the list, and what the  *)
(* list says of the keys is all that is read of the symbol.                *)
(***************************************************************************)
EXTENDS MarketEventSymbols, SequenceTheorems, FiniteSetTheorems,
        WellFoundedInduction, NaturalsInduction, TLAPS

\* The order that recursion descends by.
NatLess == {pair \in Nat \X Nat : pair[1] < pair[2]}

\* It has no endless descent.
LEMMA NatLessWellFounded == IsWellFoundedOn(NatLess, Nat)
BY NatLessThanWellFounded DEF OpToRel, NatLess

\* A smaller number is below a greater one.
LEMMA InNatLess ==
  ASSUME NEW x \in Nat, NEW y \in Nat, y < x
  PROVE  <<y, x>> \in NatLess
<1>1. <<y, x>> \in Nat \X Nat /\ <<y, x>>[1] = y /\ <<y, x>>[2] = x
  OBVIOUS
<1> QED
  BY <1>1 DEF NatLess

\* A set of numbers that is not empty has a least one.
LEMMA LeastElement ==
  ASSUME NEW T, T \subseteq Nat, T # {}
  PROVE  \E n \in T : \A m \in T : n <= m
<1>1. PICK n \in T : \A m \in T : ~(<<m, n>> \in NatLess)
  BY NatLessWellFounded, WFMin
<1>2. ASSUME NEW m \in T PROVE n <= m
  <2>1. m \in Nat /\ n \in Nat
    OBVIOUS
  <2>2. ~(m < n)
    BY <1>1, <2>1, InNatLess
  <2> QED
    BY <2>1, <2>2
<1> QED
  BY <1>2

(* Induction, for a set of numbers.                                        *)
LEMMA SetInduction ==
  ASSUME NEW T, 0 \in T, \A n \in Nat : n \in T => n + 1 \in T
  PROVE  Nat \subseteq T
<1> DEFINE rest == Nat \ T
<1>1. SUFFICES ASSUME rest # {} PROVE FALSE
  OBVIOUS
<1>2. PICK n \in rest : \A m \in rest : n <= m
  BY <1>1, LeastElement, rest \subseteq Nat
<1>3. n - 1 \in Nat /\ ~(n <= n - 1) /\ n - 1 + 1 = n
  BY <1>2
<1> QED
  BY <1>2, <1>3

-----------------------------------------------------------------------------
(* A recursive definition whose measure falls has a solution.              *)

\* f at x: a result where the recursion stops, else made of f at the next x.
Equation(f, stop, result, step, G, x) ==
  f[x] = IF x \in stop THEN result[x] ELSE G[<<x, f[step[x]]>>]

\* It holds at all x in T.
Solved(f, T, stop, result, step, G) == \A x \in T : Equation(f, stop, result, step, G, x)

\* Two functions that solve it up to a measure are the same up to it.
LEMMA SolutionsAgree ==
  ASSUME NEW S, NEW stop, NEW result, NEW step, NEW G, NEW measure,
         step \in [S -> S], measure \in [S -> Nat],
         \A x \in S \ stop : measure[step[x]] < measure[x],
         NEW f, NEW g, NEW n \in Nat,
         Solved(f, {x \in S : measure[x] < n}, stop, result, step, G),
         Solved(g, {x \in S : measure[x] < n}, stop, result, step, G)
  PROVE  \A x \in S : measure[x] < n => f[x] = g[x]
<1> DEFINE Agree(k) == \A x \in S : measure[x] < n /\ measure[x] < k => f[x] = g[x]
           T == {k \in Nat : Agree(k)}
<1>1. 0 \in T
  OBVIOUS
<1>2. ASSUME NEW k \in Nat, k \in T PROVE k + 1 \in T
  <2>1. ASSUME NEW x \in S, measure[x] < n, measure[x] < k + 1 PROVE f[x] = g[x]
    <3>1. Equation(f, stop, result, step, G, x) /\ Equation(g, stop, result, step, G, x)
      BY <2>1 DEF Solved
    <3>2. CASE x \in stop
      BY <3>1, <3>2 DEF Equation
    <3>3. CASE x \notin stop
      <4>1. step[x] \in S /\ measure[step[x]] < measure[x] /\ measure[x] \in Nat
            /\ measure[step[x]] \in Nat
        BY <3>3
      <4>2. f[step[x]] = g[step[x]]
        BY <1>2, <2>1, <4>1
      <4> QED
        BY <3>1, <3>3, <4>2 DEF Equation
    <3> QED
      BY <3>2, <3>3
  <2> QED
    BY <2>1
<1>3. n \in T
  BY <1>1, <1>2, SetInduction
<1> QED
  BY <1>3

\* A function that solves it exists: the loops of the code are such functions.
LEMMA Recursion ==
  ASSUME NEW S, NEW R, NEW stop, NEW result, NEW step, NEW G, NEW measure,
         result \in [S -> R], step \in [S -> S], G \in [S \X R -> R],
         measure \in [S -> Nat], \A x \in S \ stop : measure[step[x]] < measure[x]
  PROVE  \E f \in [S -> R] : Solved(f, S, stop, result, step, G)
<1> DEFINE below(n) == {x \in S : measure[x] < n}
           Good(n) == {f \in [S -> R] : Solved(f, below(n), stop, result, step, G)}
           T == {n \in Nat : Good(n) # {}}
<1>1. 0 \in T
  <2>1. below(0) = {}
    OBVIOUS
  <2>2. result \in Good(0)
    BY <2>1 DEF Solved
  <2> QED
    BY <2>2
<1>2. ASSUME NEW n \in Nat, n \in T PROVE n + 1 \in T
  <2>1. PICK f \in [S -> R] : Solved(f, below(n), stop, result, step, G)
    BY <1>2
  <2> DEFINE h == [x \in S |-> IF x \in stop THEN result[x] ELSE G[<<x, f[step[x]]>>]]
  <2>2. h \in [S -> R]
    OBVIOUS
  <2>3. ASSUME NEW x \in below(n + 1) PROVE Equation(h, stop, result, step, G, x)
    <3>1. CASE x \in stop
      BY <3>1 DEF Equation
    <3>2. CASE x \notin stop
      <4>1. step[x] \in S /\ measure[step[x]] < measure[x] /\ measure[x] \in Nat
            /\ measure[step[x]] \in Nat
        BY <3>2
      <4>2. step[x] \in below(n)
        BY <4>1
      <4>3. Equation(f, stop, result, step, G, step[x])
        BY <2>1, <4>2 DEF Solved
      <4>4. h[step[x]] = f[step[x]]
        BY <4>1, <4>3 DEF Equation
      <4> QED
        BY <3>2, <4>4 DEF Equation
    <3> QED
      BY <3>1, <3>2
  <2>4. Solved(h, below(n + 1), stop, result, step, G)
    BY ONLY <2>3 DEF Solved
  <2>5. h \in Good(n + 1)
    BY <2>2, <2>4
  <2> HIDE DEF Good
  <2> QED
    BY <2>5
<1>3. \A n \in Nat : Good(n) # {}
  BY <1>1, <1>2, SetInduction
<1> DEFINE part(x) == CHOOSE f : f \in Good(measure[x] + 1)
           F == [x \in S |-> part(x)[x]]
<1>4. ASSUME NEW x \in S PROVE part(x) \in Good(measure[x] + 1)
  <2>1. measure[x] + 1 \in Nat
    BY <1>4
  <2> QED
    BY <1>3, <2>1
<1>5. ASSUME NEW x \in S
      PROVE  /\ part(x) \in [S -> R] /\ part(x)[x] \in R
             /\ Solved(part(x), below(measure[x] + 1), stop, result, step, G)
             /\ Equation(part(x), stop, result, step, G, x)
  <2> HIDE DEF part
  <2>1. /\ part(x) \in [S -> R]
        /\ Solved(part(x), below(measure[x] + 1), stop, result, step, G)
    BY <1>4
  <2>2. x \in below(measure[x] + 1)
    OBVIOUS
  <2> QED
    BY <2>1, <2>2 DEF Solved
<1>6. F \in [S -> R]
  BY <1>5
<1>7. ASSUME NEW x \in S PROVE Equation(F, stop, result, step, G, x)
  <2>1. CASE x \in stop
    BY <1>5, <2>1 DEF Equation
  <2>2. CASE x \notin stop
    <3>1. step[x] \in S /\ measure[step[x]] < measure[x] /\ measure[x] \in Nat
          /\ measure[step[x]] \in Nat
      BY <2>2
    <3> DEFINE y == step[x]  n == measure[y] + 1
    <3> HIDE DEF part
    <3>2. Solved(part(x), below(n), stop, result, step, G)
      <4>1. below(n) \subseteq below(measure[x] + 1)
        BY <3>1
      <4> QED
        BY <1>5, <4>1 DEF Solved
    <3>3. Solved(part(y), below(n), stop, result, step, G)
      BY <1>5, <3>1
    <3>4. n \in Nat /\ y \in S /\ measure[y] < n
      BY <3>1
    <3> HIDE DEF n, y
    <3>5. part(x)[y] = part(y)[y]
      BY <3>2, <3>3, <3>4, SolutionsAgree
    <3> QED
      BY <1>5, <2>2, <3>5 DEF Equation, y
  <2> QED
    BY <2>1, <2>2
<1> QED
  BY <1>6, <1>7 DEF Solved

-----------------------------------------------------------------------------
(* Strings.                                                                *)

\* The n characters from position i.
LEMMA Slice ==
  ASSUME NEW s \in String, NEW i \in Nat, NEW n \in Nat, i + n <= Len(s)
  PROVE  /\ sub(s, i, n) \in String /\ Len(sub(s, i, n)) = n
         /\ \A p \in 1..n : sub(s, i, n)[p] = s[i + p]
<1>1. /\ i + 1 \in Int /\ i + n \in Int
      /\ \A p \in (i + 1)..(i + n) : s[p] \in Int
  BY DEF String
<1>2. /\ SubSeq(s, i + 1, i + n) \in Seq(Int)
      /\ Len(SubSeq(s, i + 1, i + n)) = IF i + 1 <= i + n THEN i + n - (i + 1) + 1 ELSE 0
      /\ \A p \in 1..(i + n - (i + 1) + 1) : SubSeq(s, i + 1, i + n)[p] = s[i + 1 + p - 1]
  BY ONLY <1>1, SubSeqProperties
<1> QED
  BY <1>2 DEF sub, String

\* The characters from position i on.
LEMMA Rest ==
  ASSUME NEW s \in String, NEW i \in Nat, i <= Len(s)
  PROVE  /\ substr(s, i) \in String /\ Len(substr(s, i)) = Len(s) - i
         /\ \A p \in 1..(Len(s) - i) : substr(s, i)[p] = s[i + p]
<1>1. Len(s) \in Nat /\ Len(s) - i \in Nat /\ i + (Len(s) - i) = Len(s)
  BY DEF String
<1>2. substr(s, i) = sub(s, i, Len(s) - i)
  BY <1>1 DEF substr, sub
<1> DEFINE n == Len(s) - i
<1>3. n \in Nat /\ i + n <= Len(s)
  BY <1>1
<1> HIDE DEF n
<1>4. /\ sub(s, i, n) \in String /\ Len(sub(s, i, n)) = n
      /\ \A p \in 1..n : sub(s, i, n)[p] = s[i + p]
  BY <1>3, Slice
<1> QED
  BY <1>2, <1>4 DEF n

\* One string behind another.
LEMMA Joined ==
  ASSUME NEW s \in String, NEW t \in String
  PROVE  /\ s \o t \in String /\ Len(s \o t) = Len(s) + Len(t)
         /\ \A p \in 1..Len(s) : (s \o t)[p] = s[p]
         /\ \A p \in 1..Len(t) : (s \o t)[Len(s) + p] = t[p]
<1>1. Len(s) \in Nat /\ Len(t) \in Nat
  BY DEF String
<1>2. /\ s \o t \in String /\ Len(s \o t) = Len(s) + Len(t)
      /\ \A p \in 1..(Len(s) + Len(t)) : (s \o t)[p] = IF p <= Len(s) THEN s[p] ELSE t[p - Len(s)]
  BY ConcatProperties DEF String
<1>3. ASSUME NEW p \in 1..Len(t) PROVE (s \o t)[Len(s) + p] = t[p]
  <2>1. Len(s) + p \in 1..(Len(s) + Len(t)) /\ ~(Len(s) + p <= Len(s)) /\ Len(s) + p - Len(s) = p
    BY <1>1
  <2> QED
    BY <1>2, <2>1
<1> QED
  BY <1>1, <1>2, <1>3

\* Its length alone.
LEMMA JoinedLength ==
  ASSUME NEW s \in String, NEW t \in String
  PROVE  s \o t \in String /\ Len(s \o t) = Len(s) + Len(t)
BY Joined

\* Strings can be joined in any grouping.
LEMMA JoinedInAnyGrouping ==
  ASSUME NEW s \in String, NEW t \in String, NEW u \in String
  PROVE  (s \o t) \o u = s \o (t \o u)
<1>1. s \in Seq(Int) /\ t \in Seq(Int) /\ u \in Seq(Int)
  BY DEF String
<1> QED
  BY ONLY <1>1, ConcatAssociative

\* A character is a string of length one.
LEMMA OneCharacter ==
  ASSUME NEW c \in Int
  PROVE  <<c>> \in String /\ Len(<<c>>) = 1 /\ <<c>>[1] = c
BY DEF String

\* Strings with the same characters are equal.
LEMMA SameString ==
  ASSUME NEW s \in String, NEW t \in String, Len(s) = Len(t),
         \A p \in 1..Len(s) : s[p] = t[p]
  PROVE  s = t
BY SeqEqual DEF String

\* A string has a length, and characters up to it.
LEMMA Lengths == \A s \in String : Len(s) \in Nat /\ \A p \in 1..Len(s) : s[p] \in Int
BY DEF String

\* A member of a set not above any other is the one that Min chooses.
LEMMA LeastIs ==
  ASSUME NEW T, T \subseteq Int, NEW q \in T, \A p \in T : q <= p
  PROVE  Min(T) = q
<1>1. \A r \in T : (\A p \in T : r <= p) => r = q
  BY q \in Int
<1> QED
  BY <1>1 DEF Min

\* A member of a set not below any other is the one that Max chooses.
LEMMA GreatestIs ==
  ASSUME NEW T, T \subseteq Int, NEW q \in T, \A p \in T : p <= q
  PROVE  Max(T) = q
<1>1. \A r \in T : (\A p \in T : p <= r) => r = q
  BY q \in Int
<1> QED
  BY <1>1 DEF Max

\* find_first_of finds the first place of c from i on,
LEMMA FirstIs ==
  ASSUME NEW s \in String, NEW c, NEW i \in Nat, NEW q \in Nat, i <= q, q < Len(s),
         s[q + 1] = c, \A p \in Nat : i <= p /\ p < q => s[p + 1] # c
  PROVE  find_first_of(s, c, i) = q
<1> DEFINE P == {p \in Occurs(s, c) : p >= i}
<1>1. P \subseteq Int /\ q \in P
  BY Lengths DEF Occurs
<1>2. \A p \in P : q <= p
  BY Lengths DEF Occurs
<1>3. Min(P) = q
  BY ONLY <1>1, <1>2, LeastIs
<1> QED
  BY <1>1, <1>3 DEF find_first_of

\* nothing when there is none,
LEMMA FirstNone ==
  ASSUME NEW s \in String, NEW c, NEW i \in Nat,
         \A p \in Nat : i <= p /\ p < Len(s) => s[p + 1] # c
  PROVE  find_first_of(s, c, i) = npos
<1>1. {p \in Occurs(s, c) : p >= i} = {}
  BY Lengths DEF Occurs
<1> QED
  BY <1>1 DEF find_first_of

\* and whatever it finds is a place of c from i on.
LEMMA FirstFound ==
  ASSUME NEW s \in String, NEW c, NEW i \in Nat, find_first_of(s, c, i) # npos
  PROVE  /\ find_first_of(s, c, i) \in i..(Len(s) - 1)
         /\ s[find_first_of(s, c, i) + 1] = c
<1> DEFINE P == {p \in Occurs(s, c) : p >= i}
<1>1. P # {} /\ P \subseteq Nat /\ find_first_of(s, c, i) = Min(P)
  BY Lengths DEF find_first_of, Occurs
<1>2. PICK q \in P : \A p \in P : q <= p
  BY ONLY <1>1, LeastElement
<1>3. Min(P) = q
  BY <1>1, <1>2, LeastIs, P \subseteq Int
<1> QED
  BY <1>1, <1>2, <1>3, Lengths DEF Occurs

\* find_last_of finds the last place of c up to i,
LEMMA LastIs ==
  ASSUME NEW s \in String, NEW c, NEW i \in Int, NEW q \in Nat, q <= i, q < Len(s),
         s[q + 1] = c, \A p \in Nat : q < p /\ p <= i /\ p < Len(s) => s[p + 1] # c
  PROVE  find_last_of(s, c, i) = q
<1> DEFINE P == {p \in Occurs(s, c) : p <= i}
<1>1. P \subseteq Int /\ q \in P
  BY Lengths DEF Occurs
<1>2. ASSUME NEW p \in P PROVE p <= q
  <2>1. p \in Nat /\ p < Len(s) /\ s[p + 1] = c /\ p <= i
    BY Lengths DEF Occurs
  <2> QED
    BY <2>1
<1>3. Max(P) = q
  BY ONLY <1>1, <1>2, GreatestIs
<1> QED
  BY <1>1, <1>3 DEF find_last_of

\* and nothing when there is none.
LEMMA LastNone ==
  ASSUME NEW s \in String, NEW c, NEW i \in Int,
         \A p \in Nat : p < Len(s) => s[p + 1] # c
  PROVE  find_last_of(s, c, i) = npos
<1>1. {p \in Occurs(s, c) : p <= i} = {}
  BY Lengths DEF Occurs
<1> QED
  BY <1>1 DEF find_last_of

-----------------------------------------------------------------------------
(* The loops end, on any string.                                           *)

\* A turn that is not the last one moves on, and never beyond the end.
LEMMA NextKey ==
  ASSUME NEW s \in String, NEW i \in Nat, ~Ended(s, i)
  PROVE  /\ getNextKeyInternal(s, i) \in Nat
         /\ i < getNextKeyInternal(s, i) /\ getNextKeyInternal(s, i) <= Len(s)
         /\ getValueInternal(s, i, getNextKeyInternal(s, i)) \in String
<1> DEFINE found == find_first_of(s, EQUALS, i)
           p == find_first_of(s, COMMA, found + 1)
           j == getNextKeyInternal(s, i)
<1>1. i < Len(s) /\ found # npos /\ Len(s) \in Nat
  BY Lengths DEF Ended, getKeyInternal
<1>2. found \in i..(Len(s) - 1) /\ found + 1 \in Nat
  BY <1>1, FirstFound
<1>3. p # npos => p \in (found + 1)..(Len(s) - 1)
  BY <1>2, FirstFound
<1>4. j = IF p = npos THEN Len(s) ELSE p + 1
  BY DEF getNextKeyInternal
<1>5. j \in Nat /\ i < j /\ j <= Len(s)
  BY <1>1, <1>2, <1>3, <1>4
<1>6. getValueInternal(s, i, j) \in String
  <2>1. /\ found + 2 \in Int /\ j - 1 \in Int
        /\ \A n \in (found + 2)..(j - 1) : s[n] \in Int
    BY <1>2, <1>5, Lengths
  <2>2. SubSeq(s, found + 2, j - 1) \in Seq(Int)
    BY ONLY <2>1, SubSeqProperties
  <2>3. found + 1 + 1 = found + 2 /\ found + 1 + (j - 1 - (found + 1)) = j - 1
    BY <1>2, <1>5
  <2> QED
    BY <2>2, <2>3 DEF getValueInternal, sub, String
<1> QED
  BY <1>5, <1>6

\* What is left is a string, which is shorter.
LEMMA Dropped ==
  ASSUME NEW s \in String, NEW length \in Nat, NEW i \in Position, NEW j \in Nat,
         i < j, j <= Len(s)
  PROVE  /\ dropKeyAndValueInternal(s, length, i, j) \in String
         /\ Len(dropKeyAndValueInternal(s, length, i, j)) =
              IF j = Len(s) THEN IF i = length + 1 THEN length ELSE i ELSE i + (Len(s) - j)
<1>1. i \in Nat /\ i - 1 \in Nat /\ j - 1 \in Nat /\ 0 \in Nat /\ Len(s) \in Nat
  BY Lengths DEF Position
<1>2. CASE j = Len(s) /\ i = length + 1
  BY <1>1, <1>2, Slice DEF dropKeyAndValueInternal
<1>3. CASE j = Len(s) /\ i # length + 1
  <2> DEFINE k == i - 1  l == j - 1
  <2>1. /\ k \in Nat /\ l \in Nat /\ 0 + k <= Len(s) /\ l <= Len(s)
        /\ Len(s) - l = 1 /\ k + 1 = i
    BY <1>1, <1>3
  <2> HIDE DEF k, l
  <2>2. /\ sub(s, 0, k) \in String /\ Len(sub(s, 0, k)) = k
        /\ substr(s, l) \in String /\ Len(substr(s, l)) = 1
    <3>1. sub(s, 0, k) \in String /\ Len(sub(s, 0, k)) = k
      BY ONLY <1>1, <2>1, s \in String, Slice
    <3>2. substr(s, l) \in String /\ Len(substr(s, l)) = Len(s) - l
      BY ONLY <2>1, s \in String, Rest
    <3> QED
      BY ONLY <2>1, <3>1, <3>2
  <2>3. /\ sub(s, 0, k) \o substr(s, l) \in String
        /\ Len(sub(s, 0, k) \o substr(s, l)) = i
    BY <2>1, <2>2, JoinedLength
  <2> QED
    BY <1>3, <2>3 DEF dropKeyAndValueInternal, k, l
<1>4. CASE j # Len(s)
  <2>1. /\ sub(s, 0, i) \in String /\ Len(sub(s, 0, i)) = i
        /\ substr(s, j) \in String /\ Len(substr(s, j)) = Len(s) - j
    BY <1>1, Slice, Rest
  <2>2. /\ sub(s, 0, i) \o substr(s, j) \in String
        /\ Len(sub(s, 0, i) \o substr(s, j)) = i + (Len(s) - j)
    BY <2>1, JoinedLength
  <2> QED
    BY <1>4, <2>2 DEF dropKeyAndValueInternal
<1> QED
  BY <1>2, <1>3, <1>4

\* The loop of getAttribute, as an equation.
FindLoop(find, s, key) ==
  find = [i \in Nat |->
            IF Ended(s, i) THEN None
            ELSE IF getKeyInternal(s, i) = key
              THEN getValueInternal(s, i, getNextKeyInternal(s, i))
              ELSE find[getNextKeyInternal(s, i)]]

\* It has a solution: getAttribute returns what the loop does.
LEMMA GetAttribute ==
  ASSUME NEW s \in String, NEW length, NEW key
  PROVE  \E find :
           /\ FindLoop(find, s, key)
           /\ getAttributeInternal(s, length, key) =
                IF length = Len(s) THEN None ELSE find[length + 1]
<1> DEFINE hit(i) == Ended(s, i) \/ getKeyInternal(s, i) = key
           stop == {i \in Nat : hit(i)}
           result == [i \in Nat |-> IF Ended(s, i) THEN None
                                    ELSE getValueInternal(s, i, getNextKeyInternal(s, i))]
           step == [i \in Nat |-> IF hit(i) THEN i ELSE getNextKeyInternal(s, i)]
           G == [p \in Nat \X String |-> p[2]]
           measure == [i \in Nat |-> IF i <= Len(s) THEN Len(s) - i ELSE 0]
<1>1. result \in [Nat -> String] /\ step \in [Nat -> Nat] /\ G \in [Nat \X String -> String]
  BY NextKey DEF String, None
<1>2. measure \in [Nat -> Nat] /\ \A i \in Nat \ stop : measure[step[i]] < measure[i]
  BY NextKey, Lengths
<1>3. PICK f \in [Nat -> String] : Solved(f, Nat, stop, result, step, G)
  <2> HIDE DEF stop, result, step, G, measure
  <2> QED
    BY <1>1, <1>2, Recursion
<1>4. ASSUME NEW i \in Nat
      PROVE  f[i] = IF Ended(s, i) THEN None
                    ELSE IF getKeyInternal(s, i) = key
                      THEN getValueInternal(s, i, getNextKeyInternal(s, i))
                      ELSE f[getNextKeyInternal(s, i)]
  <2>1. f[i] = IF i \in stop THEN result[i] ELSE G[<<i, f[step[i]]>>]
    BY <1>3 DEF Solved, Equation
  <2>2. CASE hit(i)
    BY <2>1, <2>2
  <2>3. CASE ~hit(i)
    <3>1. step[i] = getNextKeyInternal(s, i) /\ step[i] \in Nat /\ i \notin stop
      BY <1>1, <2>3
    <3>2. f[step[i]] \in String
      BY <3>1
    <3> QED
      BY <2>1, <2>3, <3>1, <3>2
  <2> QED
    BY <2>2, <2>3
<1>5. FindLoop(f, s, key)
  BY <1>4 DEF FindLoop
<1> DEFINE find == CHOOSE find : FindLoop(find, s, key)
<1>6. FindLoop(find, s, key)
  BY <1>5
<1>7. getAttributeInternal(s, length, key) = IF length = Len(s) THEN None ELSE find[length + 1]
  BY Zenon DEF getAttributeInternal, FindLoop
<1> QED
  BY <1>6, <1>7

-----------------------------------------------------------------------------
(* A part of a string is replaced: its characters from c to e by u.        *)

\* t is s with this part replaced.
Edited(s, t, c, u, e) ==
  /\ t \in String /\ Len(t) = c + Len(u) + (Len(s) - e)
  /\ \A p \in 1..c : t[p] = s[p]
  /\ \A p \in 1..Len(u) : t[c + p] = u[p]
  /\ \A p \in (e + 1)..Len(s) : t[p + (c + Len(u) - e)] = s[p]

\* What the functions write between two parts of a string is such an edit,
LEMMA Splice ==
  ASSUME NEW s \in String, NEW u \in String, NEW c \in Nat, NEW e \in Nat,
         c <= Len(s), e <= Len(s)
  PROVE  Edited(s, sub(s, 0, c) \o u \o substr(s, e), c, u, e)
<1> DEFINE a == sub(s, 0, c)  b == substr(s, e)  t == a \o u \o b
<1>1. Len(s) \in Nat /\ Len(u) \in Nat /\ 0 \in Nat
  BY Lengths
<1>2. a \in String /\ Len(a) = c /\ \A p \in 1..c : a[p] = s[p]
  <2>1. a \in String /\ Len(a) = c /\ \A p \in 1..c : a[p] = s[0 + p]
    BY <1>1, Slice
  <2> QED
    BY <2>1
<1>3. b \in String /\ Len(b) = Len(s) - e /\ \A p \in 1..(Len(s) - e) : b[p] = s[e + p]
  BY Rest
<1> HIDE DEF a, b
<1>4. /\ a \o u \in String /\ Len(a \o u) = c + Len(u)
      /\ \A p \in 1..c : (a \o u)[p] = s[p]
      /\ \A p \in 1..Len(u) : (a \o u)[c + p] = u[p]
  <2>1. /\ a \o u \in String /\ Len(a \o u) = Len(a) + Len(u)
        /\ \A p \in 1..Len(a) : (a \o u)[p] = a[p]
        /\ \A p \in 1..Len(u) : (a \o u)[Len(a) + p] = u[p]
    BY <1>2, Joined
  <2> QED
    BY <1>2, <2>1
<1>5. /\ t \in String /\ Len(t) = c + Len(u) + (Len(s) - e)
      /\ \A p \in 1..(c + Len(u)) : t[p] = (a \o u)[p]
      /\ \A p \in 1..(Len(s) - e) : t[c + Len(u) + p] = b[p]
  <2> DEFINE v == a \o u
  <2> HIDE DEF v
  <2>1. /\ v \o b \in String /\ Len(v \o b) = Len(v) + Len(b)
        /\ \A p \in 1..Len(v) : (v \o b)[p] = v[p]
        /\ \A p \in 1..Len(b) : (v \o b)[Len(v) + p] = b[p]
    BY <1>3, <1>4, Joined DEF v
  <2> QED
    BY <1>3, <1>4, <2>1 DEF v
<1>6. ASSUME NEW p \in 1..c PROVE t[p] = s[p]
  BY <1>1, <1>4, <1>5
<1>7. ASSUME NEW p \in 1..Len(u) PROVE t[c + p] = u[p]
  <2>1. c + p \in 1..(c + Len(u))
    BY <1>1
  <2> QED
    BY <1>4, <1>5, <2>1
<1>8. ASSUME NEW p \in (e + 1)..Len(s) PROVE t[p + (c + Len(u) - e)] = s[p]
  <2>1. /\ p - e \in 1..(Len(s) - e) /\ e + (p - e) = p
        /\ c + Len(u) + (p - e) = p + (c + Len(u) - e)
    BY <1>1
  <2> QED
    BY <1>3, <1>5, <2>1
<1>9. Edited(s, t, c, u, e)
  BY <1>5, <1>6, <1>7, <1>8 DEF Edited
<1> QED
  BY <1>9 DEF a, b

\* and so is what they leave out.
LEMMA Cut ==
  ASSUME NEW s \in String, NEW c \in Nat, NEW e \in Nat, c <= Len(s), e <= Len(s)
  PROVE  Edited(s, sub(s, 0, c) \o substr(s, e), c, <<>>, e)
<1>1. sub(s, 0, c) \in String
  BY Slice, 0 \in Nat, 0 + c <= Len(s)
<1>2. sub(s, 0, c) \o <<>> = sub(s, 0, c) /\ <<>> \in String
  BY <1>1, ConcatEmptySeq, EmptySeq DEF String
<1> QED
  BY <1>2, Splice

\* Base symbols, codes, keys and values lack the characters that end them.
LEMMA Constants ==
  /\ \A b \in Bases : b \in String /\ \A p \in 1..Len(b) : b[p] # SEPARATOR /\ b[p] # OPEN
  /\ \A x \in Exchanges : x \in Int /\ x # NoCode /\ x # OPEN
  /\ \A key \in Keys :
       key \in String /\ key # None /\ \A p \in 1..Len(key) : key[p] # EQUALS /\ key[p] # OPEN
  /\ \A value \in Values :
       /\ value \in String /\ value # None
       /\ \A p \in 1..Len(value) : value[p] # COMMA /\ value[p] # OPEN
<1>1. ASSUME NEW T, T \subseteq Nat, NEW s \in Seq(T)
      PROVE  s \in String /\ s # None /\ \A p \in 1..Len(s) : s[p] \in T
  <2>1. s \in String
    BY <1>1, SeqMonotonic, T \subseteq Int DEF String
  <2>2. \A p \in 1..Len(s) : s[p] \in T
    BY ElementOfSeq
  <2>3. s # None
    <3>1. Len(None) = 1 /\ None[1] = -1 /\ -1 \notin Nat
      BY DEF None
    <3> QED
      BY <1>1, <2>2, <3>1, 1 \in 1..1
  <2> QED
    BY <2>1, <2>2, <2>3
<1> QED
  BY <1>1, SymbolsAssumption

(* The attribute in a symbol whose text begins behind position q.          *)
At(s, q, key, value) ==
  /\ \A p \in 1..Len(key) : s[q + p] = key[p]
  /\ s[q + Len(key) + 1] = EQUALS
  /\ \A p \in 1..Len(value) : s[q + Len(key) + 1 + p] = value[p]

\* The characters an attribute takes, its separator included.
Width(a) == Len(a[1]) + Len(a[2]) + 2

\* An attribute is wherever its characters are.
LEMMA AtMoved ==
  ASSUME NEW s, NEW t, NEW q \in Int, NEW r \in Int, NEW key \in String, NEW value \in String,
         At(s, q, key, value),
         \A p \in 1..(Len(key) + Len(value) + 1) : t[r + p] = s[q + p]
  PROVE  At(t, r, key, value)
<1>1. Len(key) \in Nat /\ Len(value) \in Nat
  BY Lengths
<1>2. ASSUME NEW p \in 1..Len(key) PROVE t[r + p] = key[p]
  BY <1>1 DEF At
<1>3. t[r + Len(key) + 1] = EQUALS
  <2> DEFINE p == Len(key) + 1
  <2>1. /\ p \in 1..(Len(key) + Len(value) + 1)
        /\ r + p = r + Len(key) + 1 /\ q + p = q + Len(key) + 1
    BY <1>1
  <2> HIDE DEF p
  <2>2. t[r + p] = s[q + p]
    BY <2>1
  <2> QED
    BY <2>1, <2>2 DEF At
<1>4. ASSUME NEW p \in 1..Len(value) PROVE t[r + Len(key) + 1 + p] = value[p]
  <2> DEFINE k == Len(key) + 1 + p
  <2>1. /\ k \in 1..(Len(key) + Len(value) + 1)
        /\ r + k = r + Len(key) + 1 + p /\ q + k = q + Len(key) + 1 + p
    BY <1>1
  <2> HIDE DEF k
  <2>2. t[r + k] = s[q + k]
    BY <2>1
  <2> QED
    BY <2>1, <2>2 DEF At
<1> QED
  BY <1>2, <1>3, <1>4 DEF At

\* The text of an attribute has it from its beginning.
LEMMA AttributeText ==
  ASSUME NEW key \in Keys, NEW value \in Values
  PROVE  /\ Attribute(key, value) \in String
         /\ Len(Attribute(key, value)) = Len(key) + Len(value) + 1
         /\ At(Attribute(key, value), 0, key, value)
         /\ \A p \in 1..Len(Attribute(key, value)) : Attribute(key, value)[p] # OPEN
<1> DEFINE e == <<EQUALS>>  a == key \o e  t == a \o value
<1>1. key \in String /\ value \in String /\ Len(key) \in Nat /\ Len(value) \in Nat
  BY Constants, Lengths
<1>2. e \in String /\ Len(e) = 1 /\ e[1] = EQUALS /\ EQUALS \in Int /\ EQUALS # OPEN
  BY OneCharacter DEF EQUALS, OPEN
<1> HIDE DEF e
<1>3. /\ a \in String /\ Len(a) = Len(key) + 1
      /\ \A p \in 1..Len(key) : a[p] = key[p]
      /\ \A p \in 1..1 : a[Len(key) + p] = e[p]
  <2>1. /\ key \o e \in String /\ Len(key \o e) = Len(key) + Len(e)
        /\ \A p \in 1..Len(key) : (key \o e)[p] = key[p]
        /\ \A p \in 1..Len(e) : (key \o e)[Len(key) + p] = e[p]
    BY <1>1, <1>2, Joined
  <2> QED
    BY <1>1, <1>2, <2>1 DEF a
<1>4. a[Len(key) + 1] = EQUALS
  BY <1>2, <1>3
<1> HIDE DEF a
<1>5. /\ t \in String /\ Len(t) = Len(key) + 1 + Len(value)
      /\ \A p \in 1..(Len(key) + 1) : t[p] = a[p]
      /\ \A p \in 1..Len(value) : t[Len(key) + 1 + p] = value[p]
  <2>1. /\ a \o value \in String /\ Len(a \o value) = Len(a) + Len(value)
        /\ \A p \in 1..Len(a) : (a \o value)[p] = a[p]
        /\ \A p \in 1..Len(value) : (a \o value)[Len(a) + p] = value[p]
    BY <1>1, <1>3, Joined
  <2> QED
    BY <1>1, <1>3, <2>1
<1>6. /\ \A p \in 1..Len(key) : t[p] = key[p]
      /\ t[Len(key) + 1] = EQUALS
  BY <1>1, <1>3, <1>4, <1>5
<1>7. At(t, 0, key, value)
  BY <1>1, <1>5, <1>6 DEF At
<1>8. ASSUME NEW p \in 1..Len(t) PROVE t[p] # OPEN
  <2>1. CASE p \in 1..Len(key)
    BY <1>6, <2>1, Constants
  <2>2. CASE p = Len(key) + 1
    BY <1>2, <1>6, <2>2
  <2>3. CASE p > Len(key) + 1
    <3>1. p - (Len(key) + 1) \in 1..Len(value) /\ Len(key) + 1 + (p - (Len(key) + 1)) = p
      BY <1>1, <1>5, <2>3
    <3> QED
      BY <1>5, <3>1, Constants
  <2> QED
    BY <1>1, <1>5, <2>1, <2>2, <2>3
<1>9. t = Attribute(key, value) /\ Len(t) = Len(key) + Len(value) + 1
  BY <1>1, <1>5 DEF t, a, e, Attribute
<1> QED
  BY <1>5, <1>7, <1>8, <1>9

-----------------------------------------------------------------------------
(* The symbol s has the attributes of the list from position length on:    *)
(* the separator before attribute n is at pos[n], counted from 1, so that  *)
(* its key begins at position pos[n], counted from 0.                      *)
Attributes == Keys \X Values

\* The parts have their types;
Typed(s, length, list, pos) ==
  /\ s \in String /\ length \in Nat /\ length <= Len(s)
  /\ list \in Seq(Attributes) /\ pos \in [1..(Len(list) + 1) -> Nat]

\* attribute n is at its place, behind its separator, and the next follows it;
InPlace(s, pos, list, n) ==
  /\ At(s, pos[n], list[n][1], list[n][2])
  /\ pos[n + 1] = pos[n] + Width(list[n])
  /\ s[pos[n]] = IF n = 1 THEN OPEN ELSE COMMA

\* all of them are, the first behind position length, with no other bracket;
Placed(s, length, list, pos) ==
  /\ Typed(s, length, list, pos)
  /\ pos[1] = length + 1
  /\ \A n \in 1..Len(list) : InPlace(s, pos, list, n)
  /\ \A p \in (length + 2)..Len(s) : s[p] # OPEN

\* and the symbol ends with the closing bracket, or at length without any.
Written(s, length, list, pos) ==
  /\ Placed(s, length, list, pos)
  /\ IF list = <<>> THEN Len(s) = length
                    ELSE Len(s) = pos[Len(list) + 1] /\ s[Len(s)] = CLOSE

\* An attribute takes at least its separator and the sign =.
LEMMA WidthIs ==
  ASSUME NEW key \in String, NEW value \in String
  PROVE  /\ Width(<<key, value>>) = Len(key) + Len(value) + 2
         /\ Width(<<key, value>>) \in Nat /\ Width(<<key, value>>) >= 2
<1>1. Len(key) \in Nat /\ Len(value) \in Nat
  BY Lengths
<1> QED
  BY <1>1 DEF Width

\* The types of an attribute of a list.
LEMMA Element ==
  ASSUME NEW list \in Seq(Attributes), NEW n \in 1..Len(list)
  PROVE  /\ Len(list) \in Nat /\ n \in Nat
         /\ list[n] \in Attributes /\ list[n][1] \in Keys /\ list[n][2] \in Values
         /\ list[n] = <<list[n][1], list[n][2]>>
         /\ Len(list[n][1]) \in Nat /\ Len(list[n][2]) \in Nat
         /\ Width(list[n]) \in Nat /\ Width(list[n]) >= 2
<1>1. list[n] \in Attributes /\ Len(list) \in Nat
  BY ElementOfSeq
<1>2. list[n][1] \in Keys /\ list[n][2] \in Values /\ list[n] = <<list[n][1], list[n][2]>>
  BY <1>1 DEF Attributes
<1>3. Len(list[n][1]) \in Nat /\ Len(list[n][2]) \in Nat
  BY <1>2, Constants, Lengths
<1>4. PICK key \in String, value \in String : key = list[n][1] /\ value = list[n][2]
  BY <1>2, Constants
<1>5. Width(list[n]) \in Nat /\ Width(list[n]) >= 2
  BY <1>2, <1>4, WidthIs
<1>6. n \in Nat
  BY <1>1
<1> QED
  BY <1>1, <1>2, <1>3, <1>5, <1>6

(* Later attributes are further back.                                      *)
LEMMA Increasing ==
  ASSUME NEW s, NEW length, NEW list, NEW pos, Placed(s, length, list, pos),
         NEW m \in 1..(Len(list) + 1), NEW n \in 1..(Len(list) + 1), m < n
  PROVE  /\ pos[m] + 2 <= pos[n]
         /\ m \in 1..Len(list) /\ pos[m + 1] <= pos[n] /\ pos[m] + Width(list[m]) <= pos[n]
<1>1. Len(list) \in Nat /\ pos \in [1..(Len(list) + 1) -> Nat] /\ list \in Seq(Attributes)
  BY LenProperties DEF Placed, Typed
<1>2. ASSUME NEW k \in 1..Len(list)
      PROVE  /\ pos[k + 1] = pos[k] + Width(list[k])
             /\ Width(list[k]) \in Nat /\ Width(list[k]) >= 2
             /\ pos[k] \in Nat /\ pos[k + 1] \in Nat
  <2>1. k \in 1..(Len(list) + 1) /\ k + 1 \in 1..(Len(list) + 1)
    BY <1>1
  <2> QED
    BY <1>1, <2>1, Element DEF Placed, InPlace
<1> DEFINE T == {d \in Nat : m + 1 + d <= Len(list) + 1 => pos[m + 1] <= pos[m + 1 + d]}
<1>3. 0 \in T
  BY <1>1
<1>4. ASSUME NEW d \in Nat, d \in T PROVE d + 1 \in T
  <2>1. SUFFICES ASSUME m + 1 + (d + 1) <= Len(list) + 1
                 PROVE  pos[m + 1] <= pos[m + 1 + (d + 1)]
    OBVIOUS
  <2>2. m + 1 + d \in 1..Len(list) /\ m + 1 + (d + 1) = m + 1 + d + 1 /\ m + 1 \in 1..(Len(list) + 1)
    BY <1>1, <2>1
  <2>3. pos[m + 1] <= pos[m + 1 + d]
    BY <1>1, <1>4, <2>2
  <2> DEFINE k == m + 1 + d
  <2>4. k \in 1..Len(list) /\ m + 1 + (d + 1) = k + 1 /\ pos[m + 1] <= pos[k]
    BY <2>2, <2>3
  <2> HIDE DEF k
  <2>5. pos[k + 1] = pos[k] + Width(list[k]) /\ Width(list[k]) >= 2
        /\ pos[k] \in Nat /\ pos[k + 1] \in Nat /\ Width(list[k]) \in Nat
    BY ONLY <1>2, <2>4
  <2>6. pos[m + 1] \in Nat
    BY <1>1, <2>2
  <2>7. pos[m + 1] <= pos[k + 1]
    BY ONLY <2>4, <2>5, <2>6
  <2> QED
    BY ONLY <2>4, <2>7
<1>5. Nat \subseteq T
  <2> HIDE DEF T
  <2> QED
    BY <1>3, <1>4, SetInduction
<1>6. /\ m \in 1..Len(list) /\ n - (m + 1) \in Nat /\ m + 1 + (n - (m + 1)) = n
      /\ n <= Len(list) + 1
  BY <1>1
<1>7. n - (m + 1) \in T
  BY <1>5, <1>6
<1>8. pos[m + 1] <= pos[n]
  BY <1>6, <1>7
<1>9. /\ pos[m + 1] = pos[m] + Width(list[m]) /\ Width(list[m]) >= 2
      /\ pos[m] \in Nat /\ pos[m + 1] \in Nat /\ Width(list[m]) \in Nat
  BY <1>2, <1>6
<1>10. pos[n] \in Nat
  BY <1>1
<1> QED
  BY <1>6, <1>8, <1>9, <1>10

(* All attributes are behind the base symbol and before the end.           *)
LEMMA Bounds ==
  ASSUME NEW s, NEW length, NEW list, NEW pos, Placed(s, length, list, pos)
  PROVE  /\ s \in String /\ Len(s) \in Nat /\ length \in Nat /\ length <= Len(s)
         /\ list \in Seq(Attributes) /\ Len(list) \in Nat
         /\ \A n \in 1..(Len(list) + 1) :
              pos[n] \in Nat /\ pos[n] \in Position /\ length + 1 <= pos[n]
         /\ \A n \in 1..Len(list) :
              /\ pos[n + 1] = pos[n] + Width(list[n]) /\ pos[n] + 2 <= pos[n + 1]
              /\ pos[n + 1] <= pos[Len(list) + 1]
<1>1. /\ Len(list) \in Nat /\ pos \in [1..(Len(list) + 1) -> Nat] /\ list \in Seq(Attributes)
      /\ pos[1] = length + 1 /\ length \in Nat /\ s \in String /\ Len(s) \in Nat
      /\ length <= Len(s)
  BY LenProperties, Lengths DEF Placed, Typed
<1>2. ASSUME NEW n \in 1..(Len(list) + 1)
      PROVE  pos[n] \in Nat /\ pos[n] \in Position /\ length + 1 <= pos[n]
  <2>1. 1 \in 1..(Len(list) + 1) /\ n \in Nat /\ 1 <= n /\ pos[n] \in Nat /\ pos[1] \in Nat
    BY <1>1
  <2>2. pos[1] <= pos[n]
    <3>1. CASE n = 1
      BY <2>1, <3>1
    <3>2. CASE 1 < n
      BY <2>1, <3>2, Increasing
    <3> QED
      BY <2>1, <3>1, <3>2
  <2> QED
    BY <1>1, <2>1, <2>2 DEF Position
<1>3. ASSUME NEW n \in 1..Len(list)
      PROVE  /\ pos[n + 1] = pos[n] + Width(list[n]) /\ pos[n] + 2 <= pos[n + 1]
             /\ pos[n + 1] <= pos[Len(list) + 1]
  <2>1. /\ n \in Nat /\ n < Len(list) + 1 /\ n \in 1..(Len(list) + 1)
        /\ n + 1 \in 1..(Len(list) + 1) /\ Len(list) + 1 \in 1..(Len(list) + 1)
    BY <1>1
  <2>2. pos[n + 1] <= pos[Len(list) + 1]
    BY <2>1, Increasing
  <2>3. pos[n + 1] = pos[n] + Width(list[n]) /\ Width(list[n]) \in Nat /\ Width(list[n]) >= 2
    BY <1>1, Element DEF Placed, InPlace
  <2>4. pos[n] \in Nat
    BY <1>1, <2>1
  <2> QED
    BY <2>2, <2>3, <2>4
<1> QED
  BY <1>1, <1>2, <1>3

\* Every attribute ends by the end of the symbol.
LEMMA Within ==
  ASSUME NEW s, NEW length, NEW list, NEW pos, Written(s, length, list, pos),
         NEW n \in 1..Len(list)
  PROVE  /\ pos[n] \in Nat /\ pos[n + 1] \in Nat /\ pos[n] + 2 <= pos[n + 1]
         /\ pos[n + 1] <= Len(s) /\ Len(s) \in Nat
         /\ list # <<>> /\ Len(s) = pos[Len(list) + 1]
<1>1. /\ Placed(s, length, list, pos) /\ Len(list) \in Nat
      /\ n \in 1..(Len(list) + 1) /\ n + 1 \in 1..(Len(list) + 1)
  BY Bounds DEF Written
<1>2. list # <<>>
  BY <1>1, EmptySeq
<1>3. Len(s) = pos[Len(list) + 1]
  BY <1>2 DEF Written
<1> QED
  BY <1>1, <1>2, <1>3, Bounds

(* What the loops read at the position of an attribute.                    *)
LEMMA ReadKey ==
  ASSUME NEW s \in String, NEW q \in Nat, NEW key \in Keys, NEW value \in Values,
         At(s, q, key, value), q + Len(key) + Len(value) + 2 <= Len(s)
  PROVE  /\ find_first_of(s, EQUALS, q) = q + Len(key)
         /\ getKeyInternal(s, q) = key
<1>1. /\ Len(key) \in Nat /\ Len(value) \in Nat /\ key \in String /\ value \in String
      /\ Len(s) \in Nat
  BY Constants, Lengths
<1> DEFINE e == q + Len(key)
<1>2. find_first_of(s, EQUALS, q) = e
  <2>1. e \in Nat /\ q <= e /\ e < Len(s) /\ s[e + 1] = EQUALS
    BY <1>1 DEF At
  <2>2. ASSUME NEW p \in Nat, q <= p, p < e PROVE s[p + 1] # EQUALS
    <3>1. p + 1 - q \in 1..Len(key) /\ q + (p + 1 - q) = p + 1
      BY <1>1, <2>2
    <3>2. s[p + 1] = key[p + 1 - q]
      BY <3>1 DEF At
    <3> QED
      BY <3>1, <3>2, Constants
  <2> HIDE DEF e
  <2> QED
    BY <2>1, <2>2, FirstIs
<1>3. e # npos /\ e - q = Len(key) /\ q + Len(key) <= Len(s)
  BY <1>1 DEF npos
<1>4. /\ sub(s, q, Len(key)) \in String /\ Len(sub(s, q, Len(key))) = Len(key)
      /\ \A p \in 1..Len(key) : sub(s, q, Len(key))[p] = s[q + p]
  BY <1>1, <1>3, Slice
<1>5. \A p \in 1..Len(key) : sub(s, q, Len(key))[p] = key[p]
  BY <1>4 DEF At
<1>6. sub(s, q, Len(key)) = key
  BY <1>1, <1>4, <1>5, SameString
<1> QED
  BY <1>2, <1>3, <1>6 DEF getKeyInternal

\* The next key is behind the attribute, the value before it.
LEMMA ReadValue ==
  ASSUME NEW s \in String, NEW q \in Nat, NEW key \in Keys, NEW value \in Values,
         At(s, q, key, value), NEW j \in Nat, j = q + Len(key) + Len(value) + 2, j <= Len(s),
         s[j] = COMMA \/ (s[j] = CLOSE /\ j = Len(s))
  PROVE  /\ getNextKeyInternal(s, q) = j
         /\ getValueInternal(s, q, j) = value
<1>1. /\ Len(key) \in Nat /\ Len(value) \in Nat /\ key \in String /\ value \in String
      /\ Len(s) \in Nat
  BY Constants, Lengths
<1> DEFINE o == q + Len(key) + 1
<1>2. find_first_of(s, EQUALS, q) + 1 = o
  BY <1>1, ReadKey
<1>3. /\ o \in Nat /\ o + Len(value) + 1 = j /\ j - 1 - o = Len(value)
      /\ o + Len(value) <= Len(s) /\ \A p \in 1..Len(value) : s[o + p] = value[p]
  BY <1>1 DEF At
<1> HIDE DEF o
<1> DEFINE comma == find_first_of(s, COMMA, o)
<1>a. getNextKeyInternal(s, q) = IF comma = npos THEN Len(s) ELSE comma + 1
  BY <1>2 DEF getNextKeyInternal
<1>4. ASSUME NEW p \in Nat, o <= p, p + 1 < j PROVE s[p + 1] # COMMA
  <2>1. p + 1 - o \in 1..Len(value) /\ o + (p + 1 - o) = p + 1
    BY <1>1, <1>3, <1>4
  <2>2. s[p + 1] = value[p + 1 - o]
    BY <1>3, <2>1
  <2> QED
    BY <2>1, <2>2, Constants
<1>5. ASSUME s[j] = COMMA PROVE getNextKeyInternal(s, q) = j
  <2> DEFINE c == j - 1
  <2>1. c \in Nat /\ o <= c /\ c < Len(s) /\ s[c + 1] = COMMA /\ c + 1 = j /\ c # npos
    BY <1>1, <1>3, <1>5 DEF npos
  <2>2. \A p \in Nat : o <= p /\ p < c => s[p + 1] # COMMA
    BY <1>3, <1>4
  <2> HIDE DEF c
  <2>3. comma = c
    BY <1>3, <2>1, <2>2, FirstIs
  <2> HIDE DEF comma
  <2> QED
    BY <1>a, <2>1, <2>3
<1>6. ASSUME s[j] = CLOSE, j = Len(s) PROVE getNextKeyInternal(s, q) = j
  <2>1. ASSUME NEW p \in Nat, o <= p, p < Len(s) PROVE s[p + 1] # COMMA
    <3>1. CASE p + 1 < j
      BY <1>4, <2>1, <3>1
    <3>2. CASE p + 1 = j
      BY <1>6, <3>2 DEF CLOSE, COMMA
    <3> QED
      BY <1>1, <1>6, <2>1, <3>1, <3>2
  <2>2. comma = npos
    BY <1>3, <2>1, FirstNone
  <2> HIDE DEF comma
  <2> QED
    BY <1>a, <1>6, <2>2
<1>7. getNextKeyInternal(s, q) = j
  BY <1>5, <1>6
<1>8. /\ sub(s, o, Len(value)) \in String /\ Len(sub(s, o, Len(value))) = Len(value)
      /\ \A p \in 1..Len(value) : sub(s, o, Len(value))[p] = s[o + p]
  BY <1>1, <1>3, Slice
<1>9. \A p \in 1..Len(value) : sub(s, o, Len(value))[p] = value[p]
  BY <1>3, <1>8
<1>10. sub(s, o, Len(value)) = value
  BY <1>1, <1>8, <1>9, SameString
<1> QED
  BY <1>2, <1>3, <1>7, <1>10 DEF getValueInternal

\* At the place of attribute n the loops read attribute n.
LEMMA Read ==
  ASSUME NEW s, NEW length, NEW list, NEW pos, Written(s, length, list, pos),
         NEW n \in 1..Len(list)
  PROVE  /\ ~Ended(s, pos[n])
         /\ getKeyInternal(s, pos[n]) = list[n][1]
         /\ getNextKeyInternal(s, pos[n]) = pos[n + 1]
         /\ getValueInternal(s, pos[n], pos[n + 1]) = list[n][2]
<1>1. s \in String /\ list \in Seq(Attributes)
  BY DEF Written, Placed, Typed
<1>2. PICK q \in Nat, key \in Keys, value \in Values, j \in Nat :
        q = pos[n] /\ key = list[n][1] /\ value = list[n][2] /\ j = pos[n + 1]
  BY <1>1, Within, Element
<1>3. /\ At(s, q, key, value) /\ j = q + Width(list[n])
      /\ n < Len(list) => s[j] = COMMA
      /\ n = Len(list) => s[j] = CLOSE /\ j = Len(s)
  <2>1. n < Len(list) => n + 1 \in 1..Len(list) /\ n + 1 # 1
    BY <1>1, Element
  <2> QED
    BY <1>2, <2>1, Within DEF Written, Placed, InPlace
<1>4. j = q + Len(key) + Len(value) + 2 /\ j <= Len(s) /\ q < Len(s)
  <2>1. j <= Len(s) /\ Len(s) \in Nat
    BY <1>2, Within
  <2>2. Len(key) \in Nat /\ Len(value) \in Nat
    BY Constants, Lengths
  <2>3. list[n] = <<key, value>>
    BY <1>1, <1>2, Element
  <2>4. j = q + (Len(key) + Len(value) + 2)
    BY <1>3, <2>3, WidthIs, Constants
  <2> QED
    BY <2>1, <2>2, <2>4
<1>5. s[j] = COMMA \/ (s[j] = CLOSE /\ j = Len(s))
  BY <1>1, <1>3, Element
<1>6. /\ getKeyInternal(s, q) = key /\ getNextKeyInternal(s, q) = j
      /\ getValueInternal(s, q, j) = value
  BY <1>1, <1>3, <1>4, <1>5, ReadKey, ReadValue
<1>7. ~Ended(s, q)
  BY <1>1, <1>4, <1>6, Constants, Lengths DEF Ended
<1> QED
  BY <1>2, <1>6, <1>7

-----------------------------------------------------------------------------
(* A symbol, and one whose closing bracket is missing, that begin with the *)
(* string h, which is a base symbol and an exchange code.                  *)
Begins(s, h) == h \in String /\ \A p \in 1..Len(h) : s[p] = h[p]

\* A symbol without its closing bracket,
Unclosed(s, h, list, pos) ==
  /\ Begins(s, h)
  /\ Placed(s, Len(h), list, pos)
  /\ Len(s) = pos[Len(list) + 1] - 1

\* and one with it.
Closed(s, h, list, pos) ==
  /\ Begins(s, h)
  /\ Written(s, Len(h), list, pos)

\* What is before the next attribute.
Separator(list) == IF list = <<>> THEN OPEN ELSE COMMA

(* An attribute stays where it is when what is behind it changes.          *)
SameStart(s, t, m) == \A p \in 1..m : t[p] = s[p]

\* An attribute of s is in t, too, when they begin in the same way.
LEMMA Kept ==
  ASSUME NEW s, NEW length, NEW list, NEW pos, Placed(s, length, list, pos),
         NEW n \in 1..Len(list), NEW t, NEW m \in Nat, pos[n + 1] <= m + 1,
         SameStart(s, t, m)
  PROVE  InPlace(t, pos, list, n)
<1>1. /\ list \in Seq(Attributes) /\ Len(list) \in Nat /\ n \in 1..(Len(list) + 1)
      /\ pos[n + 1] = pos[n] + Width(list[n]) /\ pos[n] \in Nat /\ pos[n] \in Position
  BY Bounds
<1>2. PICK q \in Nat, w \in Nat, key \in Keys, value \in Values :
        q = pos[n] /\ w = Width(list[n]) /\ key = list[n][1] /\ value = list[n][2]
  BY <1>1, Element
<1>3. /\ key \in String /\ value \in String /\ Len(key) \in Nat /\ Len(value) \in Nat
  BY Constants, Lengths
<1>4. w = Len(key) + Len(value) + 2
  BY <1>1, <1>2, <1>3, Element, WidthIs
<1>5. q + w <= m + 1 /\ 1 <= q
  BY <1>1, <1>2 DEF Position
<1>6. At(s, q, key, value) /\ s[q] = IF n = 1 THEN OPEN ELSE COMMA
  BY <1>2 DEF Placed, InPlace
<1>7. ASSUME NEW p \in 1..(Len(key) + Len(value) + 1) PROVE t[q + p] = s[q + p]
  <2>1. q + p \in 1..m
    BY <1>3, <1>4, <1>5
  <2> QED
    BY <2>1 DEF SameStart
<1>8. At(t, q, key, value)
  BY <1>3, <1>6, <1>7, AtMoved, q \in Int
<1>9. t[q] = s[q]
  BY <1>3, <1>4, <1>5 DEF SameStart
<1> QED
  BY <1>1, <1>2, <1>6, <1>8, <1>9 DEF InPlace

(* What is behind position c of s is in t behind position r.               *)
SameRest(s, c, t, r) == \A p \in Nat : p >= 1 /\ c + p <= Len(s) => t[r + p] = s[c + p]

(* An attribute that moves together with what is behind it.                *)
LEMMA Shifted ==
  ASSUME NEW s, NEW length, NEW list, NEW pos, Placed(s, length, list, pos),
         NEW n \in 1..Len(list), NEW t, NEW c \in Nat, c <= pos[n],
         pos[n + 1] <= Len(s) + 1, NEW r \in Nat,
         SameRest(s, c, t, r)
  PROVE  /\ At(t, r + (pos[n] - c), list[n][1], list[n][2])
         /\ c < pos[n] => t[r + (pos[n] - c)] = IF n = 1 THEN OPEN ELSE COMMA
<1>1. /\ list \in Seq(Attributes) /\ Len(list) \in Nat /\ n \in 1..(Len(list) + 1)
      /\ pos[n + 1] = pos[n] + Width(list[n]) /\ pos[n] \in Nat /\ Len(s) \in Nat
  BY Bounds
<1>2. PICK q \in Nat, w \in Nat, key \in Keys, value \in Values :
        q = pos[n] /\ w = Width(list[n]) /\ key = list[n][1] /\ value = list[n][2]
  BY <1>1, Element
<1>3. /\ key \in String /\ value \in String /\ Len(key) \in Nat /\ Len(value) \in Nat
  BY Constants, Lengths
<1>4. w = Len(key) + Len(value) + 2
  BY <1>1, <1>2, <1>3, Element, WidthIs
<1>5. q + w <= Len(s) + 1 /\ c <= q
  BY <1>1, <1>2
<1>6. At(s, q, key, value) /\ s[q] = IF n = 1 THEN OPEN ELSE COMMA
  BY <1>2 DEF Placed, InPlace
<1>7. PICK d \in Nat : d = q - c
  BY <1>5
<1>8. ASSUME NEW p \in 1..(Len(key) + Len(value) + 1) PROVE t[r + d + p] = s[q + p]
  <2>1. d + p \in Nat /\ d + p >= 1 /\ c + (d + p) <= Len(s) /\ c + (d + p) = q + p
        /\ r + (d + p) = r + d + p
    BY ONLY <1>1, <1>3, <1>4, <1>5, <1>7, c \in Nat, r \in Nat, q \in Nat, d \in Nat,
       p \in 1..(Len(key) + Len(value) + 1)
  <2>2. t[r + (d + p)] = s[c + (d + p)]
    BY <2>1 DEF SameRest
  <2> QED
    BY <2>1, <2>2
<1>9. At(t, r + d, key, value)
  BY <1>3, <1>6, <1>8, AtMoved, q \in Int, r + d \in Int
<1>10. ASSUME c < q PROVE t[r + d] = s[q]
  <2>1. d >= 1 /\ c + d <= Len(s) /\ c + d = q
    BY <1>1, <1>3, <1>4, <1>5, <1>7, <1>10
  <2> QED
    BY <2>1 DEF SameRest
<1> QED
  BY <1>2, <1>6, <1>7, <1>9, <1>10

\* A string, a character and a string.
Chain(s, c, u) == s \o <<c>> \o u

\* What it consists of.
LEMMA Appended ==
  ASSUME NEW s \in String, NEW c \in Int, NEW u \in String, NEW r, r = Chain(s, c, u)
  PROVE  /\ r \in String
         /\ Len(r) = Len(s) + 1 + Len(u)
         /\ \A p \in 1..Len(s) : r[p] = s[p]
         /\ r[Len(s) + 1] = c
         /\ \A p \in 1..Len(u) : r[Len(s) + 1 + p] = u[p]
<1> DEFINE e == <<c>>  a == s \o e  t == a \o u
<1>1. e \in String /\ Len(e) = 1 /\ e[1] = c /\ Len(s) \in Nat /\ Len(u) \in Nat
  BY OneCharacter, Lengths
<1> HIDE DEF e
<1>2. /\ a \in String /\ Len(a) = Len(s) + 1
      /\ \A p \in 1..Len(s) : a[p] = s[p]
      /\ \A p \in 1..1 : a[Len(s) + p] = e[p]
  <2>1. /\ s \o e \in String /\ Len(s \o e) = Len(s) + Len(e)
        /\ \A p \in 1..Len(s) : (s \o e)[p] = s[p]
        /\ \A p \in 1..Len(e) : (s \o e)[Len(s) + p] = e[p]
    BY <1>1, Joined
  <2> QED
    BY <1>1, <2>1
<1>3. a[Len(s) + 1] = c
  BY <1>1, <1>2
<1> HIDE DEF a
<1>4. /\ t \in String /\ Len(t) = Len(s) + 1 + Len(u)
      /\ \A p \in 1..(Len(s) + 1) : t[p] = a[p]
      /\ \A p \in 1..Len(u) : t[Len(s) + 1 + p] = u[p]
  <2>1. /\ a \o u \in String /\ Len(a \o u) = Len(a) + Len(u)
        /\ \A p \in 1..Len(a) : (a \o u)[p] = a[p]
        /\ \A p \in 1..Len(u) : (a \o u)[Len(a) + p] = u[p]
    BY <1>1, <1>2, Joined
  <2> QED
    BY <1>2, <2>1
<1>5. t[Len(s) + 1] = c /\ \A p \in 1..Len(s) : t[p] = s[p]
  BY <1>1, <1>2, <1>3, <1>4
<1>6. r = t
  BY DEF Chain, t, a, e
<1> QED
  BY <1>4, <1>5, <1>6

\* The separators are characters of their own.
LEMMA Characters == OPEN \in Int /\ CLOSE \in Int /\ COMMA \in Int /\ CLOSE # OPEN /\ COMMA # OPEN
BY DEF OPEN, CLOSE, COMMA

(* The closing bracket.                                                    *)
LEMMA Close ==
  ASSUME NEW s, NEW h, NEW list, NEW pos, Unclosed(s, h, list, pos), list # <<>>
  PROVE  Closed(s \o <<CLOSE>>, h, list, pos)
<1> DEFINE t == s \o <<CLOSE>>
<1>1. Placed(s, Len(h), list, pos) /\ Len(s) = pos[Len(list) + 1] - 1 /\ h \in String
  BY DEF Unclosed, Begins
<1>2. /\ s \in String /\ Len(s) \in Nat /\ Len(h) \in Nat /\ Len(h) <= Len(s)
      /\ list \in Seq(Attributes) /\ Len(list) \in Nat
  BY <1>1, Bounds
<1>3. /\ t \in String /\ Len(t) = Len(s) + 1 /\ t[Len(s) + 1] = CLOSE
      /\ \A p \in 1..Len(s) : t[p] = s[p]
  <2> DEFINE e == <<CLOSE>>
  <2>1. e \in String /\ Len(e) = 1 /\ e[1] = CLOSE
    BY OneCharacter, Characters
  <2> HIDE DEF e
  <2>2. /\ s \o e \in String /\ Len(s \o e) = Len(s) + Len(e)
        /\ \A p \in 1..Len(s) : (s \o e)[p] = s[p]
        /\ \A p \in 1..Len(e) : (s \o e)[Len(s) + p] = e[p]
    BY <1>2, <2>1, Joined
  <2>3. (s \o e)[Len(s) + 1] = CLOSE
    BY <2>1, <2>2, 1 \in 1..1
  <2> QED
    BY <2>1, <2>2, <2>3 DEF e
<1> HIDE DEF t
<1>4. Begins(t, h)
  BY <1>2, <1>3 DEF Unclosed, Begins
<1>5. Typed(t, Len(h), list, pos) /\ pos[1] = Len(h) + 1
  BY <1>1, <1>2, <1>3 DEF Placed, Typed
<1>6. ASSUME NEW n \in 1..Len(list) PROVE InPlace(t, pos, list, n)
  <2>1. pos[n + 1] <= pos[Len(list) + 1] /\ pos[n + 1] \in Nat /\ pos[Len(list) + 1] \in Nat
    BY <1>1, <1>2, Bounds, n + 1 \in 1..(Len(list) + 1), Len(list) + 1 \in 1..(Len(list) + 1)
  <2>2. pos[n + 1] <= Len(s) + 1
    BY <1>1, <1>2, <2>1
  <2>3. SameStart(s, t, Len(s))
    BY <1>3 DEF SameStart
  <2> QED
    BY <1>1, <1>2, <2>2, <2>3, Kept
<1>7. ASSUME NEW p \in (Len(h) + 2)..Len(t) PROVE t[p] # OPEN
  <2>1. CASE p = Len(s) + 1
    BY <1>3, <2>1, Characters
  <2>2. CASE p # Len(s) + 1
    <3>1. p \in (Len(h) + 2)..Len(s) /\ p \in 1..Len(s)
      BY ONLY <1>2, <1>3, <2>2, p \in (Len(h) + 2)..Len(t)
    <3>2. s[p] # OPEN
      BY ONLY <1>1, <3>1 DEF Placed
    <3> QED
      BY ONLY <1>3, <3>1, <3>2
  <2> QED
    BY <2>1, <2>2
<1>8. Len(t) = pos[Len(list) + 1]
  <2>1. pos[Len(list) + 1] \in Nat
    BY <1>1, <1>2, Bounds, Len(list) + 1 \in 1..(Len(list) + 1)
  <2> QED
    BY <1>1, <1>2, <1>3, <2>1
<1>9. Closed(t, h, list, pos)
  BY <1>3, <1>4, <1>5, <1>6, <1>7, <1>8 DEF Closed, Written, Placed
<1> QED
  BY <1>9 DEF t

(* One more attribute at the end.                                          *)
LEMMA Extend ==
  ASSUME NEW s, NEW h, NEW list, NEW pos, Unclosed(s, h, list, pos),
         NEW key \in Keys, NEW value \in Values, NEW longer \in Seq(Attributes),
         Len(longer) = Len(list) + 1, \A m \in 1..Len(list) : longer[m] = list[m],
         longer[Len(list) + 1] = <<key, value>>,
         NEW t, t = Chain(s, Separator(list), Attribute(key, value))
  PROVE  /\ \E pos2 : Unclosed(t, h, longer, pos2)
         /\ Len(t) = Len(s) + Len(key) + Len(value) + 2
<1>1. Placed(s, Len(h), list, pos) /\ Len(s) = pos[Len(list) + 1] - 1 /\ h \in String
  BY DEF Unclosed, Begins
<1>2. PICK L \in Nat, N \in Nat : L = Len(s) /\ N = Len(list)
  BY <1>1, Bounds
<1>3. /\ s \in String /\ Len(h) \in Nat /\ Len(h) <= L /\ list \in Seq(Attributes)
  BY <1>1, <1>2, Bounds
<1>4. key \in String /\ value \in String /\ Len(key) \in Nat /\ Len(value) \in Nat
  BY Constants, Lengths
<1>5. PICK c \in Int : c = Separator(list)
  BY Characters DEF Separator
<1>6. PICK a \in String : a = Attribute(key, value)
  BY AttributeText
<1>7. /\ Len(a) = Len(key) + Len(value) + 1 /\ At(a, 0, key, value)
      /\ \A p \in 1..Len(a) : a[p] # OPEN
  BY <1>6, AttributeText
<1>8. /\ t \in String /\ Len(t) = L + 1 + Len(a)
      /\ \A p \in 1..L : t[p] = s[p]
      /\ t[L + 1] = c
      /\ \A p \in 1..Len(a) : t[L + 1 + p] = a[p]
  <2>1. t = Chain(s, c, a)
    BY <1>5, <1>6
  <2>2. /\ t \in String /\ Len(t) = Len(s) + 1 + Len(a)
        /\ \A p \in 1..Len(s) : t[p] = s[p]
        /\ t[Len(s) + 1] = c
        /\ \A p \in 1..Len(a) : t[Len(s) + 1 + p] = a[p]
    BY <1>3, <2>1, Appended, c \in Int
  <2> QED
    BY <1>2, <2>2
<1>9. Len(t) = L + Len(key) + Len(value) + 2
  BY <1>4, <1>7, <1>8
<1>10. Begins(t, h)
  BY <1>2, <1>3, <1>8 DEF Unclosed, Begins
<1>11. \A m \in 1..(N + 1) : pos[m] \in Nat /\ Len(h) + 1 <= pos[m]
  BY <1>1, <1>2, Bounds
<1>12. pos[N + 1] = L + 1 /\ Len(longer) = N + 1
  BY <1>1, <1>2, <1>11
<1> DEFINE pos2 == [m \in 1..(N + 2) |-> IF m <= N + 1 THEN pos[m] ELSE Len(t) + 1]
<1>13. /\ pos2 \in [1..(Len(longer) + 1) -> Nat]
       /\ \A m \in 1..(N + 1) : pos2[m] = pos[m]
       /\ pos2[N + 2] = Len(t) + 1
  BY <1>4, <1>9, <1>11, <1>12
<1> HIDE DEF pos2
<1>14. Typed(t, Len(h), longer, pos2) /\ pos2[1] = Len(h) + 1
  <2>1. Len(h) <= Len(t)
    BY <1>3, <1>4, <1>9
  <2>2. pos2[1] = pos[1]
    BY <1>13, 1 \in 1..(N + 1)
  <2> QED
    BY <1>1, <1>3, <1>8, <1>13, <2>1, <2>2 DEF Placed, Typed
<1>15. ASSUME NEW n \in 1..N PROVE InPlace(t, pos2, longer, n)
  <2>1. n \in 1..(N + 1) /\ n + 1 \in 1..(N + 1) /\ N + 1 \in 1..(N + 1) /\ n \in 1..Len(list)
    BY <1>2
  <2>2. pos[n + 1] <= pos[N + 1]
    BY <1>1, <1>2, <2>1, Bounds
  <2>3. pos[n + 1] <= L + 1 /\ longer[n] = list[n]
    BY <1>2, <1>12, <2>1, <2>2
  <2>4. /\ At(t, pos[n], list[n][1], list[n][2])
        /\ pos[n + 1] = pos[n] + Width(list[n])
        /\ t[pos[n]] = IF n = 1 THEN OPEN ELSE COMMA
    <3>1. Len(s) \in Nat /\ pos[n + 1] <= Len(s) + 1 /\ SameStart(s, t, Len(s))
      BY <1>2, <1>8, <2>3 DEF SameStart
    <3>2. InPlace(t, pos, list, n)
      BY ONLY <1>1, <2>1, <3>1, Kept
    <3> QED
      BY <3>2 DEF InPlace
  <2>5. pos2[n] = pos[n] /\ pos2[n + 1] = pos[n + 1]
    BY <1>13, <2>1
  <2> QED
    BY <2>3, <2>4, <2>5 DEF InPlace
<1>16. InPlace(t, pos2, longer, N + 1)
  <2>1. longer[N + 1] = <<key, value>> /\ <<key, value>>[1] = key /\ <<key, value>>[2] = value
    BY <1>2
  <2>2. ASSUME NEW p \in 1..(Len(key) + Len(value) + 1) PROVE t[L + 1 + p] = a[0 + p]
    <3>1. p \in 1..Len(a) /\ 0 + p = p
      BY <1>4, <1>7
    <3> QED
      BY <1>8, <3>1
  <2>3. At(t, L + 1, key, value)
    <3>1. PICK w \in Int : w = L + 1
      OBVIOUS
    <3>2. \A p \in 1..(Len(key) + Len(value) + 1) : t[w + p] = a[0 + p]
      BY ONLY <2>2, <3>1
    <3>3. At(a, 0, key, value)
      BY <1>7
    <3>4. At(t, w, key, value)
      BY ONLY <1>4, <3>2, <3>3, AtMoved, 0 \in Int, w \in Int
    <3> QED
      BY ONLY <3>1, <3>4
  <2>4. N + 1 + 1 = N + 2 /\ pos2[N + 1] = L + 1
    BY <1>12, <1>13
  <2>5. t[L + 1] = IF N + 1 = 1 THEN OPEN ELSE COMMA
    BY <1>2, <1>3, <1>5, <1>8, EmptySeq DEF Separator
  <2>6. pos2[N + 2] = L + 1 + Width(<<key, value>>)
    <3>1. Width(<<key, value>>) = Len(key) + Len(value) + 2
      BY <1>4, WidthIs
    <3> QED
      BY <1>4, <1>9, <1>13, <3>1
  <2> QED
    BY <2>1, <2>3, <2>4, <2>5, <2>6 DEF InPlace
<1>17. ASSUME NEW p \in (Len(h) + 2)..Len(t) PROVE t[p] # OPEN
  <2>1. CASE p <= L
    <3>1. p \in (Len(h) + 2)..Len(s) /\ p \in 1..L
      BY <1>2, <1>3, <2>1
    <3>2. s[p] # OPEN
      BY <1>1, <3>1 DEF Placed
    <3> QED
      BY <1>8, <3>1, <3>2
  <2>2. CASE p = L + 1
    <3>1. N # 0
      BY <1>1, <1>2, <1>3, <1>12, <2>2 DEF Placed
    <3> QED
      BY <1>2, <1>3, <1>5, <1>8, <2>2, <3>1, EmptySeq, Characters DEF Separator
  <2>3. CASE p > L + 1
    <3>1. PICK k \in 1..Len(a) : p = L + 1 + k
      BY <1>3, <1>4, <1>7, <1>8, <2>3
    <3>2. t[L + 1 + k] = a[k] /\ a[k] # OPEN
      BY ONLY <1>7, <1>8, k \in 1..Len(a)
    <3> QED
      BY ONLY <3>1, <3>2
  <2>4. p \in Int
    BY <1>3, <1>4, <1>9
  <2> QED
    BY <2>1, <2>2, <2>3, <2>4
<1>18. Len(t) = pos2[Len(longer) + 1] - 1
  <2>1. Len(longer) + 1 = N + 2 /\ Len(t) \in Nat
    BY <1>4, <1>9, <1>12
  <2> QED
    BY <1>13, <2>1
<1>19. \A n \in 1..Len(longer) : InPlace(t, pos2, longer, n)
  <2>1. \A n \in 1..(N + 1) : n \in 1..N \/ n = N + 1
    OBVIOUS
  <2> QED
    BY <1>12, <1>15, <1>16, <2>1
<1>20. Unclosed(t, h, longer, pos2)
  BY <1>10, <1>14, <1>17, <1>18, <1>19 DEF Unclosed, Placed
<1> QED
  BY <1>2, <1>9, <1>20

-----------------------------------------------------------------------------
\* Where a symbol with a closing bracket ends.
LEMMA EndOf ==
  ASSUME NEW s, NEW h, NEW list, NEW pos, Closed(s, h, list, pos)
  PROVE  /\ Placed(s, Len(h), list, pos) /\ h \in String
         /\ pos[Len(list) + 1] = IF list = <<>> THEN Len(s) + 1 ELSE Len(s)
<1>1. Placed(s, Len(h), list, pos) /\ h \in String /\ Len(h) \in Nat
  BY Lengths DEF Closed, Written, Begins
<1>2. list # <<>> => Len(s) = pos[Len(list) + 1]
  BY DEF Closed, Written
<1>3. list = <<>> => Len(s) = Len(h) /\ pos[Len(list) + 1] = Len(h) + 1
  <2>1. list = <<>> => Len(list) + 1 = 1
    BY EmptySeq
  <2> QED
    BY <1>1, <2>1 DEF Closed, Written, Placed
<1> QED
  BY <1>1, <1>2, <1>3

(* The first attributes.                                                   *)
LEMMA Truncate ==
  ASSUME NEW s, NEW h, NEW list, NEW pos, Closed(s, h, list, pos),
         NEW n \in 0..Len(list), NEW shorter \in Seq(Attributes), Len(shorter) = n,
         \A m \in 1..n : shorter[m] = list[m], NEW t, t = sub(s, 0, pos[n + 1] - 1)
  PROVE  /\ \E pos2 : Unclosed(t, h, shorter, pos2)
         /\ t \in String /\ Len(t) = pos[n + 1] - 1
<1>1. Placed(s, Len(h), list, pos) /\ h \in String
  BY EndOf
<1>2. PICK L \in Nat, N \in Nat : L = Len(s) /\ N = Len(list)
  BY <1>1, Bounds
<1>3. /\ s \in String /\ Len(h) \in Nat /\ Len(h) <= L /\ list \in Seq(Attributes)
      /\ n \in Nat /\ n <= N /\ pos[1] = Len(h) + 1
  BY <1>1, <1>2, Bounds DEF Placed
<1>4. \A m \in 1..(n + 1) :
        m \in 1..(N + 1) /\ pos[m] \in Nat /\ Len(h) + 1 <= pos[m]
  BY <1>1, <1>2, <1>3, Bounds
<1>5. \A m \in 1..n : /\ m \in 1..Len(list) /\ m + 1 \in 1..(n + 1) /\ m \in 1..(n + 1)
  BY <1>2, <1>3
<1>6. pos[n + 1] <= L + 1
  <2>1. pos[N + 1] <= L + 1 /\ pos[N + 1] \in Nat
    BY <1>1, <1>2, <1>3, Bounds, EndOf, N + 1 \in 1..(N + 1)
  <2>2. CASE n = N
    BY <2>1, <2>2
  <2>3. CASE n < N
    <3>1. n + 1 \in 1..(Len(list) + 1) /\ Len(list) + 1 \in 1..(Len(list) + 1) /\ n + 1 < Len(list) + 1
      BY <1>2, <1>3, <2>3
    <3>2. pos[n + 1] + 2 <= pos[Len(list) + 1]
      BY <1>1, <3>1, Increasing
    <3> QED
      BY <1>2, <1>3, <1>4, <2>1, <3>2, n + 1 \in 1..(n + 1)
  <2> QED
    BY <1>3, <2>2, <2>3
<1>7. PICK k \in Nat : k = pos[n + 1] - 1
  BY <1>3, <1>4, n + 1 \in 1..(n + 1)
<1>8. k <= L /\ pos[n + 1] = k + 1 /\ Len(h) <= k
  BY <1>3, <1>4, <1>6, <1>7, n + 1 \in 1..(n + 1)
<1>9. t \in String /\ Len(t) = k /\ \A p \in 1..k : t[p] = s[p]
  <2>1. t = sub(s, 0, k) /\ 0 + k <= Len(s)
    BY <1>2, <1>7, <1>8
  <2>2. t \in String /\ Len(t) = k /\ \A p \in 1..k : t[p] = s[0 + p]
    BY <1>3, <2>1, Slice, k \in Nat, 0 \in Nat
  <2> QED
    BY <2>2
<1>10. Begins(t, h)
  BY <1>3, <1>8, <1>9 DEF Closed, Begins
<1> DEFINE pos2 == [m \in 1..(n + 1) |-> pos[m]]
<1>11. pos2 \in [1..(Len(shorter) + 1) -> Nat] /\ \A m \in 1..(n + 1) : pos2[m] = pos[m]
  BY <1>4
<1> HIDE DEF pos2
<1>12. Typed(t, Len(h), shorter, pos2) /\ pos2[1] = Len(h) + 1
  <2>1. pos2[1] = pos[1]
    BY <1>3, <1>11, 1 \in 1..(n + 1)
  <2> QED
    BY <1>3, <1>8, <1>9, <1>11, <2>1 DEF Typed
<1>13. ASSUME NEW m \in 1..n PROVE InPlace(t, pos2, shorter, m)
  <2>1. m \in 1..Len(list) /\ m + 1 \in 1..(n + 1) /\ m \in 1..(n + 1)
    BY <1>5
  <2>2. pos[m + 1] <= k + 1
    <3>1. CASE m = n
      BY <1>8, <3>1
    <3>2. CASE m < n
      <4>1. m + 1 \in 1..(Len(list) + 1) /\ n + 1 \in 1..(Len(list) + 1) /\ m + 1 < n + 1
        BY <1>2, <1>3, <3>2
      <4>2. pos[m + 1] + 2 <= pos[n + 1]
        BY <1>1, <4>1, Increasing
      <4> QED
        BY <1>4, <1>8, <2>1, <4>2
    <3> QED
      BY <1>3, <3>1, <3>2
  <2>3. /\ At(t, pos[m], list[m][1], list[m][2])
        /\ pos[m + 1] = pos[m] + Width(list[m])
        /\ t[pos[m]] = IF m = 1 THEN OPEN ELSE COMMA
    <3>1. SameStart(s, t, k)
      BY <1>9 DEF SameStart
    <3>2. InPlace(t, pos, list, m)
      BY ONLY <1>1, <2>1, <2>2, <3>1, Kept, k \in Nat
    <3> QED
      BY <3>2 DEF InPlace
  <2>4. pos2[m] = pos[m] /\ pos2[m + 1] = pos[m + 1] /\ shorter[m] = list[m]
    BY <1>11, <2>1
  <2> QED
    BY <2>3, <2>4 DEF InPlace
<1>14. ASSUME NEW p \in (Len(h) + 2)..Len(t) PROVE t[p] # OPEN
  <2>1. p \in (Len(h) + 2)..Len(s) /\ p \in 1..k
    BY <1>2, <1>3, <1>8, <1>9
  <2>2. s[p] # OPEN
    BY <1>1, <2>1 DEF Placed
  <2> QED
    BY <1>9, <2>1, <2>2
<1>15. Len(t) = pos2[Len(shorter) + 1] - 1
  BY <1>3, <1>8, <1>9, <1>11, n + 1 \in 1..(n + 1)
<1>16. Unclosed(t, h, shorter, pos2)
  BY <1>10, <1>12, <1>13, <1>14, <1>15 DEF Unclosed, Placed
<1> QED
  BY <1>7, <1>9, <1>16

(* The attributes of a symbol from number m on, behind others.             *)
Joins(joined, first, list, m) ==
  /\ joined \in Seq(Attributes) /\ Len(joined) = Len(first) + (Len(list) - m) + 1
  /\ \A i \in 1..Len(first) : joined[i] = first[i]
  /\ \A i \in m..Len(list) : joined[Len(first) + 1 + (i - m)] = list[i]

\* A symbol without bracket, followed by the rest of another from number m on.
LEMMA Tailed ==
  ASSUME NEW t, NEW h, NEW first, NEW pos1, Unclosed(t, h, first, pos1),
         NEW s, NEW g, NEW list, NEW pos, Closed(s, g, list, pos), NEW m \in 1..Len(list),
         NEW joined, Joins(joined, first, list, m),
         NEW r, r = Chain(t, Separator(first), substr(s, pos[m]))
  PROVE  \E pos2 : Closed(r, h, joined, pos2) /\ pos2[Len(first) + 1] = Len(t) + 1
<1>1. /\ Placed(t, Len(h), first, pos1) /\ Len(t) = pos1[Len(first) + 1] - 1 /\ h \in String
      /\ Placed(s, Len(g), list, pos)
  BY EndOf DEF Unclosed, Begins
<1>2. PICK K \in Nat, L \in Nat, N \in Nat, M \in Nat :
        K = Len(first) /\ L = Len(t) /\ N = Len(list) /\ M = Len(s)
  BY <1>1, Bounds
<1>3. /\ t \in String /\ Len(h) \in Nat /\ Len(h) <= L /\ first \in Seq(Attributes)
      /\ s \in String /\ Len(g) \in Nat /\ list \in Seq(Attributes)
      /\ m \in Nat /\ 1 <= m /\ m <= N
  BY <1>1, <1>2, Bounds
<1>4. /\ \A i \in 1..(K + 1) : pos1[i] \in Nat /\ Len(h) + 1 <= pos1[i]
      /\ \A i \in 1..(N + 1) : pos[i] \in Nat /\ Len(g) + 1 <= pos[i]
  BY <1>1, <1>2, Bounds
<1>5. pos1[K + 1] = L + 1
  <2>1. pos1[K + 1] \in Nat
    BY ONLY <1>4, K \in Nat
  <2> QED
    BY ONLY <1>1, <1>2, <2>1, L \in Nat
<1>6. list # <<>> /\ pos[N + 1] = M
  BY <1>2, <1>3, EmptySeq, EndOf
<1>7. PICK q \in Nat : q = pos[m]
  BY <1>3, <1>4
<1>8. ASSUME NEW i \in m..N
      PROVE  /\ i \in 1..Len(list) /\ i \in 1..(N + 1) /\ i + 1 \in 1..(N + 1)
             /\ pos[i] \in Nat /\ pos[i + 1] \in Nat /\ q <= pos[i] /\ (i # m => q < pos[i])
             /\ pos[i + 1] = pos[i] + Width(list[i])
             /\ pos[i] + 2 <= pos[i + 1] /\ pos[i + 1] <= M
  <2>1. /\ i \in 1..Len(list) /\ i \in 1..(N + 1) /\ i + 1 \in 1..(N + 1)
        /\ m \in 1..(Len(list) + 1) /\ i \in 1..(Len(list) + 1)
    BY <1>2, <1>3
  <2>2. /\ pos[i + 1] = pos[i] + Width(list[i]) /\ pos[i] + 2 <= pos[i + 1]
        /\ pos[i + 1] <= pos[Len(list) + 1]
    BY <1>1, <2>1, Bounds
  <2>3. m < i => pos[m] + 2 <= pos[i]
    BY <1>1, <2>1, Increasing
  <2>4. pos[i] \in Nat /\ pos[i + 1] \in Nat
    BY <1>4, <2>1
  <2>5. i = m \/ m < i
    BY <1>3
  <2> QED
    BY <1>2, <1>6, <1>7, <2>1, <2>2, <2>3, <2>4, <2>5
<1>9. q < M /\ Len(g) + 1 <= q /\ q <= M
  <2>1. m \in m..N /\ m \in 1..(N + 1)
    BY <1>3
  <2>2. pos[m] + 2 <= pos[m + 1] /\ pos[m + 1] <= M /\ pos[m + 1] \in Nat
    BY <1>8, <2>1
  <2>3. Len(g) + 1 <= pos[m]
    BY <1>4, <2>1
  <2> QED
    BY ONLY <1>3, <1>7, <2>2, <2>3, q \in Nat, M \in Nat
<1>10. PICK u \in String : u = substr(s, q)
  BY <1>2, <1>3, <1>9, Rest, q \in Nat
<1>11. Len(u) = M - q /\ \A p \in 1..(M - q) : u[p] = s[q + p]
  <2>1. Len(u) = Len(s) - q /\ \A p \in 1..(Len(s) - q) : u[p] = s[q + p]
    BY <1>2, <1>3, <1>9, <1>10, Rest, q \in Nat
  <2> QED
    BY <1>2, <2>1
<1>12. PICK c \in Int : c = Separator(first)
  BY Characters DEF Separator
<1>13. /\ r \in String /\ Len(r) = L + 1 + (M - q)
       /\ \A p \in 1..L : r[p] = t[p]
       /\ r[L + 1] = c
       /\ \A p \in 1..(M - q) : r[L + 1 + p] = s[q + p]
  <2>1. r = Chain(t, c, u)
    BY <1>7, <1>10, <1>12
  <2>2. /\ r \in String /\ Len(r) = Len(t) + 1 + Len(u)
        /\ \A p \in 1..Len(t) : r[p] = t[p]
        /\ r[Len(t) + 1] = c
        /\ \A p \in 1..Len(u) : r[Len(t) + 1 + p] = u[p]
    BY <1>3, <2>1, Appended, c \in Int
  <2> QED
    BY <1>2, <1>11, <2>2
<1>14. Begins(r, h)
  <2>1. \A p \in 1..Len(h) : p \in 1..L
    BY ONLY <1>3, L \in Nat
  <2>2. Begins(t, h)
    BY DEF Unclosed
  <2> QED
    BY ONLY <1>13, <2>1, <2>2 DEF Begins
<1> DEFINE J == K + (N - m) + 1
           pos2 == [i \in 1..(J + 1) |->
                      IF i <= K + 1 THEN pos1[i] ELSE L + 1 + (pos[m + (i - K - 1)] - q)]
<1>15. Len(joined) = J /\ J \in Nat /\ joined \in Seq(Attributes)
  BY <1>2, <1>3 DEF Joins
<1>16. /\ \A i \in 1..(K + 1) : i \in 1..(J + 1) /\ pos2[i] = pos1[i]
       /\ \A i \in m..(N + 1) :
            /\ K + 1 + (i - m) \in 1..(J + 1)
            /\ pos2[K + 1 + (i - m)] = L + 1 + (pos[i] - q)
  <2>1. \A i \in 1..(K + 1) : i \in 1..(J + 1) /\ pos2[i] = pos1[i]
    BY <1>3
  <2>2. ASSUME NEW i \in m..(N + 1)
        PROVE  /\ K + 1 + (i - m) \in 1..(J + 1)
               /\ pos2[K + 1 + (i - m)] = L + 1 + (pos[i] - q)
    <3>1. /\ K + 1 + (i - m) \in 1..(J + 1) /\ m + (K + 1 + (i - m) - K - 1) = i
          /\ K + 1 + (i - m) <= K + 1 <=> i = m
      BY <1>3
    <3>2. CASE i = m
      BY <1>3, <1>5, <1>7, <3>1, <3>2
    <3>3. CASE i # m
      BY <3>1, <3>3
    <3> QED
      BY <3>1, <3>2, <3>3
  <2> QED
    BY <2>1, <2>2
<1>17. pos2 \in [1..(J + 1) -> Nat]
  <2>1. ASSUME NEW i \in 1..(J + 1) PROVE pos2[i] \in Nat
    <3>1. CASE i <= K + 1
      BY <1>4, <3>1
    <3>2. CASE i > K + 1
      <4>1. PICK j \in m..(N + 1) : j = m + (i - K - 1) /\ j > m
        BY <1>3, <3>2
      <4>2. pos[j] \in Nat /\ q <= pos[j]
        <5>1. CASE j \in m..N
          BY <1>8, <5>1
        <5>2. CASE j = N + 1
          BY <1>3, <1>6, <1>9, <5>2
        <5> QED
          BY <1>3, <5>1, <5>2
      <4> QED
        BY <3>2, <4>1, <4>2
    <3> QED
      BY <3>1, <3>2
  <2> QED
    BY <2>1
<1> HIDE DEF pos2
<1>18. Typed(r, Len(h), joined, pos2) /\ pos2[1] = Len(h) + 1
  <2>1. Len(h) <= Len(r)
    BY <1>3, <1>9, <1>13
  <2>2. pos2[1] = pos1[1]
    BY <1>16, 1 \in 1..(K + 1)
  <2> QED
    BY <1>1, <1>3, <1>13, <1>15, <1>17, <2>1, <2>2 DEF Placed, Typed
<1>19. ASSUME NEW n \in 1..K PROVE InPlace(r, pos2, joined, n)
  <2>1. n \in 1..(K + 1) /\ n + 1 \in 1..(K + 1) /\ K + 1 \in 1..(K + 1) /\ n \in 1..Len(first)
    BY <1>2
  <2>2. pos1[n + 1] <= pos1[K + 1]
    BY <1>1, <1>2, <2>1, Bounds
  <2>3. /\ At(r, pos1[n], first[n][1], first[n][2])
        /\ pos1[n + 1] = pos1[n] + Width(first[n])
        /\ r[pos1[n]] = IF n = 1 THEN OPEN ELSE COMMA
    <3>1. Len(t) \in Nat /\ pos1[n + 1] <= Len(t) + 1 /\ SameStart(t, r, Len(t))
      BY <1>2, <1>5, <1>13, <2>2 DEF SameStart
    <3>2. Placed(t, Len(h), first, pos1) /\ n \in 1..Len(first)
      BY <1>1, <2>1
    <3>3. InPlace(r, pos1, first, n)
      BY ONLY <3>1, <3>2, Kept
    <3> QED
      BY <3>3 DEF InPlace
  <2>4. pos2[n] = pos1[n] /\ pos2[n + 1] = pos1[n + 1] /\ joined[n] = first[n]
    BY <1>16, <2>1 DEF Joins
  <2> QED
    BY <2>3, <2>4 DEF InPlace
<1>20. ASSUME NEW i \in m..N PROVE InPlace(r, pos2, joined, K + 1 + (i - m))
  <2>1. /\ i \in 1..Len(list) /\ q \in Nat /\ q <= pos[i] /\ pos[i + 1] <= Len(s) + 1
        /\ L + 1 \in Nat /\ pos[i] \in Nat /\ pos[i + 1] \in Nat /\ (i # m => q < pos[i])
        /\ pos[i + 1] = pos[i] + Width(list[i])
    <3>1. /\ i \in 1..Len(list) /\ q <= pos[i] /\ pos[i + 1] <= M
          /\ pos[i] \in Nat /\ pos[i + 1] \in Nat /\ (i # m => q < pos[i])
          /\ pos[i + 1] = pos[i] + Width(list[i])
      BY <1>8
    <3>2. pos[i + 1] <= Len(s) + 1
      BY <1>2, <3>1
    <3> QED
      BY <3>1, <3>2
  <2>2. ASSUME NEW p \in Nat, p >= 1, q + p <= Len(s) PROVE r[L + 1 + p] = s[q + p]
    BY <1>2, <1>13, <2>2
  <2>3. /\ At(r, L + 1 + (pos[i] - q), list[i][1], list[i][2])
        /\ q < pos[i] => r[L + 1 + (pos[i] - q)] = IF i = 1 THEN OPEN ELSE COMMA
    <3>1. Placed(s, Len(g), list, pos)
      BY <1>1
    <3>2. SameRest(s, pos[m], r, Len(t) + 1)
      BY <1>2, <1>7, <2>2 DEF SameRest
    <3>3. /\ i \in 1..Len(list) /\ pos[m] \in Nat /\ pos[m] <= pos[i]
          /\ pos[i + 1] <= Len(s) + 1 /\ Len(t) + 1 \in Nat
      BY <1>2, <1>7, <2>1
    <3>4. At(r, Len(t) + 1 + (pos[i] - pos[m]), list[i][1], list[i][2])
      BY ONLY <3>1, <3>2, <3>3, Shifted
    <3>5. pos[m] < pos[i] =>
            r[Len(t) + 1 + (pos[i] - pos[m])] = IF i = 1 THEN OPEN ELSE COMMA
      BY ONLY <3>1, <3>2, <3>3, Shifted
    <3> QED
      BY <1>2, <1>7, <3>4, <3>5
  <2>4. /\ joined[K + 1 + (i - m)] = list[i]
        /\ pos2[K + 1 + (i - m)] = L + 1 + (pos[i] - q)
        /\ pos2[K + 1 + (i - m) + 1] = L + 1 + (pos[i + 1] - q)
    <3>1. i \in m..(N + 1) /\ i + 1 \in m..(N + 1) /\ K + 1 + (i + 1 - m) = K + 1 + (i - m) + 1
      BY <1>3
    <3>2. pos2[K + 1 + (i + 1 - m)] = L + 1 + (pos[i + 1] - q)
      BY <1>16, <3>1
    <3>3. joined[K + 1 + (i - m)] = list[i]
      BY <1>2 DEF Joins
    <3> QED
      BY <1>16, <3>1, <3>2, <3>3
  <2>5. L + 1 + (pos[i + 1] - q) = L + 1 + (pos[i] - q) + Width(list[i])
    <3>1. Width(list[i]) \in Nat
      BY <1>3, <2>1, Element
    <3> QED
      BY <2>1, <3>1
  <2>6. r[L + 1 + (pos[i] - q)] = IF K + 1 + (i - m) = 1 THEN OPEN ELSE COMMA
    <3>1. CASE i = m
      <4>1. L + 1 + (pos[i] - q) = L + 1 /\ K + 1 + (i - m) = K + 1
        BY <1>3, <1>7, <3>1
      <4>2. c = IF K + 1 = 1 THEN OPEN ELSE COMMA
        BY <1>2, <1>3, <1>12, EmptySeq DEF Separator
      <4> QED
        BY <1>13, <4>1, <4>2
    <3>2. CASE i # m
      <4>1. i # 1 /\ K + 1 + (i - m) # 1
        BY <1>3, <3>2
      <4> QED
        BY <2>1, <2>3, <3>2, <4>1, Zenon
    <3> QED
      BY <3>1, <3>2
  <2> QED
    BY <2>3, <2>4, <2>5, <2>6 DEF InPlace
<1>21. \A n \in 1..Len(joined) : InPlace(r, pos2, joined, n)
  <2>1. ASSUME NEW n \in 1..J PROVE InPlace(r, pos2, joined, n)
    <3>1. CASE n <= K
      <4>1. n \in 1..K
        BY ONLY <3>1, n \in 1..J, K \in Nat, <1>15
      <4> QED
        BY ONLY <1>19, <4>1
    <3>2. CASE n > K
      <4>1. PICK i \in m..N : i = m + (n - K - 1)
        BY <1>3, <3>2
      <4>2. n = K + 1 + (i - m)
        BY <1>3, <4>1
      <4> QED
        BY ONLY <1>20, <4>2, i \in m..N
    <3> QED
      BY <3>1, <3>2
  <2> QED
    BY ONLY <1>15, <2>1
<1>22. ASSUME NEW p \in (Len(h) + 2)..Len(r) PROVE r[p] # OPEN
  <2>1. CASE p <= L
    <3>1. p \in (Len(h) + 2)..Len(t) /\ p \in 1..L
      BY <1>2, <1>3, <2>1
    <3>2. t[p] # OPEN
      BY <1>1, <3>1 DEF Placed
    <3> QED
      BY ONLY <1>13, <3>1, <3>2
  <2>2. CASE p = L + 1
    <3>1. K # 0
      <4>1. pos1[1] = Len(h) + 1
        BY ONLY <1>1 DEF Placed
      <4>2. p \in Int /\ p >= Len(h) + 2
        BY <1>3, <1>13
      <4> QED
        BY ONLY <1>3, <1>5, <2>2, <4>1, <4>2, K \in Nat, L \in Nat
    <3> QED
      BY <1>2, <1>3, <1>12, <1>13, <2>2, <3>1, EmptySeq, Characters DEF Separator
  <2>3. CASE p > L + 1
    <3>1. PICK k \in 1..(M - q) : p = L + 1 + k
      BY <1>3, <1>9, <1>13, <2>3
    <3>2. q + k \in (Len(g) + 2)..Len(s)
      BY <1>2, <1>3, <1>9
    <3>3. s[q + k] # OPEN
      BY <1>1, <3>2 DEF Placed
    <3> QED
      BY <1>13, <3>1, <3>3
  <2>4. p \in Int
    BY <1>3, <1>9, <1>13
  <2> QED
    BY ONLY <2>1, <2>2, <2>3, <2>4, L \in Nat
<1>23. Len(r) = pos2[Len(joined) + 1] /\ r[Len(r)] = CLOSE /\ joined # <<>>
  <2>1. N + 1 \in m..(N + 1) /\ K + 1 + (N + 1 - m) = J + 1
    <3>1. N + 1 \in m..(N + 1)
      BY ONLY <1>3, N \in Nat
    <3>2. K + 1 + (N + 1 - m) = J + 1
      BY ONLY <1>3, N \in Nat, K \in Nat DEF J
    <3> QED
      BY ONLY <3>1, <3>2
  <2>2. pos2[J + 1] = L + 1 + (M - q)
    BY <1>6, <1>16, <2>1
  <2>3. M - q \in 1..(M - q) /\ q + (M - q) = M
    BY <1>9
  <2>4. r[L + 1 + (M - q)] = s[M]
    BY <1>13, <2>3
  <2>5. s[M] = CLOSE
    BY <1>2, <1>6 DEF Closed, Written
  <2>6. joined # <<>>
    <3>1. J # 0
      BY <1>3
    <3> QED
      BY <1>15, <3>1, EmptySeq
  <2> QED
    BY <1>13, <1>15, <2>2, <2>4, <2>5, <2>6
<1>24. Closed(r, h, joined, pos2)
  BY <1>14, <1>18, <1>21, <1>22, <1>23 DEF Closed, Written, Placed
<1>25. pos2[K + 1] = L + 1
  BY <1>5, <1>16, K + 1 \in 1..(K + 1)
<1> QED
  BY <1>2, <1>24, <1>25

-----------------------------------------------------------------------------
(* What one turn of a loop does to the attributes.                         *)

\* A separator can be read as the end of what is before it,
LEMMA SplitBefore ==
  ASSUME NEW s \in String, NEW i \in 1..Len(s)
  PROVE  sub(s, 0, i) = sub(s, 0, i - 1) \o <<s[i]>>
<1>1. Len(s) \in Nat /\ s[i] \in Int /\ i \in Nat /\ i - 1 \in Nat /\ i <= Len(s) /\ 0 \in Nat
  BY Lengths
<1> DEFINE a == sub(s, 0, i)  b == sub(s, 0, i - 1)  c == <<s[i]>>
<1>2. a \in String /\ Len(a) = i /\ \A p \in 1..i : a[p] = s[p]
  <2>1. a \in String /\ Len(a) = i /\ \A p \in 1..i : a[p] = s[0 + p]
    BY <1>1, Slice
  <2> QED
    BY <2>1
<1>3. b \in String /\ Len(b) = i - 1 /\ \A p \in 1..(i - 1) : b[p] = s[p]
  <2> DEFINE k == i - 1
  <2>1. k \in Nat /\ 0 + k <= Len(s)
    BY <1>1
  <2> HIDE DEF k
  <2>2. /\ sub(s, 0, k) \in String /\ Len(sub(s, 0, k)) = k
        /\ \A p \in 1..k : sub(s, 0, k)[p] = s[0 + p]
    BY <1>1, <2>1, Slice
  <2> QED
    BY <2>2 DEF k
<1>4. c \in String /\ Len(c) = 1 /\ c[1] = s[i]
  BY <1>1, OneCharacter
<1> HIDE DEF a, b, c
<1>5. /\ b \o c \in String /\ Len(b \o c) = Len(b) + Len(c)
      /\ \A p \in 1..Len(b) : (b \o c)[p] = b[p]
      /\ \A p \in 1..Len(c) : (b \o c)[Len(b) + p] = c[p]
  BY <1>3, <1>4, Joined
<1> DEFINE t == b \o c
<1>6. t \in String /\ Len(t) = i /\ \A p \in 1..(i - 1) : t[p] = s[p]
  BY <1>1, <1>3, <1>4, <1>5
<1>7. t[i] = s[i]
  <2>1. t[Len(b) + 1] = c[1] /\ Len(b) + 1 = i
    BY <1>1, <1>3, <1>4, <1>5, 1 \in 1..1
  <2> QED
    BY <1>4, <2>1
<1> HIDE DEF t
<1>8. \A p \in 1..i : t[p] = a[p]
  BY <1>1, <1>2, <1>6, <1>7
<1>9. t = a
  BY <1>1, <1>2, <1>6, <1>8, SameString
<1> QED
  BY <1>9 DEF a, b, c, t

\* or as the beginning of what is behind it.
LEMMA SplitAfter ==
  ASSUME NEW s \in String, NEW i \in 1..Len(s)
  PROVE  /\ substr(s, i - 1) = <<s[i]>> \o substr(s, i)
         /\ i = Len(s) => substr(s, i - 1) = <<s[i]>>
<1>1. Len(s) \in Nat /\ s[i] \in Int /\ i \in Nat /\ i - 1 \in Nat /\ i <= Len(s)
  BY Lengths
<1> DEFINE a == substr(s, i - 1)  b == substr(s, i)  c == <<s[i]>>
<1>2. a \in String /\ Len(a) = Len(s) - i + 1 /\ \A p \in 1..(Len(s) - i + 1) : a[p] = s[i - 1 + p]
  <2> DEFINE k == i - 1
  <2>1. k \in Nat /\ k <= Len(s) /\ Len(s) - k = Len(s) - i + 1
    BY <1>1
  <2> HIDE DEF k
  <2>2. /\ substr(s, k) \in String /\ Len(substr(s, k)) = Len(s) - k
        /\ \A p \in 1..(Len(s) - k) : substr(s, k)[p] = s[k + p]
    BY <1>1, <2>1, Rest
  <2> QED
    BY <2>1, <2>2 DEF k
<1>3. b \in String /\ Len(b) = Len(s) - i /\ \A p \in 1..(Len(s) - i) : b[p] = s[i + p]
  BY <1>1, Rest
<1>4. c \in String /\ Len(c) = 1 /\ c[1] = s[i]
  BY <1>1, OneCharacter
<1> HIDE DEF a, b, c
<1>5. /\ c \o b \in String /\ Len(c \o b) = Len(c) + Len(b)
      /\ \A p \in 1..Len(c) : (c \o b)[p] = c[p]
      /\ \A p \in 1..Len(b) : (c \o b)[Len(c) + p] = b[p]
  BY <1>3, <1>4, Joined
<1> DEFINE t == c \o b
<1>6. t \in String /\ Len(t) = Len(s) - i + 1 /\ t[1] = s[i]
  BY <1>1, <1>3, <1>4, <1>5, 1 \in 1..1
<1>7. \A p \in 1..(Len(s) - i) : t[1 + p] = s[i + p]
  BY <1>3, <1>4, <1>5
<1> HIDE DEF t
<1>8. ASSUME NEW p \in 1..(Len(s) - i + 1) PROVE t[p] = a[p]
  <2>1. a[p] = s[i - 1 + p]
    BY <1>2
  <2>2. CASE p = 1
    BY <1>1, <1>6, <2>1, <2>2
  <2>3. CASE p # 1
    <3>1. p - 1 \in 1..(Len(s) - i) /\ 1 + (p - 1) = p /\ i + (p - 1) = i - 1 + p
      BY <1>1, <2>3
    <3>2. t[1 + (p - 1)] = s[i + (p - 1)]
      BY <1>7, <3>1
    <3> QED
      BY <2>1, <3>1, <3>2
  <2> QED
    BY <2>2, <2>3
<1>9. t = a
  BY <1>1, <1>2, <1>6, <1>8, SameString
<1>10. ASSUME i = Len(s) PROVE a = c
  <2>1. Len(a) = 1 /\ a[1] = s[i]
    BY <1>1, <1>2, <1>10
  <2>2. \A p \in 1..1 : a[p] = c[p]
    BY <1>4, <2>1
  <2> QED
    BY <1>2, <1>4, <2>1, <2>2, SameString
<1> QED
  BY <1>9, <1>10 DEF a, b, c, t

(* The lists the turns make: the first n attributes, all but number n, all *)
(* with another number n, with one more as number n, and the first n with  *)
(* another number n.                                                       *)
First(list, n) == [m \in 1..n |-> list[m]]

Without(list, n) == [m \in 1..(Len(list) - 1) |-> IF m < n THEN list[m] ELSE list[m + 1]]

Replaced(list, n, a) == [m \in 1..Len(list) |-> IF m = n THEN a ELSE list[m]]

Inserted(list, n, a) ==
  [m \in 1..(Len(list) + 1) |-> IF m < n THEN list[m] ELSE IF m = n THEN a ELSE list[m - 1]]

With(list, n, a) == [m \in 1..n |-> IF m < n THEN list[m] ELSE a]

\* A function on 1..n is a list of length n.
LEMMA IsList ==
  ASSUME NEW n \in Nat, NEW f, f \in [1..n -> Attributes]
  PROVE  f \in Seq(Attributes) /\ Len(f) = n
<1>1. f \in Seq(Attributes)
  OBVIOUS
<1>2. Len(f) \in Nat /\ DOMAIN f = 1..Len(f) /\ DOMAIN f = 1..n
  BY <1>1, LenProperties
<1>3. Len(f) = n
  BY <1>2
<1> QED
  BY <1>1, <1>3

\* They are lists, of these lengths.
LEMMA ListsMade ==
  ASSUME NEW list \in Seq(Attributes), NEW n \in 1..Len(list), NEW a \in Attributes
  PROVE  /\ First(list, n - 1) \in Seq(Attributes) /\ Len(First(list, n - 1)) = n - 1
         /\ Without(list, n) \in Seq(Attributes) /\ Len(Without(list, n)) = Len(list) - 1
         /\ Replaced(list, n, a) \in Seq(Attributes) /\ Len(Replaced(list, n, a)) = Len(list)
         /\ With(list, n, a) \in Seq(Attributes) /\ Len(With(list, n, a)) = n
<1>1. /\ Len(list) \in Nat /\ n \in Nat /\ n - 1 \in Nat /\ Len(list) - 1 \in Nat
      /\ \A m \in 1..Len(list) : list[m] \in Attributes
  BY Element
<1>2. First(list, n - 1) \in [1..(n - 1) -> Attributes]
  BY <1>1 DEF First
<1>3. Without(list, n) \in [1..(Len(list) - 1) -> Attributes]
  BY <1>1 DEF Without
<1>4. Replaced(list, n, a) \in [1..Len(list) -> Attributes]
  BY <1>1 DEF Replaced
<1>5. With(list, n, a) \in [1..n -> Attributes]
  BY <1>1 DEF With
<1>6. First(list, n - 1) \in Seq(Attributes) /\ Len(First(list, n - 1)) = n - 1
  BY <1>1, <1>2, IsList
<1>7. Without(list, n) \in Seq(Attributes) /\ Len(Without(list, n)) = Len(list) - 1
  BY <1>1, <1>3, IsList
<1>8. Replaced(list, n, a) \in Seq(Attributes) /\ Len(Replaced(list, n, a)) = Len(list)
  BY <1>1, <1>4, IsList
<1>9. With(list, n, a) \in Seq(Attributes) /\ Len(With(list, n, a)) = n
  BY <1>1, <1>5, IsList
<1> QED
  BY <1>6, <1>7, <1>8, <1>9

\* So is a list with one attribute more.
LEMMA InsertedMade ==
  ASSUME NEW list \in Seq(Attributes), NEW n \in 1..(Len(list) + 1), NEW a \in Attributes
  PROVE  Inserted(list, n, a) \in Seq(Attributes) /\ Len(Inserted(list, n, a)) = Len(list) + 1
<1>1. /\ Len(list) \in Nat /\ n \in Nat /\ Len(list) + 1 \in Nat
      /\ \A m \in 1..Len(list) : list[m] \in Attributes
  BY Element, LenProperties
<1>2. Inserted(list, n, a) \in [1..(Len(list) + 1) -> Attributes]
  BY <1>1 DEF Inserted
<1> QED
  BY <1>1, <1>2, IsList

\* Each is a beginning that the rest of the old list follows.
LEMMA ListsJoin ==
  ASSUME NEW list \in Seq(Attributes), NEW n \in 1..Len(list), NEW a \in Attributes
  PROVE  /\ n < Len(list) => Joins(Without(list, n), First(list, n - 1), list, n + 1)
         /\ n < Len(list) => Joins(Replaced(list, n, a), With(list, n, a), list, n + 1)
         /\ Joins(Inserted(list, n, a), With(list, n, a), list, n)
<1>1. Len(list) \in Nat /\ n \in Nat /\ n <= Len(list) /\ 1 <= n /\ n \in 1..(Len(list) + 1)
  BY LenProperties
<1>2. /\ First(list, n - 1) \in Seq(Attributes) /\ Len(First(list, n - 1)) = n - 1
      /\ Without(list, n) \in Seq(Attributes) /\ Len(Without(list, n)) = Len(list) - 1
      /\ Replaced(list, n, a) \in Seq(Attributes) /\ Len(Replaced(list, n, a)) = Len(list)
      /\ With(list, n, a) \in Seq(Attributes) /\ Len(With(list, n, a)) = n
  BY ListsMade
<1>3. /\ Inserted(list, n, a) \in Seq(Attributes)
      /\ Len(Inserted(list, n, a)) = Len(list) + 1
  BY <1>1, InsertedMade
<1>4. ASSUME n < Len(list) PROVE Joins(Without(list, n), First(list, n - 1), list, n + 1)
  <2>1. \A i \in 1..(n - 1) : Without(list, n)[i] = First(list, n - 1)[i]
    BY <1>1 DEF Without, First
  <2>2. ASSUME NEW i \in (n + 1)..Len(list)
        PROVE  Without(list, n)[n - 1 + 1 + (i - (n + 1))] = list[i]
    <3>1. /\ n - 1 + 1 + (i - (n + 1)) = i - 1 /\ i - 1 \in 1..(Len(list) - 1)
          /\ ~(i - 1 < n) /\ i - 1 + 1 = i
      BY <1>1
    <3> QED
      BY <3>1 DEF Without
  <2>3. Len(list) - 1 = n - 1 + (Len(list) - (n + 1)) + 1
    BY <1>1
  <2> QED
    BY <1>2, <2>1, <2>2, <2>3 DEF Joins
<1>5. ASSUME n < Len(list) PROVE Joins(Replaced(list, n, a), With(list, n, a), list, n + 1)
  <2>1. \A i \in 1..n : Replaced(list, n, a)[i] = With(list, n, a)[i]
    BY <1>1 DEF Replaced, With
  <2>2. ASSUME NEW i \in (n + 1)..Len(list)
        PROVE  Replaced(list, n, a)[n + 1 + (i - (n + 1))] = list[i]
    <3>1. n + 1 + (i - (n + 1)) = i /\ i \in 1..Len(list) /\ i # n
      BY <1>1
    <3> QED
      BY <3>1 DEF Replaced
  <2>3. Len(list) = n + (Len(list) - (n + 1)) + 1
    BY <1>1
  <2> QED
    BY <1>2, <2>1, <2>2, <2>3 DEF Joins
<1>6. Joins(Inserted(list, n, a), With(list, n, a), list, n)
  <2>1. \A i \in 1..n : Inserted(list, n, a)[i] = With(list, n, a)[i]
    BY <1>1 DEF Inserted, With
  <2>2. ASSUME NEW i \in n..Len(list)
        PROVE  Inserted(list, n, a)[n + 1 + (i - n)] = list[i]
    <3>1. /\ n + 1 + (i - n) = i + 1 /\ i + 1 \in 1..(Len(list) + 1)
          /\ ~(i + 1 < n) /\ i + 1 # n /\ i + 1 - 1 = i
      BY <1>1
    <3> QED
      BY <3>1 DEF Inserted
  <2>3. Len(list) + 1 = n + (Len(list) - n) + 1
    BY <1>1
  <2> QED
    BY <1>2, <1>3, <2>1, <2>2, <2>3 DEF Joins
<1> QED
  BY <1>4, <1>5, <1>6

-----------------------------------------------------------------------------
(* The symbol has the attributes of the list, and attribute n begins at    *)
(* position i.                                                             *)
HasText(s, h, list, n, i) ==
  \E pos : Closed(s, h, list, pos) /\ n \in 1..(Len(list) + 1) /\ i = pos[n]

\* A turn reads attribute n and moves to the next; behind the last one it ends.
LEMMA TurnReads ==
  ASSUME NEW s, NEW h, NEW list, NEW n, NEW i, HasText(s, h, list, n, i)
  PROVE  /\ s \in String /\ h \in String /\ i \in Position /\ list \in Seq(Attributes)
         /\ Len(list) \in Nat /\ n \in 1..(Len(list) + 1)
         /\ n = Len(list) + 1 => Ended(s, i)
         /\ n \in 1..Len(list) =>
              /\ ~Ended(s, i)
              /\ getKeyInternal(s, i) = list[n][1]
              /\ getValueInternal(s, i, getNextKeyInternal(s, i)) = list[n][2]
              /\ HasText(s, h, list, n + 1, getNextKeyInternal(s, i))
<1>1. PICK pos : Closed(s, h, list, pos) /\ n \in 1..(Len(list) + 1) /\ i = pos[n]
  BY DEF HasText
<1>2. Placed(s, Len(h), list, pos) /\ h \in String /\ Written(s, Len(h), list, pos)
  BY <1>1, EndOf DEF Closed
<1>3. /\ s \in String /\ i \in Position /\ list \in Seq(Attributes) /\ Len(list) \in Nat
      /\ Len(s) \in Nat
  BY <1>1, <1>2, Bounds
<1>4. ASSUME n = Len(list) + 1 PROVE Ended(s, i)
  <2>1. i = IF list = <<>> THEN Len(s) + 1 ELSE Len(s)
    BY <1>1, <1>4, EndOf
  <2> QED
    BY <1>3, <2>1 DEF Ended
<1>5. ASSUME n \in 1..Len(list)
      PROVE  /\ ~Ended(s, i)
             /\ getKeyInternal(s, i) = list[n][1]
             /\ getValueInternal(s, i, getNextKeyInternal(s, i)) = list[n][2]
             /\ HasText(s, h, list, n + 1, getNextKeyInternal(s, i))
  <2>1. /\ ~Ended(s, pos[n])
        /\ getKeyInternal(s, pos[n]) = list[n][1]
        /\ getNextKeyInternal(s, pos[n]) = pos[n + 1]
        /\ getValueInternal(s, pos[n], pos[n + 1]) = list[n][2]
    BY <1>2, <1>5, Read
  <2>2. n + 1 \in 1..(Len(list) + 1)
    BY <1>3, <1>5
  <2>3. HasText(s, h, list, n + 1, pos[n + 1])
    BY <1>1, <2>2 DEF HasText
  <2> QED
    BY <1>1, <2>1, <2>3
<1> QED
  BY <1>1, <1>2, <1>3, <1>4, <1>5

\* Dropping the attribute takes it out of the list, whichever it is.
LEMMA TurnDrops ==
  ASSUME NEW s, NEW h, NEW list, NEW n, NEW i, HasText(s, h, list, n, i), n \in 1..Len(list)
  PROVE  HasText(dropKeyAndValueInternal(s, Len(h), i, getNextKeyInternal(s, i)),
                 h, Without(list, n), n, i)
<1> DEFINE r == dropKeyAndValueInternal(s, Len(h), i, getNextKeyInternal(s, i))
           front == sub(s, 0, i - 1)
<1>1. PICK pos : Closed(s, h, list, pos) /\ i = pos[n]
  BY DEF HasText
<1>2. /\ Placed(s, Len(h), list, pos) /\ h \in String /\ Written(s, Len(h), list, pos)
      /\ pos[1] = Len(h) + 1
  BY <1>1, EndOf DEF Closed, Placed
<1>3. /\ s \in String /\ Len(s) \in Nat /\ Len(h) \in Nat
      /\ list \in Seq(Attributes) /\ Len(list) \in Nat /\ n \in Nat /\ 1 <= n /\ n <= Len(list)
      /\ n - 1 \in 0..Len(list) /\ n - 1 + 1 = n
  BY <1>2, Bounds
<1>4. getNextKeyInternal(s, i) = pos[n + 1] /\ s[Len(s)] = CLOSE
  <2>1. list # <<>>
    BY <1>2, Within
  <2> QED
    BY <1>1, <1>2, <2>1, Read DEF Written
<1>5. /\ i \in Nat /\ pos[n + 1] \in Nat /\ i + 2 <= pos[n + 1] /\ pos[n + 1] <= Len(s)
      /\ Len(s) = pos[Len(list) + 1]
  BY <1>1, <1>2, Within
<1>6. i >= 1 /\ (i = Len(h) + 1 <=> n = 1) /\ (pos[n + 1] = Len(s) <=> n = Len(list))
  <2>1. 1 \in 1..(Len(list) + 1) /\ n \in 1..(Len(list) + 1)
    BY <1>3
  <2>2. Len(h) + 1 <= i
    BY <1>1, <1>2, <2>1, Bounds
  <2>3. n # 1 => Len(h) + 1 + 2 <= i
    <3>1. n # 1 => 1 < n
      BY <1>3
    <3> QED
      BY <1>1, <1>2, <2>1, <3>1, Increasing
  <2>4. n # Len(list) => pos[n + 1] + 2 <= Len(s)
    <3>1. n # Len(list) => /\ n + 1 \in 1..(Len(list) + 1) /\ Len(list) + 1 \in 1..(Len(list) + 1)
                           /\ n + 1 < Len(list) + 1
      BY <1>3
    <3> QED
      BY <1>2, <1>5, <3>1, Increasing
  <2> QED
    BY <1>1, <1>2, <1>3, <1>5, <2>2, <2>3, <2>4
<1>7. PICK a \in Attributes : a = list[n]
  BY <1>3, Element
<1>8. /\ First(list, n - 1) \in Seq(Attributes) /\ Len(First(list, n - 1)) = n - 1
      /\ Without(list, n) \in Seq(Attributes) /\ Len(Without(list, n)) = Len(list) - 1
  BY <1>3, <1>7, ListsMade
<1>9. /\ \E p : Unclosed(front, h, First(list, n - 1), p)
      /\ front \in String /\ Len(front) = i - 1
  <2>1. PICK k : k = n - 1
    OBVIOUS
  <2>2. k \in 0..Len(list) /\ k + 1 = n
    BY <1>3, <2>1
  <2>3. /\ First(list, k) \in Seq(Attributes) /\ Len(First(list, k)) = k
        /\ \A m \in 1..k : First(list, k)[m] = list[m]
    BY <1>8, <2>1 DEF First
  <2>4. front = sub(s, 0, pos[k + 1] - 1)
    BY <1>1, <2>2
  <2> HIDE DEF front
  <2>5. \E p : Unclosed(front, h, First(list, k), p)
    BY <1>1, <2>2, <2>3, <2>4, Truncate
  <2>6. front \in String
    BY <1>1, <2>2, <2>3, <2>4, Truncate
  <2>7. Len(front) = pos[k + 1] - 1
    BY <1>1, <2>2, <2>3, <2>4, Truncate
  <2> QED
    BY <1>1, <2>1, <2>2, <2>5, <2>6, <2>7
<1>10. PICK p1 : Unclosed(front, h, First(list, n - 1), p1)
  BY <1>9
<1>11. p1[n] = i
  <2>1. Len(front) = p1[Len(First(list, n - 1)) + 1] - 1 /\ Placed(front, Len(h), First(list, n - 1), p1)
    BY <1>10 DEF Unclosed
  <2>2. p1[n] \in Nat
    BY <1>3, <1>8, <2>1, Bounds, n \in 1..n
  <2>3. Len(First(list, n - 1)) + 1 = n
    BY ONLY <1>3, <1>8
  <2>4. Len(front) = p1[n] - 1 /\ Len(front) = i - 1
    BY ONLY <1>9, <2>1, <2>3
  <2> QED
    BY ONLY <1>5, <2>2, <2>4
<1> HIDE DEF front
<1>12. CASE n = Len(list) /\ n = 1
  <2>1. r = front
    <3>1. r = sub(s, 0, Len(h))
      BY <1>4, <1>6, <1>12 DEF dropKeyAndValueInternal
    <3> QED
      BY <1>3, <1>6, <1>12, <3>1 DEF front
  <2>2. First(list, n - 1) = <<>> /\ Without(list, n) = <<>>
    BY <1>3, <1>8, <1>12, EmptySeq
  <2>3. Closed(front, h, <<>>, p1)
    <3>1. Unclosed(front, h, <<>>, p1)
      BY <1>10, <2>2
    <3>2. Len(front) = Len(h)
      BY <1>3, <1>6, <1>9, <1>12
    <3> QED
      BY <3>1, <3>2 DEF Closed, Unclosed, Written
  <2>4. n \in 1..(Len(Without(list, n)) + 1)
    BY <1>3, <1>8, <1>12
  <2> HIDE DEF r
  <2> QED
    BY <1>11, <2>1, <2>2, <2>3, <2>4 DEF HasText, r
<1>13. CASE n = Len(list) /\ n # 1
  <2>1. r = front \o <<CLOSE>>
    <3>1. r = sub(s, 0, i - 1) \o substr(s, Len(s) - 1)
      BY <1>4, <1>6, <1>13 DEF dropKeyAndValueInternal
    <3>2. substr(s, Len(s) - 1) = <<CLOSE>>
      BY <1>3, <1>4, <1>5, <1>6, SplitAfter, Len(s) \in 1..Len(s)
    <3> QED
      BY <3>1, <3>2 DEF front
  <2>2. First(list, n - 1) = Without(list, n)
    BY <1>3, <1>13 DEF First, Without
  <2>3. Without(list, n) # <<>>
    BY <1>3, <1>8, <1>13, EmptySeq
  <2>4. Unclosed(front, h, Without(list, n), p1)
    BY <1>10, <2>2
  <2>5. Closed(front \o <<CLOSE>>, h, Without(list, n), p1)
    BY <2>3, <2>4, Close
  <2>6. n \in 1..(Len(Without(list, n)) + 1)
    BY <1>3, <1>8, <1>13
  <2> HIDE DEF r
  <2> QED
    BY <1>11, <2>1, <2>5, <2>6 DEF HasText, r
<1>14. CASE n # Len(list)
  <2>1. r = Chain(front, Separator(First(list, n - 1)), substr(s, pos[n + 1]))
    <3>1. r = sub(s, 0, i) \o substr(s, pos[n + 1])
      BY <1>4, <1>6, <1>14 DEF dropKeyAndValueInternal
    <3>2. sub(s, 0, i) = front \o <<s[i]>>
      BY <1>3, <1>5, <1>6, SplitBefore, i \in 1..Len(s) DEF front
    <3>3. s[i] = IF n = 1 THEN OPEN ELSE COMMA
      BY <1>1, <1>2 DEF Placed, InPlace
    <3>4. s[i] = Separator(First(list, n - 1))
      BY <1>3, <1>8, <3>3, EmptySeq DEF Separator
    <3> QED
      BY <3>1, <3>2, <3>4, Zenon DEF Chain
  <2>2. Joins(Without(list, n), First(list, n - 1), list, n + 1)
    BY <1>3, <1>7, <1>14, ListsJoin
  <2>3. n + 1 \in 1..Len(list)
    BY <1>3, <1>14
  <2> HIDE DEF r
  <2>4. PICK p2 : /\ Closed(r, h, Without(list, n), p2)
                  /\ p2[Len(First(list, n - 1)) + 1] = Len(front) + 1
    BY <1>1, <1>10, <2>1, <2>2, <2>3, Tailed
  <2>5. p2[n] = i /\ n \in 1..(Len(Without(list, n)) + 1)
    BY <1>3, <1>5, <1>8, <1>9, <1>14, <2>4
  <2> QED
    BY <2>4, <2>5 DEF HasText, r
<1> QED
  BY <1>12, <1>13, <1>14

-----------------------------------------------------------------------------
(* The symbol up to position i, and the attribute.                         *)
Upto(s, i, key, value) == sub(s, 0, i) \o Attribute(key, value)

\* A key and a value are an attribute.
LEMMA Pairs ==
  ASSUME NEW key \in Keys, NEW value \in Values
  PROVE  <<key, value>> \in Attributes
BY DEF Attributes

\* Where the loop goes on behind the attribute.
LEMMA UptoLength ==
  ASSUME NEW s \in String, NEW i \in Nat, i <= Len(s), NEW key \in Keys, NEW value \in Values
  PROVE  Len(Upto(s, i, key, value)) + 1 = i + Len(key) + Len(value) + 2
<1>1. /\ Attribute(key, value) \in String
      /\ Len(Attribute(key, value)) = Len(key) + Len(value) + 1
  BY AttributeText
<1>2. Len(key) \in Nat /\ Len(value) \in Nat /\ 0 \in Nat /\ 0 + i <= Len(s)
  BY Constants, Lengths
<1>3. sub(s, 0, i) \in String /\ Len(sub(s, 0, i)) = i
  BY <1>2, Slice
<1>4. Len(Upto(s, i, key, value)) = Len(sub(s, 0, i)) + Len(Attribute(key, value))
  BY <1>1, <1>3, JoinedLength DEF Upto
<1> QED
  BY <1>1, <1>2, <1>3, <1>4

\* What is written in place of attribute n shows the list up to it.
LEMMA Rewrites ==
  ASSUME NEW s, NEW h, NEW list, NEW pos, Closed(s, h, list, pos), NEW n \in 1..Len(list),
         NEW key \in Keys, NEW value \in Values, NEW t, t = Upto(s, pos[n], key, value)
  PROVE  \E p : Unclosed(t, h, With(list, n, <<key, value>>), p)
<1> DEFINE front == sub(s, 0, pos[n] - 1)
           a == <<key, value>>
<1>1. /\ Placed(s, Len(h), list, pos) /\ h \in String /\ Written(s, Len(h), list, pos)
      /\ a \in Attributes
  BY EndOf, Pairs DEF Closed
<1> HIDE DEF a
<1>2. /\ s \in String /\ Len(s) \in Nat /\ Len(h) \in Nat
      /\ list \in Seq(Attributes) /\ Len(list) \in Nat /\ n \in Nat /\ 1 <= n /\ n <= Len(list)
      /\ pos[n] \in Nat /\ pos[n] \in 1..Len(s)
  <2>1. /\ s \in String /\ Len(s) \in Nat /\ Len(h) \in Nat
        /\ list \in Seq(Attributes) /\ Len(list) \in Nat
    BY <1>1, Bounds
  <2>2. n \in 1..(Len(list) + 1) /\ n \in Nat /\ 1 <= n /\ n <= Len(list)
    BY <2>1
  <2>3. /\ pos[n] \in Nat /\ pos[n + 1] \in Nat /\ pos[n] + 2 <= pos[n + 1]
        /\ pos[n + 1] <= Len(s)
    BY <1>1, Within
  <2>4. pos[n] >= 1
    BY <1>1, <2>1, <2>2, Bounds DEF Position
  <2> QED
    BY <2>1, <2>2, <2>3, <2>4
<1>3. PICK k : k = n - 1
  OBVIOUS
<1>4. k \in 0..Len(list) /\ k + 1 = n
  BY <1>2, <1>3
<1>5. /\ First(list, k) \in Seq(Attributes) /\ Len(First(list, k)) = k
      /\ With(list, n, a) \in Seq(Attributes) /\ Len(With(list, n, a)) = n
  BY <1>1, <1>2, <1>3, ListsMade
<1>6. \A m \in 1..k : First(list, k)[m] = list[m] /\ With(list, n, a)[m] = list[m]
  BY <1>2, <1>4 DEF First, With
<1>7. With(list, n, a)[n] = a
  BY <1>2 DEF With
<1>8. front = sub(s, 0, pos[k + 1] - 1)
  BY <1>4
<1> HIDE DEF front
<1>9. PICK p : Unclosed(front, h, First(list, k), p)
  BY <1>4, <1>5, <1>6, <1>8, Truncate
<1>11. t = Chain(front, Separator(First(list, k)), Attribute(key, value))
  <2>1. sub(s, 0, pos[n]) = front \o <<s[pos[n]]>>
    BY <1>2, SplitBefore DEF front
  <2>2. s[pos[n]] = IF n = 1 THEN OPEN ELSE COMMA
    BY <1>1 DEF Placed, InPlace
  <2>3. s[pos[n]] = Separator(First(list, k))
    BY <1>2, <1>4, <1>5, <2>2, EmptySeq DEF Separator
  <2> QED
    BY <2>1, <2>3, Zenon DEF Chain, Upto
<1>12. /\ Len(With(list, n, a)) = Len(First(list, k)) + 1
       /\ \A m \in 1..Len(First(list, k)) : With(list, n, a)[m] = First(list, k)[m]
       /\ With(list, n, a)[Len(First(list, k)) + 1] = <<key, value>>
  BY <1>4, <1>5, <1>6, <1>7 DEF a
<1>13. \E p2 : Unclosed(t, h, With(list, n, a), p2)
  BY <1>5, <1>9, <1>11, <1>12, Extend
<1> QED
  BY <1>13 DEF a

\* The place of the next separator is behind the end.
LEMMA LastSeparator ==
  ASSUME NEW s, NEW h, NEW list, NEW pos, Unclosed(s, h, list, pos)
  PROVE  pos[Len(list) + 1] = Len(s) + 1
<1>1. Placed(s, Len(h), list, pos) /\ Len(s) = pos[Len(list) + 1] - 1
  BY DEF Unclosed
<1>2. Len(list) \in Nat /\ Len(s) \in Nat
  BY <1>1, Bounds
<1>3. pos[Len(list) + 1] \in Nat
  BY <1>1, <1>2, Bounds, Len(list) + 1 \in 1..(Len(list) + 1)
<1> QED
  BY <1>1, <1>2, <1>3

\* Writing the value of the key replaces attribute n in the list.
LEMMA TurnReplaces ==
  ASSUME NEW s, NEW h, NEW list, NEW n, NEW i, HasText(s, h, list, n, i), n \in 1..Len(list),
         NEW key \in Keys, NEW value \in Values
  PROVE  HasText(Upto(s, i, key, value) \o substr(s, getNextKeyInternal(s, i) - 1),
                 h, Replaced(list, n, <<key, value>>), n + 1, i + Len(key) + Len(value) + 2)
<1> DEFINE t == Upto(s, i, key, value)
           r == t \o substr(s, getNextKeyInternal(s, i) - 1)
           a == <<key, value>>
<1>1. PICK pos : Closed(s, h, list, pos) /\ i = pos[n]
  BY DEF HasText
<1>2. /\ Placed(s, Len(h), list, pos) /\ h \in String /\ Written(s, Len(h), list, pos)
      /\ a \in Attributes
  BY <1>1, EndOf, Pairs DEF Closed
<1>3. /\ s \in String /\ Len(s) \in Nat
      /\ list \in Seq(Attributes) /\ Len(list) \in Nat /\ n \in Nat /\ 1 <= n /\ n <= Len(list)
      /\ Len(key) \in Nat /\ Len(value) \in Nat
  BY <1>2, Bounds, Constants, Lengths
<1>4. getNextKeyInternal(s, i) = pos[n + 1]
  BY <1>1, <1>2, Read
<1>5. /\ i \in Nat /\ pos[n + 1] \in Nat /\ pos[n + 1] \in 1..Len(s)
      /\ Len(s) = pos[Len(list) + 1] /\ list # <<>>
  <2>1. /\ i \in Nat /\ pos[n + 1] \in Nat /\ i + 2 <= pos[n + 1] /\ pos[n + 1] <= Len(s)
    BY <1>1, <1>2, Within
  <2>2. Len(s) = pos[Len(list) + 1] /\ list # <<>>
    BY <1>2, Within
  <2> QED
    BY <1>3, <2>1, <2>2
<1>6. /\ With(list, n, a) \in Seq(Attributes) /\ Len(With(list, n, a)) = n
      /\ Replaced(list, n, a) \in Seq(Attributes) /\ Len(Replaced(list, n, a)) = Len(list)
  BY <1>2, <1>3, ListsMade
<1> HIDE DEF a
<1>7. PICK p : Unclosed(t, h, With(list, n, a), p)
  BY <1>1, Rewrites DEF a
<1>9. Len(t) + 1 = i + Len(key) + Len(value) + 2
  <2>1. i <= Len(s)
    <3>1. pos[n] + 2 <= pos[n + 1] /\ pos[n + 1] <= Len(s) /\ pos[n] \in Nat /\ pos[n + 1] \in Nat
      BY <1>2, Within
    <3> QED
      BY <1>1, <1>3, <3>1
  <2>2. s \in String /\ i \in Nat
    BY <1>3, <1>5
  <2> QED
    BY ONLY <2>1, <2>2, UptoLength, key \in Keys, value \in Values
<1> HIDE DEF t
<1>10. t \in String
  BY <1>7 DEF Unclosed, Placed, Typed
<1>11. With(list, n, a) # <<>>
  BY <1>3, <1>6, EmptySeq
<1>12. CASE n = Len(list)
  <2>1. r = t \o <<CLOSE>>
    <3>1. s[Len(s)] = CLOSE
      BY <1>2, <1>5 DEF Written
    <3>2. substr(s, Len(s) - 1) = <<CLOSE>>
      BY <1>3, <1>5, <3>1, SplitAfter, Len(s) \in 1..Len(s)
    <3> QED
      BY <1>4, <1>5, <1>12, <3>2
  <2>2. With(list, n, a) = Replaced(list, n, a)
    BY <1>3, <1>12 DEF With, Replaced
  <2>3. Closed(t \o <<CLOSE>>, h, Replaced(list, n, a), p)
    BY <1>7, <1>11, <2>2, Close
  <2>4. p[n + 1] = Len(t) + 1
    BY <1>6, <1>7, LastSeparator
  <2>5. n + 1 \in 1..(Len(Replaced(list, n, a)) + 1)
    BY <1>3, <1>6
  <2> HIDE DEF r
  <2> QED
    BY <1>9, <2>1, <2>3, <2>4, <2>5 DEF HasText, r, t, a
<1>13. CASE n # Len(list)
  <2>1. n + 1 \in 1..Len(list)
    BY <1>3, <1>13
  <2>2. r = Chain(t, Separator(With(list, n, a)), substr(s, pos[n + 1]))
    <3>1. s[pos[n + 1]] = COMMA
      BY <1>2, <1>3, <2>1 DEF Placed, InPlace
    <3>2. substr(s, pos[n + 1] - 1) = <<COMMA>> \o substr(s, pos[n + 1])
      BY <1>3, <1>5, <3>1, SplitAfter
    <3>3. <<COMMA>> \in String /\ substr(s, pos[n + 1]) \in String
      BY <1>3, <1>5, OneCharacter, Characters, Rest
    <3>4. t \o (<<COMMA>> \o substr(s, pos[n + 1])) = t \o <<COMMA>> \o substr(s, pos[n + 1])
      BY ONLY <1>10, <3>3, JoinedInAnyGrouping
    <3>5. Separator(With(list, n, a)) = COMMA
      BY <1>11 DEF Separator
    <3> QED
      BY <1>4, <3>2, <3>4, <3>5, Zenon DEF Chain
  <2>3. Joins(Replaced(list, n, a), With(list, n, a), list, n + 1)
    BY <1>2, <1>3, <1>13, ListsJoin
  <2> HIDE DEF r
  <2>4. PICK p2 : /\ Closed(r, h, Replaced(list, n, a), p2)
                  /\ p2[Len(With(list, n, a)) + 1] = Len(t) + 1
    BY <1>1, <1>7, <2>1, <2>2, <2>3, Tailed
  <2>5. p2[n + 1] = i + Len(key) + Len(value) + 2 /\ n + 1 \in 1..(Len(Replaced(list, n, a)) + 1)
    BY <1>3, <1>6, <1>9, <2>4
  <2> QED
    BY <2>4, <2>5 DEF HasText, r, t, a
<1> QED
  BY <1>12, <1>13

\* Writing an attribute before attribute n inserts it in the list.
LEMMA TurnInserts ==
  ASSUME NEW s, NEW h, NEW list, NEW n, NEW i, HasText(s, h, list, n, i), n \in 1..Len(list),
         NEW key \in Keys, NEW value \in Values
  PROVE  HasText(Upto(s, i, key, value) \o <<COMMA>> \o substr(s, i),
                 h, Inserted(list, n, <<key, value>>), n + 1, i + Len(key) + Len(value) + 2)
<1> DEFINE t == Upto(s, i, key, value)
           r == t \o <<COMMA>> \o substr(s, i)
           a == <<key, value>>
<1>1. PICK pos : Closed(s, h, list, pos) /\ i = pos[n]
  BY DEF HasText
<1>2. /\ Placed(s, Len(h), list, pos) /\ h \in String /\ Written(s, Len(h), list, pos)
      /\ a \in Attributes
  BY <1>1, EndOf, Pairs DEF Closed
<1>3. /\ s \in String /\ Len(s) \in Nat
      /\ list \in Seq(Attributes) /\ Len(list) \in Nat /\ n \in Nat /\ 1 <= n /\ n <= Len(list)
      /\ Len(key) \in Nat /\ Len(value) \in Nat
  BY <1>2, Bounds, Constants, Lengths
<1>4. i \in Nat
  BY <1>1, <1>2, Within
<1>6. With(list, n, a) \in Seq(Attributes) /\ Len(With(list, n, a)) = n
  BY <1>2, <1>3, ListsMade
<1>6a. Len(Inserted(list, n, a)) = Len(list) + 1
  BY <1>2, <1>3, InsertedMade, n \in 1..(Len(list) + 1)
<1> HIDE DEF a
<1>7. PICK p : Unclosed(t, h, With(list, n, a), p)
  BY <1>1, Rewrites DEF a
<1>9. Len(t) + 1 = i + Len(key) + Len(value) + 2
  <2>1. i <= Len(s)
    <3>1. pos[n] + 2 <= pos[n + 1] /\ pos[n + 1] <= Len(s) /\ pos[n] \in Nat /\ pos[n + 1] \in Nat
      BY <1>2, Within
    <3> QED
      BY <1>1, <1>3, <3>1
  <2>2. s \in String /\ i \in Nat
    BY <1>3, <1>4
  <2> QED
    BY ONLY <2>1, <2>2, UptoLength, key \in Keys, value \in Values
<1> HIDE DEF t
<1>11. Separator(With(list, n, a)) = COMMA
  BY <1>3, <1>6, EmptySeq DEF Separator
<1>12. r = Chain(t, Separator(With(list, n, a)), substr(s, pos[n]))
  BY <1>1, <1>11, Zenon DEF Chain
<1>13. Joins(Inserted(list, n, a), With(list, n, a), list, n)
  BY <1>2, <1>3, ListsJoin
<1> HIDE DEF r
<1>14. PICK p2 : /\ Closed(r, h, Inserted(list, n, a), p2)
                 /\ p2[Len(With(list, n, a)) + 1] = Len(t) + 1
  BY <1>1, <1>7, <1>12, <1>13, Tailed
<1>15. p2[n + 1] = i + Len(key) + Len(value) + 2 /\ n + 1 \in 1..(Len(Inserted(list, n, a)) + 1)
  BY <1>3, <1>6, <1>6a, <1>9, <1>14
<1> QED
  BY <1>14, <1>15 DEF HasText, r, t, a

\* Writing one before the closing bracket puts it at the end of the list.
LEMMA TurnAppends ==
  ASSUME NEW s, NEW h, NEW list, NEW i, HasText(s, h, list, Len(list) + 1, i), list # <<>>,
         NEW key \in Keys, NEW value \in Values
  PROVE  \E j : HasText(appendAttribute(s, i, key, value), h,
                        Inserted(list, Len(list) + 1, <<key, value>>), 1, j)
<1> DEFINE front == sub(s, 0, i - 1)
           N == Len(list)
           r == appendAttribute(s, i, key, value)
           a == <<key, value>>
           t == Chain(front, Separator(list), Attribute(key, value))
<1>1. PICK pos : Closed(s, h, list, pos) /\ i = pos[Len(list) + 1]
  BY DEF HasText
<1>2. /\ Placed(s, Len(h), list, pos) /\ h \in String /\ Written(s, Len(h), list, pos)
      /\ a \in Attributes /\ i = Len(s)
  BY <1>1, EndOf, Pairs DEF Closed
<1>3. /\ s \in String /\ Len(s) \in Nat
      /\ list \in Seq(Attributes) /\ Len(list) \in Nat
      /\ Len(key) \in Nat /\ Len(value) \in Nat
  BY <1>2, Bounds, Constants, Lengths
<1>4. N # 0 /\ N \in Nat
  BY <1>3, EmptySeq
<1>5. s[i] = CLOSE /\ i \in 1..Len(s)
  <2>1. s[i] = CLOSE
    BY <1>2 DEF Written
  <2>2. pos[N + 1] \in Position
    BY <1>2, <1>3, Bounds, N + 1 \in 1..(N + 1)
  <2> QED
    BY <1>1, <1>2, <1>3, <2>1, <2>2 DEF Position
<1>6. PICK p : Unclosed(front, h, list, p)
  <2>1. front = sub(s, 0, pos[Len(list) + 1] - 1)
    BY <1>1
  <2> HIDE DEF front
  <2>2. Len(list) \in 0..Len(list)
    BY <1>3
  <2> QED
    BY <1>1, <1>3, <2>1, <2>2, Truncate
<1>7. /\ Inserted(list, N + 1, a) \in Seq(Attributes)
      /\ Len(Inserted(list, N + 1, a)) = Len(list) + 1
      /\ \A m \in 1..Len(list) : Inserted(list, N + 1, a)[m] = list[m]
      /\ Inserted(list, N + 1, a)[Len(list) + 1] = a
  <2>1. /\ Inserted(list, N + 1, a) \in Seq(Attributes)
        /\ Len(Inserted(list, N + 1, a)) = Len(list) + 1
    BY <1>2, <1>3, InsertedMade, Len(list) + 1 \in 1..(Len(list) + 1)
  <2>2. ASSUME NEW m \in 1..Len(list) PROVE Inserted(list, N + 1, a)[m] = list[m]
    <3>1. m \in 1..(Len(list) + 1) /\ m < N + 1
      BY <1>3
    <3> QED
      BY <3>1 DEF Inserted
  <2>3. Inserted(list, N + 1, a)[Len(list) + 1] = a
    <3>1. /\ Len(list) + 1 \in 1..(Len(list) + 1) /\ ~(Len(list) + 1 < N + 1)
          /\ Len(list) + 1 = N + 1
      BY <1>3
    <3> QED
      BY <3>1 DEF Inserted
  <2> QED
    BY <2>1, <2>2, <2>3
<1> HIDE DEF front
<1>8. PICK p2 : Unclosed(t, h, Inserted(list, N + 1, a), p2)
  <2>1. t = Chain(front, Separator(list), Attribute(key, value))
    OBVIOUS
  <2>2. Inserted(list, N + 1, a)[Len(list) + 1] = <<key, value>>
    BY <1>7
  <2> HIDE DEF t, a
  <2> QED
    BY <1>6, <1>7, <2>1, <2>2, Extend
<1>9. r = t \o <<CLOSE>>
  <2>1. substr(s, i - 1) = <<CLOSE>>
    BY <1>2, <1>3, <1>5, SplitAfter
  <2>2. Separator(list) = COMMA
    BY DEF Separator
  <2> QED
    BY <2>1, <2>2, Zenon DEF appendAttribute, Chain, front
<1>10. Closed(r, h, Inserted(list, N + 1, a), p2)
  <2>1. Inserted(list, N + 1, a) # <<>>
    BY <1>3, <1>7, EmptySeq
  <2> HIDE DEF t, a
  <2> QED
    BY <1>8, <1>9, <2>1, Close
<1>11. 1 \in 1..(Len(Inserted(list, N + 1, a)) + 1)
  BY <1>3, <1>7
<1> HIDE DEF a, r, t
<1> QED
  BY <1>10, <1>11 DEF HasText, a, r

-----------------------------------------------------------------------------
(* The loops that change a symbol end, too.                                *)

\* The characters behind position i.
Left(s, i) == IF i <= Len(s) THEN Len(s) - i ELSE 0

\* Their number.
LEMMA LeftIs ==
  ASSUME NEW s \in String, NEW i \in Position
  PROVE  Left(s, i) \in Nat
BY Lengths DEF Left, Position

\* Fewer are left when an attribute is dropped,
LEMMA DropFalls ==
  ASSUME NEW s \in String, NEW i \in Position, NEW length \in Nat, ~Ended(s, i)
  PROVE  LET r == dropKeyAndValueInternal(s, length, i, getNextKeyInternal(s, i)) IN
         r \in String /\ Left(r, i) < Left(s, i)
<1>1. i \in Nat /\ Len(s) \in Nat
  BY Lengths DEF Position
<1>2. PICK j \in Nat : j = getNextKeyInternal(s, i) /\ i < j /\ j <= Len(s)
  BY <1>1, NextKey
<1>3. PICK r : r = dropKeyAndValueInternal(s, length, i, j)
  OBVIOUS
<1>4. /\ r \in String
      /\ Len(r) = IF j = Len(s) THEN IF i = length + 1 THEN length ELSE i ELSE i + (Len(s) - j)
  BY <1>2, <1>3, Dropped
<1>5. Left(r, i) < Left(s, i)
  BY <1>1, <1>2, <1>4 DEF Left
<1> QED
  BY <1>2, <1>3, <1>4, <1>5

\* and when the loop moves on.
LEMMA StepFalls ==
  ASSUME NEW s \in String, NEW i \in Position, ~Ended(s, i)
  PROVE  /\ getNextKeyInternal(s, i) \in Position
         /\ Left(s, getNextKeyInternal(s, i)) < Left(s, i)
<1>1. i \in Nat /\ Len(s) \in Nat
  BY Lengths DEF Position
<1>2. PICK j \in Nat : j = getNextKeyInternal(s, i) /\ i < j /\ j <= Len(s)
  BY <1>1, NextKey
<1>3. Left(s, j) < Left(s, i) /\ j \in Position
  BY <1>1, <1>2 DEF Left, Position
<1> QED
  BY <1>2, <1>3

\* What the loop of removeAttribute carries from turn to turn.
Places == String \X Position

\* Its equation.
RemoveLoop(loop, length, key) ==
  loop = [at \in Places |->
            IF Ended(at[1], at[2]) THEN at[1]
            ELSE loop[removeTurn(at[1], length, at[2], key)]]

\* It has a solution: removeAttribute returns what the loop does.
LEMMA RemoveLoops ==
  ASSUME NEW s, NEW length \in Nat, NEW key
  PROVE  \E loop :
           /\ RemoveLoop(loop, length, key)
           /\ removeAttributeInternal(s, length, key) =
                IF length = Len(s) THEN s ELSE loop[<<s, length + 1>>]
<1> DEFINE over(at) == Ended(at[1], at[2])
           stop == {at \in Places : over(at)}
           result == [at \in Places |-> at[1]]
           step == [at \in Places |->
                      IF over(at) THEN at ELSE removeTurn(at[1], length, at[2], key)]
           G == [p \in Places \X String |-> p[2]]
           measure == [at \in Places |-> Left(at[1], at[2])]
<1>1. ASSUME NEW at \in Places, ~over(at)
      PROVE  /\ removeTurn(at[1], length, at[2], key) \in Places
             /\ Left(removeTurn(at[1], length, at[2], key)[1],
                     removeTurn(at[1], length, at[2], key)[2]) < Left(at[1], at[2])
  <2>1. PICK t \in String, i \in Position : at = <<t, i>> /\ at[1] = t /\ at[2] = i
    BY DEF Places
  <2>2. ~Ended(t, i)
    BY <1>1, <2>1
  <2>3. CASE getKeyInternal(t, i) = key
    <3>1. PICK r \in String : /\ r = dropKeyAndValueInternal(t, length, i, getNextKeyInternal(t, i))
                              /\ Left(r, i) < Left(t, i)
      BY <2>2, DropFalls
    <3>2. removeTurn(t, length, i, key) = <<r, i>>
      BY <2>3, <3>1 DEF removeTurn
    <3> QED
      BY <2>1, <3>1, <3>2 DEF Places
  <2>4. CASE getKeyInternal(t, i) # key
    <3>1. PICK j \in Position : j = getNextKeyInternal(t, i) /\ Left(t, j) < Left(t, i)
      BY <2>2, StepFalls
    <3>2. removeTurn(t, length, i, key) = <<t, j>>
      BY <2>4, <3>1 DEF removeTurn
    <3> QED
      BY <2>1, <3>1, <3>2 DEF Places
  <2> QED
    BY <2>3, <2>4
<1>2. result \in [Places -> String] /\ G \in [Places \X String -> String]
  BY DEF Places
<1>3. step \in [Places -> Places]
  BY <1>1
<1>4. measure \in [Places -> Nat]
  BY LeftIs DEF Places
<1>5. \A at \in Places \ stop : measure[step[at]] < measure[at]
  <2>1. ASSUME NEW at \in Places, at \notin stop PROVE measure[step[at]] < measure[at]
    <3>1. ~over(at) /\ step[at] = removeTurn(at[1], length, at[2], key)
      BY <2>1
    <3> QED
      BY <1>1, <2>1, <3>1
  <2> QED
    BY <2>1
<1>6. PICK f \in [Places -> String] : Solved(f, Places, stop, result, step, G)
  <2> HIDE DEF stop, result, step, G, measure
  <2> QED
    BY <1>2, <1>3, <1>4, <1>5, Recursion
<1>7. ASSUME NEW at \in Places
      PROVE  f[at] = IF Ended(at[1], at[2]) THEN at[1]
                     ELSE f[removeTurn(at[1], length, at[2], key)]
  <2>1. f[at] = IF at \in stop THEN result[at] ELSE G[<<at, f[step[at]]>>]
    BY <1>6 DEF Solved, Equation
  <2>2. CASE over(at)
    BY <2>1, <2>2
  <2>3. CASE ~over(at)
    <3>1. /\ step[at] = removeTurn(at[1], length, at[2], key) /\ step[at] \in Places
          /\ at \notin stop
      BY <1>3, <2>3
    <3>2. f[step[at]] \in String
      BY <3>1
    <3> QED
      BY <2>1, <2>3, <3>1, <3>2
  <2> QED
    BY <2>2, <2>3
<1>8. RemoveLoop(f, length, key)
  BY <1>7 DEF RemoveLoop
<1> DEFINE loop == CHOOSE loop : RemoveLoop(loop, length, key)
<1>9. RemoveLoop(loop, length, key)
  BY <1>8
<1>10. removeAttributeInternal(s, length, key) =
         IF length = Len(s) THEN s ELSE loop[<<s, length + 1>>]
  BY Zenon DEF removeAttributeInternal, RemoveLoop, Places
<1> QED
  BY <1>9, <1>10

-----------------------------------------------------------------------------
\* What the loop of addAttribute carries from turn to turn.
AddPlaces == String \X Position \X BOOLEAN

\* Its equation.
AddLoop(loop, length, key, value) ==
  loop = [at \in AddPlaces |->
            IF Ended(at[1], at[2])
              THEN IF at[3] THEN at[1] ELSE appendAttribute(at[1], at[2], key, value)
              ELSE loop[addTurn(at[1], length, at[2], at[3], key, value)]]

\* The attribute still to be written counts, too.
Remaining(s, i, added) == Left(s, i) + (IF added THEN 0 ELSE 1)

\* No more characters are left behind a value that is replaced,
LEMMA ReplaceFalls ==
  ASSUME NEW s \in String, NEW i \in Position, ~Ended(s, i),
         NEW key \in Keys, NEW value \in Values
  PROVE  LET r == sub(s, 0, i) \o Attribute(key, value) \o substr(s, getNextKeyInternal(s, i) - 1)
             j == i + Len(key) + Len(value) + 2
         IN r \in String /\ j \in Position /\ Left(r, j) <= Left(s, i)
<1>1. i \in Nat /\ Len(s) \in Nat /\ Len(key) \in Nat /\ Len(value) \in Nat
  BY Constants, Lengths DEF Position
<1>2. PICK j \in Nat : j = getNextKeyInternal(s, i) /\ i < j /\ j <= Len(s)
  BY <1>1, NextKey
<1>3. PICK a \in String : a = Attribute(key, value) /\ Len(a) = Len(key) + Len(value) + 1
  BY AttributeText
<1>4. PICK e \in Nat : e = j - 1 /\ e <= Len(s) /\ i <= Len(s)
  BY <1>1, <1>2
<1>5. PICK r : r = sub(s, 0, i) \o a \o substr(s, e)
  OBVIOUS
<1>6. Edited(s, r, i, a, e)
  BY <1>1, <1>4, <1>5, Splice
<1>7. r \in String /\ Len(r) = i + Len(a) + (Len(s) - e)
  BY <1>6 DEF Edited
<1>8. PICK k \in Nat : k = i + Len(key) + Len(value) + 2 /\ k \in Position
  BY <1>1 DEF Position
<1>9. Left(r, k) <= Left(s, i)
  <2>1. Len(r) = i + (Len(key) + Len(value) + 1) + (Len(s) - e)
    BY <1>3, <1>7
  <2>2. /\ Len(r) = k - 1 + (Len(s) - e) /\ k - 1 \in Nat /\ Len(r) \in Nat
        /\ e \in Nat /\ e >= i /\ e <= Len(s)
    <3>1. e \in Nat /\ e >= i /\ e <= Len(s)
      BY ONLY <1>1, <1>2, <1>4, j \in Nat, e \in Nat
    <3>2. Len(r) = k - 1 + (Len(s) - e) /\ k - 1 \in Nat /\ Len(r) \in Nat
      BY ONLY <1>1, <1>8, <2>1, <3>1, k \in Nat
    <3> QED
      BY ONLY <3>1, <3>2
  <2>3. CASE k <= Len(r)
    <3>1. Left(r, k) = Len(r) - k /\ Left(s, i) = Len(s) - i
      BY <1>1, <1>4, <2>3 DEF Left
    <3> QED
      BY <1>1, <1>8, <2>2, <3>1
  <2>4. CASE ~(k <= Len(r))
    <3>1. Left(r, k) = 0 /\ Left(s, i) = Len(s) - i
      BY <1>1, <1>4, <2>4 DEF Left
    <3> QED
      BY <1>1, <1>4, <3>1
  <2> QED
    BY <2>3, <2>4
<1>10. r = sub(s, 0, i) \o Attribute(key, value) \o substr(s, getNextKeyInternal(s, i) - 1)
  BY <1>2, <1>3, <1>4, <1>5
<1> QED
  BY <1>7, <1>8, <1>9, <1>10

\* nor behind an attribute that is inserted.
LEMMA InsertFalls ==
  ASSUME NEW s \in String, NEW i \in Position, ~Ended(s, i),
         NEW key \in Keys, NEW value \in Values
  PROVE  LET r == sub(s, 0, i) \o Attribute(key, value) \o <<COMMA>> \o substr(s, i)
             j == i + Len(key) + Len(value) + 2
         IN r \in String /\ j \in Position /\ Left(r, j) <= Left(s, i)
<1>1. i \in Nat /\ Len(s) \in Nat /\ Len(key) \in Nat /\ Len(value) \in Nat /\ i <= Len(s)
  BY Constants, Lengths DEF Position, Ended
<1>2. PICK t : t = sub(s, 0, i) \o Attribute(key, value)
  OBVIOUS
<1>3. t \in String /\ Len(t) = i + (Len(key) + Len(value) + 1)
  <2>1. PICK f \in String : f = sub(s, 0, i) /\ Len(f) = i
    BY <1>1, Slice
  <2>2. PICK a \in String : a = Attribute(key, value) /\ Len(a) = Len(key) + Len(value) + 1
    BY AttributeText
  <2>3. t = f \o a
    BY <1>2, <2>1, <2>2
  <2>4. f \o a \in String /\ Len(f \o a) = Len(f) + Len(a)
    BY ONLY f \in String, a \in String, JoinedLength
  <2> QED
    BY ONLY <1>1, <2>1, <2>2, <2>3, <2>4
<1>4. PICK u \in String : u = substr(s, i) /\ Len(u) = Len(s) - i
  BY <1>1, Rest
<1>5. PICK r : r = Chain(t, COMMA, u)
  OBVIOUS
<1>6. r \in String /\ Len(r) = Len(t) + 1 + Len(u)
  BY <1>3, <1>4, <1>5, Appended, Characters
<1>7. PICK k \in Nat : k = i + Len(key) + Len(value) + 2 /\ k \in Position
  BY <1>1 DEF Position
<1>8. Left(r, k) <= Left(s, i)
  BY <1>1, <1>3, <1>4, <1>6, <1>7 DEF Left
<1>9. r = sub(s, 0, i) \o Attribute(key, value) \o <<COMMA>> \o substr(s, i)
  BY <1>2, <1>4, <1>5, Zenon DEF Chain
<1> QED
  BY <1>6, <1>7, <1>8, <1>9

\* So each turn of the loop comes closer to its end, on any string.
LEMMA AddTurnFalls ==
  ASSUME NEW s \in String, NEW i \in Position, NEW added \in BOOLEAN, ~Ended(s, i),
         NEW length \in Nat, NEW key \in Keys, NEW value \in Values
  PROVE  LET at == addTurn(s, length, i, added, key, value) IN
         /\ at \in AddPlaces
         /\ Remaining(at[1], at[2], at[3]) < Remaining(s, i, added)
<1> DEFINE current == getKeyInternal(s, i)
           at == addTurn(s, length, i, added, key, value)
           Falls == at \in AddPlaces /\ Remaining(at[1], at[2], at[3]) < Remaining(s, i, added)
<1>1. CASE current = key /\ added
  <2>1. PICK r \in String : /\ r = dropKeyAndValueInternal(s, length, i, getNextKeyInternal(s, i))
                            /\ Left(r, i) < Left(s, i)
    BY DropFalls
  <2>2. at = <<r, i, TRUE>>
    BY <1>1, <2>1 DEF addTurn
  <2> HIDE DEF at
  <2>3. at \in AddPlaces /\ at[1] = r /\ at[2] = i /\ at[3] = TRUE
    BY <2>2 DEF AddPlaces
  <2>4. Remaining(r, i, TRUE) < Remaining(s, i, added)
    BY <1>1, <2>1, LeftIs DEF Remaining
  <2> QED
    BY <2>3, <2>4 DEF at
<1>2. CASE current = key /\ ~added
  <2>1. PICK r \in String, j \in Position :
          /\ r = sub(s, 0, i) \o Attribute(key, value) \o substr(s, getNextKeyInternal(s, i) - 1)
          /\ j = i + Len(key) + Len(value) + 2 /\ Left(r, j) <= Left(s, i)
    BY ReplaceFalls
  <2>2. at = <<r, j, TRUE>>
    BY <1>2, <2>1 DEF addTurn
  <2> HIDE DEF at
  <2>3. at \in AddPlaces /\ at[1] = r /\ at[2] = j /\ at[3] = TRUE
    BY <2>2 DEF AddPlaces
  <2>4. Remaining(r, j, TRUE) < Remaining(s, i, added)
    BY <1>2, <2>1, LeftIs DEF Remaining
  <2> QED
    BY <2>3, <2>4 DEF at
<1>3. CASE current # key /\ goesBefore(key, current) /\ ~added
  <2>1. PICK r \in String, j \in Position :
          /\ r = sub(s, 0, i) \o Attribute(key, value) \o <<COMMA>> \o substr(s, i)
          /\ j = i + Len(key) + Len(value) + 2 /\ Left(r, j) <= Left(s, i)
    BY InsertFalls
  <2>2. at = <<r, j, TRUE>>
    BY <1>3, <2>1 DEF addTurn
  <2> HIDE DEF at
  <2>3. at \in AddPlaces /\ at[1] = r /\ at[2] = j /\ at[3] = TRUE
    BY <2>2 DEF AddPlaces
  <2>4. Remaining(r, j, TRUE) < Remaining(s, i, added)
    BY <1>3, <2>1, LeftIs DEF Remaining
  <2> QED
    BY <2>3, <2>4 DEF at
<1>4. CASE current # key /\ ~(goesBefore(key, current) /\ ~added)
  <2>1. PICK j \in Position : j = getNextKeyInternal(s, i) /\ Left(s, j) < Left(s, i)
    BY StepFalls
  <2>2. at = <<s, j, added>>
    BY <1>4, <2>1 DEF addTurn
  <2> HIDE DEF at
  <2>3. at \in AddPlaces /\ at[1] = s /\ at[2] = j /\ at[3] = added
    BY <2>2 DEF AddPlaces
  <2>4. Remaining(s, j, added) < Remaining(s, i, added)
    BY <2>1, LeftIs DEF Remaining
  <2> QED
    BY <2>3, <2>4 DEF at
<1> QED
  BY <1>1, <1>2, <1>3, <1>4

\* It has a solution: addAttribute returns what the loop does.
LEMMA AddLoops ==
  ASSUME NEW s, NEW length \in Nat, length # Len(s), NEW key \in Keys, NEW value \in Values
  PROVE  \E loop :
           /\ AddLoop(loop, length, key, value)
           /\ addAttributeInternal(s, length, key, value) = loop[<<s, length + 1, FALSE>>]
<1> DEFINE over(at) == Ended(at[1], at[2])
           turn(at) == addTurn(at[1], length, at[2], at[3], key, value)
           end(at) == IF at[3] THEN at[1] ELSE appendAttribute(at[1], at[2], key, value)
           stop == {at \in AddPlaces : over(at)}
           R == {end(at) : at \in AddPlaces}
           result == [at \in AddPlaces |-> end(at)]
           step == [at \in AddPlaces |-> IF over(at) THEN at ELSE turn(at)]
           G == [p \in AddPlaces \X R |-> p[2]]
           measure == [at \in AddPlaces |-> Remaining(at[1], at[2], at[3])]
<1>1. ASSUME NEW at \in AddPlaces, ~over(at)
      PROVE  /\ turn(at) \in AddPlaces
             /\ Remaining(turn(at)[1], turn(at)[2], turn(at)[3]) < Remaining(at[1], at[2], at[3])
  <2>1. at[1] \in String /\ at[2] \in Position /\ at[3] \in BOOLEAN
    BY DEF AddPlaces
  <2> QED
    BY <1>1, <2>1, AddTurnFalls
<1>2. result \in [AddPlaces -> R]
  OBVIOUS
<1>2a. G \in [AddPlaces \X R -> R]
  <2> HIDE DEF R
  <2> QED
    OBVIOUS
<1>3. step \in [AddPlaces -> AddPlaces]
  <2> HIDE DEF turn, over
  <2> QED
    BY <1>1
<1>4. measure \in [AddPlaces -> Nat]
  <2>1. ASSUME NEW at \in AddPlaces PROVE Remaining(at[1], at[2], at[3]) \in Nat
    <3>1. at[1] \in String /\ at[2] \in Position /\ at[3] \in BOOLEAN
      BY DEF AddPlaces
    <3>2. Left(at[1], at[2]) \in Nat
      BY <3>1, LeftIs
    <3> QED
      BY <3>1, <3>2 DEF Remaining
  <2> QED
    BY <2>1
<1>5. \A at \in AddPlaces \ stop : measure[step[at]] < measure[at]
  <2>1. ASSUME NEW at \in AddPlaces, at \notin stop PROVE measure[step[at]] < measure[at]
    <3>1. ~over(at) /\ step[at] = turn(at)
      BY <2>1
    <3> HIDE DEF turn, over
    <3> QED
      BY <1>1, <2>1, <3>1
  <2> QED
    BY <2>1
<1>6. PICK f \in [AddPlaces -> R] : Solved(f, AddPlaces, stop, result, step, G)
  <2> HIDE DEF stop, result, step, G, measure, R
  <2> QED
    BY <1>2, <1>2a, <1>3, <1>4, <1>5, Recursion
<1>7. ASSUME NEW at \in AddPlaces
      PROVE  f[at] = IF over(at) THEN end(at) ELSE f[turn(at)]
  <2>1. f[at] = IF at \in stop THEN result[at] ELSE G[<<at, f[step[at]]>>]
    BY <1>6 DEF Solved, Equation
  <2> HIDE DEF end, turn, R
  <2>2. CASE over(at)
    BY <2>1, <2>2
  <2>3. CASE ~over(at)
    <3>1. step[at] = turn(at) /\ step[at] \in AddPlaces /\ at \notin stop
      BY <1>3, <2>3
    <3>2. f[step[at]] \in R
      BY <3>1
    <3> QED
      BY <2>1, <2>3, <3>1, <3>2
  <2> QED
    BY <2>2, <2>3
<1>8. AddLoop(f, length, key, value)
  <2>1. f = [at \in AddPlaces |-> f[at]]
    OBVIOUS
  <2> QED
    BY <1>7, <2>1 DEF AddLoop
<1> DEFINE loop == CHOOSE loop : AddLoop(loop, length, key, value)
<1>9. AddLoop(loop, length, key, value)
  BY <1>8
<1>10. addAttributeInternal(s, length, key, value) = loop[<<s, length + 1, FALSE>>]
  BY Zenon DEF addAttributeInternal, AddLoop, AddPlaces
<1> QED
  BY <1>9, <1>10

-----------------------------------------------------------------------------
(* What a list of attributes says of a key: the value of its first         *)
(* attribute with the key, or None.                                        *)
Absent(list, n, key) == \A m \in 1..(n - 1) : list[m][1] # key

\* number m is the first that has it, with the value v;
Holds(list, m, key, v) == list[m][1] = key /\ list[m][2] = v /\ Absent(list, m, key)

\* the list says v of the key.
Says(list, key, v) ==
  \/ v = None /\ Absent(list, Len(list) + 1, key)
  \/ \E m \in 1..Len(list) : Holds(list, m, key, v)

\* The first attribute with the key is what the list says of it.
LEMMA SaysHere ==
  ASSUME NEW list \in Seq(Attributes), NEW n \in 1..Len(list), NEW key, NEW v,
         Says(list, key, v), Absent(list, n, key), list[n][1] = key
  PROVE  v = list[n][2]
<1>1. Len(list) \in Nat
  BY LenProperties
<1>2. ~Absent(list, Len(list) + 1, key)
  BY <1>1 DEF Absent
<1>3. PICK m \in 1..Len(list) : Holds(list, m, key, v)
  BY <1>2 DEF Says
<1>4. ~(m < n) /\ ~(n < m)
  BY <1>1, <1>3 DEF Holds, Absent
<1> QED
  BY <1>1, <1>3, <1>4 DEF Holds

\* One attribute more without the key.
LEMMA AbsentNext ==
  ASSUME NEW list, NEW n \in Nat, NEW key, Absent(list, n, key), list[n][1] # key
  PROVE  Absent(list, n + 1, key)
BY DEF Absent

\* A list without the key says None.
LEMMA SaysNone ==
  ASSUME NEW list, NEW n \in Nat, n = Len(list) + 1, NEW key, NEW v,
         Says(list, key, v), Absent(list, n, key), Len(list) \in Nat
  PROVE  v = None
BY DEF Says, Holds, Absent

(* What an edit does to what the list says of other keys.                  *)
LEMMA WithoutSays ==
  ASSUME NEW list \in Seq(Attributes), NEW n \in 1..Len(list), NEW key, list[n][1] # key,
         NEW v, Says(list, key, v)
  PROVE  Says(Without(list, n), key, v)
<1>1. Len(list) \in Nat /\ Len(Without(list, n)) = Len(list) - 1
  <2>1. list[n] \in Attributes
    BY Element
  <2> QED
    BY <2>1, LenProperties, ListsMade
<1>2. PICK t : t = Without(list, n)
  OBVIOUS
<1>3. \A m \in 1..(Len(list) - 1) : t[m] = IF m < n THEN list[m] ELSE list[m + 1]
  BY <1>2 DEF Without
<1>4. CASE v = None /\ Absent(list, Len(list) + 1, key)
  <2>1. Absent(t, Len(list) - 1 + 1, key)
    BY <1>1, <1>3, <1>4 DEF Absent
  <2> QED
    BY <1>1, <1>2, <1>4, <2>1 DEF Says
<1>5. CASE \E m \in 1..Len(list) : Holds(list, m, key, v)
  <2>1. PICK m \in 1..Len(list) : Holds(list, m, key, v)
    BY <1>5
  <2>2. m # n
    BY <2>1 DEF Holds
  <2>3. PICK k \in 1..(Len(list) - 1) : k = IF m < n THEN m ELSE m - 1
    BY <1>1, <2>2
  <2>4. t[k] = list[m]
    BY <1>1, <1>3, <2>2, <2>3
  <2>5. Absent(t, k, key)
    BY <1>1, <1>3, <2>1, <2>2, <2>3 DEF Holds, Absent
  <2>6. Holds(t, k, key, v)
    BY <2>1, <2>4, <2>5 DEF Holds
  <2> QED
    BY <1>1, <1>2, <2>3, <2>6 DEF Says
<1> QED
  BY <1>4, <1>5 DEF Says

\* with another value of another key,
LEMMA ReplacedSays ==
  ASSUME NEW list \in Seq(Attributes), NEW n \in 1..Len(list), NEW a \in Attributes,
         NEW key, list[n][1] # key, a[1] # key, NEW v, Says(list, key, v)
  PROVE  Says(Replaced(list, n, a), key, v)
<1>1. Len(list) \in Nat /\ Len(Replaced(list, n, a)) = Len(list)
  BY LenProperties, ListsMade
<1>2. PICK t : t = Replaced(list, n, a)
  OBVIOUS
<1>3. \A m \in 1..Len(list) : t[m] = IF m = n THEN a ELSE list[m]
  BY <1>2 DEF Replaced
<1>4. CASE v = None /\ Absent(list, Len(list) + 1, key)
  <2>1. Absent(t, Len(list) + 1, key)
    BY <1>1, <1>3, <1>4 DEF Absent
  <2> QED
    BY <1>1, <1>2, <1>4, <2>1 DEF Says
<1>5. CASE \E m \in 1..Len(list) : Holds(list, m, key, v)
  <2>1. PICK m \in 1..Len(list) : Holds(list, m, key, v)
    BY <1>5
  <2>2. m # n
    BY <2>1 DEF Holds
  <2>3. Absent(t, m, key)
    BY <1>1, <1>3, <2>1 DEF Holds, Absent
  <2>4. Holds(t, m, key, v)
    BY <1>3, <2>1, <2>2, <2>3 DEF Holds
  <2> QED
    BY <1>1, <1>2, <2>4 DEF Says
<1> QED
  BY <1>4, <1>5 DEF Says

\* and with one more attribute of another key.
LEMMA InsertedSays ==
  ASSUME NEW list \in Seq(Attributes), NEW n \in 1..(Len(list) + 1), NEW a \in Attributes,
         NEW key, a[1] # key, NEW v, Says(list, key, v)
  PROVE  Says(Inserted(list, n, a), key, v)
<1>1. Len(list) \in Nat /\ Len(Inserted(list, n, a)) = Len(list) + 1
  BY LenProperties, InsertedMade
<1>2. PICK t : t = Inserted(list, n, a)
  OBVIOUS
<1>3. \A m \in 1..(Len(list) + 1) :
        t[m] = IF m < n THEN list[m] ELSE IF m = n THEN a ELSE list[m - 1]
  BY <1>2 DEF Inserted
<1>4. CASE v = None /\ Absent(list, Len(list) + 1, key)
  <2>1. Absent(t, Len(list) + 1 + 1, key)
    BY <1>1, <1>3, <1>4 DEF Absent
  <2> QED
    BY <1>1, <1>2, <1>4, <2>1 DEF Says
<1>5. CASE \E m \in 1..Len(list) : Holds(list, m, key, v)
  <2>1. PICK m \in 1..Len(list) : Holds(list, m, key, v)
    BY <1>5
  <2>2. PICK k \in 1..(Len(list) + 1) : k = IF m < n THEN m ELSE m + 1
    BY <1>1
  <2>3. t[k] = list[m]
    BY <1>1, <1>3, <2>2
  <2>4. Absent(t, k, key)
    BY <1>1, <1>3, <2>1, <2>2 DEF Holds, Absent
  <2>5. Holds(t, k, key, v)
    BY <2>1, <2>3, <2>4 DEF Holds
  <2> QED
    BY <1>1, <1>2, <2>2, <2>5 DEF Says
<1> QED
  BY <1>4, <1>5 DEF Says

(* Edits at attribute n leave the ones before it.                          *)
LEMMA Earlier ==
  ASSUME NEW list \in Seq(Attributes), NEW n \in 1..(Len(list) + 1), NEW a
  PROVE  \A m \in 1..(n - 1) :
           /\ n <= Len(list) => Without(list, n)[m] = list[m] /\ Replaced(list, n, a)[m] = list[m]
           /\ Inserted(list, n, a)[m] = list[m]
<1>1. Len(list) \in Nat
  BY LenProperties
<1> QED
  BY <1>1 DEF Without, Replaced, Inserted

\* The new attribute is at number n.
LEMMA Edits ==
  ASSUME NEW list \in Seq(Attributes), NEW n \in 1..(Len(list) + 1), NEW a
  PROVE  /\ n <= Len(list) => Replaced(list, n, a)[n] = a
         /\ Inserted(list, n, a)[n] = a
<1>1. Len(list) \in Nat
  BY LenProperties
<1> QED
  BY <1>1 DEF Replaced, Inserted

\* What is among the first attributes is there in a list that begins like it.
LEMMA SameBefore ==
  ASSUME NEW list, NEW t, NEW n \in Nat, \A m \in 1..(n - 1) : t[m] = list[m], NEW key
  PROVE  /\ Absent(list, n, key) => Absent(t, n, key)
         /\ \A m \in 1..(n - 1) : \A v : Holds(list, m, key, v) => Holds(t, m, key, v)
BY DEF Absent, Holds

-----------------------------------------------------------------------------
(* The order of strings.                                                   *)
Split(a, b, n) ==
  /\ n \in Nat /\ n <= Len(a) /\ n < Len(b)
  /\ \A p \in 1..n : a[p] = b[p]
  /\ n = Len(a) \/ (n < Len(a) /\ a[n + 1] < b[n + 1])

\* This is what Less says.
LEMMA LessIs ==
  ASSUME NEW a \in String, NEW b \in String
  PROVE  Less(a, b) <=> \E n \in Nat : Split(a, b, n)
<1>1. Len(a) \in Nat /\ Len(b) \in Nat
  BY Lengths
<1>2. ASSUME NEW n \in Nat, n <= Len(a), n < Len(b)
      PROVE  sub(a, 0, n) = sub(b, 0, n) <=> \A p \in 1..n : a[p] = b[p]
  <2>1. PICK c : c = sub(a, 0, n)
    OBVIOUS
  <2>2. PICK d : d = sub(b, 0, n)
    OBVIOUS
  <2>3. c \in String /\ Len(c) = n /\ \A p \in 1..n : c[p] = a[p]
    <3>1. 0 \in Nat /\ 0 + n <= Len(a)
      BY <1>1, <1>2
    <3>2. /\ sub(a, 0, n) \in String /\ Len(sub(a, 0, n)) = n
          /\ \A p \in 1..n : sub(a, 0, n)[p] = a[0 + p]
      BY <3>1, Slice
    <3> QED
      BY <2>1, <3>2
  <2>4. d \in String /\ Len(d) = n /\ \A p \in 1..n : d[p] = b[p]
    <3>1. 0 \in Nat /\ 0 + n <= Len(b)
      BY <1>1, <1>2
    <3>2. /\ sub(b, 0, n) \in String /\ Len(sub(b, 0, n)) = n
          /\ \A p \in 1..n : sub(b, 0, n)[p] = b[0 + p]
      BY <3>1, Slice
    <3> QED
      BY <2>2, <3>2
  <2>5. c = d => \A p \in 1..n : a[p] = b[p]
    BY <2>3, <2>4
  <2>6. (\A p \in 1..n : a[p] = b[p]) => c = d
    BY <2>3, <2>4, SameString
  <2> QED
    BY <2>1, <2>2, <2>5, <2>6
<1>3. ASSUME Less(a, b) PROVE \E n \in Nat : Split(a, b, n)
  <2>1. PICK n \in 0..Len(a) :
          /\ n < Len(b) /\ sub(a, 0, n) = sub(b, 0, n)
          /\ n = Len(a) \/ a[n + 1] < b[n + 1]
    BY <1>3 DEF Less
  <2>2. n \in Nat /\ n <= Len(a)
    BY <1>1
  <2>3. \A p \in 1..n : a[p] = b[p]
    BY <1>2, <2>1, <2>2
  <2>4. Split(a, b, n)
    BY <1>1, <2>1, <2>2, <2>3 DEF Split
  <2> QED
    BY <2>2, <2>4
<1>4. ASSUME NEW n \in Nat, Split(a, b, n) PROVE Less(a, b)
  <2>1. n <= Len(a) /\ n < Len(b) /\ n \in 0..Len(a) /\ \A p \in 1..n : a[p] = b[p]
    BY <1>1, <1>4 DEF Split
  <2>2. sub(a, 0, n) = sub(b, 0, n)
    BY <1>2, <2>1
  <2>3. n = Len(a) \/ a[n + 1] < b[n + 1]
    BY <1>4 DEF Split
  <2> QED
    BY <2>1, <2>2, <2>3 DEF Less
<1> QED
  BY <1>3, <1>4

\* Of two strings one is below the other;
LEMMA LessTotal ==
  ASSUME NEW a \in String, NEW b \in String, a # b
  PROVE  Less(a, b) \/ Less(b, a)
<1>1. /\ Len(a) \in Nat /\ Len(b) \in Nat
      /\ \A p \in 1..Len(a) : a[p] \in Int
      /\ \A p \in 1..Len(b) : b[p] \in Int
  BY Lengths
<1> DEFINE T == {n \in Nat : n >= Len(a) \/ n >= Len(b) \/ a[n + 1] # b[n + 1]}
<1>2. PICK n \in T : \A m \in T : n <= m
  <2>1. Len(a) \in T
    BY <1>1
  <2> QED
    BY <2>1, LeastElement
<1>3. n \in Nat /\ n <= Len(a) /\ n <= Len(b)
  <2>1. Len(a) \in T /\ Len(b) \in T
    BY <1>1
  <2> QED
    BY <1>2, <2>1
<1>4. \A p \in 1..n : a[p] = b[p]
  <2>1. ASSUME NEW p \in 1..n, a[p] # b[p] PROVE FALSE
    <3>1. PICK m \in Nat : m + 1 = p /\ m < n
      <4>1. p - 1 \in Nat /\ p - 1 + 1 = p /\ p - 1 < n
        BY <1>3
      <4> QED
        BY <4>1
    <3>2. m \in T
      BY <2>1, <3>1
    <3>3. n <= m
      BY <1>2, <3>2
    <3> QED
      BY <1>3, <3>1, <3>3
  <2> QED
    BY <2>1
<1>5. n >= Len(a) \/ n >= Len(b) \/ a[n + 1] # b[n + 1]
  BY <1>2
<1> HIDE DEF T
<1>6. CASE n = Len(a) /\ n = Len(b)
  BY <1>3, <1>4, <1>6, SameString
<1>7. CASE n = Len(a) /\ n < Len(b)
  <2>1. Split(a, b, n)
    BY <1>3, <1>4, <1>7 DEF Split
  <2> QED
    BY <1>3, <2>1, LessIs
<1>8. CASE n < Len(a) /\ n = Len(b)
  <2>1. Split(b, a, n)
    BY <1>3, <1>4, <1>8 DEF Split
  <2> QED
    BY <1>3, <2>1, LessIs
<1>9. CASE n < Len(a) /\ n < Len(b)
  <2>1. n + 1 \in 1..Len(a) /\ n + 1 \in 1..Len(b) /\ a[n + 1] # b[n + 1]
    BY <1>1, <1>3, <1>5, <1>9
  <2>2. a[n + 1] < b[n + 1] \/ b[n + 1] < a[n + 1]
    BY <1>1, <2>1
  <2>3. Split(a, b, n) \/ Split(b, a, n)
    BY <1>3, <1>4, <1>9, <2>2 DEF Split
  <2> QED
    BY <1>3, <2>3, LessIs
<1> QED
  BY <1>1, <1>3, <1>6, <1>7, <1>8, <1>9

\* below is transitive,
LEMMA LessTransitive ==
  ASSUME NEW a \in String, NEW b \in String, NEW c \in String, Less(a, b), Less(b, c)
  PROVE  Less(a, c)
<1>1. /\ Len(a) \in Nat /\ Len(b) \in Nat /\ Len(c) \in Nat
      /\ \A p \in 1..Len(a) : a[p] \in Int
      /\ \A p \in 1..Len(b) : b[p] \in Int
      /\ \A p \in 1..Len(c) : c[p] \in Int
  BY Lengths
<1>2. PICK m \in Nat : Split(a, b, m)
  BY LessIs
<1>3. PICK n \in Nat : Split(b, c, n)
  BY LessIs
<1>4. CASE m < n
  <2>1. b[m + 1] = c[m + 1] /\ m < Len(c) /\ m <= Len(a)
    BY <1>1, <1>2, <1>3, <1>4 DEF Split
  <2>2. \A p \in 1..m : a[p] = c[p]
    BY <1>2, <1>3, <1>4 DEF Split
  <2>3. Split(a, c, m)
    BY <1>2, <2>1, <2>2 DEF Split
  <2> QED
    BY <2>3, LessIs
<1>5. CASE n < m
  <2>1. a[n + 1] = b[n + 1] /\ n < Len(c) /\ n < Len(a) /\ n < Len(b)
    BY <1>1, <1>2, <1>3, <1>5 DEF Split
  <2>2. \A p \in 1..n : a[p] = c[p]
    BY <1>2, <1>3, <1>5 DEF Split
  <2>3. b[n + 1] < c[n + 1]
    BY <1>1, <1>3, <2>1 DEF Split
  <2>4. Split(a, c, n)
    BY <2>1, <2>2, <2>3 DEF Split
  <2> QED
    BY <2>4, LessIs
<1>6. CASE m = n
  <2>1. n < Len(c) /\ n <= Len(a) /\ n < Len(b) /\ \A p \in 1..n : a[p] = c[p]
    BY <1>2, <1>3, <1>6 DEF Split
  <2>2. b[n + 1] < c[n + 1]
    BY <1>1, <1>3, <2>1 DEF Split
  <2>3. n < Len(a) => a[n + 1] < c[n + 1]
    <3>1. ASSUME n < Len(a) PROVE a[n + 1] < c[n + 1]
      <4>1. a[n + 1] < b[n + 1]
        BY <1>1, <1>2, <1>6, <3>1 DEF Split
      <4>2. a[n + 1] \in Int /\ b[n + 1] \in Int /\ c[n + 1] \in Int
        BY <1>1, <2>1, <3>1
      <4> QED
        BY <2>2, <4>1, <4>2
    <3> QED
      BY <3>1
  <2>4. Split(a, c, n)
    BY <1>1, <2>1, <2>3 DEF Split
  <2> QED
    BY <2>4, LessIs
<1> QED
  BY <1>4, <1>5, <1>6

\* and no string is below itself.
LEMMA LessIrreflexive ==
  ASSUME NEW a \in String
  PROVE  ~Less(a, a)
<1>1. Len(a) \in Nat /\ \A p \in 1..Len(a) : a[p] \in Int
  BY Lengths
<1>2. ASSUME NEW n \in Nat, Split(a, a, n) PROVE FALSE
  <2>1. n < Len(a) /\ n + 1 \in 1..Len(a) /\ a[n + 1] < a[n + 1]
    BY <1>1, <1>2 DEF Split
  <2> QED
    BY <1>1, <2>1
<1> QED
  BY <1>2, LessIs
-----------------------------------------------------------------------------
(* Edits keep the keys sorted.                                             *)
Below(list, n, key) == \A m \in 1..(n - 1) : Less(list[m][1], key)

\* A canonical list, by its numbers.
LEMMA Sorted ==
  ASSUME NEW list \in Seq(Attributes)
  PROVE  Canonical(list) <=>
           \A m, n \in 1..Len(list) : m < n => Less(list[m][1], list[n][1])
BY LenProperties DEF Canonical

\* Sorted keys stay sorted without one of them,
LEMMA WithoutSorted ==
  ASSUME NEW list \in Seq(Attributes), NEW n \in 1..Len(list), Canonical(list)
  PROVE  Canonical(Without(list, n))
<1>1. Len(list) \in Nat
  BY LenProperties
<1>2. PICK t : t = Without(list, n)
  OBVIOUS
<1>3. \A m \in 1..(Len(list) - 1) : t[m] = IF m < n THEN list[m] ELSE list[m + 1]
  BY <1>2 DEF Without
<1>4. t \in Seq(Attributes) /\ Len(t) = Len(list) - 1
  BY <1>2, ListsMade, Element
<1>5. ASSUME NEW k \in 1..Len(t), NEW m \in 1..Len(t), k < m PROVE Less(t[k][1], t[m][1])
  <2>1. PICK x \in 1..Len(list), y \in 1..Len(list) : x < y /\ t[k] = list[x] /\ t[m] = list[y]
    <3>1. CASE m < n
      BY <1>1, <1>3, <1>4, <1>5, <3>1
    <3>2. CASE k < n /\ ~(m < n)
      <4>1. m \in Nat /\ k \in Nat /\ k \in 1..Len(list) /\ m + 1 \in 1..Len(list) /\ k < m + 1
        BY <1>1, <1>4, <1>5
      <4>2. t[k] = list[k] /\ t[m] = list[m + 1]
        BY <1>3, <1>4, <3>2
      <4> QED
        BY <4>1, <4>2
    <3>3. CASE ~(k < n)
      BY <1>1, <1>3, <1>4, <1>5, <3>3, m + 1 \in 1..Len(list), k + 1 \in 1..Len(list)
    <3> QED
      BY <1>1, <1>4, <1>5, <3>1, <3>2, <3>3
  <2> QED
    BY <2>1, Sorted
<1> QED
  BY <1>2, <1>4, <1>5, Sorted

\* with another value of one of them,
LEMMA ReplacedSorted ==
  ASSUME NEW list \in Seq(Attributes), NEW n \in 1..Len(list), Canonical(list),
         NEW a \in Attributes, a[1] = list[n][1]
  PROVE  Canonical(Replaced(list, n, a))
<1>1. PICK t : t = Replaced(list, n, a)
  OBVIOUS
<1>2. \A m \in 1..Len(list) : t[m] = IF m = n THEN a ELSE list[m]
  BY <1>1 DEF Replaced
<1>3. t \in Seq(Attributes) /\ Len(t) = Len(list)
  BY <1>1, ListsMade
<1>4. \A m \in 1..Len(list) : t[m][1] = list[m][1]
  BY <1>2
<1>5. \A k, m \in 1..Len(t) : k < m => Less(t[k][1], t[m][1])
  BY <1>3, <1>4, Sorted
<1> QED
  BY <1>1, <1>3, <1>5, Sorted

\* and with a key between a smaller and a greater one.
LEMMA InsertedSorted ==
  ASSUME NEW list \in Seq(Attributes), NEW n \in 1..(Len(list) + 1), Canonical(list),
         NEW a \in Attributes, Below(list, n, a[1]),
         n <= Len(list) => Less(a[1], list[n][1])
  PROVE  Canonical(Inserted(list, n, a))
<1>1. Len(list) \in Nat /\ a[1] \in String /\ \A m \in 1..Len(list) : list[m][1] \in String
  BY LenProperties, Element, Constants DEF Attributes
<1>2. PICK t : t = Inserted(list, n, a)
  OBVIOUS
<1>3. \A m \in 1..(Len(list) + 1) :
        t[m] = IF m < n THEN list[m] ELSE IF m = n THEN a ELSE list[m - 1]
  BY <1>2 DEF Inserted
<1>4. t \in Seq(Attributes) /\ Len(t) = Len(list) + 1
  BY <1>2, InsertedMade
<1>5. \A m \in 1..Len(list) : m >= n => Less(a[1], list[m][1])
  <2>1. ASSUME NEW m \in 1..Len(list), m >= n PROVE Less(a[1], list[m][1])
    <3>1. CASE m = n
      BY <1>1, <3>1
    <3>2. CASE m > n
      <4>1. n \in 1..Len(list) /\ Less(a[1], list[n][1]) /\ Less(list[n][1], list[m][1])
        BY <1>1, <2>1, <3>2, Sorted
      <4> QED
        BY <1>1, <4>1, LessTransitive
    <3> QED
      BY <2>1, <3>1, <3>2
  <2> QED
    BY <2>1
<1>6. ASSUME NEW k \in 1..Len(t), NEW m \in 1..Len(t), k < m PROVE Less(t[k][1], t[m][1])
  <2>1. k \in Nat /\ m \in Nat
    BY <1>1, <1>4
  <2>2. CASE m < n
    BY <1>1, <1>3, <1>4, <1>6, <2>2, Sorted
  <2>3. CASE m = n
    BY <1>1, <1>3, <1>4, <1>6, <2>3 DEF Below
  <2>4. CASE k < n /\ n < m
    <3>1. m - 1 \in 1..Len(list) /\ k \in 1..Len(list) /\ k < m - 1
      BY <1>1, <1>4, <2>4
    <3>2. t[k] = list[k] /\ t[m] = list[m - 1]
      BY <1>1, <1>3, <1>4, <2>4
    <3> QED
      BY <3>1, <3>2, Sorted
  <2>5. CASE k = n
    <3>1. m - 1 \in 1..Len(list) /\ m - 1 >= n
      BY <1>1, <1>4, <1>6, <2>5
    <3>2. t[k] = a /\ t[m] = list[m - 1]
      BY <1>1, <1>3, <1>4, <1>6, <2>5
    <3> QED
      BY <1>5, <3>1, <3>2
  <2>6. CASE n < k
    <3>1. m - 1 \in 1..Len(list) /\ k - 1 \in 1..Len(list) /\ k - 1 < m - 1
      BY <1>1, <1>4, <1>6, <2>6
    <3>2. t[k] = list[k - 1] /\ t[m] = list[m - 1]
      BY <1>1, <1>3, <1>4, <1>6, <2>6
    <3> QED
      BY <3>1, <3>2, Sorted
  <2> QED
    BY <1>1, <1>4, <1>6, <2>2, <2>3, <2>4, <2>5, <2>6
<1> QED
  BY <1>2, <1>4, <1>6, Sorted

\* A key above others is none of them.
LEMMA BelowAbsent ==
  ASSUME NEW list \in Seq(Attributes), NEW n \in 1..(Len(list) + 1), NEW key \in Keys,
         Below(list, n, key)
  PROVE  Absent(list, n, key)
<1>1. key \in String /\ Len(list) \in Nat
  BY Constants, LenProperties
<1>2. ~Less(key, key)
  BY <1>1, LessIrreflexive
<1> QED
  BY <1>2 DEF Below, Absent

-----------------------------------------------------------------------------
(* What the loops return.                                                  *)
Shows(s, h, list) == \E pos : Closed(s, h, list, pos)

\* The loops begin at the first attribute.
LEMMA Starts ==
  ASSUME NEW s, NEW h, NEW list, Shows(s, h, list)
  PROVE  /\ HasText(s, h, list, 1, Len(h) + 1)
         /\ s \in String /\ h \in String /\ Len(h) \in Nat /\ list \in Seq(Attributes)
         /\ Len(list) \in Nat /\ Len(h) + 1 \in Position
<1>1. PICK pos : Closed(s, h, list, pos)
  BY DEF Shows
<1>2. Placed(s, Len(h), list, pos) /\ h \in String
  BY <1>1, EndOf
<1>3. pos[1] = Len(h) + 1 /\ list \in Seq(Attributes) /\ Len(list) \in Nat
  BY <1>2, Bounds DEF Placed
<1>4. 1 \in 1..(Len(list) + 1) /\ Len(h) + 1 = pos[1]
  BY <1>3
<1>5. HasText(s, h, list, 1, Len(h) + 1)
  BY <1>1, <1>4 DEF HasText
<1>6. s \in String /\ h \in String /\ Len(h) \in Nat /\ Len(h) + 1 \in Position
  BY <1>5, TurnReads, Lengths
<1> QED
  BY <1>3, <1>5, <1>6

\* Wherever a loop is, the symbol shows the list.
LEMMA HasTextShows ==
  ASSUME NEW s, NEW h, NEW list, NEW n, NEW i, HasText(s, h, list, n, i)
  PROVE  Shows(s, h, list)
BY DEF HasText, Shows

\* The loop of getAttribute finds what the list says of the key.
LEMMA Finds ==
  ASSUME NEW s, NEW h, NEW list, Shows(s, h, list),
         NEW key, NEW v, Says(list, key, v), NEW find, FindLoop(find, s, key)
  PROVE  find[Len(h) + 1] = v
<1>1. HasText(s, h, list, 1, Len(h) + 1) /\ list \in Seq(Attributes) /\ Len(list) \in Nat
  BY Starts
<1> DEFINE Claim(d, n, i) ==
             HasText(s, h, list, n, i) /\ n + d = Len(list) + 1 /\ Absent(list, n, key)
               => find[i] = v
           T == {d \in Nat : \A n, i : Claim(d, n, i)}
<1>2. ASSUME NEW n, NEW i, HasText(s, h, list, n, i)
      PROVE  find[i] = LET j == getNextKeyInternal(s, i) IN
                       IF Ended(s, i) THEN None
                       ELSE IF getKeyInternal(s, i) = key THEN getValueInternal(s, i, j)
                       ELSE find[j]
  <2>1. i \in Nat
    BY <1>2, TurnReads DEF Position
  <2> QED
    BY <2>1 DEF FindLoop
<1>3. 0 \in T
  <2>1. ASSUME NEW n, NEW i, HasText(s, h, list, n, i), n + 0 = Len(list) + 1,
               Absent(list, n, key)
        PROVE  find[i] = v
    <3>a. n \in 1..(Len(list) + 1)
      BY <2>1, TurnReads
    <3>b. n \in Nat /\ n = Len(list) + 1
      BY <1>1, <2>1, <3>a
    <3>1. n \in Nat /\ n = Len(list) + 1 /\ Ended(s, i)
      BY <2>1, <3>b, TurnReads
    <3>2. find[i] = None
      BY <1>2, <2>1, <3>1
    <3> QED
      BY <1>1, <2>1, <3>1, <3>2, SaysNone
  <2> QED
    BY <2>1
<1>4. ASSUME NEW d \in Nat, d \in T PROVE d + 1 \in T
  <2>1. ASSUME NEW n, NEW i, HasText(s, h, list, n, i), n + (d + 1) = Len(list) + 1,
               Absent(list, n, key)
        PROVE  find[i] = v
    <3>1. n \in 1..(Len(list) + 1)
      BY <2>1, TurnReads
    <3>2. n \in 1..Len(list) /\ n \in Nat /\ n + 1 + d = Len(list) + 1
      BY <1>1, <2>1, <3>1
    <3>3. /\ ~Ended(s, i)
          /\ getKeyInternal(s, i) = list[n][1]
          /\ getValueInternal(s, i, getNextKeyInternal(s, i)) = list[n][2]
          /\ HasText(s, h, list, n + 1, getNextKeyInternal(s, i))
      BY <2>1, <3>2, TurnReads
    <3>4. CASE list[n][1] = key
      <4>1. find[i] = list[n][2]
        BY <1>2, <2>1, <3>3, <3>4
      <4> QED
        BY <1>1, <2>1, <3>2, <3>4, <4>1, SaysHere
    <3>5. CASE list[n][1] # key
      <4>1. find[i] = find[getNextKeyInternal(s, i)]
        BY <1>2, <2>1, <3>3, <3>5
      <4>2. Absent(list, n + 1, key)
        BY <2>1, <3>2, <3>5, AbsentNext
      <4>3. Claim(d, n + 1, getNextKeyInternal(s, i))
        BY <1>4
      <4> QED
        BY <3>2, <3>3, <4>1, <4>2, <4>3
    <3> QED
      BY <3>4, <3>5
  <2> QED
    BY <1>4, <2>1
<1> HIDE DEF T
<1>5. Nat \subseteq T
  BY <1>3, <1>4, SetInduction
<1>6. Len(list) \in T
  BY <1>1, <1>5
<1>7. Claim(Len(list), 1, Len(h) + 1)
  BY <1>6 DEF T
<1>8. Absent(list, 1, key)
  BY DEF Absent
<1> QED
  BY <1>1, <1>7, <1>8

(* A change of one key: what it says of it, nothing else, sorted as before. *)
OneChanged(list, t, key, v) ==
  /\ Says(t, key, v)
  /\ \A other, w : other # key /\ Says(list, other, w) => Says(t, other, w)

\* The loop of removeAttribute leaves a list that says None of the key.
LEMMA Removes ==
  ASSUME NEW s, NEW h, NEW list, Shows(s, h, list), NEW key,
         NEW loop, RemoveLoop(loop, Len(h), key)
  PROVE  \E t : /\ Shows(loop[<<s, Len(h) + 1>>], h, t) /\ OneChanged(list, t, key, None)
                /\ Canonical(list) => Canonical(t)
<1> DEFINE Outcome(q, i, l) ==
             \E t : /\ Shows(loop[<<q, i>>], h, t) /\ OneChanged(l, t, key, None)
                    /\ Canonical(l) => Canonical(t)
           Claim(d, q, l, n, i) ==
             HasText(q, h, l, n, i) /\ n + d = Len(l) + 1 /\ Absent(l, n, key)
               => Outcome(q, i, l)
           T == {d \in Nat : \A q, l, n, i : Claim(d, q, l, n, i)}
<1>1. ASSUME NEW q, NEW l, NEW n, NEW i, HasText(q, h, l, n, i)
      PROVE  loop[<<q, i>>] = IF Ended(q, i) THEN q ELSE loop[removeTurn(q, Len(h), i, key)]
  <2>1. q \in String /\ i \in Position
    BY <1>1, TurnReads
  <2>2. PICK at : at = <<q, i>>
    OBVIOUS
  <2>3. at \in Places /\ at[1] = q /\ at[2] = i
    BY <2>1, <2>2 DEF Places
  <2>4. loop[at] = IF Ended(at[1], at[2]) THEN at[1]
                   ELSE loop[removeTurn(at[1], Len(h), at[2], key)]
    BY <2>3 DEF RemoveLoop
  <2> QED
    BY <2>2, <2>3, <2>4
<1>2. 0 \in T
  <2>1. ASSUME NEW q, NEW l, NEW n, NEW i, HasText(q, h, l, n, i), n + 0 = Len(l) + 1,
               Absent(l, n, key)
        PROVE  Outcome(q, i, l)
    <3>a. n \in 1..(Len(l) + 1) /\ Len(l) \in Nat
      BY <2>1, TurnReads
    <3>b. n \in Nat /\ n = Len(l) + 1
      BY <2>1, <3>a
    <3>1. n \in Nat /\ n = Len(l) + 1 /\ Ended(q, i)
      BY <2>1, <3>b, TurnReads
    <3>2. loop[<<q, i>>] = q
      BY <1>1, <2>1, <3>1
    <3>3. Says(l, key, None)
      BY <2>1, <3>1 DEF Says
    <3>4. Shows(q, h, l)
      BY <2>1, HasTextShows
    <3> QED
      BY <3>2, <3>3, <3>4 DEF OneChanged
  <2> QED
    BY <2>1
<1>3. ASSUME NEW d \in Nat, d \in T PROVE d + 1 \in T
  <2>1. ASSUME NEW q, NEW l, NEW n, NEW i, HasText(q, h, l, n, i), n + (d + 1) = Len(l) + 1,
               Absent(l, n, key)
        PROVE  Outcome(q, i, l)
    <3>1. n \in 1..(Len(l) + 1) /\ l \in Seq(Attributes) /\ Len(l) \in Nat
      BY <2>1, TurnReads
    <3>2. n \in 1..Len(l) /\ n \in Nat /\ n + 1 + d = Len(l) + 1 /\ n + d = Len(l)
      BY <2>1, <3>1
    <3>3. PICK j : j = getNextKeyInternal(q, i)
      OBVIOUS
    <3>4. ~Ended(q, i) /\ getKeyInternal(q, i) = l[n][1] /\ HasText(q, h, l, n + 1, j)
      BY <2>1, <3>2, <3>3, TurnReads
    <3>5. loop[<<q, i>>] = loop[removeTurn(q, Len(h), i, key)]
      BY <1>1, <2>1, <3>4
    <3>6. CASE l[n][1] = key
      <4>1. PICK r : r = dropKeyAndValueInternal(q, Len(h), i, j)
        OBVIOUS
      <4>2. removeTurn(q, Len(h), i, key) = <<r, i>>
        BY <3>3, <3>4, <3>6, <4>1 DEF removeTurn
      <4>3. PICK m : m = Without(l, n)
        OBVIOUS
      <4>4. HasText(r, h, m, n, i)
        BY <2>1, <3>2, <3>3, <4>1, <4>3, TurnDrops
      <4>5. Len(m) = Len(l) - 1 /\ n + d = Len(m) + 1
        <5>1. l[n] \in Attributes
          BY <3>1, <3>2, Element
        <5>2. Len(Without(l, n)) = Len(l) - 1
          BY <3>1, <3>2, <5>1, ListsMade
        <5> QED
          BY <3>1, <3>2, <4>3, <5>2
      <4>6. \A k \in 1..(n - 1) : m[k] = l[k]
        BY <3>1, <3>2, <4>3 DEF Without
      <4>7. Absent(m, n, key)
        BY <2>1, <3>2, <4>6, SameBefore
      <4>8. Claim(d, r, m, n, i)
        BY <1>3
      <4>9. PICK t : /\ Shows(loop[<<r, i>>], h, t) /\ OneChanged(m, t, key, None)
                     /\ Canonical(m) => Canonical(t)
        BY <4>4, <4>5, <4>7, <4>8
      <4>10. ASSUME NEW other, NEW w, other # key, Says(l, other, w) PROVE Says(m, other, w)
        BY <3>1, <3>2, <3>6, <4>3, <4>10, WithoutSays
      <4>11. OneChanged(l, t, key, None)
        BY <4>9, <4>10 DEF OneChanged
      <4>12. Canonical(l) => Canonical(m)
        BY <3>1, <3>2, <4>3, WithoutSorted
      <4> QED
        BY <3>5, <4>2, <4>9, <4>11, <4>12
    <3>7. CASE l[n][1] # key
      <4>1. removeTurn(q, Len(h), i, key) = <<q, j>>
        BY <3>3, <3>4, <3>7 DEF removeTurn
      <4>2. Absent(l, n + 1, key)
        BY <2>1, <3>2, <3>7, AbsentNext
      <4>3. Claim(d, q, l, n + 1, j)
        BY <1>3
      <4>4. Outcome(q, j, l)
        BY <3>2, <3>4, <4>2, <4>3
      <4> QED
        BY <3>5, <4>1, <4>4
    <3> QED
      BY <3>6, <3>7
  <2> HIDE DEF Outcome
  <2> QED
    BY <1>3, <2>1
<1> HIDE DEF T
<1>4. Nat \subseteq T
  BY <1>2, <1>3, SetInduction
<1>5. /\ HasText(s, h, list, 1, Len(h) + 1) /\ Len(list) \in Nat /\ Len(list) \in T
      /\ 1 + Len(list) = Len(list) + 1
  BY <1>4, Starts
<1>6. Claim(Len(list), s, list, 1, Len(h) + 1)
  BY <1>5 DEF T
<1>7. Absent(list, 1, key)
  BY DEF Absent
<1> QED
  BY <1>5, <1>6, <1>7

-----------------------------------------------------------------------------
(* Before a turn at attribute n: the key is among the attributes before it *)
(* with the new value, or it is not among them.                            *)
Ready(list, n, added, key, value) ==
  IF added THEN \E m \in 1..(n - 1) : Holds(list, m, key, value)
           ELSE list # <<>> /\ Absent(list, n, key)

\* The list is sorted, and a key to be written belongs at number n or later.
Ordered(list, n, added, key) == Canonical(list) /\ (~added => Below(list, n, key))

(* What a turn does to the list and to the place in it.                    *)
Leads(list, n, added, l, m, key, value) ==
  /\ Ready(l, m, TRUE, key, value)
  /\ \A other, w : other # key /\ Says(list, other, w) => Says(l, other, w)
  /\ Ordered(list, n, added, key) => Canonical(l)

\* An attribute of the key is dropped after the value was written.
LEMMA LeadsDropped ==
  ASSUME NEW list \in Seq(Attributes), NEW n \in 1..Len(list), NEW key \in Keys, NEW value,
         Ready(list, n, TRUE, key, value), list[n][1] = key
  PROVE  Leads(list, n, TRUE, Without(list, n), n, key, value)
<1>1. Len(list) \in Nat /\ n \in Nat /\ n <= Len(list)
  BY LenProperties
<1>2. PICK l : l = Without(list, n)
  OBVIOUS
<1>3. \A k \in 1..(n - 1) : l[k] = list[k]
  BY <1>1, <1>2 DEF Without
<1>4. Ready(l, n, TRUE, key, value)
  <2>1. PICK m \in 1..(n - 1) : Holds(list, m, key, value)
    BY DEF Ready
  <2>2. \A k \in 1..(n - 1) : \A v : Holds(list, k, key, v) => Holds(l, k, key, v)
    BY ONLY <1>1, <1>3, SameBefore
  <2>3. Holds(l, m, key, value)
    BY ONLY <2>1, <2>2, m \in 1..(n - 1)
  <2> QED
    BY <2>3 DEF Ready
<1>5. ASSUME NEW other, NEW w, other # key, Says(list, other, w) PROVE Says(l, other, w)
  BY <1>2, <1>5, WithoutSays
<1>6. Canonical(list) => Canonical(l)
  BY <1>2, WithoutSorted
<1> QED
  BY <1>2, <1>4, <1>5, <1>6 DEF Leads, Ordered

\* The value of the key is replaced.
LEMMA LeadsReplaced ==
  ASSUME NEW list \in Seq(Attributes), NEW n \in 1..Len(list), NEW key \in Keys,
         NEW value \in Values, Ready(list, n, FALSE, key, value), list[n][1] = key,
         NEW l, l = Replaced(list, n, <<key, value>>)
  PROVE  Leads(list, n, FALSE, l, n + 1, key, value)
<1>1. Len(list) \in Nat /\ n \in Nat /\ n <= Len(list) /\ n \in 1..(n + 1 - 1)
  BY LenProperties
<1>2. PICK a \in Attributes : a = <<key, value>> /\ a[1] = key /\ a[2] = value
  BY Pairs
<1>3. /\ \A k \in 1..(n - 1) : l[k] = list[k]
      /\ l[n] = a
  BY <1>1, <1>2 DEF Replaced
<1>4. Ready(l, n + 1, TRUE, key, value)
  <2>1. Absent(list, n, key)
    BY DEF Ready
  <2>2. Absent(l, n, key)
    BY <1>3, <2>1 DEF Absent
  <2>3. Holds(l, n, key, value)
    BY <1>2, <1>3, <2>2 DEF Holds
  <2> QED
    BY <1>1, <2>3 DEF Ready
<1>5. ASSUME NEW other, NEW w, other # key, Says(list, other, w) PROVE Says(l, other, w)
  BY <1>2, <1>5, ReplacedSays
<1>6. Canonical(list) => Canonical(l)
  BY <1>2, ReplacedSorted
<1> QED
  BY <1>4, <1>5, <1>6 DEF Leads, Ordered

\* The attribute is inserted before a greater key, or at the end.
LEMMA LeadsInserted ==
  ASSUME NEW list \in Seq(Attributes), NEW n \in 1..(Len(list) + 1), NEW key \in Keys,
         NEW value \in Values, Ready(list, n, FALSE, key, value),
         n <= Len(list) => Less(key, list[n][1]),
         NEW l, l = Inserted(list, n, <<key, value>>)
  PROVE  Leads(list, n, FALSE, l, n + 1, key, value)
<1>1. Len(list) \in Nat /\ n \in Nat /\ n <= Len(list) + 1 /\ n \in 1..(n + 1 - 1)
  BY LenProperties
<1>2. PICK a \in Attributes : a = <<key, value>> /\ a[1] = key /\ a[2] = value
  BY Pairs
<1>3. /\ \A k \in 1..(n - 1) : l[k] = list[k]
      /\ l[n] = a
  BY <1>1, <1>2 DEF Inserted
<1>4. Ready(l, n + 1, TRUE, key, value)
  <2>1. Absent(list, n, key)
    BY DEF Ready
  <2>2. Absent(l, n, key)
    BY <1>3, <2>1 DEF Absent
  <2>3. Holds(l, n, key, value)
    BY <1>2, <1>3, <2>2 DEF Holds
  <2> QED
    BY <1>1, <2>3 DEF Ready
<1>5. ASSUME NEW other, NEW w, other # key, Says(list, other, w) PROVE Says(l, other, w)
  BY <1>2, <1>5, InsertedSays
<1>6. ASSUME Canonical(list), Below(list, n, key) PROVE Canonical(l)
  BY <1>2, <1>6, InsertedSorted
<1> QED
  BY <1>4, <1>5, <1>6 DEF Leads, Ordered

(* A turn that changes nothing.                                            *)
LEMMA Steps ==
  ASSUME NEW list \in Seq(Attributes), NEW n \in 1..Len(list), NEW key \in Keys, NEW value,
         NEW added \in BOOLEAN, Ready(list, n, added, key, value), list[n][1] # key,
         ~(Less(key, list[n][1]) /\ ~added)
  PROVE  /\ Ready(list, n + 1, added, key, value)
         /\ Ordered(list, n, added, key) => Ordered(list, n + 1, added, key)
<1>1. Len(list) \in Nat /\ n \in Nat
  BY LenProperties
<1>2. CASE added
  <2>1. PICK m \in 1..(n - 1) : Holds(list, m, key, value)
    BY <1>2 DEF Ready
  <2>2. m \in 1..(n + 1 - 1)
    BY <1>1
  <2> QED
    BY <1>2, <2>1, <2>2 DEF Ready, Ordered
<1>3. CASE ~added
  <2>1. Absent(list, n + 1, key)
    BY <1>1, <1>3, AbsentNext DEF Ready
  <2>2. Less(list[n][1], key)
    BY <1>1, <1>3, LessTotal, Element, Constants
  <2>3. Below(list, n, key) => Below(list, n + 1, key)
    BY <1>1, <2>2 DEF Below
  <2> QED
    BY <1>3, <2>1, <2>3 DEF Ready, Ordered
<1> QED
  BY <1>2, <1>3

-----------------------------------------------------------------------------
\* From here the loop returns a symbol with the one change.
AddOutcome(r, h, list, n, added, key, value) ==
  \E t : /\ Shows(r, h, t) /\ OneChanged(list, t, key, value)
         /\ Ordered(list, n, added, key) => Canonical(t)

(* The end of the loop.                                                    *)
LEMMA AddEnds ==
  ASSUME NEW s, NEW h, NEW list, NEW n, NEW i, HasText(s, h, list, n, i), n = Len(list) + 1,
         NEW added \in BOOLEAN, NEW key \in Keys, NEW value \in Values,
         Ready(list, n, added, key, value)
  PROVE  AddOutcome(IF added THEN s ELSE appendAttribute(s, i, key, value),
                    h, list, n, added, key, value)
<1>1. list \in Seq(Attributes) /\ Len(list) \in Nat /\ n \in 1..(Len(list) + 1)
  BY TurnReads
<1>2. CASE added
  <2>1. PICK m \in 1..(n - 1) : Holds(list, m, key, value)
    BY <1>2 DEF Ready
  <2>2. OneChanged(list, list, key, value)
    BY <1>1, <2>1 DEF OneChanged, Says
  <2>3. Shows(s, h, list)
    BY HasTextShows
  <2> QED
    BY <1>2, <2>2, <2>3 DEF AddOutcome, Ordered
<1>3. CASE ~added
  <2>1. PICK l : l = Inserted(list, n, <<key, value>>)
    OBVIOUS
  <2>2. PICK r : r = appendAttribute(s, i, key, value)
    OBVIOUS
  <2>3. list # <<>>
    BY <1>3 DEF Ready
  <2>4. Shows(r, h, l)
    <3>1. HasText(s, h, list, Len(list) + 1, i)
      OBVIOUS
    <3>2. PICK j : HasText(r, h, Inserted(list, Len(list) + 1, <<key, value>>), 1, j)
      BY <2>2, <2>3, <3>1, TurnAppends
    <3> QED
      BY <2>1, <3>2, HasTextShows
  <2>5. added = FALSE /\ ~(n <= Len(list))
    BY <1>1, <1>3
  <2>6. Leads(list, n, FALSE, l, n + 1, key, value)
    BY <1>1, <2>1, <2>5, LeadsInserted
  <2>7. Says(l, key, value)
    <3>1. PICK m \in 1..(n + 1 - 1) : Holds(l, m, key, value)
      BY <2>6 DEF Leads, Ready
    <3>2. Len(l) = Len(list) + 1
      BY <1>1, <2>1, Pairs, InsertedMade
    <3>3. m \in 1..Len(l)
      BY <1>1, <3>1, <3>2
    <3> QED
      BY <3>1, <3>3 DEF Says
  <2>8. OneChanged(list, l, key, value)
    BY <2>6, <2>7 DEF OneChanged, Leads
  <2>9. Ordered(list, n, added, key) => Canonical(l)
    BY <2>5, <2>6 DEF Leads
  <2> QED
    BY <1>3, <2>2, <2>4, <2>8, <2>9 DEF AddOutcome
<1> QED
  BY <1>2, <1>3

(* One turn.                                                               *)
Turned(at, s, h, list, n, added, key, value) ==
  \/ \E r, l, m, j :
       /\ at = <<r, j, TRUE>> /\ HasText(r, h, l, m, j)
       /\ Len(l) + 1 - m < Len(list) + 1 - n + (IF added THEN 0 ELSE 1)
       /\ Leads(list, n, added, l, m, key, value)
  \/ \E j :
       /\ at = <<s, j, added>> /\ HasText(s, h, list, n + 1, j)
       /\ Ready(list, n + 1, added, key, value)
       /\ Ordered(list, n, added, key) => Ordered(list, n + 1, added, key)

\* A turn of addAttribute writes, or moves on to the next attribute.
LEMMA AddTurns ==
  ASSUME NEW s, NEW h, NEW list, NEW n, NEW i, HasText(s, h, list, n, i), n \in 1..Len(list),
         NEW added \in BOOLEAN, NEW key \in Keys, NEW value \in Values,
         Ready(list, n, added, key, value),
         NEW at, at = addTurn(s, Len(h), i, added, key, value)
  PROVE  Turned(at, s, h, list, n, added, key, value)
<1>1. /\ list \in Seq(Attributes) /\ Len(list) \in Nat /\ n \in Nat /\ n <= Len(list)
      /\ n \in 1..(Len(list) + 1) /\ list[n] \in Attributes
  <2>1. list \in Seq(Attributes)
    BY TurnReads
  <2> QED
    BY <2>1, Element
<1>2. PICK next : next = getNextKeyInternal(s, i)
  OBVIOUS
<1>3. getKeyInternal(s, i) = list[n][1] /\ HasText(s, h, list, n + 1, next)
  BY <1>2, TurnReads
<1>4. PICK after : after = i + Len(key) + Len(value) + 2
  OBVIOUS
<1>5. CASE list[n][1] = key /\ added
  <2>1. PICK r : r = dropKeyAndValueInternal(s, Len(h), i, next)
    OBVIOUS
  <2>2. at = <<r, i, TRUE>>
    BY <1>2, <1>3, <1>5, <2>1 DEF addTurn
  <2>3. PICK l : l = Without(list, n)
    OBVIOUS
  <2>4. HasText(r, h, l, n, i)
    BY <1>2, <2>1, <2>3, TurnDrops
  <2>5. Len(l) = Len(list) - 1
    BY <1>1, <2>3, ListsMade
  <2>6. added = TRUE
    BY <1>5
  <2>7. Leads(list, n, added, l, n, key, value)
    BY <1>1, <1>5, <2>3, <2>6, LeadsDropped
  <2>8. Len(l) + 1 - n < Len(list) + 1 - n + (IF added THEN 0 ELSE 1)
    BY <1>1, <1>5, <2>5
  <2> QED
    BY <2>2, <2>4, <2>7, <2>8 DEF Turned
<1>6. CASE list[n][1] = key /\ ~added
  <2>1. PICK r : r = sub(s, 0, i) \o Attribute(key, value) \o substr(s, next - 1)
    OBVIOUS
  <2>2. at = <<r, after, TRUE>>
    BY <1>2, <1>3, <1>4, <1>6, <2>1 DEF addTurn
  <2>3. PICK l : l = Replaced(list, n, <<key, value>>)
    OBVIOUS
  <2>4. HasText(r, h, l, n + 1, after)
    <3>1. r = Upto(s, i, key, value) \o substr(s, getNextKeyInternal(s, i) - 1)
      BY <1>2, <2>1 DEF Upto
    <3> QED
      BY <1>4, <2>3, <3>1, TurnReplaces
  <2>5. Len(l) = Len(list)
    BY <1>1, <2>3, Pairs, ListsMade
  <2>6. added = FALSE
    BY <1>6
  <2>7. Leads(list, n, added, l, n + 1, key, value)
    BY <1>1, <1>6, <2>3, <2>6, LeadsReplaced
  <2>8. Len(l) + 1 - (n + 1) < Len(list) + 1 - n + (IF added THEN 0 ELSE 1)
    BY <1>1, <1>6, <2>5
  <2> QED
    BY <2>2, <2>4, <2>7, <2>8 DEF Turned
<1>7. CASE list[n][1] # key /\ goesBefore(key, list[n][1]) /\ ~added
  <2>1. PICK r : r = sub(s, 0, i) \o Attribute(key, value) \o <<COMMA>> \o substr(s, i)
    OBVIOUS
  <2>2. at = <<r, after, TRUE>>
    BY <1>2, <1>3, <1>4, <1>7, <2>1 DEF addTurn
  <2>3. PICK l : l = Inserted(list, n, <<key, value>>)
    OBVIOUS
  <2>4. HasText(r, h, l, n + 1, after)
    <3>1. r = Upto(s, i, key, value) \o <<COMMA>> \o substr(s, i)
      BY <2>1 DEF Upto
    <3> QED
      BY <1>4, <2>3, <3>1, TurnInserts
  <2>5. Len(l) = Len(list) + 1
    BY <1>1, <2>3, Pairs, InsertedMade
  <2>6. added = FALSE /\ Less(key, list[n][1])
    BY <1>7 DEF goesBefore
  <2>7. Leads(list, n, added, l, n + 1, key, value)
    BY <1>1, <2>3, <2>6, LeadsInserted
  <2>8. Len(l) + 1 - (n + 1) < Len(list) + 1 - n + (IF added THEN 0 ELSE 1)
    BY <1>1, <1>7, <2>5
  <2> QED
    BY <2>2, <2>4, <2>7, <2>8 DEF Turned
<1>8. CASE list[n][1] # key /\ ~(goesBefore(key, list[n][1]) /\ ~added)
  <2>1. at = <<s, next, added>>
    BY <1>2, <1>3, <1>8 DEF addTurn
  <2>2. ~(Less(key, list[n][1]) /\ ~added)
    BY <1>8 DEF goesBefore
  <2>3. /\ Ready(list, n + 1, added, key, value)
        /\ Ordered(list, n, added, key) => Ordered(list, n + 1, added, key)
    BY <1>1, <1>8, <2>2, Steps
  <2> QED
    BY <1>3, <2>1, <2>3 DEF Turned
<1> QED
  BY <1>5, <1>6, <1>7, <1>8

-----------------------------------------------------------------------------
\* The outcome after a turn that wrote is the outcome before it,
LEMMA OutcomeLeads ==
  ASSUME NEW r, NEW h, NEW list, NEW n, NEW added, NEW key, NEW value, NEW l, NEW m,
         Leads(list, n, added, l, m, key, value),
         AddOutcome(r, h, l, m, TRUE, key, value)
  PROVE  AddOutcome(r, h, list, n, added, key, value)
<1>1. PICK t : /\ Shows(r, h, t) /\ OneChanged(l, t, key, value)
               /\ Ordered(l, m, TRUE, key) => Canonical(t)
  BY DEF AddOutcome
<1>2. OneChanged(list, t, key, value)
  BY <1>1 DEF OneChanged, Leads
<1>3. Ordered(list, n, added, key) => Canonical(t)
  BY <1>1 DEF Leads, Ordered
<1> QED
  BY <1>1, <1>2, <1>3 DEF AddOutcome

\* and so it is for a turn that moved on.
LEMMA OutcomeSteps ==
  ASSUME NEW r, NEW h, NEW list, NEW n, NEW added, NEW key, NEW value, NEW m,
         Ordered(list, n, added, key) => Ordered(list, m, added, key),
         AddOutcome(r, h, list, m, added, key, value)
  PROVE  AddOutcome(r, h, list, n, added, key, value)
BY DEF AddOutcome

\* The turns that are left are at most d.
AddPlace(list, n, added, d) ==
  added \in BOOLEAN /\ Len(list) + 1 - n + (IF added THEN 0 ELSE 1) <= d

\* The loop of addAttribute ends with the one change, by induction on them.
LEMMA Adds ==
  ASSUME NEW s, NEW h, NEW list, Shows(s, h, list), list # <<>>,
         NEW key \in Keys, NEW value \in Values,
         NEW loop, AddLoop(loop, Len(h), key, value)
  PROVE  AddOutcome(loop[<<s, Len(h) + 1, FALSE>>], h, list, 1, FALSE, key, value)
<1> DEFINE Claim(d, q, l, n, i, added) ==
             HasText(q, h, l, n, i) /\ AddPlace(l, n, added, d) /\ Ready(l, n, added, key, value)
               => AddOutcome(loop[<<q, i, added>>], h, l, n, added, key, value)
           T == {d \in Nat : \A q, l, n, i, added : Claim(d, q, l, n, i, added)}
<1>1. ASSUME NEW q, NEW l, NEW n, NEW i, HasText(q, h, l, n, i), NEW added \in BOOLEAN
      PROVE  loop[<<q, i, added>>] =
               IF Ended(q, i)
                 THEN IF added THEN q ELSE appendAttribute(q, i, key, value)
                 ELSE loop[addTurn(q, Len(h), i, added, key, value)]
  <2>1. q \in String /\ i \in Position
    BY <1>1, TurnReads
  <2>2. PICK at : at = <<q, i, added>>
    OBVIOUS
  <2>3. at \in AddPlaces /\ at[1] = q /\ at[2] = i /\ at[3] = added
    BY <2>1, <2>2 DEF AddPlaces
  <2>4. loop[at] = IF Ended(at[1], at[2])
                     THEN IF at[3] THEN at[1] ELSE appendAttribute(at[1], at[2], key, value)
                     ELSE loop[addTurn(at[1], Len(h), at[2], at[3], key, value)]
    BY <2>3 DEF AddLoop
  <2> QED
    BY <2>2, <2>3, <2>4
<1>2. ASSUME NEW q, NEW l, NEW n, NEW i, HasText(q, h, l, n, i), n = Len(l) + 1,
             NEW added \in BOOLEAN, Ready(l, n, added, key, value)
      PROVE  AddOutcome(loop[<<q, i, added>>], h, l, n, added, key, value)
  <2>1. Ended(q, i)
    BY <1>2, TurnReads
  <2>2. loop[<<q, i, added>>] = IF added THEN q ELSE appendAttribute(q, i, key, value)
    BY <1>1, <1>2, <2>1
  <2> QED
    BY <1>2, <2>2, AddEnds
<1>3. 0 \in T
  <2>1. ASSUME NEW q, NEW l, NEW n, NEW i, NEW added, HasText(q, h, l, n, i),
               AddPlace(l, n, added, 0), Ready(l, n, added, key, value)
        PROVE  AddOutcome(loop[<<q, i, added>>], h, l, n, added, key, value)
    <3>1. n \in 1..(Len(l) + 1) /\ Len(l) \in Nat
      BY <2>1, TurnReads
    <3>2. n = Len(l) + 1 /\ added \in BOOLEAN
      BY <2>1, <3>1 DEF AddPlace
    <3> QED
      BY <1>2, <2>1, <3>2
  <2> QED
    BY <2>1
<1>4. ASSUME NEW d \in Nat, d \in T PROVE d + 1 \in T
  <2>1. ASSUME NEW q, NEW l, NEW n, NEW i, NEW added, HasText(q, h, l, n, i),
               AddPlace(l, n, added, d + 1), Ready(l, n, added, key, value)
        PROVE  AddOutcome(loop[<<q, i, added>>], h, l, n, added, key, value)
    <3>1. n \in 1..(Len(l) + 1) /\ Len(l) \in Nat /\ l \in Seq(Attributes)
      BY <2>1, TurnReads
    <3>2. added \in BOOLEAN /\ Len(l) + 1 - n + (IF added THEN 0 ELSE 1) <= d + 1
      BY <2>1 DEF AddPlace
    <3>3. CASE n = Len(l) + 1
      BY <1>2, <2>1, <3>2, <3>3
    <3>4. CASE n # Len(l) + 1
      <4>1. n \in 1..Len(l)
        BY <3>1, <3>4
      <4>2. PICK at : at = addTurn(q, Len(h), i, added, key, value)
        OBVIOUS
      <4>3. loop[<<q, i, added>>] = loop[at]
        <5>1. ~Ended(q, i)
          BY <2>1, <4>1, TurnReads
        <5> QED
          BY <1>1, <2>1, <3>2, <4>2, <5>1
      <4>4. Turned(at, q, h, l, n, added, key, value)
        BY <2>1, <3>2, <4>1, <4>2, AddTurns
      <4>5. ASSUME NEW r, NEW k, NEW m, NEW j, at = <<r, j, TRUE>>, HasText(r, h, k, m, j),
                   Len(k) + 1 - m < Len(l) + 1 - n + (IF added THEN 0 ELSE 1),
                   Leads(l, n, added, k, m, key, value)
            PROVE  AddOutcome(loop[at], h, l, n, added, key, value)
        <5>1. m \in 1..(Len(k) + 1) /\ Len(k) \in Nat
          BY <4>5, TurnReads
        <5>2. Len(k) + 1 - m <= d
          BY <3>1, <3>2, <4>5, <5>1
        <5>3. AddPlace(k, m, TRUE, d)
          BY <5>1, <5>2 DEF AddPlace
        <5>4. Ready(k, m, TRUE, key, value)
          BY <4>5 DEF Leads
        <5>5. Claim(d, r, k, m, j, TRUE)
          BY <1>4
        <5>6. AddOutcome(loop[at], h, k, m, TRUE, key, value)
          BY <4>5, <5>3, <5>4, <5>5
        <5> QED
          BY <4>5, <5>6, OutcomeLeads
      <4>6. ASSUME NEW j, at = <<q, j, added>>, HasText(q, h, l, n + 1, j),
                   Ready(l, n + 1, added, key, value),
                   Ordered(l, n, added, key) => Ordered(l, n + 1, added, key)
            PROVE  AddOutcome(loop[at], h, l, n, added, key, value)
        <5>1. AddPlace(l, n + 1, added, d)
          BY <3>1, <3>2 DEF AddPlace
        <5>2. Claim(d, q, l, n + 1, j, added)
          BY <1>4
        <5>3. AddOutcome(loop[at], h, l, n + 1, added, key, value)
          BY <4>6, <5>1, <5>2
        <5> QED
          BY <4>6, <5>3, OutcomeSteps
      <4> QED
        BY <4>3, <4>4, <4>5, <4>6 DEF Turned
    <3> QED
      BY <3>3, <3>4
  <2> QED
    BY <1>4, <2>1
<1> HIDE DEF T
<1>5. Nat \subseteq T
  BY <1>3, <1>4, SetInduction
<1>6. PICK d \in Nat : d = Len(list) + 1
  BY Starts
<1>7. Claim(d, s, list, 1, Len(h) + 1, FALSE)
  <2>1. d \in T
    BY <1>5
  <2> QED
    BY <2>1 DEF T
<1>8. HasText(s, h, list, 1, Len(h) + 1) /\ Len(list) \in Nat
  BY Starts
<1>9. AddPlace(list, 1, FALSE, d)
  BY <1>6, <1>8 DEF AddPlace
<1>10. Ready(list, 1, FALSE, key, value)
  BY DEF Ready, Absent
<1> QED
  BY <1>7, <1>8, <1>9, <1>10

(* The functions.                                                          *)
LEMMA AddsAttribute ==
  ASSUME NEW s, NEW h, NEW list, Shows(s, h, list), list # <<>>, Len(h) # Len(s),
         NEW key \in Keys, NEW value \in Values,
         NEW r, r = addAttributeInternal(s, Len(h), key, value)
  PROVE  \E t : /\ Shows(r, h, t) /\ OneChanged(list, t, key, value)
                /\ Canonical(list) => Canonical(t)
<1>1. Len(h) \in Nat
  BY Starts
<1>2. PICK loop : /\ AddLoop(loop, Len(h), key, value)
                  /\ r = loop[<<s, Len(h) + 1, FALSE>>]
  BY <1>1, AddLoops
<1>3. AddOutcome(r, h, list, 1, FALSE, key, value)
  BY <1>2, Adds
<1>4. Below(list, 1, key)
  BY DEF Below
<1> QED
  BY <1>3, <1>4 DEF AddOutcome, Ordered

\* Removing a key changes what the symbol says of it to None, nothing else.
LEMMA RemovesAttribute ==
  ASSUME NEW s, NEW h, NEW list, Shows(s, h, list), Len(h) # Len(s), NEW key,
         NEW r, r = removeAttributeInternal(s, Len(h), key)
  PROVE  \E t : /\ Shows(r, h, t) /\ OneChanged(list, t, key, None)
                /\ Canonical(list) => Canonical(t)
<1>1. Len(h) \in Nat
  BY Starts
<1>2. PICK loop : RemoveLoop(loop, Len(h), key) /\ r = loop[<<s, Len(h) + 1>>]
  BY <1>1, RemoveLoops
<1> QED
  BY <1>2, Removes

\* Reading a key returns what the symbol says of it.
LEMMA GetsAttribute ==
  ASSUME NEW s, NEW h, NEW list, Shows(s, h, list), Len(h) # Len(s), NEW key, NEW v,
         Says(list, key, v)
  PROVE  getAttributeInternal(s, Len(h), key) = v
<1>1. s \in String
  BY Starts
<1>2. PICK find : /\ FindLoop(find, s, key)
                  /\ getAttributeInternal(s, Len(h), key) = find[Len(h) + 1]
  BY <1>1, GetAttribute
<1> QED
  BY <1>2, Finds

-----------------------------------------------------------------------------
(* What is before the attributes.                                          *)
NoBracket(h) == h \in String /\ \A p \in 1..Len(h) : h[p] # OPEN

\* An exchange code, or none.
CodeOrNone == Exchanges \union {NoCode}

\* A base symbol and an exchange code.
Prefixed(h, b, x) ==
  /\ NoBracket(h) /\ Len(h) = (IF x = NoCode THEN Len(b) ELSE Len(b) + 2)
  /\ \A p \in 1..Len(b) : h[p] = b[p]
  /\ x # NoCode => (h[Len(b) + 1] = SEPARATOR /\ h[Len(b) + 2] = x)

\* So is the text for them.
LEMMA PrefixReads ==
  ASSUME NEW b \in Bases, NEW x \in CodeOrNone, NEW h, h = Prefix(b, x)
  PROVE  Prefixed(h, b, x)
<1>1. /\ b \in String /\ Len(b) \in Nat
      /\ \A p \in 1..Len(b) : b[p] # SEPARATOR /\ b[p] # OPEN
      /\ x # NoCode => x \in Int /\ x # OPEN
  BY Constants, Lengths DEF CodeOrNone
<1>2. CASE x = NoCode
  <2>1. h = b
    BY <1>1, <1>2, ConcatEmptySeq DEF Prefix, String
  <2> QED
    BY <1>1, <1>2, <2>1 DEF NoBracket, Prefixed
<1>3. CASE x # NoCode
  <2>1. PICK c : c = <<SEPARATOR, x>>
    OBVIOUS
  <2>2. c \in String /\ Len(c) = 2 /\ c[1] = SEPARATOR /\ c[2] = x
    BY <1>1, <1>3, <2>1 DEF String, SEPARATOR
  <2>3. h = b \o c
    BY <1>3, <2>1 DEF Prefix
  <2>4. /\ h \in String /\ Len(h) = Len(b) + 2
        /\ \A p \in 1..Len(b) : h[p] = b[p]
        /\ \A p \in 1..Len(c) : h[Len(b) + p] = c[p]
    <3>1. /\ b \o c \in String /\ Len(b \o c) = Len(b) + Len(c)
          /\ \A p \in 1..Len(b) : (b \o c)[p] = b[p]
          /\ \A p \in 1..Len(c) : (b \o c)[Len(b) + p] = c[p]
      BY <1>1, <2>2, Joined
    <3> QED
      BY <2>2, <2>3, <3>1
  <2>5. h[Len(b) + 1] = SEPARATOR /\ h[Len(b) + 2] = x
    BY <2>2, <2>4
  <2>6. \A p \in 1..Len(h) : h[p] # OPEN
    <3>1. ASSUME NEW p \in 1..Len(h) PROVE h[p] # OPEN
      <4>1. p \in 1..Len(b) \/ p = Len(b) + 1 \/ p = Len(b) + 2
        BY <1>1, <2>4
      <4> QED
        BY <1>1, <1>3, <2>4, <2>5, <4>1 DEF SEPARATOR, OPEN
    <3> QED
      BY <3>1
  <2> QED
    BY <1>3, <2>4, <2>5, <2>6 DEF NoBracket, Prefixed
<1> QED
  BY <1>2, <1>3

(* What the functions read of it.                                          *)
LEMMA ReadsPrefix ==
  ASSUME NEW b \in Bases, NEW x \in CodeOrNone, NEW s \in String, NEW h, h = Prefix(b, x),
         Begins(s, h), Len(h) <= Len(s)
  PROVE  /\ getBaseSymbolInternal(s, Len(h)) = b
         /\ hasExchangeCodeInternal(s, Len(h)) <=> x # NoCode
         /\ x # NoCode => s[Len(h)] = x
<1>0. Prefixed(h, b, x) /\ b \in String /\ \A p \in 1..Len(b) : b[p] # SEPARATOR
  BY PrefixReads, Constants
<1>a. Len(b) \in Nat /\ Len(s) \in Nat /\ h \in String /\ Len(h) \in Nat
  BY <1>0, Lengths DEF Prefixed, NoBracket
<1>1. /\ b \in String /\ Len(b) \in Nat /\ Len(h) \in Nat /\ Len(s) \in Nat
      /\ \A p \in 1..Len(b) : b[p] # SEPARATOR
      /\ Len(h) = (IF x = NoCode THEN Len(b) ELSE Len(b) + 2)
      /\ \A p \in 1..Len(b) : h[p] = b[p]
      /\ x # NoCode => (h[Len(b) + 1] = SEPARATOR /\ h[Len(b) + 2] = x)
      /\ \A p \in 1..Len(h) : s[p] = h[p]
  BY <1>0, <1>a DEF Begins, Prefixed
<1>2. hasExchangeCodeInternal(s, Len(h)) <=> x # NoCode
  <2>1. CASE x = NoCode
    <3>1. ASSUME Len(h) >= 2 PROVE s[Len(h) - 1] # SEPARATOR
      <4>1. Len(h) - 1 \in 1..Len(b) /\ Len(h) - 1 \in 1..Len(h)
        BY <1>1, <2>1, <3>1
      <4> QED
        BY <1>1, <4>1
    <3> QED
      BY <2>1, <3>1 DEF hasExchangeCodeInternal
  <2>2. CASE x # NoCode
    <3>1. Len(h) >= 2 /\ Len(h) - 1 = Len(b) + 1 /\ Len(b) + 1 \in 1..Len(h)
      BY <1>1, <2>2
    <3>2. s[Len(h) - 1] = SEPARATOR
      BY <1>1, <2>2, <3>1
    <3> QED
      BY <2>2, <3>1, <3>2 DEF hasExchangeCodeInternal
  <2> QED
    BY <2>1, <2>2
<1>3. x # NoCode => s[Len(h)] = x
  <2>1. ASSUME x # NoCode PROVE s[Len(h)] = x
    <3>1. Len(h) = Len(b) + 2 /\ Len(h) \in 1..Len(h)
      BY <1>1, <2>1
    <3> QED
      BY <1>1, <2>1, <3>1
  <2> QED
    BY <2>1
<1>4. getBaseSymbolInternal(s, Len(h)) = sub(s, 0, Len(b))
  <2>1. (IF hasExchangeCodeInternal(s, Len(h)) THEN Len(h) - 2 ELSE Len(h)) = Len(b)
    BY <1>1, <1>2
  <2> QED
    BY <2>1 DEF getBaseSymbolInternal
<1>5. sub(s, 0, Len(b)) = b
  <2>1. 0 \in Nat /\ 0 + Len(b) <= Len(s) /\ Len(b) <= Len(h)
    BY <1>1
  <2>2. /\ sub(s, 0, Len(b)) \in String /\ Len(sub(s, 0, Len(b))) = Len(b)
        /\ \A p \in 1..Len(b) : sub(s, 0, Len(b))[p] = s[0 + p]
    BY <1>1, <2>1, Slice
  <2>3. \A p \in 1..Len(b) : sub(s, 0, Len(b))[p] = b[p]
    BY <1>1, <2>1, <2>2
  <2> QED
    BY <1>1, <2>2, <2>3, SameString
<1> QED
  BY <1>2, <1>3, <1>4, <1>5

(* Where the functions find its end.                                       *)
LEMMA ShownEnds ==
  ASSUME NEW s, NEW h, NEW list, Shows(s, h, list)
  PROVE  /\ Begins(s, h) /\ Len(h) <= Len(s) /\ Len(s) \in Nat /\ Len(h) \in Nat
         /\ list = <<>> <=> Len(s) = Len(h)
         /\ list = <<>> => s = h
         /\ list # <<>> => /\ Len(h) + 3 <= Len(s) /\ s[Len(s)] = CLOSE /\ s[Len(h) + 1] = OPEN
         /\ \A p \in (Len(h) + 2)..Len(s) : s[p] # OPEN
<1>1. PICK pos : Closed(s, h, list, pos)
  BY DEF Shows
<1>2. Placed(s, Len(h), list, pos) /\ h \in String /\ Begins(s, h) /\ Written(s, Len(h), list, pos)
  BY <1>1, EndOf DEF Closed
<1>3. /\ s \in String /\ Len(s) \in Nat /\ Len(h) \in Nat /\ Len(h) <= Len(s)
      /\ list \in Seq(Attributes) /\ Len(list) \in Nat
  BY <1>2, Bounds
<1>4. pos[1] = Len(h) + 1 /\ \A p \in (Len(h) + 2)..Len(s) : s[p] # OPEN
  BY <1>2 DEF Placed
<1>5. CASE list = <<>>
  <2>1. Len(s) = Len(h)
    BY <1>2, <1>5 DEF Written
  <2>2. s = h
    BY <1>2, <1>3, <2>1, SameString DEF Begins
  <2> QED
    BY <1>2, <1>3, <1>4, <1>5, <2>1, <2>2
<1>6. CASE list # <<>>
  <2>1. 1 \in 1..Len(list)
    BY <1>3, <1>6, EmptySeq
  <2>2. pos[1] + 2 <= pos[2] /\ pos[2] <= Len(s) /\ pos[2] \in Nat
    BY <1>2, <2>1, Within
  <2>3. s[Len(s)] = CLOSE
    BY <1>2, <1>6 DEF Written
  <2>4. s[Len(h) + 1] = OPEN
    BY <1>2, <1>4, <2>1 DEF Placed, InPlace
  <2>5. Len(h) + 3 <= Len(s)
    BY <1>3, <1>4, <2>2
  <2> QED
    BY <1>2, <1>3, <1>4, <1>6, <2>3, <2>4, <2>5
<1> QED
  BY <1>5, <1>6

\* getLengthWithoutAttributes finds where the attributes begin.
LEMMA LengthFound ==
  ASSUME NEW s, NEW h, NEW list, Shows(s, h, list), NoBracket(h)
  PROVE  getLengthWithoutAttributesInternal(s) = Len(h)
<1>1. /\ s \in String /\ h \in String /\ Len(s) \in Nat /\ Len(h) \in Nat
      /\ \A p \in 1..Len(h) : s[p] # OPEN
  BY Starts, ShownEnds DEF NoBracket, Begins
<1>2. CASE list = <<>>
  <2>1. Len(s) = Len(h)
    BY <1>2, ShownEnds
  <2>2. \A p \in Nat : p < Len(s) => s[p + 1] # OPEN
    BY <1>1, <2>1
  <2>3. find_last_of(s, OPEN, Len(s) - 2) = npos
    BY <1>1, <2>2, LastNone
  <2>4. ~hasAttributesInternal(s)
    BY <2>3 DEF hasAttributesInternal
  <2> QED
    BY <2>1, <2>4 DEF getLengthWithoutAttributesInternal
<1>3. CASE list # <<>>
  <2>1. /\ Len(h) + 3 <= Len(s) /\ s[Len(s)] = CLOSE /\ s[Len(h) + 1] = OPEN
        /\ \A p \in (Len(h) + 2)..Len(s) : s[p] # OPEN
    BY <1>3, ShownEnds
  <2>2. \A p \in Nat : Len(h) < p /\ p < Len(s) => s[p + 1] # OPEN
    BY <1>1, <2>1
  <2>3. find_last_of(s, OPEN, Len(s) - 2) = Len(h) /\ find_last_of(s, OPEN, Len(s) - 1) = Len(h)
    <3>1. ASSUME NEW i \in Int, Len(h) <= i PROVE find_last_of(s, OPEN, i) = Len(h)
      <4>1. Len(h) < Len(s) /\ s[Len(h) + 1] = OPEN
        BY ONLY <1>1, <2>1
      <4>2. \A p \in Nat : Len(h) < p /\ p <= i /\ p < Len(s) => s[p + 1] # OPEN
        BY ONLY <2>2
      <4> QED
        BY ONLY <1>1, <3>1, <4>1, <4>2, i \in Int, LastIs
    <3>2. Len(s) - 2 \in Int /\ Len(s) - 1 \in Int /\ Len(h) <= Len(s) - 2 /\ Len(h) <= Len(s) - 1
      BY <1>1, <2>1
    <3> QED
      BY <3>1, <3>2
  <2>4. Last(s) = CLOSE
    BY <2>1 DEF Last
  <2>5. hasAttributesInternal(s)
    BY <1>1, <2>1, <2>3, <2>4 DEF hasAttributesInternal, npos
  <2> QED
    BY <2>3, <2>5 DEF getLengthWithoutAttributesInternal
<1> QED
  BY <1>2, <1>3

(* The symbol without attributes.                                          *)
LEMMA Bare ==
  ASSUME NEW h, h \in String
  PROVE  \E pos : Unclosed(h, h, <<>>, pos) /\ Closed(h, h, <<>>, pos)
<1>1. Len(h) \in Nat
  BY Lengths
<1>2. PICK e : e = <<>> /\ e \in Seq(Attributes) /\ Len(e) = 0
  BY EmptySeq
<1>3. PICK pos : pos = [n \in 1..1 |-> Len(h) + 1]
  OBVIOUS
<1>4. pos \in [1..(Len(e) + 1) -> Nat] /\ pos[1] = Len(h) + 1 /\ pos[Len(e) + 1] = Len(h) + 1
  BY <1>1, <1>2, <1>3
<1>5. Placed(h, Len(h), e, pos)
  <2>1. Typed(h, Len(h), e, pos)
    BY <1>1, <1>2, <1>4 DEF Typed
  <2>2. \A n \in 1..Len(e) : InPlace(h, pos, e, n)
    BY <1>2
  <2>3. \A p \in (Len(h) + 2)..Len(h) : h[p] # OPEN
    BY <1>1
  <2> QED
    BY <1>4, <2>1, <2>2, <2>3 DEF Placed
<1>6. Begins(h, h)
  BY DEF Begins
<1>7. Unclosed(h, h, e, pos)
  BY <1>1, <1>4, <1>5, <1>6 DEF Unclosed
<1>8. Closed(h, h, e, pos)
  BY <1>2, <1>5, <1>6 DEF Closed, Written
<1> QED
  BY <1>2, <1>7, <1>8

-----------------------------------------------------------------------------
(* Another base symbol or exchange code before the attributes.             *)
LEMMA PrefixChanges ==
  ASSUME NEW s, NEW g, NEW list, Shows(s, g, list), NEW h \in String,
         NEW r, r = h \o substr(s, Len(g))
  PROVE  Shows(r, h, list)
<1>1. /\ s \in String /\ Len(s) \in Nat /\ Len(g) \in Nat /\ list \in Seq(Attributes)
      /\ Len(list) \in Nat
  BY Starts, Lengths
<1>2. PICK pos1 : Unclosed(h, h, <<>>, pos1) /\ Closed(h, h, <<>>, pos1)
  BY Bare
<1>3. CASE list = <<>>
  <2>1. PICK u \in String : u = substr(s, Len(g)) /\ Len(u) = 0
    BY <1>1, <1>3, ShownEnds, Rest
  <2>2. u = <<>>
    BY <2>1, EmptySeq DEF String
  <2>3. r = h
    BY <2>1, <2>2, ConcatEmptySeq DEF String
  <2> QED
    BY <1>2, <1>3, <2>3 DEF Shows
<1>4. CASE list # <<>>
  <2>1. Len(g) + 3 <= Len(s) /\ s[Len(g) + 1] = OPEN
    BY <1>4, ShownEnds
  <2>2. PICK i \in Nat : i = Len(g) + 1 /\ i \in 1..Len(s) /\ i - 1 = Len(g) /\ s[i] = OPEN
    BY <1>1, <2>1
  <2>3. PICK u \in String : u = substr(s, i)
    BY <1>1, <2>2, Rest
  <2>4. substr(s, Len(g)) = <<OPEN>> \o u
    BY <1>1, <2>2, <2>3, SplitAfter
  <2>5. r = Chain(h, OPEN, u)
    <3>1. <<OPEN>> \in String
      BY Characters, OneCharacter
    <3>2. PICK c \in String : c = <<OPEN>>
      BY <3>1
    <3>3. (h \o c) \o u = h \o (c \o u)
      BY ONLY h \in String, c \in String, u \in String, JoinedInAnyGrouping
    <3> QED
      BY <2>3, <2>4, <3>2, <3>3 DEF Chain
  <2>6. PICK pos : Closed(s, g, list, pos)
    BY DEF Shows
  <2>7. pos[1] = i /\ 1 \in 1..Len(list)
    <3>1. Placed(s, Len(g), list, pos)
      BY <2>6, EndOf
    <3> QED
      BY <1>1, <1>4, <2>2, <3>1, EmptySeq DEF Placed
  <2>8. PICK none : none = <<>> /\ none \in Seq(Attributes) /\ Len(none) = 0
    BY EmptySeq
  <2>9. Joins(list, none, list, 1)
    BY <1>1, <2>8 DEF Joins
  <2>10. Unclosed(h, h, none, pos1) /\ Separator(none) = OPEN
    BY <1>2, <2>8 DEF Separator
  <2>11. r = Chain(h, Separator(none), substr(s, pos[1]))
    BY <2>3, <2>5, <2>7, <2>10
  <2>12. PICK pos2 : Closed(r, h, list, pos2)
    BY <2>6, <2>7, <2>9, <2>10, <2>11, Tailed
  <2> QED
    BY <2>12 DEF Shows
<1> QED
  BY <1>3, <1>4

(* The first attribute of a symbol.                                        *)
LEMMA FirstAttribute ==
  ASSUME NEW s, NEW h, NEW list, Shows(s, h, list), list = <<>>,
         NEW key \in Keys, NEW value \in Values,
         NEW r, r = s \o <<OPEN>> \o Attribute(key, value) \o <<CLOSE>>
  PROVE  \E t : /\ Shows(r, h, t) /\ OneChanged(list, t, key, value)
                /\ Canonical(t)
<1>1. s = h /\ h \in String
  BY ShownEnds, Starts
<1>2. PICK none : none = <<>> /\ none \in Seq(Attributes) /\ Len(none) = 0
  BY EmptySeq
<1>3. PICK pos : Unclosed(s, h, none, pos)
  BY <1>1, <1>2, Bare
<1>4. PICK a \in Attributes : a = <<key, value>> /\ a[1] = key /\ a[2] = value
  BY Pairs
<1>5. PICK t \in Seq(Attributes) : Len(t) = 1 /\ t[1] = a
  <2>1. [n \in 1..1 |-> a] \in [1..1 -> Attributes]
    OBVIOUS
  <2>2. [n \in 1..1 |-> a] \in Seq(Attributes) /\ Len([n \in 1..1 |-> a]) = 1
    BY <2>1, IsList
  <2>3. [n \in 1..1 |-> a][1] = a
    OBVIOUS
  <2> QED
    BY <2>2, <2>3
<1>6. t \in Seq(Attributes) /\ Len(t) = 1 /\ t[1] = a
  BY <1>5
<1>7. PICK q : q = Chain(s, Separator(none), Attribute(key, value))
  OBVIOUS
<1>8. PICK pos2 : Unclosed(q, h, t, pos2)
  <2>1. /\ Len(t) = Len(none) + 1 /\ \A m \in 1..Len(none) : t[m] = none[m]
        /\ t[Len(none) + 1] = <<key, value>>
    BY <1>2, <1>4, <1>6
  <2> QED
    BY ONLY <1>2, <1>3, <1>6, <1>7, <2>1, Extend, key \in Keys, value \in Values
<1>9. t # <<>>
  <2>1. ASSUME t = none PROVE FALSE
    <3>1. Len(t) = Len(none)
      BY <2>1
    <3>2. Len(t) = 1 /\ Len(none) = 0
      BY <1>2, <1>6
    <3>3. 1 = 0
      BY <3>1, <3>2, Zenon
    <3> QED
      BY <3>3
  <2> QED
    BY <1>2, <2>1, Zenon
<1>10. Closed(q \o <<CLOSE>>, h, t, pos2)
  BY <1>8, <1>9, Close
<1>11. r = q \o <<CLOSE>>
  BY <1>2, <1>7 DEF Chain, Separator
<1>12. Shows(r, h, t)
  BY <1>10, <1>11 DEF Shows
<1>13. Says(t, key, value)
  <2>1. Holds(t, 1, key, value) /\ 1 \in 1..Len(t)
    BY <1>4, <1>6 DEF Holds, Absent
  <2> QED
    BY <2>1 DEF Says
<1>14. ASSUME NEW other, NEW w, other # key, Says(none, other, w) PROVE Says(t, other, w)
  <2>1. w = None
    BY <1>2, <1>14 DEF Says
  <2>2. Absent(t, Len(t) + 1, other)
    BY <1>4, <1>6, <1>14 DEF Absent
  <2> QED
    BY <2>1, <2>2 DEF Says
<1>15. Canonical(t)
  BY <1>6, Sorted
<1> QED
  BY <1>2, <1>12, <1>13, <1>14, <1>15 DEF OneChanged

-----------------------------------------------------------------------------
(* The text for a list shows the list.                                     *)
TextLoop(text, b, x, list) ==
  text = [n \in 0..Len(list) |->
            IF n = 0 THEN Prefix(b, x)
            ELSE text[n - 1] \o <<IF n = 1 THEN OPEN ELSE COMMA>>
                             \o Attribute(list[n][1], list[n][2])]

\* There is such a text.
LEMMA TextLoops ==
  ASSUME NEW b \in Bases, NEW x \in CodeOrNone, NEW list \in Seq(Attributes)
  PROVE  \E text : /\ TextLoop(text, b, x, list)
                   /\ Text(b, x, list) = IF list = <<>> THEN Prefix(b, x)
                                         ELSE text[Len(list)] \o <<CLOSE>>
<1> DEFINE S == 0..Len(list)
           more(n, t) == t \o <<IF n = 1 THEN OPEN ELSE COMMA>>
                           \o Attribute(list[n][1], list[n][2])
           result == [n \in S |-> Prefix(b, x)]
           step == [n \in S |-> IF n = 0 THEN 0 ELSE n - 1]
           G == [p \in S \X String |-> IF p[1] = 0 THEN p[2] ELSE more(p[1], p[2])]
           measure == [n \in S |-> n]
           stop == {0}
<1>1. Len(list) \in Nat /\ Prefix(b, x) \in String
  BY LenProperties, PrefixReads DEF Prefixed, NoBracket
<1>2. ASSUME NEW n \in S, n # 0, NEW t \in String PROVE more(n, t) \in String
  <2>1. n \in 1..Len(list)
    BY <1>1, <1>2
  <2>2. PICK a \in String : a = Attribute(list[n][1], list[n][2])
    BY <2>1, Element, AttributeText
  <2>3. PICK c \in Int : c = IF n = 1 THEN OPEN ELSE COMMA
    BY Characters
  <2>4. PICK r : r = Chain(t, c, a)
    OBVIOUS
  <2>5. r \in String
    BY <1>2, <2>2, <2>3, <2>4, Appended
  <2> QED
    BY <2>2, <2>3, <2>4, <2>5 DEF Chain
<1>3. result \in [S -> String] /\ step \in [S -> S] /\ measure \in [S -> Nat]
  BY <1>1
<1>4. G \in [S \X String -> String]
  <2> HIDE DEF more, S
  <2> QED
    BY <1>2
<1>5. \A n \in S \ stop : measure[step[n]] < measure[n]
  BY <1>1
<1>6. PICK f \in [S -> String] : Solved(f, S, stop, result, step, G)
  <2> HIDE DEF S, stop, result, step, G, measure
  <2> QED
    BY <1>3, <1>4, <1>5, Recursion
<1>7. ASSUME NEW n \in S
      PROVE  f[n] = IF n = 0 THEN Prefix(b, x) ELSE more(n, f[n - 1])
  <2>1. f[n] = IF n \in stop THEN result[n] ELSE G[<<n, f[step[n]]>>]
    BY <1>6, <1>7 DEF Solved, Equation
  <2>2. CASE n = 0
    BY <2>1, <2>2
  <2>3. CASE n # 0
    <3>1. step[n] = n - 1 /\ n - 1 \in S
      BY <1>1, <2>3
    <3>2. f[n - 1] \in String
      BY <3>1
    <3>3. G[<<n, f[n - 1]>>] = more(n, f[n - 1])
      <4> HIDE DEF more, S
      <4> QED
        BY <2>3, <3>2
    <3> HIDE DEF more, G, step
    <3> QED
      BY <2>1, <2>3, <3>1, <3>3
  <2> QED
    BY <2>2, <2>3
<1>8. TextLoop(f, b, x, list)
  <2>1. f = [n \in S |-> f[n]]
    OBVIOUS
  <2> QED
    BY <1>7, <2>1 DEF TextLoop
<1> DEFINE text == CHOOSE text : TextLoop(text, b, x, list)
<1>9. TextLoop(text, b, x, list)
  BY <1>8
<1>10. Text(b, x, list) = IF list = <<>> THEN Prefix(b, x) ELSE text[Len(list)] \o <<CLOSE>>
  BY Zenon DEF Text, TextLoop
<1> QED
  BY <1>9, <1>10

\* It shows the base symbol, the exchange code and the list.
LEMMA TextShows ==
  ASSUME NEW b \in Bases, NEW x \in CodeOrNone, NEW list \in Seq(Attributes)
  PROVE  Shows(Text(b, x, list), Prefix(b, x), list)
<1>1. PICK text : /\ TextLoop(text, b, x, list)
                  /\ Text(b, x, list) = IF list = <<>> THEN Prefix(b, x)
                                        ELSE text[Len(list)] \o <<CLOSE>>
  BY TextLoops
<1>2. PICK h \in String : h = Prefix(b, x)
  BY PrefixReads DEF Prefixed, NoBracket
<1>3. Len(list) \in Nat /\ \A n \in 1..Len(list) : list[n] \in Attributes
  BY LenProperties, Element
<1> DEFINE T == {n \in Nat : n <= Len(list) => \E pos : Unclosed(text[n], h, First(list, n), pos)}
<1>4. ASSUME NEW n \in Nat, n <= Len(list)
      PROVE  First(list, n) \in Seq(Attributes) /\ Len(First(list, n)) = n
  <2>1. First(list, n) \in [1..n -> Attributes]
    BY <1>3, <1>4 DEF First
  <2> QED
    BY <2>1, IsList
<1>5. 0 \in T
  <2>1. text[0] = h
    BY <1>1, <1>2, <1>3 DEF TextLoop
  <2>2. First(list, 0) = <<>>
    <3>1. First(list, 0) \in Seq(Attributes) /\ Len(First(list, 0)) = 0
      BY <1>3, <1>4
    <3> QED
      BY <3>1, EmptySeq
  <2>3. PICK pos : Unclosed(h, h, <<>>, pos)
    BY Bare
  <2> QED
    BY <2>1, <2>2, <2>3
<1>6. ASSUME NEW n \in Nat, n \in T PROVE n + 1 \in T
  <2>1. ASSUME n + 1 <= Len(list)
        PROVE  \E pos : Unclosed(text[n + 1], h, First(list, n + 1), pos)
    <3>1. PICK k \in 1..Len(list) : k = n + 1 /\ k - 1 = n
      BY <1>3, <2>1
    <3>2. PICK pos : Unclosed(text[n], h, First(list, n), pos)
      BY <1>3, <1>6, <2>1
    <3>3. PICK first \in Seq(Attributes) : first = First(list, n) /\ Len(first) = n
      BY <1>3, <1>4, <2>1
    <3>4. PICK longer \in Seq(Attributes) : longer = First(list, n + 1) /\ Len(longer) = n + 1
      BY <1>3, <1>4, <2>1
    <3>5. PICK key \in Keys, value \in Values : key = list[k][1] /\ value = list[k][2]
      BY Element
    <3>6. \A m \in 1..Len(first) : longer[m] = first[m]
      BY <3>3, <3>4 DEF First
    <3>7. longer[Len(first) + 1] = <<key, value>>
      <4>1. longer[k] = list[k]
        BY <3>1, <3>4 DEF First
      <4> QED
        BY <3>1, <3>3, <3>5, <4>1, Element
    <3>8. text[k] = text[k - 1] \o <<IF k = 1 THEN OPEN ELSE COMMA>>
                                 \o Attribute(list[k][1], list[k][2])
      <4>1. k \in 0..Len(list) /\ k # 0
        BY <1>3
      <4> QED
        BY <1>1, <4>1 DEF TextLoop
    <3>9. Separator(first) = IF k = 1 THEN OPEN ELSE COMMA
      <4>1. first = <<>> <=> n = 0
        BY <3>3, EmptySeq
      <4> QED
        BY <3>1, <4>1 DEF Separator
    <3>10. text[k] = Chain(text[n], Separator(first), Attribute(key, value))
      BY <3>1, <3>5, <3>8, <3>9 DEF Chain
    <3>11. PICK q : q = text[n]
      OBVIOUS
    <3>12. PICK t : t = text[k] /\ t = Chain(q, Separator(first), Attribute(key, value))
      BY <3>10, <3>11
    <3>13. Unclosed(q, h, first, pos) /\ Len(longer) = Len(first) + 1
      BY <3>2, <3>3, <3>4, <3>11
    <3>14. PICK pos2 : Unclosed(t, h, longer, pos2)
      BY ONLY <3>6, <3>7, <3>12, <3>13, Extend, key \in Keys, value \in Values,
              longer \in Seq(Attributes)
    <3> QED
      BY <3>1, <3>4, <3>12, <3>14
  <2> QED
    BY <2>1
<1> HIDE DEF T
<1>7. Nat \subseteq T
  BY <1>5, <1>6, SetInduction
<1>8. CASE list = <<>>
  <2>1. PICK pos : Closed(h, h, <<>>, pos)
    BY Bare
  <2> QED
    BY <1>1, <1>2, <1>8, <2>1 DEF Shows
<1>9. CASE list # <<>>
  <2>1. Len(list) \in T
    BY <1>3, <1>7
  <2>2. PICK pos : Unclosed(text[Len(list)], h, First(list, Len(list)), pos)
    BY <1>3, <2>1 DEF T
  <2>3. First(list, Len(list)) = list
    <3>1. /\ First(list, Len(list)) \in Seq(Attributes)
          /\ Len(First(list, Len(list))) = Len(list)
      BY <1>3, <1>4
    <3>2. \A m \in 1..Len(list) : First(list, Len(list))[m] = list[m]
      BY DEF First
    <3> QED
      BY <3>1, <3>2, SeqEqual
  <2>4. Closed(text[Len(list)] \o <<CLOSE>>, h, list, pos)
    BY <1>9, <2>2, <2>3, Close
  <2> QED
    BY <1>1, <1>2, <1>9, <2>4 DEF Shows
<1> QED
  BY <1>8, <1>9

(* The meaning of a list is what it says.                                  *)
LEMMA MeaningSays ==
  ASSUME NEW list \in Seq(Attributes), NEW key \in Keys
  PROVE  Says(list, key, Meaning(list)[key])
<1> DEFINE N == {n \in DOMAIN list : list[n][1] = key}
<1>1. Len(list) \in Nat /\ DOMAIN list = 1..Len(list) /\ N \subseteq Nat
  BY LenProperties
<1>2. Meaning(list)[key] = IF N = {} THEN None ELSE list[Min(N)][2]
  BY DEF Meaning
<1>3. CASE N = {}
  <2>1. Absent(list, Len(list) + 1, key)
    BY <1>1, <1>3 DEF Absent
  <2> QED
    BY <1>2, <1>3, <2>1 DEF Says
<1>4. CASE N # {}
  <2>1. PICK n \in N : \A m \in N : n <= m
    <3> HIDE DEF N
    <3> QED
      BY <1>1, <1>4, LeastElement
  <2>2. Min(N) = n
    <3>1. N \subseteq Int
      BY <1>1
    <3> HIDE DEF N
    <3> QED
      BY <2>1, <3>1, LeastIs
  <2>3. n \in 1..Len(list) /\ list[n][1] = key
    BY <1>1
  <2>4. Absent(list, n, key)
    <3>1. ASSUME NEW m \in 1..(n - 1), list[m][1] = key PROVE FALSE
      <4>1. m \in N /\ ~(n <= m)
        BY <1>1, <2>3, <3>1
      <4> QED
        BY <2>1, <4>1
    <3> QED
      BY <3>1 DEF Absent
  <2>5. Holds(list, n, key, Meaning(list)[key])
    BY <1>2, <1>4, <2>2, <2>3, <2>4 DEF Holds
  <2> QED
    BY <2>3, <2>5 DEF Says
<1> QED
  BY <1>3, <1>4

-----------------------------------------------------------------------------
(* There is one symbol that shows a list.                                  *)
LEMMA AtSame ==
  ASSUME NEW s, NEW t, NEW q \in Nat, NEW key \in String, NEW value \in String,
         At(s, q, key, value), At(t, q, key, value)
  PROVE  \A p \in (q + 1)..(q + Len(key) + Len(value) + 1) : s[p] = t[p]
<1>1. Len(key) \in Nat /\ Len(value) \in Nat
  BY Lengths
<1>2. ASSUME NEW p \in (q + 1)..(q + Len(key) + Len(value) + 1) PROVE s[p] = t[p]
  <2>1. CASE p <= q + Len(key)
    <3>1. PICK k \in 1..Len(key) : p = q + k
      <4>1. p - q \in 1..Len(key) /\ p = q + (p - q)
        BY <1>1, <2>1
      <4> QED
        BY <4>1
    <3>2. s[q + k] = key[k] /\ t[q + k] = key[k]
      BY DEF At
    <3> QED
      BY <3>1, <3>2
  <2>2. CASE p = q + Len(key) + 1
    BY <2>2 DEF At
  <2>3. CASE p > q + Len(key) + 1
    <3>1. PICK k \in 1..Len(value) : p = q + Len(key) + 1 + k
      <4>1. /\ p - (q + Len(key) + 1) \in 1..Len(value)
            /\ p = q + Len(key) + 1 + (p - (q + Len(key) + 1))
        BY <1>1, <2>3
      <4> QED
        BY <4>1
    <3>2. s[q + Len(key) + 1 + k] = value[k] /\ t[q + Len(key) + 1 + k] = value[k]
      BY DEF At
    <3> QED
      BY <3>1, <3>2
  <2> QED
    BY <1>1, <2>1, <2>2, <2>3
<1> QED
  BY <1>2

\* So are the places of attributes,
LEMMA PlacesSame ==
  ASSUME NEW s, NEW length, NEW list, NEW pos, Placed(s, length, list, pos),
         NEW t, NEW pos2, Placed(t, length, list, pos2)
  PROVE  \A n \in 1..(Len(list) + 1) : pos[n] = pos2[n]
<1>1. Len(list) \in Nat /\ pos[1] = pos2[1]
  BY Bounds DEF Placed
<1> DEFINE T == {d \in Nat : d <= Len(list) => pos[d + 1] = pos2[d + 1]}
<1>2. 0 \in T
  BY <1>1
<1>3. ASSUME NEW d \in Nat, d \in T PROVE d + 1 \in T
  <2>1. ASSUME d + 1 <= Len(list) PROVE pos[d + 1 + 1] = pos2[d + 1 + 1]
    <3>1. PICK n \in 1..Len(list) : n = d + 1
      BY <1>1, <2>1
    <3>2. pos[n + 1] = pos[n] + Width(list[n]) /\ pos2[n + 1] = pos2[n] + Width(list[n])
      BY DEF Placed, InPlace
    <3>3. pos[n] = pos2[n]
      BY <1>1, <1>3, <2>1, <3>1
    <3> QED
      BY <3>1, <3>2, <3>3
  <2> QED
    BY <2>1
<1> HIDE DEF T
<1>4. Nat \subseteq T
  BY <1>2, <1>3, SetInduction
<1>5. ASSUME NEW n \in 1..(Len(list) + 1) PROVE pos[n] = pos2[n]
  <2>1. PICK d \in Nat : n = d + 1 /\ d <= Len(list)
    <3>1. n - 1 \in Nat /\ n = n - 1 + 1 /\ n - 1 <= Len(list)
      BY <1>1
    <3> QED
      BY <3>1
  <2>2. d \in T
    BY <1>4
  <2> QED
    BY <2>1, <2>2 DEF T
<1> QED
  BY <1>5

\* and so are the symbols.
LEMMA ShownOnce ==
  ASSUME NEW s, NEW t, NEW h, NEW list, Shows(s, h, list), Shows(t, h, list)
  PROVE  s = t
<1>1. PICK pos : Closed(s, h, list, pos)
  BY DEF Shows
<1>2. PICK pos2 : Closed(t, h, list, pos2)
  BY DEF Shows
<1>3. /\ Placed(s, Len(h), list, pos) /\ Begins(s, h) /\ Written(s, Len(h), list, pos)
      /\ Placed(t, Len(h), list, pos2) /\ Begins(t, h) /\ Written(t, Len(h), list, pos2)
  BY <1>1, <1>2, EndOf DEF Closed
<1>4. /\ s \in String /\ t \in String /\ Len(s) \in Nat /\ Len(t) \in Nat /\ Len(h) \in Nat
      /\ list \in Seq(Attributes) /\ Len(list) \in Nat
  BY Starts, Lengths
<1>5. \A n \in 1..(Len(list) + 1) : pos[n] = pos2[n] /\ pos[n] \in Nat
  BY <1>3, PlacesSame, Bounds
<1> DEFINE T == {d \in Nat : d <= Len(list) => \A p \in 1..(pos[d + 1] - 1) : s[p] = t[p]}
<1>6. 0 \in T
  <2>1. pos[1] = Len(h) + 1 /\ pos[0 + 1] - 1 = Len(h)
    BY <1>3, <1>4 DEF Placed
  <2> QED
    BY <1>3, <2>1 DEF Begins
<1>7. ASSUME NEW d \in Nat, d \in T PROVE d + 1 \in T
  <2>1. ASSUME d + 1 <= Len(list), NEW p \in 1..(pos[d + 1 + 1] - 1) PROVE s[p] = t[p]
    <3>1. PICK n \in 1..Len(list) : n = d + 1
      BY <1>4, <2>1
    <3>2. PICK q \in Nat : q = pos[n] /\ q = pos2[n]
      BY <1>4, <1>5
    <3>3. PICK key \in Keys, value \in Values : key = list[n][1] /\ value = list[n][2]
      BY <1>4, Element
    <3>4. /\ key \in String /\ value \in String /\ Len(key) \in Nat /\ Len(value) \in Nat
          /\ Width(list[n]) = Len(key) + Len(value) + 2
      BY <1>4, <3>3, Constants, Lengths, Element, WidthIs
    <3>5. /\ At(s, q, key, value) /\ At(t, q, key, value) /\ s[q] = t[q]
          /\ pos[n + 1] = q + (Len(key) + Len(value) + 2)
      <4>1. InPlace(s, pos, list, n) /\ InPlace(t, pos2, list, n)
        BY ONLY <1>3, n \in 1..Len(list) DEF Placed
      <4> QED
        BY ONLY <3>2, <3>3, <3>4, <4>1 DEF InPlace
    <3>6. p \in Nat /\ p >= 1 /\ p <= q + Len(key) + Len(value) + 1
      BY <1>4, <3>1, <3>4, <3>5, <2>1
    <3>7. CASE p < q
      <4>1. d <= Len(list) /\ pos[d + 1] = q
        BY ONLY <1>4, <2>1, <3>1, <3>2, d \in Nat
      <4>2. p \in 1..(q - 1)
        BY ONLY <3>6, <3>7, q \in Nat
      <4>3. p \in 1..(pos[d + 1] - 1)
        BY ONLY <4>1, <4>2
      <4> QED
        BY <1>7, <4>1, <4>3
    <3>8. CASE p = q
      BY <3>5, <3>8
    <3>9. CASE p > q
      <4>1. p \in (q + 1)..(q + Len(key) + Len(value) + 1)
        BY <3>4, <3>6, <3>9
      <4> QED
        BY <3>4, <3>5, <4>1, AtSame
    <3> QED
      BY <3>6, <3>7, <3>8, <3>9
  <2> QED
    BY <2>1
<1> HIDE DEF T
<1>8. Nat \subseteq T
  BY <1>6, <1>7, SetInduction
<1>9. CASE list = <<>>
  BY <1>9, ShownEnds
<1>10. CASE list # <<>>
  <2>1. PICK m \in 1..(Len(list) + 1) : m = Len(list) + 1
    BY <1>4
  <2>2. /\ Len(s) = pos[m] /\ s[Len(s)] = CLOSE /\ Len(t) = pos2[m] /\ t[Len(t)] = CLOSE
    BY <1>3, <1>10, <2>1 DEF Written
  <2>3. Len(s) = Len(t)
    BY <1>5, <2>2
  <2>4. \A p \in 1..(Len(s) - 1) : s[p] = t[p]
    <3>1. Len(list) \in T
      BY <1>4, <1>8
    <3> QED
      BY <1>4, <2>1, <2>2, <3>1 DEF T
  <2>5. \A p \in 1..Len(s) : s[p] = t[p]
    BY <1>4, <2>2, <2>3, <2>4
  <2> QED
    BY <1>4, <2>3, <2>5, SameString
<1> QED
  BY <1>9, <1>10

-----------------------------------------------------------------------------
(* The symbol s shows the base symbol, the exchange code and a list that   *)
(* says what the attributes are.                                           *)
Stands(s, b, x, f, list) ==
  /\ b \in Bases /\ x \in CodeOrNone
  /\ Shows(s, Prefix(b, x), list)
  /\ f = [key \in Keys |-> f[key]]
  /\ \A key \in Keys : Says(list, key, f[key])

\* What is known of a symbol before a function looks at its attributes.
LEMMA StandsLength ==
  ASSUME NEW s, NEW b, NEW x, NEW f, NEW list, Stands(s, b, x, f, list),
         NEW h, h = Prefix(b, x)
  PROVE  /\ b \in Bases /\ x \in CodeOrNone /\ Shows(s, h, list) /\ NoBracket(h)
         /\ s \in String /\ Len(h) \in Nat /\ Len(h) <= Len(s) /\ Begins(s, h)
         /\ getLengthWithoutAttributesInternal(s) = Len(h)
         /\ list \in Seq(Attributes) /\ (list = <<>> <=> Len(h) = Len(s))
<1>1. b \in Bases /\ x \in CodeOrNone /\ Shows(s, h, list)
  BY DEF Stands
<1>2. NoBracket(h)
  BY <1>1, PrefixReads DEF Prefixed
<1>3. getLengthWithoutAttributesInternal(s) = Len(h)
  BY <1>1, <1>2, LengthFound
<1>4. /\ s \in String /\ Len(h) \in Nat /\ Len(h) <= Len(s) /\ Begins(s, h)
      /\ list \in Seq(Attributes)
  BY <1>1, Starts, ShownEnds
<1>5. list = <<>> <=> Len(h) = Len(s)
  BY <1>1, ShownEnds
<1> QED
  BY <1>1, <1>2, <1>3, <1>4, <1>5

\* A symbol without attributes says nothing of any key.
LEMMA EmptySays ==
  ASSUME NEW list, list = <<>>, NEW key, NEW v
  PROVE  Says(list, key, v) <=> v = None
BY EmptySeq DEF Says, Absent

(* What is read of it.                                                     *)
LEMMA StandsReads ==
  ASSUME NEW s, NEW b, NEW x, NEW f, NEW list, Stands(s, b, x, f, list)
  PROVE  /\ getBaseSymbol(s) = b
         /\ getExchangeCode(s) = x
         /\ \A key \in Keys : getAttributeStringByKey(s, key) = f[key]
<1>1. PICK h : h = Prefix(b, x)
  OBVIOUS
<1>2. /\ b \in Bases /\ x \in CodeOrNone /\ Shows(s, h, list) /\ NoBracket(h)
      /\ s \in String /\ Len(h) \in Nat /\ Len(h) <= Len(s) /\ Begins(s, h)
      /\ getLengthWithoutAttributesInternal(s) = Len(h)
  BY <1>1, StandsLength
<1>3. list = <<>> <=> Len(h) = Len(s)
  BY <1>1, StandsLength
<1>4. /\ getBaseSymbolInternal(s, Len(h)) = b
      /\ hasExchangeCodeInternal(s, Len(h)) <=> x # NoCode
      /\ x # NoCode => s[Len(h)] = x
  BY <1>1, <1>2, ReadsPrefix
<1>5. getBaseSymbol(s) = b
  BY <1>2, <1>4 DEF getBaseSymbol
<1>6. getExchangeCode(s) = x
  BY <1>2, <1>4 DEF getExchangeCode
<1>7. ASSUME NEW key \in Keys PROVE getAttributeStringByKey(s, key) = f[key]
  <2>1. Says(list, key, f[key])
    BY DEF Stands
  <2>2. getAttributeStringByKey(s, key) = getAttributeInternal(s, Len(h), key)
    BY <1>2 DEF getAttributeStringByKey
  <2>3. CASE list = <<>>
    <3>1. getAttributeInternal(s, Len(h), key) = None
      BY <1>3, <2>3 DEF getAttributeInternal
    <3>2. f[key] = None
      BY <2>1, <2>3, EmptySays
    <3> QED
      BY <2>2, <3>1, <3>2
  <2>4. CASE list # <<>>
    <3>1. Len(h) # Len(s)
      BY <1>3, <2>4
    <3>2. getAttributeInternal(s, Len(h), key) = f[key]
      BY <1>2, <2>1, <3>1, GetsAttribute
    <3> QED
      BY <2>2, <3>2
  <2> QED
    BY <2>3, <2>4
<1> QED
  BY <1>5, <1>6, <1>7

(* What each change does to it.                                            *)
LEMMA ExchangeChanged ==
  ASSUME NEW s, NEW b, NEW x, NEW f, NEW list, Stands(s, b, x, f, list), NEW y \in CodeOrNone
  PROVE  Stands(changeExchangeCode(s, y), b, y, f, list)
<1>1. PICK g : g = Prefix(b, x)
  OBVIOUS
<1>2. /\ b \in Bases /\ x \in CodeOrNone /\ Shows(s, g, list)
      /\ s \in String /\ Len(g) \in Nat /\ Len(g) <= Len(s) /\ Begins(s, g)
      /\ getLengthWithoutAttributesInternal(s) = Len(g)
  BY <1>1, StandsLength
<1>3. getBaseSymbolInternal(s, Len(g)) = b
  BY <1>1, <1>2, ReadsPrefix
<1>4. PICK h \in String : h = Prefix(b, y)
  BY <1>2, PrefixReads DEF Prefixed, NoBracket
<1>5. PICK r : r = changeExchangeCode(s, y)
  OBVIOUS
<1>6. r = h \o substr(s, Len(g))
  BY <1>2, <1>3, <1>4, <1>5 DEF changeExchangeCode, Prefix
<1>7. Shows(r, h, list)
  BY <1>2, <1>6, PrefixChanges
<1> QED
  BY <1>2, <1>4, <1>5, <1>7 DEF Stands

\* changeBaseSymbol changes the base symbol,
LEMMA BaseChanged ==
  ASSUME NEW s, NEW b, NEW x, NEW f, NEW list, Stands(s, b, x, f, list), NEW c \in Bases
  PROVE  Stands(changeBaseSymbol(s, c), c, x, f, list)
<1>1. PICK g : g = Prefix(b, x)
  OBVIOUS
<1>2. /\ b \in Bases /\ x \in CodeOrNone /\ Shows(s, g, list)
      /\ s \in String /\ Len(g) \in Nat /\ Len(g) <= Len(s) /\ Begins(s, g)
      /\ getLengthWithoutAttributesInternal(s) = Len(g)
  BY <1>1, StandsLength
<1>3. /\ hasExchangeCodeInternal(s, Len(g)) <=> x # NoCode
      /\ x # NoCode => s[Len(g)] = x
  BY <1>1, <1>2, ReadsPrefix
<1>4. PICK h \in String : h = Prefix(c, x)
  BY <1>2, PrefixReads DEF Prefixed, NoBracket
<1>5. PICK r : r = changeBaseSymbol(s, c)
  OBVIOUS
<1>6. r = h \o substr(s, Len(g))
  <2>1. CASE x = NoCode
    BY <1>2, <1>3, <1>4, <1>5, <2>1 DEF changeBaseSymbol, Prefix
  <2>2. CASE x # NoCode
    BY <1>2, <1>3, <1>4, <1>5, <2>2 DEF changeBaseSymbol, Prefix
  <2> QED
    BY <2>1, <2>2
<1>7. Shows(r, h, list)
  BY <1>2, <1>6, PrefixChanges
<1> QED
  BY <1>2, <1>4, <1>5, <1>7 DEF Stands

\* an edit of the list changes what is said of its key,
LEMMA AttributesKept ==
  ASSUME NEW s, NEW b, NEW x, NEW f, NEW list, Stands(s, b, x, f, list), NEW key \in Keys,
         NEW v, NEW r, NEW t, Shows(r, Prefix(b, x), t), OneChanged(list, t, key, v)
  PROVE  Stands(r, b, x, [f EXCEPT ![key] = v], t)
<1>1. PICK g : g = [f EXCEPT ![key] = v]
  OBVIOUS
<1>2. f = [k \in Keys |-> f[k]] /\ \A k \in Keys : Says(list, k, f[k])
  BY DEF Stands
<1>3. g = [k \in Keys |-> IF k = key THEN v ELSE f[k]]
  BY <1>1, <1>2
<1>4. g = [k \in Keys |-> g[k]]
  BY <1>3
<1>5. ASSUME NEW k \in Keys PROVE Says(t, k, g[k])
  <2>1. g[k] = IF k = key THEN v ELSE f[k]
    BY <1>3
  <2> QED
    BY <1>2, <2>1 DEF OneChanged
<1> QED
  BY <1>1, <1>4, <1>5 DEF Stands

\* changeAttributeStringByKey is one, which keeps the keys sorted,
LEMMA AttributeChanged ==
  ASSUME NEW s, NEW b, NEW x, NEW f, NEW list, Stands(s, b, x, f, list),
         NEW key \in Keys, NEW value \in Values
  PROVE  \E t : /\ Stands(changeAttributeStringByKey(s, key, value), b, x,
                          [f EXCEPT ![key] = value], t)
                /\ Canonical(list) => Canonical(t)
<1>1. PICK h : h = Prefix(b, x)
  OBVIOUS
<1>2. Shows(s, h, list) /\ getLengthWithoutAttributesInternal(s) = Len(h)
  BY <1>1, StandsLength
<1>3. list = <<>> <=> Len(h) = Len(s)
  BY <1>1, StandsLength
<1>4. PICK r : r = changeAttributeStringByKey(s, key, value)
  OBVIOUS
<1>5. \E t : /\ Shows(r, h, t) /\ OneChanged(list, t, key, value)
             /\ Canonical(list) => Canonical(t)
  <2>1. CASE list = <<>>
    <3>1. r = s \o <<OPEN>> \o Attribute(key, value) \o <<CLOSE>>
      BY <1>2, <1>3, <1>4, <2>1 DEF changeAttributeStringByKey
    <3> QED
      BY <1>2, <2>1, <3>1, FirstAttribute
  <2>2. CASE list # <<>>
    <3>1. r = addAttributeInternal(s, Len(h), key, value)
      BY <1>2, <1>3, <1>4, <2>2 DEF changeAttributeStringByKey
    <3>2. Len(h) # Len(s)
      BY <1>3, <2>2
    <3> QED
      BY <1>2, <2>2, <3>1, <3>2, AddsAttribute
  <2> QED
    BY <2>1, <2>2
<1>6. PICK t : /\ Shows(r, h, t) /\ OneChanged(list, t, key, value)
               /\ Canonical(list) => Canonical(t)
  BY <1>5
<1>7. Stands(r, b, x, [f EXCEPT ![key] = value], t)
  BY <1>1, <1>6, AttributesKept
<1> QED
  BY <1>4, <1>6, <1>7

\* and so is removeAttributeStringByKey.
LEMMA AttributeRemoved ==
  ASSUME NEW s, NEW b, NEW x, NEW f, NEW list, Stands(s, b, x, f, list), NEW key \in Keys
  PROVE  \E t : /\ Stands(removeAttributeStringByKey(s, key), b, x,
                          [f EXCEPT ![key] = None], t)
                /\ Canonical(list) => Canonical(t)
<1>1. PICK h : h = Prefix(b, x)
  OBVIOUS
<1>2. Shows(s, h, list) /\ getLengthWithoutAttributesInternal(s) = Len(h)
  BY <1>1, StandsLength
<1>3. list = <<>> <=> Len(h) = Len(s)
  BY <1>1, StandsLength
<1>4. PICK r : r = removeAttributeStringByKey(s, key)
  OBVIOUS
<1>5. r = removeAttributeInternal(s, Len(h), key)
  BY <1>2, <1>4 DEF removeAttributeStringByKey
<1>6. PICK t : /\ Shows(r, h, t) /\ OneChanged(list, t, key, None)
               /\ Canonical(list) => Canonical(t)
  <2>1. CASE list = <<>>
    <3>1. r = s
      BY <1>3, <1>5, <2>1 DEF removeAttributeInternal
    <3>2. OneChanged(list, list, key, None)
      BY <2>1, EmptySays DEF OneChanged
    <3> QED
      BY <1>2, <3>1, <3>2
  <2>2. CASE list # <<>>
    BY <1>2, <1>3, <1>5, <2>2, RemovesAttribute
  <2> QED
    BY <2>1, <2>2
<1>7. Stands(r, b, x, [f EXCEPT ![key] = None], t)
  BY <1>1, <1>6, AttributesKept
<1> QED
  BY <1>4, <1>6, <1>7

-----------------------------------------------------------------------------
(* The one list in canonical form.                                         *)
Present(f) == {key \in Keys : f[key] # None}

\* The list that has them in an order.
Chosen(keys, f) == [n \in DOMAIN keys |-> <<keys[n], f[keys[n]]>>]

\* The symbol is the text for such a list with sorted keys.
InForm(s, b, x, f) ==
  \E keys \in [1..Cardinality(Present(f)) -> Present(f)] :
    Canonical(Chosen(keys, f)) /\ s = Text(b, x, Chosen(keys, f))

\* A key that something is said of is in the list, with a value,
LEMMA SaysPresent ==
  ASSUME NEW list \in Seq(Attributes), NEW key, NEW v, Says(list, key, v), v # None
  PROVE  v \in Values /\ \E n \in 1..Len(list) : list[n][1] = key
<1>1. PICK n \in 1..Len(list) : Holds(list, n, key, v)
  BY DEF Says
<1> QED
  BY <1>1, Element DEF Holds

\* and of a key in the list something is said.
LEMMA SaysValue ==
  ASSUME NEW list \in Seq(Attributes), NEW n \in 1..Len(list), NEW v, Says(list, list[n][1], v)
  PROVE  v # None
<1>1. Len(list) \in Nat
  BY LenProperties
<1>2. ~Absent(list, Len(list) + 1, list[n][1])
  BY <1>1 DEF Absent
<1>3. PICK m \in 1..Len(list) : Holds(list, m, list[n][1], v)
  BY <1>2 DEF Says
<1> QED
  BY <1>3, Element, Constants DEF Holds

\* There are finitely many keys with a value.
LEMMA PresentFinite ==
  ASSUME NEW s, NEW b, NEW x, NEW f, NEW list, Stands(s, b, x, f, list)
  PROVE  IsFiniteSet(Present(f)) /\ Cardinality(Present(f)) \in Nat
<1>1. list \in Seq(Attributes) /\ Len(list) \in Nat
  BY StandsLength, LenProperties
<1> DEFINE S == Present(f)
           N == 1..Len(list)
           where == [key \in S |-> CHOOSE n \in N : list[n][1] = key]
<1>2. ASSUME NEW key \in S PROVE where[key] \in N /\ list[where[key]][1] = key
  <2>1. Says(list, key, f[key]) /\ f[key] # None
    BY DEF Present, Stands
  <2>2. \E n \in N : list[n][1] = key
    BY <1>1, <2>1, SaysPresent
  <2> QED
    BY <2>2
<1> HIDE DEF where
<1>3. where \in Injection(S, N)
  <2>1. where \in [S -> N]
    BY <1>2 DEF where
  <2>2. \A k, m \in S : where[k] = where[m] => k = m
    BY <1>2
  <2> QED
    BY <2>1, <2>2 DEF Injection, IsInjective
<1>4. IsFiniteSet(N)
  BY <1>1, FS_Interval
<1>5. IsFiniteSet(S)
  BY <1>3, <1>4, FS_Injection
<1> QED
  BY <1>5, FS_CardinalityType

\* Sorted keys are distinct.
LEMMA KeysDistinct ==
  ASSUME NEW list \in Seq(Attributes), Canonical(list)
  PROVE  \A k, m \in 1..Len(list) : list[k][1] = list[m][1] => k = m
<1>1. Len(list) \in Nat /\ \A n \in 1..Len(list) : list[n][1] \in String
  BY LenProperties, Element, Constants
<1>2. ASSUME NEW k \in 1..Len(list), NEW m \in 1..Len(list), list[k][1] = list[m][1], k < m
      PROVE  FALSE
  <2>1. Less(list[k][1], list[k][1])
    BY <1>2, Sorted
  <2> QED
    BY <1>1, <2>1, LessIrreflexive
<1> QED
  BY <1>1, <1>2

\* A symbol in canonical form shows a sorted list.
LEMMA FormStands ==
  ASSUME NEW s, NEW b, NEW x, NEW f, NEW list, Stands(s, b, x, f, list), InForm(s, b, x, f)
  PROVE  \E t : Stands(s, b, x, f, t) /\ Canonical(t)
<1>1. IsFiniteSet(Present(f)) /\ Cardinality(Present(f)) \in Nat
  BY PresentFinite
<1>2. PICK C \in Nat : C = Cardinality(Present(f))
  BY <1>1
<1>3. PICK keys \in [1..C -> Present(f)] :
        Canonical(Chosen(keys, f)) /\ s = Text(b, x, Chosen(keys, f))
  BY <1>2 DEF InForm
<1>4. \A key \in Present(f) : key \in Keys /\ f[key] # None /\ f[key] \in Values
  <2>1. list \in Seq(Attributes)
    BY StandsLength
  <2> QED
    BY <2>1, SaysPresent DEF Present, Stands
<1>5. PICK t : t = Chosen(keys, f)
  OBVIOUS
<1>6. t = [n \in 1..C |-> <<keys[n], f[keys[n]]>>]
  BY <1>5 DEF Chosen
<1>7. t \in Seq(Attributes) /\ Len(t) = C
  <2>1. t \in [1..C -> Attributes]
    BY <1>4, <1>6 DEF Attributes
  <2> QED
    BY <2>1, IsList
<1>8. \A n \in 1..C : t[n][1] = keys[n] /\ t[n][2] = f[keys[n]] /\ keys[n] \in Present(f)
  BY <1>6
<1>9. Canonical(t)
  BY <1>3, <1>5
<1>10. \A k, m \in 1..C : keys[k] = keys[m] => k = m
  BY <1>7, <1>8, <1>9, KeysDistinct
<1>11. keys \in Surjection(1..C, Present(f))
  <2>1. keys \in Injection(1..C, Present(f))
    BY <1>10 DEF Injection, IsInjective
  <2>2. Cardinality(1..C) = C
    BY FS_Interval
  <2> QED
    BY <1>1, <1>2, <2>1, <2>2, FS_Injection
<1>12. ASSUME NEW key \in Keys PROVE Says(t, key, f[key])
  <2>1. CASE f[key] = None
    <3>1. Absent(t, Len(t) + 1, key)
      <4>1. \A n \in 1..C : t[n][1] # key
        BY <1>4, <1>8, <2>1
      <4> QED
        BY <1>7, <4>1 DEF Absent
    <3> QED
      BY <2>1, <3>1 DEF Says
  <2>2. CASE f[key] # None
    <3>1. key \in Present(f)
      BY <2>2 DEF Present
    <3>2. PICK n \in 1..C : keys[n] = key
      BY <1>11, <3>1 DEF Surjection
    <3>3. Absent(t, n, key)
      <4>1. ASSUME NEW m \in 1..(n - 1), t[m][1] = key PROVE FALSE
        <5>1. m \in 1..C /\ m # n
          BY <3>2
        <5> QED
          BY <1>8, <1>10, <3>2, <4>1, <5>1
      <4> QED
        BY <4>1 DEF Absent
    <3>4. Holds(t, n, key, f[key])
      BY <1>8, <3>2, <3>3 DEF Holds
    <3> QED
      BY <1>7, <3>4 DEF Says
  <2> QED
    BY <2>1, <2>2
<1>13. b \in Bases /\ x \in CodeOrNone /\ f = [key \in Keys |-> f[key]]
  BY DEF Stands
<1>14. Shows(s, Prefix(b, x), t)
  BY <1>3, <1>5, <1>7, <1>13, TextShows
<1>15. Stands(s, b, x, f, t)
  BY <1>12, <1>13, <1>14 DEF Stands
<1> QED
  BY <1>9, <1>15

\* A symbol that shows a sorted list is in canonical form.
LEMMA StandsForm ==
  ASSUME NEW s, NEW b, NEW x, NEW f, NEW list, Stands(s, b, x, f, list), Canonical(list)
  PROVE  InForm(s, b, x, f)
<1>1. /\ b \in Bases /\ x \in CodeOrNone /\ Shows(s, Prefix(b, x), list)
      /\ list \in Seq(Attributes) /\ Len(list) \in Nat
      /\ \A key \in Keys : Says(list, key, f[key])
  BY StandsLength, LenProperties DEF Stands
<1>2. PICK keys : keys = [n \in 1..Len(list) |-> list[n][1]]
  OBVIOUS
<1>3. \A n \in 1..Len(list) :
        keys[n] = list[n][1] /\ keys[n] \in Keys /\ Says(list, keys[n], f[keys[n]])
  BY <1>1, <1>2, Element
<1>4. \A n \in 1..Len(list) : keys[n] \in Present(f)
  BY <1>1, <1>3, SaysValue DEF Present
<1>5. \A k, m \in 1..Len(list) : keys[k] = keys[m] => k = m
  BY <1>1, <1>3, KeysDistinct
<1>6. keys \in Bijection(1..Len(list), Present(f))
  <2>1. keys \in [1..Len(list) -> Present(f)]
    BY <1>2, <1>4
  <2>2. ASSUME NEW key \in Present(f) PROVE \E n \in 1..Len(list) : keys[n] = key
    <3>1. Says(list, key, f[key]) /\ f[key] # None
      BY <1>1 DEF Present
    <3>2. PICK n \in 1..Len(list) : list[n][1] = key
      BY <1>1, <3>1, SaysPresent
    <3> QED
      BY <1>3, <3>2
  <2> QED
    BY <1>5, <2>1, <2>2 DEF Bijection, Injection, Surjection, IsInjective
<1>7. Cardinality(Present(f)) = Len(list)
  <2>1. IsFiniteSet(1..Len(list)) /\ Cardinality(1..Len(list)) = Len(list)
    <3>1. Len(list) \in Int /\ 1 \in Int
      BY ONLY <1>1
    <3>2. IsFiniteSet(1..Len(list))
          /\ Cardinality(1..Len(list)) = IF 1 > Len(list) THEN 0 ELSE Len(list) - 1 + 1
      BY ONLY <3>1, FS_Interval
    <3> QED
      BY ONLY <1>1, <3>2
  <2>2. ExistsBijection(1..Len(list), Present(f))
    BY <1>6 DEF ExistsBijection
  <2> QED
    BY <2>1, <2>2, FS_Bijection
<1>8. \A n \in 1..Len(list) : <<keys[n], f[keys[n]]>> = list[n]
  <2>1. ASSUME NEW n \in 1..Len(list) PROVE <<keys[n], f[keys[n]]>> = list[n]
    <3>1. Absent(list, n, keys[n])
      <4>1. ASSUME NEW m \in 1..(n - 1), list[m][1] = keys[n] PROVE FALSE
        <5>1. m \in 1..Len(list) /\ m # n
          BY <1>1
        <5> QED
          BY <1>3, <1>5, <4>1, <5>1
      <4> QED
        BY <4>1 DEF Absent
    <3>2. f[keys[n]] = list[n][2]
      BY <1>1, <1>3, <3>1, SaysHere
    <3> QED
      BY <1>1, <1>3, <3>2, Element
  <2> QED
    BY <2>1
<1>9. Chosen(keys, f) = list
  <2>1. Chosen(keys, f) = [n \in 1..Len(list) |-> list[n]]
    BY <1>2, <1>8 DEF Chosen
  <2> QED
    BY <1>1, <2>1
<1>10. s = Text(b, x, list)
  BY <1>1, TextShows, ShownOnce
<1>11. keys \in [1..Cardinality(Present(f)) -> Present(f)]
  BY <1>2, <1>4, <1>7
<1> QED
  BY <1>9, <1>10, <1>11 DEF InForm

-----------------------------------------------------------------------------
\* The inductive invariant: there is a list that the symbol shows.
SymbolInv == \E list : Stands(symbol, base, exchange, attributes, list)

\* The canonical form of the model, by its parts.
LEMMA InFormIs == InCanonicalForm <=> InForm(symbol, base, exchange, attributes)
BY DEF InCanonicalForm, InForm, Chosen, Present

\* A symbol from elsewhere shows a list, whose keys need not be sorted.
LEMMA InvInit == SymbolInit => SymbolInv
<1> SUFFICES ASSUME SymbolInit PROVE SymbolInv
  OBVIOUS
<1>1. PICK b \in Bases, x \in Exchanges \union {NoCode}, list \in Lists :
        /\ symbol = Text(b, x, list)
        /\ base = b /\ exchange = x /\ attributes = Meaning(list)
  BY DEF SymbolInit
<1>2. PICK n \in Nat : list \in [1..n -> Keys \X Values]
  <2>1. PICK n \in 0..MaxInitial : list \in [1..n -> Keys \X Values]
    BY DEF Lists
  <2>2. MaxInitial \in Nat
    BY SymbolsAssumption, Zenon
  <2>3. n \in Nat
    BY ONLY <2>2
  <2> QED
    BY <2>1, <2>3, Zenon
<1>3. list \in Seq(Attributes)
  BY <1>2, IsList DEF Attributes
<1>4. x \in CodeOrNone /\ Shows(symbol, Prefix(b, x), list)
  BY <1>1, <1>3, TextShows DEF CodeOrNone
<1>5. \A key \in Keys : Says(list, key, attributes[key])
  BY <1>1, <1>3, MeaningSays
<1>6. attributes = [key \in Keys |-> attributes[key]]
  BY <1>1 DEF Meaning
<1>7. Stands(symbol, base, exchange, attributes, list)
  BY <1>1, <1>4, <1>5, <1>6 DEF Stands
<1> QED
  BY <1>7 DEF SymbolInv

(* A step, whatever list is shown before it.                               *)
LEMMA InvStep ==
  ASSUME NEW list, Stands(symbol, base, exchange, attributes, list),
         [SymbolNext]_symbolVars
  PROVE  \E t : /\ Stands(symbol', base', exchange', attributes', t)
                /\ Canonical(list) => Canonical(t)
<1>1. CASE ChangeExchange
  <2>1. PICK x \in CodeOrNone :
          /\ symbol' = changeExchangeCode(symbol, x)
          /\ exchange' = x /\ base' = base /\ attributes' = attributes
    BY <1>1 DEF ChangeExchange, CodeOrNone
  <2>2. Stands(symbol', base', exchange', attributes', list)
    BY <2>1, ExchangeChanged
  <2> QED
    BY <2>2
<1>2. CASE ChangeBase
  <2>1. PICK b \in Bases :
          /\ symbol' = changeBaseSymbol(symbol, b)
          /\ base' = b /\ exchange' = exchange /\ attributes' = attributes
    BY <1>2 DEF ChangeBase
  <2>2. Stands(symbol', base', exchange', attributes', list)
    BY <2>1, BaseChanged
  <2> QED
    BY <2>2
<1>3. CASE ChangeAttribute
  <2>1. PICK key \in Keys, value \in Values :
          /\ symbol' = changeAttributeStringByKey(symbol, key, value)
          /\ attributes' = [attributes EXCEPT ![key] = value]
          /\ base' = base /\ exchange' = exchange
    BY <1>3 DEF ChangeAttribute
  <2>2. PICK t : /\ Stands(changeAttributeStringByKey(symbol, key, value), base, exchange,
                           [attributes EXCEPT ![key] = value], t)
                 /\ Canonical(list) => Canonical(t)
    BY AttributeChanged
  <2> QED
    BY <2>1, <2>2
<1>4. CASE RemoveAttribute
  <2>1. PICK key \in Keys :
          /\ symbol' = removeAttributeStringByKey(symbol, key)
          /\ attributes' = [attributes EXCEPT ![key] = None]
          /\ base' = base /\ exchange' = exchange
    BY <1>4 DEF RemoveAttribute
  <2>2. PICK t : /\ Stands(removeAttributeStringByKey(symbol, key), base, exchange,
                           [attributes EXCEPT ![key] = None], t)
                 /\ Canonical(list) => Canonical(t)
    BY AttributeRemoved
  <2> QED
    BY <2>1, <2>2
<1>5. CASE UNCHANGED symbolVars
  BY <1>5 DEF symbolVars
<1> QED
  BY <1>1, <1>2, <1>3, <1>4, <1>5 DEF SymbolNext

(* Whatever is changed in which order, the base symbol, the exchange code  *)
(* and each attribute that the functions of MarketEventSymbols read from a *)
(* symbol are what they were last changed to: for all base symbols, codes, *)
(* keys and values that can be told apart, and for symbols from elsewhere  *)
(* whose keys are neither sorted nor distinct.                             *)
THEOREM SpecPartsAgree == SymbolSpec => []PartsAgree
<1>1. SymbolInit => SymbolInv
  BY InvInit
<1>2. SymbolInv /\ [SymbolNext]_symbolVars => SymbolInv'
  BY InvStep DEF SymbolInv
<1>3. SymbolInv => PartsAgree
  BY StandsReads DEF SymbolInv, PartsAgree
<1> QED
  BY <1>1, <1>2, <1>3, PTL DEF SymbolSpec

(* A symbol whose keys are sorted and distinct is, after any change of it, *)
(* again the one text with sorted and distinct keys for what it stands     *)
(* for: changing a symbol never makes a second name of the same thing.     *)
THEOREM SpecStaysCanonical == SymbolSpec => StaysCanonical
<1>1. SymbolInit => SymbolInv
  BY InvInit
<1>2. SymbolInv /\ [SymbolNext]_symbolVars => SymbolInv'
  BY InvStep DEF SymbolInv
<1>3. SymbolInv /\ [SymbolNext]_symbolVars => (InCanonicalForm => InCanonicalForm')
  <2> SUFFICES ASSUME SymbolInv, [SymbolNext]_symbolVars, InCanonicalForm
               PROVE  InCanonicalForm'
    OBVIOUS
  <2>1. PICK list : Stands(symbol, base, exchange, attributes, list)
    BY DEF SymbolInv
  <2>2. PICK t : Stands(symbol, base, exchange, attributes, t) /\ Canonical(t)
    BY <2>1, InFormIs, FormStands
  <2>3. PICK u : Stands(symbol', base', exchange', attributes', u) /\ Canonical(u)
    BY <2>2, InvStep
  <2>4. InForm(symbol', base', exchange', attributes')
    BY <2>3, StandsForm
  <2> QED
    BY <2>4 DEF InCanonicalForm, InForm, Chosen, Present
<1> QED
  BY <1>1, <1>2, <1>3, PTL DEF SymbolSpec, StaysCanonical

=============================================================================
