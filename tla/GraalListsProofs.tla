------------------------- MODULE GraalListsProofs -------------------------
(***************************************************************************)
(* Proofs about GraalLists, for every table of element classes whose       *)
(* freeGraal deletes what its toGraal allocated.                           *)
(***************************************************************************)
EXTENDS GraalListsProperties, SequenceTheorems, TLAPS

(* The blocks that are live, by where the conversion is.                   *)
LiveElement(i, b) ==
  /\ i \in 1..size /\ b \in Deletes[list[i]]
  /\ \/ pc \in {"element", "undo"} /\ i < index
     \/ pc = "ready"
     \/ pc = "free" /\ i >= index

LivePartly(i, b) ==
  /\ pc = "element" /\ i = index
  /\ \E j \in 1..filled : b = Blocks[list[i]][j]

LiveAt(i, b) ==
  \/ i = 0 /\ b = "list" /\ pc \notin {"idle", "header"}
  \/ i = 0 /\ b = "elements" /\ pc \notin {"idle", "header", "array"} /\ size > 0
  \/ LiveElement(i, b)
  \/ LivePartly(i, b)

HeapInv ==
  pc # "terminated" =>
    \A i \in 0..MaxSize, b \in Block \union {"list", "elements"} :
      <<i, b>> \in heap <=> LiveAt(i, b)

IndexInv ==
  /\ list \in Seq(Element)
  /\ size = CalculateGraalListSize(Len(list))
  /\ index \in Nat \ {0}
  /\ filled \in Nat
  /\ pc \in {"array", "element", "undo"} => size > 0
  /\ pc = "array" => index = 1 /\ filled = 0
  /\ pc = "header" => index = 1 /\ filled = 0
  /\ pc \in {"element", "undo"} => index <= size
  /\ pc = "element" => filled <= Len(Blocks[list[index]])
  /\ pc = "free" => index <= size + 1

ListInv ==
  /\ pc \in PC
  /\ heap \subseteq Address
  /\ wrong = {}
  /\ IndexInv
  /\ HeapInv

LEMMA SizeFacts ==
  ASSUME NEW l \in Seq(Element)
  PROVE  /\ CalculateGraalListSize(Len(l)) \in 0..MaxSize
         /\ CalculateGraalListSize(Len(l)) <= Len(l)
         /\ \A i \in 1..CalculateGraalListSize(Len(l)) : l[i] \in Element
<1>1. Len(l) \in Nat
  OBVIOUS
<1>2. /\ CalculateGraalListSize(Len(l)) \in 0..MaxSize
      /\ CalculateGraalListSize(Len(l)) <= Len(l)
  BY <1>1, GraalListsAssumption DEF CalculateGraalListSize, Smaller
<1>3. \A i \in 1..Len(l) : l[i] \in Element
  BY ElementOfSeq
<1> QED
  BY <1>1, <1>2, <1>3

LEMMA TableFacts ==
  ASSUME NEW e \in Element
  PROVE  /\ Blocks[e] \in Seq(Block)
         /\ Len(Blocks[e]) \in Nat
         /\ Deletes[e] \subseteq Block
         /\ \A j \in 1..Len(Blocks[e]) : Blocks[e][j] \in Deletes[e]
         /\ \A b \in Deletes[e] : \E j \in 1..Len(Blocks[e]) : b = Blocks[e][j]
         /\ \A i, j \in 1..Len(Blocks[e]) : Blocks[e][i] = Blocks[e][j] => i = j
         /\ e \in Null => Len(Blocks[e]) = 0
<1>1. Blocks[e] \in Seq(Block) /\ Deletes[e] \subseteq Block
  BY GraalListsAssumption
<1>2. DOMAIN Blocks[e] = 1..Len(Blocks[e]) /\ Len(Blocks[e]) \in Nat
  BY <1>1
<1>3. /\ Deletes[e] = {Blocks[e][i] : i \in DOMAIN Blocks[e]}
      /\ \A i, j \in DOMAIN Blocks[e] : Blocks[e][i] = Blocks[e][j] => i = j
      /\ e \in Null => Blocks[e] = <<>>
  BY DeletesMatchBlocks
<1>4. e \in Null => Len(Blocks[e]) = 0
  BY <1>3
<1> QED
  BY <1>1, <1>2, <1>3, <1>4

LEMMA ListInit == Init => ListInv
<1> SUFFICES ASSUME Init PROVE ListInv
  OBVIOUS
<1>1. list \in Seq(Element) /\ Len(list) = 0
  BY DEF Init
<1>2. size = CalculateGraalListSize(Len(list))
  BY <1>1, GraalListsAssumption DEF Init, CalculateGraalListSize, Smaller
<1>3. IndexInv
  BY <1>1, <1>2 DEF Init, IndexInv
<1>4. HeapInv
  BY GraalListsAssumption DEF Init, HeapInv, LiveAt, LiveElement, LivePartly
<1> QED
  BY <1>3, <1>4 DEF Init, ListInv, PC

(* What the invariant says of the element that is being worked on.         *)
LEMMA CurrentElement ==
  ASSUME ListInv
  PROVE  /\ size \in 0..MaxSize /\ MaxSize \in Nat
         /\ \A i \in 1..size : list[i] \in Element
         /\ \A i \in 1..size : Deletes[list[i]] \subseteq Block
         /\ "list" \notin Block /\ "elements" \notin Block
<1>1. list \in Seq(Element) /\ size = CalculateGraalListSize(Len(list))
  BY DEF ListInv, IndexInv
<1>2. size \in 0..MaxSize /\ \A i \in 1..size : list[i] \in Element
  BY <1>1, SizeFacts
<1> QED
  BY <1>2, TableFacts, GraalListsAssumption

LEMMA HeaderStep ==
  ASSUME ListInv, ToGraalList \/ NewGraalList \/ NewElements
  PROVE  ListInv'
<1> USE DEF PC
<1>1. /\ size \in 0..MaxSize /\ MaxSize \in Nat
      /\ "list" \notin Block /\ "elements" \notin Block
  BY CurrentElement
<1>2. CASE ToGraalList
  <2>1. PICK l \in List : list' = l /\ size' = CalculateGraalListSize(Len(l))
    BY <1>2 DEF ToGraalList
  <2>2. l \in Seq(Element)
    BY GraalListsAssumption
  <2>3. IndexInv'
    BY <1>2, <2>1, <2>2 DEF ToGraalList, IndexInv
  <2>4. \A i \in 0..MaxSize, b \in Block \union {"list", "elements"} : <<i, b>> \notin heap
    BY <1>2, <1>1 DEF ListInv, HeapInv, LiveAt, LiveElement, LivePartly, ToGraalList
  <2>5. HeapInv'
    BY <1>2, <2>4 DEF ToGraalList, HeapInv, LiveAt, LiveElement, LivePartly
  <2> QED
    BY <1>2, <2>3, <2>5 DEF ListInv, ToGraalList
<1>3. CASE NewGraalList
  <2>1. IndexInv'
    BY <1>3, <1>1 DEF NewGraalList, ListInv, IndexInv
  <2>2. heap' \subseteq Address
    BY <1>3, <1>1 DEF NewGraalList, ListInv, Address, Header
  <2>3. HeapInv'
    <3> SUFFICES ASSUME NEW i \in 0..MaxSize, NEW b \in Block \union {"list", "elements"}
                 PROVE  <<i, b>> \in heap' <=> LiveAt(i, b)'
      BY DEF HeapInv
    <3>1. <<i, b>> \in heap <=> LiveAt(i, b)
      BY <1>3 DEF NewGraalList, ListInv, HeapInv
    <3>2. <<i, b>> \in heap' <=> <<i, b>> \in heap \/ (i = 0 /\ b = "list")
      BY <1>3 DEF NewGraalList, Header
    <3>3. LiveElement(i, b)' <=> LiveElement(i, b)
      BY <1>3, <1>1 DEF NewGraalList, LiveElement, ListInv, IndexInv
    <3>4. ~LivePartly(i, b) /\ ~LivePartly(i, b)'
      BY <1>3 DEF NewGraalList, LivePartly, ListInv, IndexInv
    <3>5. LiveAt(i, b)' <=> LiveAt(i, b) \/ (i = 0 /\ b = "list")
      BY <1>3, <1>1, <3>3, <3>4 DEF NewGraalList, LiveAt, ListInv, IndexInv
    <3> QED
      BY <3>1, <3>2, <3>5
  <2> QED
    BY <1>3, <2>1, <2>2, <2>3 DEF ListInv, NewGraalList
<1>4. CASE NewElements
  <2>1. IndexInv'
    BY <1>4, <1>1, CurrentElement, TableFacts DEF NewElements, ListInv, IndexInv
  <2>2. heap' \subseteq Address
    BY <1>4, <1>1 DEF NewElements, ListInv, Address, Elements
  <2>3. HeapInv'
    <3> SUFFICES ASSUME NEW i \in 0..MaxSize, NEW b \in Block \union {"list", "elements"}
                 PROVE  <<i, b>> \in heap' <=> LiveAt(i, b)'
      BY DEF HeapInv
    <3>1. <<i, b>> \in heap <=> LiveAt(i, b)
      BY <1>4 DEF NewElements, ListInv, HeapInv
    <3>2. <<i, b>> \in heap' <=> <<i, b>> \in heap \/ (i = 0 /\ b = "elements")
      BY <1>4 DEF NewElements, Elements
    <3>3. LiveElement(i, b)' <=> LiveElement(i, b)
      BY <1>4, <1>1 DEF NewElements, LiveElement, ListInv, IndexInv
    <3>4. ~LivePartly(i, b) /\ ~LivePartly(i, b)'
      BY <1>4 DEF NewElements, LivePartly, ListInv, IndexInv
    <3>5. LiveAt(i, b)' <=> LiveAt(i, b) \/ (i = 0 /\ b = "elements")
      BY <1>4, <1>1, <3>3, <3>4 DEF NewElements, LiveAt, ListInv, IndexInv
    <3> QED
      BY <3>1, <3>2, <3>5
  <2> QED
    BY <1>4, <2>1, <2>2, <2>3 DEF ListInv, NewElements
<1> QED
  BY <1>2, <1>3, <1>4

LEMMA AllocateStep ==
  ASSUME ListInv, Allocate
  PROVE  ListInv'
<1> DEFINE e == list[index]
           new == Blocks[e][filled + 1]
<1>1. /\ size \in 0..MaxSize /\ MaxSize \in Nat
      /\ \A i \in 1..size : Deletes[list[i]] \subseteq Block
      /\ "list" \notin Block /\ "elements" \notin Block
  BY CurrentElement
<1>2. pc = "element" /\ index \in 1..size /\ filled \in Nat /\ filled < Len(Blocks[e])
  BY DEF Allocate, ListInv, IndexInv
<1>3. e \in Element
  BY <1>2, CurrentElement
<1>4. Blocks[e] \in Seq(Block) /\ Len(Blocks[e]) \in Nat /\ filled + 1 \in 1..Len(Blocks[e])
  BY <1>2, <1>3, TableFacts
<1>5. new \in Block /\ new \in Deletes[e]
  BY <1>3, <1>4, TableFacts
<1>6. /\ heap' = heap \union {<<index, new>>} /\ filled' = filled + 1
      /\ UNCHANGED <<pc, list, size, index, wrong>>
  BY DEF Allocate
<1>7. IndexInv'
  BY <1>2, <1>4, <1>6 DEF ListInv, IndexInv
<1>8. heap' \subseteq Address
  BY <1>1, <1>2, <1>5, <1>6 DEF ListInv, Address
<1>9. HeapInv'
  <2> SUFFICES ASSUME NEW i \in 0..MaxSize, NEW b \in Block \union {"list", "elements"}
               PROVE  <<i, b>> \in heap' <=> LiveAt(i, b)'
    BY DEF HeapInv
  <2>1. <<i, b>> \in heap <=> LiveAt(i, b)
    BY <1>2 DEF ListInv, HeapInv
  <2>2. LiveElement(i, b)' <=> LiveElement(i, b)
    BY <1>6 DEF LiveElement
  <2>3. 1..(filled + 1) = 1..filled \union {filled + 1}
    BY <1>2
  <2>4. LivePartly(i, b)' <=> LivePartly(i, b) \/ (i = index /\ b = new)
    BY <1>2, <1>6, <2>3 DEF LivePartly
  <2>5. LiveAt(i, b)' <=> LiveAt(i, b) \/ (i = index /\ b = new)
    BY <1>6, <2>2, <2>4 DEF LiveAt
  <2>6. <<i, b>> \in heap' <=> <<i, b>> \in heap \/ (i = index /\ b = new)
    BY <1>6
  <2> QED
    BY <2>1, <2>5, <2>6
<1> QED
  BY <1>6, <1>7, <1>8, <1>9 DEF ListInv

LEMMA ElementStep ==
  ASSUME ListInv, SetGraalListElement \/ RefuseElement
  PROVE  ListInv'
<1> USE DEF PC
<1> DEFINE e == list[index]
<1>1. /\ size \in 0..MaxSize /\ MaxSize \in Nat
      /\ "list" \notin Block /\ "elements" \notin Block
  BY CurrentElement
<1>2. /\ pc = "element" /\ index \in 1..size /\ filled \in Nat
      /\ filled <= Len(Blocks[e])
  BY DEF SetGraalListElement, RefuseElement, ListInv, IndexInv
<1>3. e \in Element /\ Len(Blocks[e]) \in Nat
  BY <1>2, CurrentElement, TableFacts
<1>4. e \in Null => filled = 0
  BY <1>2, <1>3, TableFacts
<1>5. ASSUME NEW i \in 0..MaxSize, NEW b \in Block \union {"list", "elements"}
      PROVE  <<i, b>> \in heap <=> LiveAt(i, b)
  BY <1>2 DEF ListInv, HeapInv
<1>6. CASE SetGraalListElement
  <2>1. IndexInv'
    <3>1. /\ list' = list /\ size' = size /\ index' = index + 1 /\ filled' = 0
          /\ pc' = IF index = size THEN "ready" ELSE "element"
      BY <1>6 DEF SetGraalListElement
    <3>2. pc' = "element" => index' \in 1..size
      BY <1>1, <1>2, <3>1
    <3>3. pc' = "element" => Len(Blocks[list'[index']]) \in Nat
      BY <3>1, <3>2, CurrentElement, TableFacts
    <3> QED
      BY <1>2, <3>1, <3>2, <3>3 DEF ListInv, IndexInv
  <2>2. HeapInv'
    <3> SUFFICES ASSUME NEW i \in 0..MaxSize, NEW b \in Block \union {"list", "elements"}
                 PROVE  <<i, b>> \in heap <=> LiveAt(i, b)'
      BY <1>6 DEF HeapInv, SetGraalListElement
    <3>0. filled = Len(Blocks[e])
      BY <1>6 DEF SetGraalListElement
    <3>1. LivePartly(i, b) <=> i = index /\ b \in Deletes[e]
      <4>1. b \in Deletes[e] <=> \E j \in 1..filled : b = Blocks[e][j]
        BY <1>3, <3>0, TableFacts
      <4> QED
        BY <1>2, <4>1 DEF LivePartly
    <3>2. ~LivePartly(i, b)'
      BY <1>6 DEF LivePartly, SetGraalListElement
    <3>3. LiveElement(i, b)' <=> LiveElement(i, b) \/ (i = index /\ b \in Deletes[e])
      BY <1>1, <1>2, <1>6 DEF LiveElement, SetGraalListElement
    <3>4. LiveAt(i, b)' <=> LiveAt(i, b)
      BY <1>2, <1>6, <3>1, <3>2, <3>3 DEF LiveAt, SetGraalListElement
    <3> QED
      BY <1>5, <3>4
  <2> QED
    BY <1>6, <2>1, <2>2 DEF ListInv, SetGraalListElement
<1>7. CASE RefuseElement
  <2>1. IndexInv'
    BY <1>2, <1>7 DEF ListInv, IndexInv, RefuseElement
  <2>2. HeapInv'
    <3> SUFFICES ASSUME NEW i \in 0..MaxSize, NEW b \in Block \union {"list", "elements"}
                 PROVE  <<i, b>> \in heap <=> LiveAt(i, b)'
      BY <1>7 DEF HeapInv, RefuseElement
    <3>1. filled = 0
      BY <1>4, <1>7 DEF RefuseElement
    <3>2. ~LivePartly(i, b) /\ ~LivePartly(i, b)'
      BY <1>7, <3>1 DEF LivePartly, RefuseElement
    <3>3. LiveElement(i, b)' <=> LiveElement(i, b)
      BY <1>2, <1>7 DEF LiveElement, RefuseElement
    <3>4. LiveAt(i, b)' <=> LiveAt(i, b)
      BY <1>2, <1>7, <3>2, <3>3 DEF LiveAt, RefuseElement
    <3> QED
      BY <1>5, <3>4
  <2> QED
    BY <1>7, <2>1, <2>2 DEF ListInv, RefuseElement
<1> QED
  BY <1>6, <1>7

LEMMA FailureStep ==
  ASSUME ListInv, AllocationFails
  PROVE  ListInv'
<1> USE DEF PC
<1>1. CASE Throw
  <2>1. IndexInv'
    BY <1>1 DEF ListInv, IndexInv, Throw
  <2>2. HeapInv'
    <3> SUFFICES ASSUME NEW i \in 0..MaxSize, NEW b \in Block \union {"list", "elements"}
                 PROVE  ~LiveAt(i, b)'
      BY <1>1 DEF HeapInv, Throw
    <3> QED
      BY <1>1 DEF LiveAt, LiveElement, LivePartly, Throw
  <2> QED
    BY <1>1, <2>1, <2>2 DEF ListInv, Throw
<1>2. CASE pc' = "terminated" /\ UNCHANGED <<list, size, index, filled, heap, wrong>>
  BY <1>2 DEF ListInv, IndexInv, HeapInv
<1> QED
  BY <1>1, <1>2 DEF AllocationFails

LEMMA FreeStep ==
  ASSUME ListInv, FreeGraalListElements \/ FreeGraalList
  PROVE  ListInv'
<1> USE DEF PC
<1>1. /\ size \in 0..MaxSize /\ MaxSize \in Nat
      /\ \A i \in 1..size : Deletes[list[i]] \subseteq Block
      /\ "list" \notin Block /\ "elements" \notin Block
  BY CurrentElement
<1>2. pc \in {"undo", "free"} /\ index \in Nat \ {0} /\ index <= size + 1
      /\ (pc = "undo" => index <= size)
  BY <1>1 DEF ListInv, IndexInv, FreeGraalListElements, FreeGraalList
<1>3. ASSUME NEW i \in 0..MaxSize, NEW b \in Block \union {"list", "elements"}
      PROVE  <<i, b>> \in heap <=> LiveAt(i, b)
  BY <1>2 DEF ListInv, HeapInv
<1>4. /\ UNCHANGED <<list, size, filled>>
      /\ pc' = pc \/ pc' = "idle"
  BY DEF FreeGraalListElements, FreeGraalList
<1>5. ASSUME NEW k \in 1..size, Delete(DeletesAt(k)), pc' = pc,
             \/ pc = "undo" /\ k = index - 1 /\ index' = index - 1
             \/ pc = "free" /\ k = index /\ index' = index + 1
      PROVE  ListInv'
  <2>1. DeletesAt(k) \subseteq heap
    <3> SUFFICES ASSUME NEW b \in Deletes[list[k]] PROVE <<k, b>> \in heap
      BY DEF DeletesAt
    <3>1. b \in Block
      BY <1>1
    <3>2. LiveElement(k, b)
      BY <1>2, <1>5 DEF LiveElement
    <3> QED
      BY <1>1, <1>3, <3>1, <3>2 DEF LiveAt
  <2>2. wrong' = {} /\ heap' = heap \ DeletesAt(k)
    BY <1>5, <2>1 DEF Delete, ListInv
  <2>3. IndexInv'
    <3>1. index' \in Nat \ {0} /\ index' <= size + 1 /\ (pc = "undo" => index' <= size)
      BY <1>1, <1>2, <1>5
    <3> QED
      BY <1>1, <1>2, <1>4, <1>5, <3>1 DEF ListInv, IndexInv
  <2>4. HeapInv'
    <3> SUFFICES ASSUME NEW i \in 0..MaxSize, NEW b \in Block \union {"list", "elements"}
                 PROVE  <<i, b>> \in heap' <=> LiveAt(i, b)'
      BY DEF HeapInv
    <3>1. <<i, b>> \in heap' <=> <<i, b>> \in heap /\ ~(i = k /\ b \in Deletes[list[k]])
      BY <2>2 DEF DeletesAt
    <3>2. LiveElement(i, b)' <=> LiveElement(i, b) /\ i # k
      BY <1>1, <1>2, <1>4, <1>5 DEF LiveElement
    <3>3. ~LivePartly(i, b) /\ ~LivePartly(i, b)'
      BY <1>2, <1>5 DEF LivePartly
    <3>4. LiveElement(i, b) /\ i = k => b \in Deletes[list[k]]
      BY DEF LiveElement
    <3>5. LiveAt(i, b)' <=> LiveAt(i, b) /\ ~(i = k /\ b \in Deletes[list[k]])
      BY <1>1, <1>2, <1>4, <1>5, <3>2, <3>3, <3>4 DEF LiveAt
    <3> QED
      BY <1>3, <3>1, <3>5
  <2>5. heap' \subseteq Address
    BY <2>2 DEF ListInv
  <2> QED
    BY <1>2, <1>5, <2>2, <2>3, <2>4, <2>5 DEF ListInv
<1>6. ASSUME NEW last, Delete(last), pc' = "idle", index' = index,
             last = IF size > 0 THEN {Elements, Header} ELSE {Header},
             pc = "undo" => index = 1,
             pc = "free" => index = size + 1
      PROVE  ListInv'
  <2>1. \A i \in 1..size, b \in Block \union {"list", "elements"} : ~LiveElement(i, b)
    BY <1>1, <1>2, <1>6 DEF LiveElement
  <2>2. ASSUME NEW i \in 0..MaxSize, NEW b \in Block \union {"list", "elements"}
        PROVE  <<i, b>> \in heap <=> <<i, b>> \in last
    <3>1. ~LiveElement(i, b)
      BY <2>1 DEF LiveElement
    <3>2. ~LivePartly(i, b)
      BY <1>2 DEF LivePartly
    <3>3. <<i, b>> \in last <=> i = 0 /\ (b = "list" \/ (b = "elements" /\ size > 0))
      BY <1>6 DEF Header, Elements
    <3>4. LiveAt(i, b) <=> i = 0 /\ (b = "list" \/ (b = "elements" /\ size > 0))
      BY <1>2, <3>1, <3>2 DEF LiveAt
    <3> QED
      BY <1>3, <3>3, <3>4
  <2>3. last \subseteq Address
    BY <1>1, <1>6 DEF Header, Elements, Address
  <2>4. heap = last
    BY <2>2, <2>3 DEF ListInv, Address
  <2>5. heap' = {} /\ wrong' = {}
    BY <1>6, <2>4 DEF Delete, ListInv
  <2>6. IndexInv'
    BY <1>2, <1>4, <1>6 DEF ListInv, IndexInv
  <2>7. HeapInv'
    BY <1>6, <2>5 DEF HeapInv, LiveAt, LiveElement, LivePartly
  <2> QED
    BY <1>6, <2>5, <2>6, <2>7 DEF ListInv
<1>7. CASE FreeGraalListElements
  <2>1. CASE index > 1
    BY <1>1, <1>2, <1>5, <1>7, <2>1 DEF FreeGraalListElements
  <2>2. CASE ~(index > 1)
    <3>1. index = 1 /\ size > 0 /\ pc = "undo"
      BY <1>1, <1>2, <1>7, <2>2 DEF FreeGraalListElements
    <3> QED
      BY <1>6, <1>7, <2>2, <3>1 DEF FreeGraalListElements
  <2> QED
    BY <2>1, <2>2
<1>8. CASE FreeGraalList
  <2>1. CASE index <= size
    BY <1>1, <1>2, <1>5, <1>8, <2>1 DEF FreeGraalList
  <2>2. CASE ~(index <= size)
    <3>1. index = size + 1 /\ pc = "free"
      BY <1>1, <1>2, <1>8, <2>2 DEF FreeGraalList
    <3> QED
      BY <1>6, <1>8, <2>2, <3>1 DEF FreeGraalList
  <2> QED
    BY <2>1, <2>2
<1> QED
  BY <1>7, <1>8

LEMMA CallStep ==
  ASSUME ListInv, JavaCall
  PROVE  ListInv'
<1> USE DEF PC
<1>1. /\ pc = "ready" /\ pc' = "free" /\ index' = 1
      /\ UNCHANGED <<list, size, filled, heap, wrong>>
  BY DEF JavaCall
<1>2. size \in 0..MaxSize
  BY CurrentElement
<1>3. IndexInv'
  BY <1>1, <1>2 DEF ListInv, IndexInv
<1>4. HeapInv'
  <2> SUFFICES ASSUME NEW i \in 0..MaxSize, NEW b \in Block \union {"list", "elements"}
               PROVE  <<i, b>> \in heap <=> LiveAt(i, b)'
    BY <1>1 DEF HeapInv
  <2>1. LiveElement(i, b)' <=> LiveElement(i, b)
    BY <1>1, <1>2 DEF LiveElement
  <2>2. LiveAt(i, b)' <=> LiveAt(i, b)
    BY <1>1, <2>1 DEF LiveAt, LivePartly
  <2> QED
    BY <1>1, <2>2 DEF ListInv, HeapInv
<1> QED
  BY <1>1, <1>3, <1>4 DEF ListInv

LEMMA ListNext == ListInv /\ [Next]_vars => ListInv'
<1> SUFFICES ASSUME ListInv, [Next]_vars PROVE ListInv'
  OBVIOUS
<1>1. CASE UNCHANGED vars
  <2>1. IndexInv'
    BY <1>1 DEF vars, ListInv, IndexInv
  <2>2. ASSUME NEW i, NEW b PROVE LiveAt(i, b)' <=> LiveAt(i, b)
    BY <1>1 DEF vars, LiveAt, LiveElement, LivePartly
  <2>3. HeapInv'
    BY <1>1, <2>2 DEF vars, ListInv, HeapInv
  <2> QED
    BY <1>1, <2>1, <2>3 DEF vars, ListInv
<1> QED
  BY <1>1, HeaderStep, AllocateStep, ElementStep, FailureStep, FreeStep, CallStep
     DEF Next

(* Whatever the list holds and wherever memory runs out, freeGraalList and *)
(* freeGraalListElements delete live blocks only.                          *)
THEOREM SpecDeletesOnce == Spec => []DeletedOnce
<1>1. ListInv => DeletedOnce
  BY DEF ListInv, DeletedOnce
<1> QED
  BY <1>1, ListInit, ListNext, PTL DEF Spec

(* Whatever the list holds, nothing of it is left when the conversion is   *)
(* over, except what an exception took with it.                            *)
THEOREM SpecForgetsNothing == Spec => []NothingForgotten
<1>1. ListInv => NothingForgotten
  <2> SUFFICES ASSUME ListInv, pc = "idle" PROVE heap = {}
    BY DEF NothingForgotten
  <2>0. \A i \in 0..MaxSize, b \in Block \union {"list", "elements"} : ~LiveAt(i, b)
    BY DEF LiveAt, LiveElement, LivePartly
  <2>1. \A i \in 0..MaxSize, b \in Block \union {"list", "elements"} : <<i, b>> \notin heap
    BY <2>0 DEF ListInv, HeapInv
  <2> QED
    BY <2>1 DEF ListInv, Address
<1> QED
  BY <1>1, ListInit, ListNext, PTL DEF Spec

-----------------------------------------------------------------------------
(* What a listener got is what fromGraal makes of each element of the list *)
(* that was handed over last.                                              *)
ReceivedInv ==
  /\ list \in List \union {<<>>}
  /\ index <= size + 1
  /\ leaked \subseteq Address
  /\ received = <<>> \/ received = [i \in 1..size |-> Back[list[i]]]

LEMMA ReceivedInit == Init => ReceivedInv
BY DEF Init, ReceivedInv

LEMMA ReceivedNext == ListInv /\ ReceivedInv /\ [Next]_vars => ReceivedInv'
<1> SUFFICES ASSUME ListInv, ReceivedInv, [Next]_vars PROVE ReceivedInv'
  OBVIOUS
<1>1. /\ size \in Nat /\ index \in Nat /\ heap \subseteq Address
      /\ (pc \in {"element", "undo"} => index <= size)
  BY CurrentElement DEF ListInv, IndexInv
<1>2. CASE ToGraalList
  <2>1. PICK l \in List : list' = l /\ size' = CalculateGraalListSize(Len(l))
    BY <1>2 DEF ToGraalList
  <2>2. l \in Seq(Element)
    BY GraalListsAssumption
  <2>3. size' \in Nat
    BY <2>1, <2>2, SizeFacts
  <2> QED
    BY <1>2, <2>1, <2>3 DEF ToGraalList, ReceivedInv
<1>3. CASE NewGraalList \/ NewElements \/ Allocate \/ RefuseElement
  BY <1>3 DEF NewGraalList, NewElements, Allocate, RefuseElement, ReceivedInv
<1>4. CASE SetGraalListElement
  BY <1>1, <1>4 DEF SetGraalListElement, ReceivedInv
<1>5. CASE AllocationFails
  <2>1. /\ UNCHANGED <<list, size, index, received>>
        /\ leaked' = leaked \/ leaked' = leaked \union heap
    BY <1>5 DEF AllocationFails, Throw
  <2> QED
    BY <1>1, <2>1 DEF ReceivedInv
<1>6. CASE FreeGraalListElements
  <2>1. UNCHANGED <<list, size, leaked, received>> /\ index' <= index
    BY <1>1, <1>6 DEF FreeGraalListElements
  <2>2. index' \in Int
    BY <1>1, <1>6 DEF FreeGraalListElements
  <2> QED
    BY <1>1, <2>1, <2>2 DEF ReceivedInv
<1>7. CASE FreeGraalList
  <2>1. UNCHANGED <<list, size, leaked, received>> /\ index' <= size + 1
    BY <1>1, <1>7 DEF FreeGraalList, ReceivedInv
  <2> QED
    BY <2>1 DEF ReceivedInv
<1>8. CASE JavaCall
  <2>1. /\ UNCHANGED <<list, size, leaked>> /\ index' = 1
        /\ received' = received \/ received' = [i \in 1..size |-> Back[list[i]]]
    BY <1>8 DEF JavaCall
  <2> QED
    BY <1>1, <2>1 DEF ReceivedInv
<1>9. CASE UNCHANGED vars
  BY <1>9 DEF vars, ReceivedInv
<1> QED
  BY <1>2, <1>3, <1>4, <1>5, <1>6, <1>7, <1>8, <1>9 DEF Next

LEMMA SpecReceived == Spec => [](ListInv /\ ReceivedInv)
BY ListInit, ListNext, ReceivedInit, ReceivedNext, PTL DEF Spec

(* Blocks lie where they may, and no index runs past the list.             *)
THEOREM SpecTypeOK == Spec => []TypeOK
<1>1. ListInv /\ ReceivedInv => TypeOK
  <2> SUFFICES ASSUME ListInv, ReceivedInv PROVE TypeOK
    OBVIOUS
  <2>1. /\ size \in 0..MaxSize /\ MaxSize \in Nat
        /\ \A i \in 1..size : list[i] \in Element
    BY CurrentElement
  <2>2. pc \in PC /\ heap \subseteq Address /\ wrong \subseteq Address
        /\ index \in Nat \ {0} /\ filled \in Nat
    BY DEF ListInv, IndexInv
  <2>3. index \in 1..(MaxSize + 1)
    BY <2>1, <2>2 DEF ReceivedInv
  <2>4. received \in Seq({Back[e] : e \in Element})
    <3>1. CASE received = <<>>
      BY <3>1
    <3>2. CASE received = [i \in 1..size |-> Back[list[i]]]
      <4>1. \A i \in 1..size : Back[list[i]] \in {Back[e] : e \in Element}
        BY <2>1
      <4>2. size \in Nat
        BY <2>1
      <4> QED
        BY <3>2, <4>1, <4>2
    <3> QED
      BY <3>1, <3>2 DEF ReceivedInv
  <2> QED
    BY <2>1, <2>2, <2>3, <2>4 DEF TypeOK, ReceivedInv
<1> QED
  BY <1>1, SpecReceived, PTL

-----------------------------------------------------------------------------
(* The classes of events: a class reads what it writes if the class it     *)
(* derives from does.                                                      *)
LEMMA DerivedReads ==
  ASSUME NEW base, NEW struct, NEW reads, NEW strings, NEW deletes, base.reads = base.writes
  PROVE  LET c == Derived(base, struct, reads, reads, strings, deletes)
         IN  c.reads = c.writes /\ c.struct = struct
BY DEF Derived

LEMMA BaseClasses ==
  /\ MarketEvent.reads = MarketEvent.writes
  /\ TradeBase.reads = TradeBase.writes
  /\ OrderBase.reads = OrderBase.writes
  /\ Order.reads = Order.writes
<1>1. MarketEvent.reads = MarketEvent.writes
  BY DEF MarketEvent, Derived, Root
<1>2. TradeBase.reads = TradeBase.writes
  BY <1>1, DerivedReads DEF TradeBase
<1>3. OrderBase.reads = OrderBase.writes
  BY <1>1, DerivedReads DEF OrderBase
<1>4. Order.reads = Order.writes
  BY <1>3, DerivedReads DEF Order
<1> QED
  BY <1>1, <1>2, <1>3, <1>4

(* Every class but Message reads back what it writes.                      *)
LEMMA ReadsAsWritten == \A c \in EventClass \ {Message} : c.reads = c.writes
<1>1. Quote.reads = Quote.writes
  BY BaseClasses, DerivedReads DEF Quote
<1>2. Profile.reads = Profile.writes
  BY BaseClasses, DerivedReads DEF Profile
<1>3. Summary.reads = Summary.writes
  BY BaseClasses, DerivedReads DEF Summary
<1>4. Greeks.reads = Greeks.writes
  BY BaseClasses, DerivedReads DEF Greeks
<1>5. Candle.reads = Candle.writes
  BY DEF Candle, Derived, Root
<1>6. Underlying.reads = Underlying.writes
  BY BaseClasses, DerivedReads DEF Underlying
<1>7. TheoPrice.reads = TheoPrice.writes
  BY BaseClasses, DerivedReads DEF TheoPrice
<1>8. Trade.reads = Trade.writes /\ TradeETH.reads = TradeETH.writes
  BY BaseClasses, DerivedReads DEF Trade, TradeETH
<1>9. TimeAndSale.reads = TimeAndSale.writes
  BY BaseClasses, DerivedReads DEF TimeAndSale
<1>10. AnalyticOrder.reads = AnalyticOrder.writes
  BY BaseClasses, DerivedReads DEF AnalyticOrder
<1>11. OtcMarketsOrder.reads = OtcMarketsOrder.writes
  BY BaseClasses, DerivedReads DEF OtcMarketsOrder
<1>12. SpreadOrder.reads = SpreadOrder.writes
  BY BaseClasses, DerivedReads DEF SpreadOrder
<1>13. Series.reads = Series.writes
  BY BaseClasses, DerivedReads DEF Series
<1>14. OptionSale.reads = OptionSale.writes
  BY BaseClasses, DerivedReads DEF OptionSale
<1>15. TextMessage.reads = TextMessage.writes
  BY DEF TextMessage, Derived, Root
<1> QED
  BY BaseClasses, <1>1, <1>2, <1>3, <1>4, <1>5, <1>6, <1>7, <1>8, <1>9, <1>10, <1>11, <1>12,
     <1>13, <1>14, <1>15 DEF EventClass

(* Message writes its time and does not read it.                           *)
LEMMA MessageReads ==
  /\ Message.writes = Message.reads \union {"event_time"}
  /\ "event_time" \notin Message.reads
<1> DEFINE s == <<"event_symbol", "attachment">>
<1>1. ToSet(s) = {"event_symbol", "attachment"}
  BY DEF ToSet
<1>2. /\ Message.reads = {} \union ToSet(s)
      /\ Message.writes = {} \union (ToSet(s) \union {"event_time"})
  BY DEF Message, Derived, Root
<1> QED
  BY <1>1, <1>2

(* The tag in a structure tells the class: no two classes share one.       *)
LEMMA StructNames ==
  /\ Quote.struct = "quote" /\ Profile.struct = "profile" /\ Summary.struct = "summary"
  /\ Greeks.struct = "greeks" /\ Candle.struct = "candle"
  /\ Underlying.struct = "underlying" /\ TheoPrice.struct = "theo_price"
  /\ Trade.struct = "trade" /\ TradeETH.struct = "trade_eth"
  /\ Message.struct = "message" /\ TimeAndSale.struct = "time_and_sale"
  /\ Order.struct = "order" /\ AnalyticOrder.struct = "analytic_order"
  /\ OtcMarketsOrder.struct = "otc_markets_order"
  /\ SpreadOrder.struct = "spread_order" /\ Series.struct = "series"
  /\ OptionSale.struct = "option_sale" /\ TextMessage.struct = "text_message"
<1>1. ASSUME NEW base, NEW struct, NEW reads, NEW writes, NEW strings, NEW deletes
      PROVE  Derived(base, struct, reads, writes, strings, deletes).struct = struct
  BY DEF Derived
<1>2. Quote.struct = "quote"
  BY ONLY <1>1 DEF Quote
<1>3. Profile.struct = "profile"
  BY ONLY <1>1 DEF Profile
<1>4. Summary.struct = "summary"
  BY ONLY <1>1 DEF Summary
<1>5. Greeks.struct = "greeks"
  BY ONLY <1>1 DEF Greeks
<1>6. Candle.struct = "candle"
  BY DEF Candle, Derived, Root
<1>7. Underlying.struct = "underlying"
  BY ONLY <1>1 DEF Underlying
<1>8. TheoPrice.struct = "theo_price"
  BY ONLY <1>1 DEF TheoPrice
<1>9. Trade.struct = "trade"
  BY ONLY <1>1 DEF Trade
<1>10. TradeETH.struct = "trade_eth"
  BY ONLY <1>1 DEF TradeETH
<1>11. Message.struct = "message"
  BY DEF Message, Derived, Root
<1>12. TimeAndSale.struct = "time_and_sale"
  BY ONLY <1>1 DEF TimeAndSale
<1>13. Order.struct = "order"
  BY ONLY <1>1 DEF Order
<1>14. AnalyticOrder.struct = "analytic_order"
  BY ONLY <1>1 DEF AnalyticOrder
<1>15. OtcMarketsOrder.struct = "otc_markets_order"
  BY ONLY <1>1 DEF OtcMarketsOrder
<1>16. SpreadOrder.struct = "spread_order"
  BY ONLY <1>1 DEF SpreadOrder
<1>17. Series.struct = "series"
  BY ONLY <1>1 DEF Series
<1>18. OptionSale.struct = "option_sale"
  BY ONLY <1>1 DEF OptionSale
<1>19. TextMessage.struct = "text_message"
  BY DEF TextMessage, Derived, Root
<1> QED
  BY <1>2, <1>3, <1>4, <1>5, <1>6, <1>7, <1>8, <1>9, <1>10, <1>11, <1>12,
     <1>13, <1>14, <1>15, <1>16, <1>17, <1>18, <1>19

LEMMA TagTellsClass == \A c \in EventClass : ClassOf(c.struct) = c
<1>1. \A c, d \in EventClass : c.struct = d.struct => c = d
  BY StructNames DEF EventClass
<1> QED
  BY <1>1 DEF ClassOf

(* An event comes back with the fields that its class reads.               *)
LEMMA EventComesBack ==
  ASSUME NEW e \in EventElement
  PROVE  LET b == FromGraal(e)
         IN  /\ b.kind = e.kind /\ b.class = e.class /\ b.nulls = e.nulls
             /\ b.fields = e.fields \ Lost(e)
<1>1. /\ e.kind = "event" /\ e.class \in EventClass
      /\ e.fields = e.class.reads \union e.class.writes
      /\ e \in [kind : {"event"}, class : EventClass, fields : Strings, nulls : Strings]
  BY DEF EventElement
<1> DEFINE c == e.class
           f == c.reads \intersect c.writes
<1>2. FromGraal(e) = [e EXCEPT !.class = c, !.fields = f]
  BY <1>1, TagTellsClass DEF FromGraal, EventBack
<1> HIDE DEF f
<1>3. /\ FromGraal(e).kind = e.kind /\ FromGraal(e).class = c
      /\ FromGraal(e).fields = f /\ FromGraal(e).nulls = e.nulls
  BY <1>1, <1>2
<1>4. f = e.fields \ Lost(e)
  <2>1. CASE c = Message
    BY <1>1, <2>1, MessageReads DEF f, Lost
  <2>2. CASE c # Message
    BY <1>1, <2>2, ReadsAsWritten DEF f, Lost
  <2> QED
    BY <2>1, <2>2
<1> QED
  BY <1>3, <1>4

(* So do symbols and sources, except for a name that is null.              *)
LEMMA OthersComeBack ==
  ASSUME NEW e, e \in Symbol \/ e \in Source \/ e \in Foreign
  PROVE  /\ e.kind # "event" /\ FromGraal(e).kind = e.kind
         /\ e.kind \in {"string", "wildcard", "indexed", "time_series"} => FromGraal(e) = e
<1>1. CASE e \in [kind : {"string", "candle", "source"}, nulls : Strings]
  BY <1>1 DEF FromGraal
<1>2. CASE e \in [kind : {"wildcard", "foreign"}]
  BY <1>2 DEF FromGraal
<1>3. CASE e \in [kind : {"indexed"}, of : SimpleSymbol, nulls : Strings]
  BY <1>3 DEF FromGraal
<1>4. CASE e \in [kind : {"time_series"}, of : SimpleSymbol]
  BY <1>4 DEF FromGraal
<1> QED
  BY <1>1, <1>2, <1>3, <1>4 DEF Symbol, SimpleSymbol, Source, Foreign

(* Whatever was handed over, a listener gets it or, when it is too long,   *)
(* its beginning, element by element and field by field, but for the time  *)
(* of a Message.                                                           *)
THEOREM SpecRoundTrip == Spec => []RoundTrip
<1>1. ListInv /\ ReceivedInv => RoundTrip
  <2> SUFFICES ASSUME ListInv, ReceivedInv, received # <<>>
               PROVE  /\ Len(received) = Smaller(Len(list), MaxSize)
                      /\ \A i \in 1..Len(received) : ComesBack(list[i], received[i])
    BY DEF RoundTrip
  <2>1. received = [i \in 1..size |-> Back[list[i]]] /\ size \in Nat
    BY CurrentElement DEF ReceivedInv
  <2>2. Len(received) = size
    BY <2>1
  <2>3. size = Smaller(Len(list), MaxSize)
    BY DEF ListInv, IndexInv, CalculateGraalListSize
  <2>4. ASSUME NEW i \in 1..size PROVE ComesBack(list[i], received[i])
    <3>1. list[i] \in Element
      BY CurrentElement
    <3>2. received[i] = FromGraal(list[i])
      BY <2>1, <3>1, ElementsAssumption
    <3>3. CASE list[i] \in EventElement
      <4>1. list[i].kind = "event"
        BY <3>3 DEF EventElement
      <4> QED
        BY <3>2, <3>3, <4>1, EventComesBack DEF ComesBack
    <3>4. CASE list[i] \in Symbol \/ list[i] \in Source \/ list[i] \in Foreign
      BY <3>2, <3>4, OthersComeBack DEF ComesBack
    <3> QED
      BY <3>1, <3>3, <3>4, ElementsAssumption
  <2> QED
    BY <2>2, <2>3, <2>4
<1> QED
  BY <1>1, SpecReceived, PTL
=============================================================================
