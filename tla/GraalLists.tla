---------------------------- MODULE GraalLists ----------------------------
(***************************************************************************)
(* How a list of events, symbols or event sources is copied into memory    *)
(* that the Java library reads, and how that memory is given back:         *)
(* toGraalList, the Java call and freeGraalList of EventMapper,            *)
(* SymbolWrapper and EventSourceWrapper. Any allocation may fail.          *)
(***************************************************************************)
EXTENDS Integers, Sequences

CONSTANTS
  Element,    \* what a list may hold
  Block,      \* names of the blocks of memory of an element
  Blocks,     \* Blocks[e]: the blocks toGraal allocates for e, in order
  Deletes,    \* Deletes[e]: the blocks freeGraal deletes of e
  Throws,     \* Throws[e]: the blocks whose failed allocation is thrown
  Null,       \* the elements whose toGraal returns nullptr
  Back,       \* Back[e]: what fromGraal makes of e
  List,       \* the lists a program may hand over
  MaxSize     \* the largest size a Graal list can have

ASSUME GraalListsAssumption ==
  /\ Blocks \in [Element -> Seq(Block)]
  /\ Deletes \in [Element -> SUBSET Block]
  /\ Throws \in [Element -> SUBSET Block]
  /\ Null \subseteq Element
  /\ List \subseteq Seq(Element)
  /\ MaxSize \in Nat
  /\ {"list", "elements"} \intersect Block = {}

(* What freeGraal deletes is what toGraal allocated.                       *)
ASSUME DeletesMatchBlocks ==
  \A e \in Element :
    /\ Deletes[e] = {Blocks[e][i] : i \in DOMAIN Blocks[e]}
    /\ \A i, j \in DOMAIN Blocks[e] : Blocks[e][i] = Blocks[e][j] => i = j
    /\ e \in Null => Blocks[e] = <<>>

VARIABLES
  pc,         \* where the conversion is
  list,       \* the C++ collection
  size,       \* the size of the Graal list
  index,      \* the element being converted or freed
  filled,     \* blocks of that element allocated so far
  heap,       \* live blocks: <<position, name>>, position 0 for the list itself
  wrong,      \* blocks deleted that were not live
  leaked,     \* live blocks nothing points to any more
  received    \* what fromGraalList makes of the list

vars == <<pc, list, size, index, filled, heap, wrong, leaked, received>>

PC == {"idle", "header", "array", "element", "ready", "undo", "free", "terminated"}

Address == (0..MaxSize) \X (Block \union {"list", "elements"})

Smaller(a, b) == IF a < b THEN a ELSE b

\* Mutant: the collection is not cut.
CalculateGraalListSize_All(n) == n

(* calculateGraalListSize: longer collections are cut.                     *)
CalculateGraalListSize(n) == Smaller(n, MaxSize)

Header   == <<0, "list">>
Elements == <<0, "elements">>

BlocksAt(i, n) == {<<i, Blocks[list[i]][j]>> : j \in 1..n}
DeletesAt(i)   == {<<i, b>> : b \in Deletes[list[i]]}

Delete(blocks) ==
  /\ heap' = heap \ blocks
  /\ wrong' = wrong \union (blocks \ heap)

(* An exception passes the conversion by: nothing on its way owns the list *)
(* or the element, so what was allocated stays.                            *)
Throw ==
  /\ pc' = "idle"
  /\ leaked' = leaked \union heap
  /\ heap' = {}
  /\ UNCHANGED <<list, size, index, filled, wrong, received>>

Init ==
  /\ pc = "idle"
  /\ list = <<>>
  /\ size = 0
  /\ index = 1
  /\ filled = 0
  /\ heap = {}
  /\ wrong = {}
  /\ leaked = {}
  /\ received = <<>>

(* toGraalList: the size, ...                                              *)
ToGraalList ==
  /\ pc = "idle" /\ leaked = {}
  /\ \E l \in List :
       /\ list' = l
       /\ size' = CalculateGraalListSize(Len(l))
  /\ pc' = "header"
  /\ index' = 1
  /\ filled' = 0
  /\ received' = <<>>
  /\ UNCHANGED <<heap, wrong, leaked>>

(* ... newGraalList: the list and, unless it is empty, the array, ...      *)
NewGraalList ==
  /\ pc = "header"
  /\ heap' = heap \union {Header}
  /\ pc' = IF size = 0 THEN "ready" ELSE "array"
  /\ UNCHANGED <<list, size, index, filled, wrong, leaked, received>>

NewElements ==
  /\ pc = "array"
  /\ heap' = heap \union {Elements}
  /\ pc' = "element"
  /\ UNCHANGED <<list, size, index, filled, wrong, leaked, received>>

(* ... toGraal of every element, block by block, ...                       *)
Allocate ==
  /\ pc = "element"
  /\ filled < Len(Blocks[list[index]])
  /\ heap' = heap \union {<<index, Blocks[list[index]][filled + 1]>>}
  /\ filled' = filled + 1
  /\ UNCHANGED <<pc, list, size, index, wrong, leaked, received>>

(* ... and setGraalListElement, which refuses nullptr.                     *)
SetGraalListElement ==
  /\ pc = "element"
  /\ filled = Len(Blocks[list[index]])
  /\ list[index] \notin Null
  /\ index' = index + 1
  /\ filled' = 0
  /\ pc' = IF index = size THEN "ready" ELSE "element"
  /\ UNCHANGED <<list, size, heap, wrong, leaked, received>>

RefuseElement ==
  /\ pc = "element"
  /\ list[index] \in Null
  /\ pc' = "undo"
  /\ UNCHANGED <<list, size, index, filled, heap, wrong, leaked, received>>

(* A failed allocation is thrown, or ends the program where it meets a     *)
(* function that is noexcept.                                              *)
AllocationFails ==
  \/ pc \in {"header", "array"} /\ Throw
  \/ /\ pc = "element"
     /\ filled < Len(Blocks[list[index]])
     /\ \/ /\ Blocks[list[index]][filled + 1] \in Throws[list[index]]
           /\ Throw
        \/ /\ Blocks[list[index]][filled + 1] \notin Throws[list[index]]
           /\ pc' = "terminated"
           /\ UNCHANGED <<list, size, index, filled, heap, wrong, leaked, received>>

\* Mutant: the list that was freed is returned instead of nullptr.
FreeGraalListElements_Returned ==
  /\ pc = "undo"
  /\ IF index > 1
       THEN /\ index' = index - 1
            /\ Delete(DeletesAt(index - 1))
            /\ pc' = pc
       ELSE /\ index' = index
            /\ Delete({Elements, Header})
            /\ pc' = "free"
  /\ UNCHANGED <<list, size, filled, leaked, received>>

(* freeGraalListElements after a refused element: the elements before it.  *)
FreeGraalListElements ==
  /\ pc = "undo"
  /\ IF index > 1
       THEN /\ index' = index - 1
            /\ Delete(DeletesAt(index - 1))
            /\ pc' = pc
       ELSE /\ index' = index
            /\ Delete({Elements, Header})
            /\ pc' = "idle"
  /\ UNCHANGED <<list, size, filled, leaked, received>>

(* The Java call. The library reads the list before it returns; a listener *)
(* of the same process gets what fromGraalList makes of its copy. The call *)
(* may also throw: the unique_ptr frees the list just the same.            *)
JavaCall ==
  /\ pc = "ready"
  /\ \/ received' = [i \in 1..size |-> Back[list[i]]]
     \/ received' = received
  /\ pc' = "free"
  /\ index' = 1
  /\ UNCHANGED <<list, size, filled, heap, wrong, leaked>>

\* Mutant: the last element is forgotten.
FreeGraalList_ButLast ==
  /\ pc = "free"
  /\ IF index < size
       THEN /\ index' = index + 1
            /\ Delete(DeletesAt(index))
            /\ pc' = pc
       ELSE /\ index' = index
            /\ Delete(IF size > 0 THEN {Elements, Header} ELSE {Header})
            /\ pc' = "idle"
  /\ UNCHANGED <<list, size, filled, leaked, received>>

(* freeGraalList.                                                          *)
FreeGraalList ==
  /\ pc = "free"
  /\ IF index <= size
       THEN /\ index' = index + 1
            /\ Delete(DeletesAt(index))
            /\ pc' = pc
       ELSE /\ index' = index
            /\ Delete(IF size > 0 THEN {Elements, Header} ELSE {Header})
            /\ pc' = "idle"
  /\ UNCHANGED <<list, size, filled, leaked, received>>

Next ==
  \/ ToGraalList \/ NewGraalList \/ NewElements \/ Allocate
  \/ SetGraalListElement \/ RefuseElement \/ AllocationFails
  \/ FreeGraalListElements \/ JavaCall \/ FreeGraalList

Spec == Init /\ [][Next]_vars

-----------------------------------------------------------------------------

TypeOK ==
  /\ pc \in PC
  /\ list \in List \union {<<>>}
  /\ size \in 0..MaxSize
  /\ index \in 1..(MaxSize + 1)
  /\ filled \in Nat
  /\ {heap, wrong, leaked} \subseteq SUBSET Address
  /\ received \in Seq({Back[e] : e \in Element})

(* Nothing is deleted twice, and nothing that was never allocated: neither *)
(* by freeGraalList nor by freeGraalListElements, which stops at the       *)
(* element that was refused (EventMapper.cpp:199-223, 273-291).            *)
DeletedOnce == wrong = {}

(* When the program goes on, the memory of the conversion is gone, unless  *)
(* an exception passed it by. No path of the code that runs to its end     *)
(* forgets a block.                                                        *)
NothingForgotten == pc = "idle" => heap = {}
============================================================================
