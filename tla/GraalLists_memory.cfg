SPECIFICATION Spec
CONSTANTS
  Element <- MCElement
  Block <- MCBlock
  Blocks <- MCBlocks
  Deletes <- MCDeletes
  Throws <- MCThrows
  Null <- MCNull
  Back <- MCBack
  List <- MCList
  MaxSize = 2
INVARIANTS
  TypeOK
  DeletedOnce
  NothingForgotten
  RoundTrip
CHECK_DEADLOCK FALSE
