SPECIFICATION MCSpec
\* Each function ends.
CHECK_DEADLOCK FALSE
CONSTANTS
  Maps <- MCMaps
  Requests <- MCRequests
  MaxRequests = 3
  Size = 5
  Values <- MCValues
  NtoaSize = 6
  CharValues = 8
  ShortValues = 16
  IntValues = 32
  LongValues = 64
  PointerDigits = 4
  Letters = {"%"}
  Items <- MCItems
  Arguments <- MCArguments
  Sizes = {0, 1, 4, 20}
  Far = 21
  MaxItems = 2
  GraphicsWidth = 5
  GraphicsHeight = 3
  Pitch = 6
  CharWidth = 2
  CharHeight = 2
  Font <- MCFont
  Colors = {"black", "white"}
  MaxCalls = 2
INVARIANTS
  HeapIsLargest
  Disjoint
  AlignedBlocks
  InsideHeap
  Moved
  PrintsLikeC
PROPERTY ShowsPicture
