SPECIFICATION Spec
CONSTANTS
  s = s
  t = t
  i = i
  j = j
  foreign = foreign
  Arrays <- MCArrays
  Items <- MCItems
  Foreign = foreign
  ItemSize <- MCItemSize
  GrowMin = 2
  MaxLength = 5
  Capacity = 16
  HeaderSize = 24
  Word = 65536
  Requests <- MCRequests
  MaxBlocks = 4
INVARIANTS
  TypeOK
  InBounds
  Disjoint
  Aligned
PROPERTIES
  DestroyFreesAll
  ImplementsLists
  DestroyEnds
