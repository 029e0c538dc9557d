CONSTANTS
  Addr = {a1, a2, a3, a4, a5, a6}
  Null = Null
  InPool = InPool
  Junk = Junk
  NUL = NUL
  HeadLink = HeadLink
  Head0 = Head0
  Tail0 = Tail0
  Values = {v1, v2}
  Names <- MCNames
  hash <- MCHash
  num_backets = 2
  chunk_count = 2
  ChainSize = 1
  MaxLen = 4
  MaxSize = 3
  MaxHand = 3
SPECIFICATION Spec
INVARIANTS Owned WithinCapacity ContentsAsAsked Linked SameSymbol
SYMMETRY Symmetry
