\* Pools that grow, wrap their sizes, are cleared both ways and destroyed.
CONSTANTS
  Bits = 6
  Word = 64
  Large = 6
  InitNum = 2
  Base <- MCBase
  Hint <- MCHint
  Size <- MCSize
  Shift <- MCShift
  MaxGiven = 3
SPECIFICATION Spec
INVARIANTS TypeOK CapacityHonest RetryFits ArraysFit NoLeak SmallAligned
PROPERTY RefinesAllocator
