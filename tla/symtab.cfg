\* Two tables that grow at three entries and share chunks of two elements.
CONSTANTS
  a = a
  b = b
  c = c
  Tab = {t1, t2}
  Sym <- MCSym
  Data = {v}
  Null = Null
  hashcode <- MChashcode
  MINSIZE = 2
  primes <- MCprimes
  MaxRatio = 0
  Hint = {0}
  MaxEntries = 4
  chunk_count = 2
SYMMETRY Tables
SPECIFICATION Spec
INVARIANTS TypeOK ElementsAccounted PointersStable LoadBounded
PROPERTY RefinesMap
