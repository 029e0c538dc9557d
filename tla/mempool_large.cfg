\* One request of each kind, aligned to four.
CONSTANTS
  Bits = 6
  Word = 64
  Large = 6
  InitNum = 2
  Base <- MCBase
  Hint <- MCHint
  Size <- MCSize
  Shift = {2}
  MaxGiven = 2
SPECIFICATION Spec
INVARIANT AlignedAsAsked
