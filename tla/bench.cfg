SPECIFICATION Spec
CONSTANTS
  NUM_LOOP = 3
  MinInsn = 8
  MaxInsn = 16
  MovLimit = 2
  ZeroMem = 8192
  ZeroSize = 32768
  StackTop = 4096
  StackSize = 32
  ReturnAddress = 1000000
  Width = 30
INVARIANTS LoopKept ZeroMemZero CallerKept CountDivided
PROPERTY Ends
