\* A program with more literals than a constant block holds.
CONSTANTS
  CODEBUFFER_SIZE = 2
  BranchReach = 8388608
  LdrSpan = 4096
  MovSpan = 256
  Slack = 2
  Garbage = {0}
  Insn = {x}
  Reg = {2}
  Imm = {1000}
  MaxCode = 5
  MaxLabels = 1
SPECIFICATION Spec
INVARIANT LabelFromTopOfCode
