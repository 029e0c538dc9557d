\* Immediate loads of every kind, up to one literal more than the constant block holds.
CONSTANTS
  CODEBUFFER_SIZE = 2
  BranchReach = 4
  LdrSpan = 8
  MovSpan = 2
  Slack = 1
  Garbage = {0}
  Insn = {x}
  Reg = {2}
  Imm <- MCImm
  MaxCode = 4
  MaxLabels = 1
SPECIFICATION Spec
INVARIANTS CountersMatchBlocks LiteralLoads NoLeak
PROPERTY RefinesProgram
