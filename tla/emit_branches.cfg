\* Branches and labels across code blocks of two words.
CONSTANTS
  CODEBUFFER_SIZE = 2
  BranchReach = 2
  LdrSpan = 8
  MovSpan = 2
  Slack = 1
  Garbage = {3}
  Insn = {x, y}
  Reg <- MCReg
  Imm <- NoImm
  MaxCode = 4
  MaxLabels = 2
SPECIFICATION Spec
INVARIANTS TypeOK StreamInBlocks RefsSound BranchLands PlainUntouched
PROPERTY RefinesProgram
