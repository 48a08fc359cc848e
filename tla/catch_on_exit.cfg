SPECIFICATION Spec
CONSTANTS
  Insn <- Program
  Entry = 0
  ExitNo = 231
  Signals = {}
  MaxSignals = 0
  MaxFrames = 1
  CanKill = FALSE
  UserCmds = {"breaks", "continue", "step_instr"}
  BreakAddrs = {}
  SysNumbers = {1}
  MaxBps = 1
  MaxDepth = 3
PROPERTIES
  CatchOnlyAtEntry
