SPECIFICATION FairSpec
CONSTANTS
  Insn <- Program
  Entry = 0
  ExitNo = 231
  Signals = {"SIGUSR1"}
  MaxSignals = 1
  MaxFrames = 1
  CanKill = TRUE
  UserCmds = {"break", "tbreak", "continue", "step_instr", "next_instr", "finish"}
  BreakAddrs = {2}
  SysNumbers = {}
  MaxBps = 1
  MaxDepth = 2
PROPERTIES
  DeathEndsCommand
  LoopBreakpointReached
