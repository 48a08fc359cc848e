SPECIFICATION Spec
CONSTANTS
  Insn <- Program
  Entry = 0
  ExitNo = 231
  Signals = {"SIGUSR1"}
  MaxSignals = 1
  MaxFrames = 1
  CanKill = FALSE
  UserCmds = {"break", "step_instr"}
  BreakAddrs = {8}
  SysNumbers = {}
  MaxBps = 1
  MaxDepth = 0
PROPERTIES
  RewindOnlyAfterTrap
