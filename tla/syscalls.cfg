SPECIFICATION Spec
CONSTANTS
  Insn <- Program
  Entry = 0
  ExitNo = 231
  Signals = {"SIGUSR1"}
  MaxSignals = 1
  MaxFrames = 1
  CanKill = TRUE
  UserCmds = {"break", "breaks", "break_del", "continue", "step_instr"}
  BreakAddrs = {0, 11}
  SysNumbers = {1, 231}
  MaxBps = 3
  MaxDepth = 2
INVARIANTS
  CatchListed
  CoreInv
PROPERTIES
  PhaseKept
  CatchExact
  BreakpointsStop
