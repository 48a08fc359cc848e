SPECIFICATION Spec
CONSTANTS
  Insn <- Program
  Entry = 0
  ExitNo = 231
  Signals = {}
  MaxSignals = 0
  MaxFrames = 1
  CanKill = FALSE
  UserCmds = {"breaks", "break", "break_del", "continue"}
  BreakAddrs = {8}
  SysNumbers = {231}
  MaxBps = 2
  MaxDepth = 2
PROPERTY TrapNotDelivered
