SPECIFICATION Spec
CONSTANTS
  Insn <- Program
  Entry = 0
  ExitNo = 231
  Signals = {"SIGUSR1", "SIGTRAP"}
  MaxSignals = 2
  MaxFrames = 1
  CanKill = TRUE
  UserCmds = {"break", "tbreak", "breakl", "continue", "step_instr", "next_instr", "finish", "quit"}
  BreakAddrs = {0, 2, 8, 9, 100}
  SysNumbers = {}
  MaxBps = 2
  MaxDepth = 2
INVARIANTS
  TypeOK
  TrapsMatchTable
  NoLostBreakpoint
  TableInv
  OnInstructions
PROPERTIES
  SignalForwarded
  Transparent
