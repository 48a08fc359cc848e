SPECIFICATION CmdSpec
CONSTANTS
  Code <- Functions
  Roots = {"run_command"}
  NeedsProgram <- ProgramRequired
  MaxNested = 2
  Ptrs <- Addresses
  NULL = 0
  Flow <- FlowOfCode
CONSTRAINT OneFailedString
ACTION_CONSTRAINT LoopBound
INVARIANTS
  EnvsMatch
  ResourcesReleased
  NoBlockAtPrompt
  FreedOnce
  NothingForgotten
  FirstReported
  FailureKeepsPid
  OverreadOnlyOnFailure
  FlowCovers
  FactsSuffice
