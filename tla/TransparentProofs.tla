-------------------------- MODULE TransparentProofs --------------------------
(***************************************************************************)
(* Proof that the program under my-dbg executes what it executes alone:    *)
(* Debugger implements NativeExecution.                                    *)
(***************************************************************************)
EXTENDS CoreProofs

-----------------------------------------------------------------------------
(* A sound table. *)

\* No step repairs a damaged table.
LEMMA TableDamageStays ==
  ASSUME TypeOK, ProgramAssumption, DebuggerAssumption, [Next]_vars, ~TableDamaged'
  PROVE  ~TableDamaged
<1> USE DEF TableDamaged, IsCode
<1>1. CASE UNCHANGED bps
  BY <1>1
<1>2. CASE \E i \in DOMAIN bps : toggle_breakpoint(i)
  BY <1>2, ToggleKeepsRecords
<1>3. CASE Command
  <2>1. CASE \E a, f : place_breakpoint(a, f)
    <3>1. PICK a, f : place_breakpoint(a, f)
      BY <2>1
    <3>2. PICK m \in Nat : /\ m \notin DOMAIN bps /\ DOMAIN bps' = DOMAIN bps \cup {m}
                           /\ \A j \in DOMAIN bps : bps'[j] = bps[j]
      BY <3>1, PlaceEffect
    <3> QED BY <3>2
  <2>2. CASE \E n \in SysNumbers : add_syscall_break(n)
    <3>1. PICK n \in SysNumbers : add_syscall_break(n)
      BY <2>2
    <3>2. PICK m \in Nat : /\ m \notin DOMAIN bps /\ DOMAIN bps' = DOMAIN bps \cup {m}
                           /\ \A j \in DOMAIN bps : bps'[j] = bps[j]
      BY <3>1, CatchEffect
    <3> QED BY <3>2
  <2>3. CASE \E i \in DOMAIN bps : MarkDeleted(i)
    <3>1. PICK i \in DOMAIN bps : MarkDeleted(i)
      BY <2>3
    <3>2. /\ DOMAIN bps' = DOMAIN bps
          /\ \A j \in DOMAIN bps :
               /\ bps'[j].flags = bps[j].flags
               /\ bps'[j].word = bps[j].word
               /\ bps'[j].addr = bps[j].addr
               /\ j # i => bps'[j].deleted = bps[j].deleted
          /\ bps'[i].deleted
      BY <3>1, DeleteEffect
    <3> QED BY <3>2
  <2> QED BY <1>1, <1>3, <2>1, <2>2, <2>3, CommandTables
<1>4. CASE Progress
  BY <1>1, <1>2, <1>4, ProgressTables
<1>5. CASE TraceeRuns \/ Outside \/ Exit \/ UNCHANGED vars
  BY <1>1, <1>5, OtherSteps DEF bpVars, vars
<1> QED BY <1>3, <1>4, <1>5 DEF Next, Terminated

\* In a sound table the traps are the armed breakpoints, one on each, and all
\* of them stand on instructions.
LEMMA SoundTable ==
  ASSUME TableInv, ~TableDamaged
  PROVE  /\ \A a : Trapped(a) => is_breakpoint(a)
         /\ \A a : is_breakpoint(a) => a \in Start
         /\ \A a : \A i, j \in DOMAIN bps : Matches(i, a) /\ Matches(j, a) => i = j
<1>1. SavedOriginals
  <2>0. \A i \in DOMAIN bps : bps[i] \in BpType
    BY DEF TableInv, TypeOK, BreakpointsTypeOK
  <2>1. \A i \in DOMAIN bps : bps[i].word \in {"orig", "int3"}
    BY <2>0 DEF BpType
  <2> QED BY <2>1 DEF TableDamaged, SavedOriginals
<1>2. \A a : \A i \in DOMAIN bps : IsCode(i) => (Matches(i, a) <=> EnabledAt(i, a))
  BY DEF TableDamaged, Matches, EnabledAt
<1>3. ASSUME NEW a \in Addr
      PROVE  /\ text[a] = "int3" <=> \E i \in DOMAIN bps : EnabledAt(i, a)
             /\ \A i, j \in DOMAIN bps : EnabledAt(i, a) /\ EnabledAt(j, a) => i = j
  BY <1>1 DEF TableInv, TrapsMatchTable
<1>4. ASSUME NEW a, Trapped(a) PROVE is_breakpoint(a)
  <2>1. a \in Addr /\ text[a] = "int3"
    BY <1>4 DEF Trapped
  <2> QED BY <1>2, <1>3, <2>1 DEF is_breakpoint, EnabledAt
<1>5. ASSUME NEW i \in DOMAIN bps, NEW a, Matches(i, a)
      PROVE  a \in Start /\ a \in Addr /\ EnabledAt(i, a)
  BY <1>2, <1>5 DEF TableDamaged, Matches, TableInv, CodeMapped
<1>6. ASSUME NEW i \in DOMAIN bps, NEW j \in DOMAIN bps, NEW a, Matches(i, a), Matches(j, a)
      PROVE  i = j
  BY <1>3, <1>5, <1>6
<1> QED BY <1>4, <1>5, <1>6 DEF is_breakpoint

\* Instructions start apart: no other one starts in the bytes of one.
LEMMA StartsApart ==
  ASSUME ProgramAssumption, NEW a \in Start, NEW b \in Start, b \in Bytes(a)
  PROVE  a = b
<1>1. b \in Bytes(b)
  <2>1. b \in Int /\ Insn[b].size \in Nat \ {0}
    BY DEF ProgramAssumption
  <2> QED BY <2>1 DEF Bytes
<1> QED BY <1>1 DEF ProgramAssumption

\* An instruction whose first byte is no trap is as the compiler left it.
LEMMA InsnIntact ==
  ASSUME TableInv, ~TableDamaged, ProgramAssumption, NEW a \in Start, ~Trapped(a)
  PROVE  Intact(a)
<1> SUFFICES ASSUME NEW b \in Bytes(a) PROVE text[b] = "orig"
  BY DEF Intact
<1>1. b \in Addr
  BY DEF Addr
<1>2. text[b] \in {"orig", "int3"}
  BY <1>1 DEF TableInv, TypeOK, TraceeTypeOK
<1>3. ASSUME text[b] = "int3" PROVE FALSE
  <2>1. Trapped(b)
    BY <1>1, <1>3 DEF Trapped
  <2>2. b \in Start
    BY <2>1, SoundTable
  <2>3. a = b
    BY <2>2, StartsApart
  <2> QED BY <2>1, <2>3
<1> QED BY <1>2, <1>3

\* The byte before the end of a system call starts no instruction.
LEMMA InsideSyscall ==
  ASSUME ProgramAssumption, NEW a \in Start, Insn[a].kind = "syscall"
  PROVE  a + 1 \notin Start
<1>1. a \in Int /\ Insn[a].size = 2
  BY DEF ProgramAssumption, SyscallSize
<1>2. a + 1 \in Bytes(a) /\ a + 1 # a
  BY <1>1 DEF Bytes
<1> QED BY <1>2, StartsApart

-----------------------------------------------------------------------------
(* Each step stays on the program's instructions and is one of its steps or a  *)
(* stutter.                                                                     *)

Mapped == Native!Next \/ UNCHANGED <<Position, frames>>

\* The state between two steps of a sound table.
Sound == CoreInv /\ OnInstructions /\ ~TableDamaged /\ ProgramAssumption

\* What OnInstructions asks of a sound table.
Placed ==
  /\ ~Dead => Position \in Start
  /\ AtSyscall =>
       /\ rip - SyscallSize \in Start
       /\ Insn[rip - SyscallSize].kind = "syscall"
       /\ insys # NoSys => Insn[rip - SyscallSize].nr = insys
  /\ AtTrap => ~step /\ insys = NoSys
  /\ run = "step" => ~Trapped(rip)

\* Away from waitpid and its status no stop is pending.
LEMMA NothingPending ==
  ASSUME CoreInv, pc \notin {"wait", "handle"}
  PROVE  ~AtTrap /\ (AtSyscall <=> insys # NoSys) /\ run # "step"
<1>1. stop.cause \notin {"int3", "syscall"} /\ run \notin Modes
  BY StopsInWait DEF CoreInv, TableInv, RunsInWait
<1> QED BY <1>1 DEF AtTrap, AtSyscall, Modes

\* Steps that leave the program where it is.
LEMMA PlacedFrame ==
  ASSUME Sound, UNCHANGED <<rip, insys>>, Dead' <=> Dead,
         AtTrap \/ Dead => AtTrap' \/ Dead, AtTrap' => AtTrap /\ step' = step,
         AtSyscall' => AtSyscall, run' = "step" => ~Trapped(rip)'
  PROVE  Placed' /\ UNCHANGED Position
<1> USE DEF Sound, OnInstructions
<1>1. UNCHANGED Position
  BY DEF Position, AtTrap
<1> QED BY <1>1 DEF Placed

\* single_step lifts the trap it stands on.
LEMMA StepClear ==
  ASSUME Sound, single_step
  PROVE  ~Trapped(rip)'
<1> USE DEF Sound
<1>0. TableInv /\ UNCHANGED rip
  BY DEF CoreInv, single_step, Resume
<1>1. CASE \E i \in DOMAIN bps : get_breakpoint(rip, i) /\ toggle_breakpoint(i)
  <2>1. PICK i \in DOMAIN bps : Matches(i, rip) /\ toggle_breakpoint(i)
    BY <1>1 DEF get_breakpoint
  <2>2. ~ToggleIsNoop(i) /\ bps[i].enabled /\ bps[i].addr = rip /\ IsCode(i)
    BY <2>1 DEF Matches, ToggleIsNoop
  <2>3. text' = [text EXCEPT ![rip] = bps[i].word]
    BY <2>1, <2>2 DEF toggle_breakpoint
  <2>4. bps[i].word # "int3" /\ rip \in Addr /\ text \in [Addr -> {"orig", "int3"}]
    BY <1>0, <2>2 DEF TableDamaged, TableInv, CodeMapped, TypeOK, TraceeTypeOK
  <2> QED BY <1>0, <2>3, <2>4 DEF Trapped
<1>2. CASE ~is_breakpoint(rip) /\ UNCHANGED text
  BY <1>0, <1>2, SoundTable DEF Trapped
<1> QED BY <1>1, <1>2 DEF single_step

\* A command leaves the program where it is.
LEMMA CommandMapped ==
  ASSUME Sound, CoreInv', Command
  PROVE  Placed' /\ Mapped /\ UNCHANGED frames
<1>1. /\ pc = "prompt" /\ pc' \in {"prompt", "continue", "single_step"} \cup Ended
      /\ UNCHANGED <<rip, frames, run, stop, insys>>
  BY CommandFrame
<1>2. pc \notin {"wait", "handle"} /\ pc' \notin {"wait", "handle"}
  BY <1>1 DEF Ended
<1>3. ~AtTrap /\ (AtSyscall <=> insys # NoSys) /\ run # "step"
  BY <1>2, NothingPending DEF Sound
<1>4. ~AtTrap' /\ (AtSyscall' <=> insys' # NoSys)
  BY <1>1, <1>2, <1>3 DEF AtTrap, AtSyscall
<1>5. Placed' /\ UNCHANGED Position
  BY <1>1, <1>3, <1>4, PlacedFrame DEF Dead
<1> QED BY <1>1, <1>5 DEF Mapped

\* The decoding of a stop leaves the program where it is; the hit of a
\* breakpoint puts rip back on the instruction the trap stands for.
LEMMA WaitMapped ==
  ASSUME Sound, wait_program
  PROVE  Placed' /\ UNCHANGED frames /\ (Mapped \/ SignalTakenForHit)
<1> USE DEF Sound
<1>0. /\ pc = "handle" /\ pc' \notin {"wait", "handle"}
      /\ UNCHANGED <<frames, run, stop, insys, step, wstatus>>
  BY WaitFrame
<1>1. /\ stop.cause \notin {"int3", "syscall"} /\ run # "step"
      /\ StopFits(wstatus) /\ wstatus.cause # "none" /\ wstatus.cause \in Causes
  <2>1. TypeOK /\ RunsInWait
    BY DEF CoreInv, TableInv
  <2>2. wstatus \in StatusType
    BY <2>1 DEF TypeOK, DebuggerTypeOK
  <2>3. wstatus.cause \in Causes
    BY <2>2 DEF StatusType
  <2> QED BY <1>0, <2>1, <2>3, StopsInWait DEF RunsInWait, Modes
<1>2. /\ AtTrap <=> wstatus.cause = "int3"
      /\ AtSyscall <=> insys # NoSys \/ wstatus.cause = "syscall"
      /\ ~AtTrap' /\ (AtSyscall' <=> insys' # NoSys)
  BY <1>0, <1>1 DEF AtTrap, AtSyscall
<1>3. CASE ~wait_breakpoint
  <2>1. UNCHANGED rip
    BY <1>3 DEF wait_program, wait_stepped, wait_syscall, wait_signal, wait_dead,
                wait_fatal, FatalAt, traceeVars
  <2>2. AtTrap => Dead
    <3>1. CASE wait_stepped
      BY <3>1 DEF wait_stepped, StepDone, OnInstructions, StopFits
    <3>2. CASE wait_syscall
      BY <1>2, <3>2 DEF wait_syscall, IsSyscallStop
    <3>3. CASE wait_signal
      <4>1. ~is_breakpoint(rip - 1)
        BY <3>3 DEF wait_signal
      <4>2. ~Trapped(rip - 1)
        BY <4>1, SoundTable DEF CoreInv
      <4> QED BY <1>1, <1>2, <4>2 DEF StopFits
    <3>4. CASE wait_dead
      BY <1>2, <3>4 DEF wait_dead, IsStopped
    <3>5. CASE wait_fatal
      BY <3>5 DEF wait_fatal, FatalAt
    <3> QED BY <1>3, <3>1, <3>2, <3>3, <3>4, <3>5 DEF wait_program
  <2>3. Placed' /\ UNCHANGED Position
    BY <1>0, <1>1, <1>2, <2>1, <2>2, PlacedFrame DEF Dead
  <2> QED BY <1>0, <2>3 DEF Mapped
<1>4. CASE wait_breakpoint
  <2>1. /\ ~Dead /\ ~StepDone /\ IsStopped /\ is_breakpoint(rip - 1)
        /\ rip' = rip - 1
    BY <1>4 DEF wait_breakpoint, get_breakpoint, is_breakpoint
  <2>2. rip - 1 \in Start /\ rip \in Int
    BY <2>1, SoundTable DEF CoreInv, TableInv, TypeOK, TraceeTypeOK
  <2>3. ~AtSyscall
    <3>1. ASSUME AtSyscall PROVE FALSE
      <4>1. /\ rip - SyscallSize \in Start
            /\ Insn[rip - SyscallSize].kind = "syscall"
        BY <3>1 DEF OnInstructions
      <4>2. (rip - SyscallSize) + 1 \notin Start
        BY <4>1, InsideSyscall
      <4> QED BY <2>2, <4>2 DEF SyscallSize
    <3> QED BY <3>1
  <2>4. insys' = NoSys /\ Position' = rip - 1
    BY <1>0, <1>2, <2>1, <2>3 DEF Position, AtTrap, Dead
  <2>5. Placed'
    BY <1>0, <1>1, <1>2, <2>2, <2>4 DEF Placed
  <2>6. CASE wstatus.cause = "int3"
    <3>1. Position = rip - 1
      BY <1>0, <1>2, <2>1, <2>3, <2>6 DEF Position, AtSyscall
    <3> QED BY <1>0, <2>4, <2>5, <3>1 DEF Mapped
  <2>7. CASE wstatus.cause # "int3"
    <3>1. wstatus.cause = "signal"
      BY <1>1, <1>2, <2>1, <2>3, <2>7 DEF Causes, StepDone, StopFits, IsStopped
    <3> QED BY <1>0, <2>1, <2>5, <3>1 DEF SignalTakenForHit
  <2> QED BY <2>6, <2>7
<1> QED BY <1>3, <1>4

\* my-dbg's own steps leave the program where it is.
LEMMA ProgressMapped ==
  ASSUME Sound, CoreInv', Progress
  PROVE  Placed' /\ UNCHANGED frames /\ (Mapped \/ SignalTakenForHit)
<1> USE DEF Sound
<1>1. CASE ResumeStep
  <2>1. /\ pc \notin {"wait", "handle"} /\ pc' = "wait" /\ ~Dead /\ ~Dead'
        /\ UNCHANGED <<rip, frames, stop, insys>>
    BY <1>1 DEF ResumeStep, Dead
  <2>2. ~AtTrap /\ (AtSyscall <=> insys # NoSys)
    BY <2>1, NothingPending
  <2>3. ~AtTrap' /\ (AtSyscall' <=> insys' # NoSys)
    BY <2>1, <2>2 DEF AtTrap, AtSyscall
  <2>4. run' = "step" => ~Trapped(rip)'
    <3>1. ASSUME run' = "step" PROVE single_step
      <4>1. pc = "single_step" /\ pc' = "wait"
        BY <1>1, <3>1 DEF ResumeStep
      <4> QED
        BY <4>1 DEF Progress, continue_execution, continue_after_step, single_step_end,
                    single_step_fatal, my_wait, wait_program, wait_stepped,
                    wait_breakpoint, wait_syscall, wait_signal, wait_dead, wait_fatal,
                    command_end, command_fatal, ptrace_fatal, FatalAt
    <3> QED BY <3>1, StepClear
  <2>5. Placed' /\ UNCHANGED Position
    BY <2>1, <2>2, <2>3, <2>4, PlacedFrame
  <2> QED BY <2>1, <2>5 DEF Mapped
<1>2. CASE my_wait
  <2>1. /\ pc = "wait" /\ pc' = "handle" /\ wstatus' = stop /\ stop' = NoStop
        /\ stop # NoStop
        /\ UNCHANGED <<rip, frames, insys, run, text, step>>
    BY <1>2 DEF my_wait, locals
  <2>2. (AtTrap' <=> AtTrap) /\ (AtSyscall' <=> AtSyscall)
    BY <2>1 DEF AtTrap, AtSyscall, NoStop, Status
  <2>3. run \notin Modes
    BY <2>1 DEF CoreInv, RunsInWait
  <2>4. Placed' /\ UNCHANGED Position
    BY <2>1, <2>2, <2>3, PlacedFrame DEF Dead, Modes
  <2> QED BY <2>1, <2>4 DEF Mapped
<1>3. CASE wait_program
  BY <1>3, WaitMapped
<1>4. CASE /\ pc \notin {"wait", "handle"} /\ pc' \notin {"wait", "handle"}
           /\ UNCHANGED <<rip, frames, run, stop, insys>>
  <2>1. ~AtTrap /\ (AtSyscall <=> insys # NoSys) /\ run # "step"
    BY <1>4, NothingPending
  <2>2. ~AtTrap' /\ (AtSyscall' <=> insys' # NoSys)
    BY <1>4, <2>1 DEF AtTrap, AtSyscall
  <2>3. Placed' /\ UNCHANGED Position
    BY <1>4, <2>1, <2>2, PlacedFrame DEF Dead
  <2> QED BY <1>4, <2>3 DEF Mapped
<1> QED BY <1>1, <1>2, <1>3, <1>4, ProgressFrame

\* What a running program looks like to the abstract one.
LEMMA RunningPosition ==
  ASSUME Sound, run \in Modes
  PROVE  /\ pc = "wait" /\ stop.cause = "none" /\ ~Dead
         /\ ~AtTrap
         /\ insys = NoSys => Position = rip /\ rip \in Start
         /\ insys # NoSys =>
              /\ Position = rip - SyscallSize /\ Position \in Start
              /\ Insn[Position].kind = "syscall" /\ Insn[Position].nr = insys
<1> USE DEF Sound
<1>1. pc = "wait" /\ stop.cause = "none" /\ ~Dead
  BY DEF CoreInv, RunsInWait, NoStop, Status, Dead, Modes
<1>2. ~AtTrap
  BY <1>1 DEF AtTrap
<1>3. Position = IF insys # NoSys THEN rip - SyscallSize ELSE rip
  BY <1>1, <1>2 DEF Position, AtTrap
<1>4. insys # NoSys => AtSyscall
  BY DEF AtSyscall
<1> QED BY <1>1, <1>2, <1>3, <1>4 DEF OnInstructions

\* The state a step of a running program leaves when it is not in a system call.
LEMMA PlacedAfter ==
  ASSUME pc' = "wait", insys' = NoSys, rip' \in Start,
         stop'.cause \notin {"int3", "syscall"}, run' # "step"
  PROVE  Placed' /\ (~Dead' => Position' = rip')
<1>1. ~AtTrap' /\ ~AtSyscall'
  BY DEF AtTrap, AtSyscall
<1>2. ~Dead' => Position' = rip'
  BY <1>1 DEF Position, AtTrap
<1> QED BY <1>1, <1>2 DEF Placed

\* The death of a running program.
LEMMA PlacedDead ==
  ASSUME pc' = "wait", run' = "dead", stop'.cause \in {"exit", "killed"}, insys' = NoSys
  PROVE  Placed' /\ Position' = -1
BY DEF Placed, Dead, AtTrap, AtSyscall, Position

\* The end of an instruction.
LEMMA RetireOutcome ==
  ASSUME Sound, run \in Modes, Retire
  PROVE  /\ run' # "dead" /\ run' # "step"
         /\ stop'.cause \notin {"int3", "syscall"}
<1>1. stop.cause = "none"
  BY RunningPosition
<1> QED BY <1>1, RetireEffect DEF Modes

\* Instructions of the program are steps of the abstract program.
LEMMA InstructionMapped ==
  ASSUME Sound, CoreInv', UNCHANGED <<pc, step, bps>>,
         Int3 \/ Plain \/ Call \/ Ret \/ Derail
  PROVE  Placed' /\ Mapped /\ (\A i \in DOMAIN frames' : frames'[i] \in Start)
<1> USE DEF Sound
<1>0. /\ run \in Modes /\ insys = NoSys /\ insys' = NoSys /\ UNCHANGED text
      /\ \A i \in DOMAIN frames : frames[i] \in Start
      /\ frames \in Seq(Int) /\ rip \in Int
  BY DEF Int3, Plain, Call, Ret, Derail, Executing, OnInstructions, CoreInv, TableInv,
         TypeOK, TraceeTypeOK
<1>1. /\ pc = "wait" /\ pc' = "wait" /\ stop.cause = "none" /\ ~Dead
      /\ Position = rip /\ rip \in Start
  BY <1>0, RunningPosition
<1>2. CASE Int3
  <2>1. /\ rip' = rip + 1 /\ UNCHANGED frames /\ Trapped(rip)
        /\ run' = "stopped" /\ stop'.cause = "int3"
    BY <1>2 DEF Int3, StopWith, Status
  <2>2. ~step'
    <3>1. run # "step"
      BY <2>1 DEF OnInstructions
    <3> QED BY <1>0, <3>1 DEF CoreInv, RunsInWait
  <2>3. Position' = rip
    BY <1>0, <2>1 DEF Position, Dead
  <2>4. AtTrap' /\ ~AtSyscall'
    BY <1>0, <1>1, <2>1 DEF AtTrap, AtSyscall
  <2>5. Placed'
    BY <1>0, <1>1, <2>1, <2>2, <2>3, <2>4 DEF Placed
  <2> QED BY <1>0, <1>1, <2>1, <2>3, <2>5 DEF Mapped
<1>3. CASE Plain
  <2>1. /\ Insn[rip].kind = "plain" /\ rip' \in Insn[rip].next /\ Retire
        /\ UNCHANGED frames
    BY <1>3 DEF Plain
  <2>2. rip' \in Start
    BY <1>1, <2>1 DEF ProgramAssumption
  <2>3. Placed' /\ Position' = rip'
    BY <1>0, <1>1, <2>1, <2>2, RetireOutcome, PlacedAfter DEF Dead
  <2>4. Native!Jump
    BY <1>1, <2>1, <2>3 DEF Native!Jump, Native!At, Start
  <2> QED BY <1>0, <2>1, <2>3, <2>4 DEF Mapped, Native!Next, Native!Execute
<1>4. CASE Fault /\ UNCHANGED <<rip, frames>>
  <2>1. run' = "stopped" /\ stop'.cause = "signal"
    BY <1>4 DEF Fault, StopWith, Status
  <2>2. Placed' /\ Position' = rip
    BY <1>0, <1>1, <1>4, <2>1, PlacedAfter DEF Dead
  <2> QED BY <1>0, <1>1, <1>4, <2>2 DEF Mapped
<1>5. CASE Call /\ ~Fault
  <2>1. /\ Insn[rip].kind = "call" /\ rip' \in Insn[rip].next /\ Retire
        /\ Len(frames) < MaxFrames
        /\ frames' = Append(frames, rip + Insn[rip].size)
    BY <1>5 DEF Call
  <2>2. rip' \in Start /\ rip + Insn[rip].size \in Start
    BY <1>1, <2>1 DEF ProgramAssumption
  <2>3. Placed' /\ Position' = rip'
    BY <1>0, <1>1, <2>1, <2>2, RetireOutcome, PlacedAfter DEF Dead
  <2>4. Native!Call
    BY <1>1, <2>1, <2>3 DEF Native!Call, Native!At, Native!After, Start
  <2>5. \A i \in DOMAIN frames' : frames'[i] \in Start
    BY <1>0, <2>1, <2>2
  <2> QED BY <2>3, <2>4, <2>5 DEF Mapped, Native!Next, Native!Execute
<1>6. CASE Ret /\ ~Fault
  <2>1. /\ Insn[rip].kind = "ret" /\ frames # <<>> /\ rip' = frames[Len(frames)] /\ Retire
        /\ frames' = SubSeq(frames, 1, Len(frames) - 1)
    BY <1>6 DEF Ret
  <2>2. rip' \in Start
    BY <1>0, <2>1
  <2>3. Placed' /\ Position' = rip'
    BY <1>0, <1>1, <2>1, <2>2, RetireOutcome, PlacedAfter DEF Dead
  <2>4. Native!Ret
    BY <1>1, <2>1, <2>3 DEF Native!Ret, Native!At, Start
  <2>5. \A i \in DOMAIN frames' : frames'[i] \in Start
    BY <1>0, <2>1
  <2> QED BY <2>3, <2>4, <2>5 DEF Mapped, Native!Next, Native!Execute
<1>7. ~Derail
  <2>1. Trapped(rip) \/ Intact(rip)
    BY <1>1, InsnIntact DEF CoreInv
  <2> QED BY <2>1 DEF Derail
<1>8. (Call \/ Ret) /\ Fault => UNCHANGED <<rip, frames>>
  <2>1. ASSUME Fault PROVE ~Retire
    <3>1. run' = "stopped" /\ stop'.cause = "signal"
      BY <2>1 DEF Fault, StopWith, Status
    <3> QED BY <1>0, <3>1, RetireEffect DEF Modes
  <2> QED BY <2>1 DEF Call, Ret
<1> QED BY <1>2, <1>3, <1>4, <1>5, <1>6, <1>7, <1>8

\* A system call is executed when the program leaves it.
LEMMA SyscallMapped ==
  ASSUME Sound, CoreInv', UNCHANGED <<pc, step, bps>>, Syscall \/ SyscallReturn
  PROVE  Placed' /\ Mapped /\ UNCHANGED frames
<1> USE DEF Sound
<1>0. run \in Modes /\ UNCHANGED <<text, frames>> /\ rip \in Int
  BY DEF Syscall, SyscallReturn, Executing, CoreInv, TableInv, TypeOK, TraceeTypeOK
<1>1. pc = "wait" /\ pc' = "wait" /\ stop.cause = "none" /\ ~Dead
  BY <1>0, RunningPosition
<1>2. CASE Syscall
  <2>1. /\ insys = NoSys /\ Position = rip /\ rip \in Start /\ Insn[rip].kind = "syscall"
    BY <1>0, <1>2, RunningPosition DEF Syscall, Executing
  <2>2. Insn[rip].nr # NoSys /\ Insn[rip].size = SyscallSize
        /\ (Insn[rip].nr # ExitNo => rip + SyscallSize \in Start)
    BY <2>1 DEF ProgramAssumption
  <2>3. CASE run = "syscall"
    <3>1. /\ rip' = rip + SyscallSize /\ insys' = Insn[rip].nr
          /\ run' = "stopped" /\ stop'.cause = "syscall"
      BY <1>2, <2>3 DEF Syscall, StopWith, Status
    <3>2. rip' - SyscallSize = rip
      BY <1>0, <3>1 DEF SyscallSize
    <3>3. Position' = rip /\ ~Dead'
      BY <2>2, <3>1, <3>2 DEF Position, Dead
    <3>4. ~AtTrap'
      BY <1>1, <3>1 DEF AtTrap
    <3>5. Placed'
      BY <2>1, <3>1, <3>2, <3>3, <3>4 DEF Placed
    <3> QED BY <1>0, <2>1, <3>3, <3>5 DEF Mapped
  <2>4. CASE run # "syscall" /\ Insn[rip].nr # ExitNo
    <3>1. rip' = rip + SyscallSize /\ insys' = NoSys /\ Retire
      BY <1>2, <2>1, <2>4 DEF Syscall
    <3>2. Placed' /\ Position' = rip'
      BY <1>0, <1>1, <2>2, <2>4, <3>1, RetireOutcome, PlacedAfter DEF Dead
    <3>3. Native!Syscall
      BY <1>0, <2>1, <2>2, <2>4, <3>1, <3>2
         DEF Native!Syscall, Native!At, Native!After, Start
    <3> QED BY <1>0, <3>2, <3>3 DEF Mapped, Native!Next, Native!Execute
  <2>5. CASE run # "syscall" /\ Insn[rip].nr = ExitNo
    <3>1. insys' = NoSys /\ run' = "dead" /\ stop'.cause = "exit"
      BY <1>2, <2>1, <2>5 DEF Syscall, Die, Death, Status
    <3>2. Placed' /\ Position' = -1
      BY <1>1, <3>1, PlacedDead
    <3>3. Native!End
      BY <1>0, <2>1, <2>5, <3>2 DEF Native!End, Native!At, Native!Gone, Start
    <3> QED BY <1>0, <3>2, <3>3 DEF Mapped, Native!Next
  <2> QED BY <2>3, <2>4, <2>5
<1>3. CASE SyscallReturn
  <2>1. /\ insys # NoSys /\ insys' = NoSys /\ rip' = rip
        /\ Position = rip - SyscallSize /\ Position \in Start
        /\ Insn[Position].kind = "syscall" /\ Insn[Position].nr = insys
    BY <1>0, <1>3, RunningPosition DEF SyscallReturn
  <2>2. Insn[Position].size = SyscallSize /\ Position + SyscallSize = rip
    BY <1>0, <2>1 DEF ProgramAssumption, SyscallSize
  <2>3. CASE insys = ExitNo
    <3>1. run' = "dead" /\ stop'.cause = "exit"
      BY <1>3, <2>3 DEF SyscallReturn, Die, Death, Status
    <3>2. Placed' /\ Position' = -1
      BY <1>1, <2>1, <3>1, PlacedDead
    <3>3. Native!End
      BY <1>0, <2>1, <2>3, <3>2 DEF Native!End, Native!At, Native!Gone, Start
    <3> QED BY <1>0, <3>2, <3>3 DEF Mapped, Native!Next
  <2>4. CASE insys # ExitNo
    <3>1. rip \in Start
      BY <2>1, <2>2, <2>4 DEF ProgramAssumption
    <3>2. Placed' /\ Position' = rip
      <4>1. CASE run = "syscall"
        <5>1. run' = "stopped" /\ stop'.cause = "syscall"
          BY <1>3, <2>4, <4>1 DEF SyscallReturn, StopWith, Status
        <5>2. ~AtTrap' /\ ~Dead'
          BY <1>1, <5>1 DEF AtTrap, Dead
        <5>3. Position' = rip
          BY <2>1, <5>2 DEF Position, AtTrap
        <5> QED BY <2>1, <3>1, <5>1, <5>2, <5>3 DEF Placed
      <4>2. CASE run # "syscall"
        <5>1. Retire
          BY <1>3, <2>4, <4>2 DEF SyscallReturn
        <5> QED BY <1>0, <1>1, <2>1, <3>1, <5>1, RetireOutcome, PlacedAfter DEF Dead
      <4> QED BY <4>1, <4>2
    <3>3. Native!Syscall
      BY <1>0, <2>1, <2>2, <2>4, <3>2 DEF Native!Syscall, Native!At, Native!After, Start
    <3> QED BY <1>0, <3>2, <3>3 DEF Mapped, Native!Next, Native!Execute
  <2> QED BY <2>3, <2>4
<1> QED BY <1>2, <1>3

\* Signals stop the program where it is, or end it.
LEMMA SignalMapped ==
  ASSUME Sound, CoreInv', UNCHANGED <<pc, step, bps>>, TakeSignal \/ Signal
  PROVE  Placed' /\ Mapped /\ UNCHANGED frames
<1> USE DEF Sound
<1>0. run \in Modes /\ UNCHANGED <<text, frames, rip, insys>>
  BY DEF TakeSignal, Signal, Executing
<1>1. pc = "wait" /\ pc' = "wait" /\ stop.cause = "none" /\ ~Dead /\ ~AtTrap
  BY <1>0, RunningPosition
<1>2. CASE Signal
  <2>1. run' = "stopped" /\ stop'.cause = "signal"
    BY <1>2 DEF Signal, StopWith, Status
  <2>2. ~AtTrap' /\ (AtSyscall' => AtSyscall) /\ ~Dead'
    BY <1>0, <1>1, <2>1 DEF AtTrap, AtSyscall, Dead
  <2>3. Placed' /\ UNCHANGED Position
    BY <1>0, <1>1, <2>1, <2>2, PlacedFrame
  <2> QED BY <1>0, <2>3 DEF Mapped
<1>3. CASE TakeSignal /\ UNCHANGED <<run, stop>>
  <2>1. ~AtTrap' /\ (AtSyscall' <=> AtSyscall) /\ ~Dead'
    BY <1>0, <1>1, <1>3 DEF AtTrap, AtSyscall, Dead
  <2>2. run' = "step" => ~Trapped(rip)'
    BY <1>0, <1>3 DEF OnInstructions, Trapped
  <2>3. Placed' /\ UNCHANGED Position
    BY <1>0, <1>1, <2>1, <2>2, PlacedFrame
  <2> QED BY <1>0, <2>3 DEF Mapped
<1>4. CASE TakeSignal /\ Die("killed")
  <2>1. run' = "dead" /\ stop'.cause = "killed" /\ inject # NoSig
    BY <1>4 DEF TakeSignal, Die, Death, Status
  <2>2. Position' = -1
    BY <2>1 DEF Position, Dead
  <2>3. Placed'
    <3>1. ~AtTrap' /\ Dead' /\ (AtSyscall' => AtSyscall)
      BY <1>0, <1>1, <2>1 DEF AtTrap, AtSyscall, Dead
    <3> QED BY <1>0, <2>1, <3>1 DEF Placed, OnInstructions
  <2>4. Native!End
    BY <1>0, <2>1, <2>2 DEF Native!End, Native!Gone
  <2> QED BY <1>0, <2>3, <2>4 DEF Mapped, Native!Next
<1> QED BY <1>2, <1>3, <1>4 DEF TakeSignal

\* SIGKILL and the end of my-dbg end the program wherever it is.
LEMMA KillMapped ==
  ASSUME Sound, CoreInv', UNCHANGED <<pc, step, wstatus>>,
         Kill \/ (pc \in Ended /\ ExitKill)
  PROVE  Placed' /\ Mapped /\ UNCHANGED frames
<1> USE DEF Sound
<1>1. /\ run' = "dead" /\ stop'.cause = "killed" /\ UNCHANGED <<frames, rip, insys>>
      /\ CanKill \/ pc \in Ended
  BY DEF Kill, ExitKill, Die, Death, Status
<1>2. Position' = -1
  BY <1>1 DEF Position, Dead
<1>3. Placed'
  <2>1. (AtTrap' => AtTrap) /\ Dead' /\ (AtSyscall' => AtSyscall)
    BY <1>1 DEF AtTrap, AtSyscall, Dead
  <2> QED BY <1>1, <2>1 DEF Placed, OnInstructions
<1>4. Native!End
  BY <1>1, <1>2 DEF Native!End, Native!Gone
<1> QED BY <1>1, <1>3, <1>4 DEF Mapped, Native!Next

-----------------------------------------------------------------------------
(* All steps together. *)

\* From a sound table every step stays on the program's instructions, and what
\* the program does in it the abstract program does.
LEMMA SoundStep ==
  ASSUME Sound, CoreInv', [Next]_vars
  PROVE  /\ Placed' /\ (Mapped \/ SignalTakenForHit)
         /\ \A i \in DOMAIN frames' : frames'[i] \in Start
<1>0. \A i \in DOMAIN frames : frames[i] \in Start
  BY DEF Sound, OnInstructions
<1>1. CASE Command
  BY <1>0, <1>1, CommandMapped
<1>2. CASE Progress
  BY <1>0, <1>2, ProgressMapped
<1>3. CASE TraceeRuns \/ Outside \/ Exit
  <2>1. UNCHANGED <<pc, step, bps, wstatus>>
    BY <1>3 DEF TraceeRuns, Outside, Exit, bpVars, dbgVars, locals
  <2>2. CASE Execution
    BY <1>0, <2>1, <2>2, InstructionMapped, SyscallMapped DEF Execution
  <2>3. CASE TakeSignal \/ Signal
    BY <1>0, <2>1, <2>3, SignalMapped
  <2>4. CASE Kill \/ (pc \in Ended /\ ExitKill)
    BY <1>0, <2>1, <2>4, KillMapped
  <2> QED BY <1>3, <2>2, <2>3, <2>4 DEF TraceeRuns, Outside, Exit
<1>4. CASE UNCHANGED vars
  <2>1. UNCHANGED <<text, rip, frames, run, stop, insys, step, pc, wstatus>>
    BY <1>4 DEF vars, traceeVars, dbgVars, locals
  <2>2. (AtTrap' <=> AtTrap) /\ (AtSyscall' <=> AtSyscall) /\ (Dead' <=> Dead)
    BY <2>1 DEF AtTrap, AtSyscall, Dead
  <2>3. run' = "step" => ~Trapped(rip)'
    BY <2>1 DEF Sound, OnInstructions, Trapped
  <2>4. Placed' /\ UNCHANGED Position
    BY <2>1, <2>2, <2>3, PlacedFrame
  <2> QED BY <1>0, <2>1, <2>4 DEF Mapped
<1> QED BY <1>1, <1>2, <1>3, <1>4 DEF Next, Terminated

\* Return addresses are those of instructions, whatever the table.
LEMMA FramesStep ==
  ASSUME CoreInv, OnInstructions, ProgramAssumption, [Next]_vars
  PROVE  \A i \in DOMAIN frames' : frames'[i] \in Start
<1>0. (\A i \in DOMAIN frames : frames[i] \in Start) /\ frames \in Seq(Int)
  BY DEF OnInstructions, CoreInv, TableInv, TypeOK, TraceeTypeOK
<1>1. CASE UNCHANGED frames
  BY <1>0, <1>1
<1>2. CASE Command \/ Progress
  <2>1. my_wait => UNCHANGED frames
    BY DEF my_wait
  <2> QED BY <1>1, <1>2, <2>1, CommandFrame, ProgressFrame, WaitFrame DEF ResumeStep
<1>3. CASE Call
  <2>1. CASE UNCHANGED frames
    BY <1>1, <2>1
  <2>2. CASE frames' = Append(frames, rip + Insn[rip].size)
    <3>1. rip \in Start /\ Insn[rip].kind = "call"
      BY <1>3 DEF Call, Intact
    <3>2. rip + Insn[rip].size \in Start
      BY <3>1 DEF ProgramAssumption
    <3> QED BY <1>0, <2>2, <3>2
  <2> QED BY <1>3, <2>1, <2>2 DEF Call
<1>4. CASE Ret
  <2>1. CASE UNCHANGED frames
    BY <1>1, <2>1
  <2>2. CASE frames # <<>> /\ frames' = SubSeq(frames, 1, Len(frames) - 1)
    BY <1>0, <2>2
  <2> QED BY <1>4, <2>1, <2>2 DEF Ret
<1>5. CASE TraceeRuns \/ Outside \/ Exit
  <2>1. Call \/ Ret \/ UNCHANGED frames
    BY <1>5 DEF TraceeRuns, Outside, Exit, Execution, Int3, Plain, Syscall, SyscallReturn,
                Derail, TakeSignal, Signal, Kill, ExitKill
  <2> QED BY <1>1, <1>3, <1>4, <2>1
<1>6. CASE UNCHANGED vars
  BY <1>1, <1>6 DEF vars, traceeVars
<1> QED BY <1>2, <1>5, <1>6 DEF Next, Terminated

\* The invariant of the refinement.
TransparentInv == CoreInv /\ OnInstructions

LEMMA TransparentStep ==
  ASSUME TransparentInv, [Next]_vars
  PROVE  TransparentInv' /\ (Native!Next \/ UNCHANGED <<Position, frames>>)
<1> USE ProgramAssumption, DebuggerAssumption DEF TransparentInv
<1>1. CoreInv'
  BY CoreStep
<1>2. \A i \in DOMAIN frames' : frames'[i] \in Start
  BY FramesStep
<1>3. TableDamaged => TableDamaged'
  BY TableDamageStays DEF CoreInv, TableInv
<1>4. CASE TableDamaged
  <2>1. OnInstructions'
    BY <1>2, <1>3, <1>4 DEF OnInstructions
  <2>2. Native!Next
    BY <1>4 DEF Native!Next, Disturbed
  <2> QED BY <1>1, <2>1, <2>2
<1>5. CASE ~TableDamaged
  <2>1. Placed' /\ (Mapped \/ SignalTakenForHit)
    BY <1>1, <1>5, SoundStep DEF Sound
  <2>2. OnInstructions'
    BY <1>2, <2>1 DEF OnInstructions, Placed
  <2>3. SignalTakenForHit => Native!Next
    BY DEF Native!Next, Disturbed
  <2> QED BY <1>1, <2>1, <2>2, <2>3 DEF Mapped
<1> QED BY <1>4, <1>5

\* The program starts where the abstract one does.
LEMMA TransparentStart ==
  ASSUME Init
  PROVE  TransparentInv /\ Native!Init
<1> USE DEF Init, TraceeInit, BreakpointsInit, LocalsInit
<1>1. /\ stop.cause = "none" /\ ~Dead /\ Entry \in Start
  BY ProgramAssumption DEF NoStop, Status, Dead
<1>2. Position = Entry /\ ~AtSyscall /\ ~AtTrap
  BY <1>1 DEF Position, AtSyscall, AtTrap
<1>3. ~Disturbed
  BY DEF Disturbed, TableDamaged, SignalTakenForHit
<1>4. OnInstructions
  BY <1>1, <1>2 DEF OnInstructions
<1> QED BY <1>2, <1>3, <1>4, CoreStart DEF TransparentInv, Native!Init

\* For every program, every sequence of commands, and signals and kills at any
\* moment: the program under my-dbg executes what it executes alone, as long as
\* the table is not damaged and no signal is taken for a hit.
THEOREM TransparentCorrect == Spec => Transparent
<1>1. Init => TransparentInv /\ Native!Init
  BY TransparentStart
<1>2. TransparentInv /\ [Next]_vars
        => TransparentInv' /\ [Native!Next]_<<Position, frames>>
  BY TransparentStep
<1> QED BY <1>1, <1>2, PTL DEF Spec, Transparent, Native!Spec

\* While the table is sound the program executes its own instructions only, is
\* in the system call it asked for, and no step of it meets a trap.
THEOREM OnInstructionsCorrect == Spec => []OnInstructions
<1>1. Init => TransparentInv
  BY TransparentStart
<1>2. TransparentInv /\ [Next]_vars => TransparentInv'
  BY TransparentStep
<1>3. TransparentInv => OnInstructions
  BY DEF TransparentInv
<1> QED BY <1>1, <1>2, <1>3, PTL DEF Spec

=============================================================================
