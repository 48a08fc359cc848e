--------------------------- MODULE DebuggerProofs ---------------------------
(***************************************************************************)
(* Proofs about the execution core, for every program, every input and     *)
(* every bound.                                                            *)
(***************************************************************************)
EXTENDS DebuggerProperties, SequenceTheorems, TLAPS

TextType == text \in [Addr -> {"orig", "int3"}]

-----------------------------------------------------------------------------
(* The table operations keep the types. *)

\* The requests that toggle a record change one flag and one byte.
LEMMA ToggleType ==
  ASSUME BreakpointsTypeOK, TextType, NEW i \in DOMAIN bps, toggle_breakpoint(i)
  PROVE  bps' \in Seq(BpType) /\ TextType' /\ DOMAIN bps' = DOMAIN bps
<1>1. CASE ToggleIsNoop(i)
  BY <1>1 DEF toggle_breakpoint, BreakpointsTypeOK, TextType
<1>2. CASE ~ToggleIsNoop(i)
  <2>1. bps[i] \in BpType
    BY DEF BreakpointsTypeOK
  <2>2. [bps[i] EXCEPT !.enabled = ~bps[i].enabled] \in BpType
    BY <2>1 DEF BpType
  <2>3. bps' = [bps EXCEPT ![i] = [bps[i] EXCEPT !.enabled = ~bps[i].enabled]]
    BY <1>2 DEF toggle_breakpoint
  <2>4. bps' \in Seq(BpType) /\ DOMAIN bps' = DOMAIN bps
    BY <2>2, <2>3 DEF BreakpointsTypeOK
  <2>5. TextType'
    BY <1>2, <2>1 DEF toggle_breakpoint, TextType, BpType
  <2> QED BY <2>4, <2>5
<1> QED BY <1>1, <1>2

\* A breakpoint placed on a mapped address adds a record at the end.
LEMMA PlaceType ==
  ASSUME BreakpointsTypeOK, TextType, ProgramAssumption,
         NEW a \in Addr, NEW f \in SUBSET Flags, place_breakpoint(a, f)
  PROVE  bps' \in Seq(BpType) /\ TextType' /\ Len(bps') = Len(bps) + 1
<1>1. a \in Int
  BY DEF Addr, Bytes, ProgramAssumption, Start
<1>2. text[a] \in {"orig", "int3"}
  BY DEF TextType
<1>3. [flags |-> f, addr |-> a, word |-> text[a], slot |-> 0,
       enabled |-> TRUE, deleted |-> FALSE] \in BpType
  BY <1>1, <1>2 DEF BpType
<1> QED BY <1>3 DEF place_breakpoint, BreakpointsTypeOK, TextType

-----------------------------------------------------------------------------
(* Type correctness. *)

\* What stops the program is a status, whatever its cause.
LEMMA StatusTypes ==
  ASSUME SignalAssumption, NEW c \in Causes, NEW n \in Int,
         NEW s \in AllSignals \cup {NoSig}
  PROVE  Status(c, s, n) \in StatusType /\ Death(c) \in StatusType
         /\ NoStop \in StatusType
BY DEF Status, Death, NoStop, StatusType, NoSys, NoSig, Causes

\* The end of an instruction leaves a legal status.
LEMMA RetireType ==
  ASSUME TraceeTypeOK, SignalAssumption, Retire
  PROVE  run' \in Modes \cup {"stopped", "dead"} /\ stop' \in StatusType
<1>1. Status("step", SIGTRAP, NoSys) \in StatusType
  BY StatusTypes DEF Causes, AllSignals, NoSys
<1> QED BY <1>1 DEF Retire, StopWith, TraceeTypeOK

LEMMA FaultType ==
  ASSUME SignalAssumption, Fault
  PROVE  run' \in Modes \cup {"stopped", "dead"} /\ stop' \in StatusType
<1>1. Status("signal", SIGSEGV, NoSys) \in StatusType
  BY StatusTypes DEF Causes, AllSignals, NoSys
<1> QED BY <1>1 DEF Fault, StopWith

LEMMA DieType ==
  ASSUME SignalAssumption, NEW c \in Causes, Die(c)
  PROVE  run' \in Modes \cup {"stopped", "dead"} /\ stop' \in StatusType
<1>1. Death(c) \in StatusType
  BY StatusTypes DEF NoSys
<1> QED BY <1>1 DEF Die

\* The program's addresses and system calls are integers.
LEMMA ProgramTypes ==
  ASSUME ProgramAssumption
  PROVE  /\ Start \subseteq Int
         /\ \A a \in Start : Insn[a].size \in Nat /\ Insn[a].next \subseteq Int
                             /\ Insn[a].nr \in Int
         /\ SyscallSize \in Int /\ NoSys \in Int
<1>1. Start \subseteq Int
  BY DEF ProgramAssumption
<1>2. ASSUME NEW a \in Start
      PROVE  Insn[a].size \in Nat /\ Insn[a].next \subseteq Int /\ Insn[a].nr \in Int
  <2>1. Insn[a].size \in Nat /\ Insn[a].nr \in Int /\ Insn[a].next \subseteq Start
    BY DEF ProgramAssumption
  <2> QED BY <1>1, <2>1
<1> QED BY <1>1, <1>2 DEF SyscallSize, NoSys

\* Every step of the program keeps its types.
LEMMA TraceeStepType ==
  ASSUME TraceeTypeOK, ProgramAssumption, SignalAssumption,
         Execution \/ TakeSignal \/ Signal \/ Kill
  PROVE  TraceeTypeOK' /\ UNCHANGED text
<1> USE DEF TraceeTypeOK
<1>0. /\ Start \subseteq Int
      /\ \A a \in Start : Insn[a].size \in Nat /\ Insn[a].next \subseteq Int
                          /\ Insn[a].nr \in Int
      /\ SyscallSize \in Int /\ NoSys \in Int
  BY ProgramTypes
<1>1. CASE Int3
  <2>1. Status("int3", SIGTRAP, NoSys) \in StatusType
    BY StatusTypes, <1>0 DEF Causes, AllSignals
  <2> QED BY <1>1, <2>1 DEF Int3, StopWith
<1>2. CASE Plain
  BY <1>0, <1>2, RetireType DEF Plain, Intact
<1>3. CASE Call
  <2>1. rip \in Start /\ rip + Insn[rip].size \in Int
    BY <1>0, <1>3 DEF Call, Intact
  <2>2. CASE Len(frames) < MaxFrames
    <3>1. rip' \in Int /\ Retire
      BY <1>0, <1>3, <2>1, <2>2 DEF Call
    <3>2. frames' = Append(frames, rip + Insn[rip].size)
      BY <1>3, <2>2 DEF Call
    <3>3. frames' \in Seq(Int)
      BY <2>1, <3>2
    <3> QED BY <1>3, <3>1, <3>3, RetireType DEF Call
  <2>3. CASE ~(Len(frames) < MaxFrames)
    BY <1>3, <2>3, FaultType DEF Call
  <2> QED BY <2>2, <2>3
<1>4. CASE Ret
  <2>1. CASE frames # <<>>
    <3>1. frames[Len(frames)] \in Int /\ SubSeq(frames, 1, Len(frames) - 1) \in Seq(Int)
      BY <2>1
    <3> QED BY <1>4, <2>1, <3>1, RetireType DEF Ret
  <2>2. CASE frames = <<>>
    BY <1>4, <2>2, FaultType DEF Ret
  <2> QED BY <2>1, <2>2
<1>5. CASE Syscall
  <2>1. rip \in Start /\ Insn[rip].nr \in Int
    BY <1>0, <1>5 DEF Syscall, Intact
  <2>2. Status("syscall", SIGTRAP, Insn[rip].nr) \in StatusType
    BY <2>1, StatusTypes DEF Causes, AllSignals
  <2>3. CASE run = "syscall"
    <3>1. /\ rip' = rip + SyscallSize /\ insys' = Insn[rip].nr
          /\ StopWith(Status("syscall", SIGTRAP, Insn[rip].nr))
      BY <1>5, <2>3 DEF Syscall
    <3> QED BY <1>0, <1>5, <2>1, <2>2, <3>1 DEF Syscall, StopWith
  <2>4. CASE run # "syscall" /\ Insn[rip].nr # ExitNo
    <3>1. rip' = rip + SyscallSize /\ insys' = insys /\ Retire
      BY <1>5, <2>4 DEF Syscall
    <3> QED BY <1>0, <1>5, <3>1, RetireType DEF Syscall
  <2>5. CASE run # "syscall" /\ Insn[rip].nr = ExitNo
    <3>1. UNCHANGED <<rip, insys>> /\ Die("exit")
      BY <1>5, <2>5 DEF Syscall
    <3> QED BY <1>5, <3>1, DieType DEF Syscall, Causes
  <2> QED BY <2>3, <2>4, <2>5
<1>6. CASE SyscallReturn
  <2>1. Status("syscall", SIGTRAP, insys) \in StatusType
    BY StatusTypes DEF Causes, AllSignals
  <2>2. run' \in Modes \cup {"stopped", "dead"} /\ stop' \in StatusType
    BY <1>6, <2>1, DieType, RetireType DEF SyscallReturn, StopWith, Causes
  <2> QED BY <1>0, <1>6, <2>2 DEF SyscallReturn
<1>7. CASE Derail
  BY <1>0, <1>7, RetireType, FaultType DEF Derail
<1>8. CASE TakeSignal
  BY <1>8, DieType DEF TakeSignal, Causes
<1>9. CASE Signal
  <2>1. PICK s \in Signals : StopWith(Status("signal", s, NoSys))
    BY <1>9 DEF Signal
  <2>2. Status("signal", s, NoSys) \in StatusType
    BY <1>0, StatusTypes DEF Causes, AllSignals
  <2>3. sigs' \in Nat
    BY <1>9 DEF Signal
  <2> QED BY <1>9, <2>1, <2>2, <2>3 DEF Signal, StopWith
<1>10. CASE Kill
  BY <1>10, DieType DEF Kill, Causes
<1> QED
  BY <1>1, <1>2, <1>3, <1>4, <1>5, <1>6, <1>7, <1>8, <1>9, <1>10 DEF Execution

\* A record more, none less.
LEMMA PlaceKeeps ==
  ASSUME TypeOK, ProgramAssumption,
         NEW a \in Addr, NEW f \in SUBSET Flags, place_breakpoint(a, f)
  PROVE  /\ bps' \in Seq(BpType) /\ text' \in [Addr -> {"orig", "int3"}]
         /\ curbp # 0 => curbp \in DOMAIN bps'
<1>1. bps' \in Seq(BpType) /\ TextType' /\ Len(bps') = Len(bps) + 1
  BY PlaceType DEF TypeOK, TraceeTypeOK, TextType
<1> QED BY <1>1 DEF TypeOK, DebuggerTypeOK, BreakpointsTypeOK, TextType

LEMMA ToggleKeeps ==
  ASSUME TypeOK, NEW i \in DOMAIN bps, toggle_breakpoint(i)
  PROVE  /\ bps' \in Seq(BpType) /\ text' \in [Addr -> {"orig", "int3"}]
         /\ DOMAIN bps' = DOMAIN bps
BY ToggleType DEF TypeOK, TraceeTypeOK, TextType

\* The commands keep the types.
LEMMA PlaceCommandType ==
  ASSUME TypeOK, ProgramAssumption, NEW c, NEW f \in SUBSET Flags, PlaceCommand(c, f)
  PROVE  TypeOK'
<1> USE DEF TypeOK, TraceeTypeOK, BreakpointsTypeOK, DebuggerTypeOK
<1>1. PICK a \in BreakAddrs :
        IF a \in Addr THEN Len(bps) < MaxBps /\ place_breakpoint(a, f)
        ELSE UNCHANGED <<bps, text>>
  BY DEF PlaceCommand
<1>2. /\ bps' \in Seq(BpType) /\ text' \in [Addr -> {"orig", "int3"}]
      /\ curbp # 0 => curbp \in DOMAIN bps'
  <2>1. CASE a \in Addr
    BY <1>1, <2>1, PlaceKeeps
  <2>2. CASE a \notin Addr
    BY <1>1, <2>2
  <2> QED BY <2>1, <2>2
<1> QED BY <1>2 DEF PlaceCommand, StayAtPrompt, locals, globals

LEMMA FatalType ==
  ASSUME TypeOK, NEW p, FatalAt(p)
  PROVE  TypeOK'
BY DEF TypeOK, TraceeTypeOK, BreakpointsTypeOK, DebuggerTypeOK, FatalAt, Phases,
       Ended, traceeVars, bpVars, locals, globals

LEMMA CommandType ==
  ASSUME TypeOK, ProgramAssumption, DebuggerAssumption, Command
  PROVE  TypeOK'
<1> USE DEF TypeOK, TraceeTypeOK, BreakpointsTypeOK, DebuggerTypeOK
<1>1. CASE cmd_break \/ cmd_tbreak \/ cmd_breakl
  BY <1>1, PlaceCommandType DEF cmd_break, cmd_tbreak, cmd_breakl, Flags
<1>2. CASE cmd_breaks
  <2>1. PICK n \in SysNumbers : add_syscall_break(n)
    BY <1>2 DEF cmd_breaks
  <2>2. n \in Int
    BY DEF DebuggerAssumption
  <2>3. [flags |-> {SYSCALL}, addr |-> n, word |-> "orig", slot |-> Len(syscalls) + 1,
         enabled |-> TRUE, deleted |-> FALSE] \in BpType
    BY <2>2 DEF BpType, Flags
  <2>4. bps' \in Seq(BpType) /\ Len(bps') = Len(bps) + 1 /\ syscalls' \in Seq(Int)
    BY <2>1, <2>2, <2>3 DEF add_syscall_break
  <2>5. curbp # 0 => curbp \in DOMAIN bps'
    BY <2>4
  <2> QED BY <1>2, <2>4, <2>5 DEF cmd_breaks, StayAtPrompt, locals, globals, traceeVars
<1>3. CASE cmd_break_del
  <2>1. PICK i \in DOMAIN bps :
          /\ MarkDeleted(i)
          /\ \/ ~IsCode(i) /\ ClearSlot(i) /\ UNCHANGED pc
             \/ IsCode(i) /\ StrayWrite /\ UNCHANGED pc
             \/ IsCode(i) /\ UNCHANGED syscalls /\ pc' = "segv"
    BY <1>3 DEF cmd_break_del
  <2>2. bps' \in Seq(BpType) /\ DOMAIN bps' = DOMAIN bps
    <3>0. bps[i] \in BpType
      OBVIOUS
    <3>1. [bps[i] EXCEPT !.deleted = TRUE] \in BpType
      BY <3>0 DEF BpType
    <3>2. bps' = [bps EXCEPT ![i] = [bps[i] EXCEPT !.deleted = TRUE]]
      BY <2>1 DEF MarkDeleted
    <3> QED BY <3>1, <3>2
  <2>3. syscalls' \in Seq(Int)
    <3>1. \/ UNCHANGED syscalls
          \/ \E s \in Nat : syscalls' = [syscalls EXCEPT ![s] = Deleted]
      <4>1. bps[i] \in BpType /\ DOMAIN syscalls \subseteq Nat
        OBVIOUS
      <4>2. bps[i].slot \in Nat
        BY <4>1 DEF BpType
      <4> QED BY <2>1, <4>1, <4>2 DEF ClearSlot, StrayWrite
    <3>2. ASSUME NEW s \in Nat, syscalls' = [syscalls EXCEPT ![s] = Deleted]
          PROVE  syscalls' \in Seq(Int)
      <4>1. Deleted \in Int
        BY DEF Deleted
      <4>2. CASE s \in 1 .. Len(syscalls)
        BY <3>2, <4>1, <4>2, ExceptSeq
      <4>3. CASE s \notin 1 .. Len(syscalls)
        <5>1. DOMAIN syscalls = 1 .. Len(syscalls)
          OBVIOUS
        <5>2. syscalls = [k \in DOMAIN syscalls |-> syscalls[k]]
          OBVIOUS
        <5>3. syscalls' = syscalls
          BY <3>2, <4>3, <5>1, <5>2
        <5> QED BY <5>3
      <4> QED BY <4>2, <4>3
    <3> QED BY <3>1, <3>2
  <2>4. pc' \in Phases
    BY <2>1 DEF Phases, Ended
  <2> QED BY <1>3, <2>2, <2>3, <2>4 DEF cmd_break_del, locals, globals, traceeVars
<1>4. CASE cmd_continue \/ cmd_step_instr
  BY <1>4 DEF cmd_continue, cmd_step_instr, Enter, Phases, RunCmds, traceeVars,
              bpVars, globals
<1>5. CASE cmd_next_instr
  <2>1. /\ bps' \in Seq(BpType) /\ text' \in [Addr -> {"orig", "int3"}]
        /\ curbp # 0 => curbp \in DOMAIN bps'
    <3>1. \/ UNCHANGED <<bps, text>>
          \/ \E a \in Addr : place_breakpoint(a, {TEMP, INTERNAL})
      BY <1>5 DEF cmd_next_instr
    <3> QED BY <3>1, PlaceKeeps DEF Flags
  <2>2. \/ Enter("next_instr", "continue")
        \/ Enter("next_instr", "single_step")
        \/ StayAtPrompt
    BY <1>5 DEF cmd_next_instr
  <2> QED
    BY <1>5, <2>1, <2>2 DEF cmd_next_instr, Enter, StayAtPrompt, Phases, RunCmds,
                            locals, globals
<1>6. CASE cmd_finish
  <2>1. /\ bps' \in Seq(BpType) /\ text' \in [Addr -> {"orig", "int3"}]
        /\ curbp # 0 => curbp \in DOMAIN bps'
    <3>1. \/ UNCHANGED <<bps, text>>
          \/ \E a \in Addr : place_breakpoint(a, {TEMP, INTERNAL})
      BY <1>6 DEF cmd_finish
    <3> QED BY <3>1, PlaceKeeps DEF Flags
  <2>2. Enter("finish", "continue") \/ StayAtPrompt
    BY <1>6 DEF cmd_finish
  <2> QED
    BY <1>6, <2>1, <2>2 DEF cmd_finish, Enter, StayAtPrompt, Phases, RunCmds,
                            locals, globals
<1>7. CASE cmd_quit \/ EndOfInput
  BY <1>7 DEF cmd_quit, EndOfInput, Phases, Ended, traceeVars, bpVars, locals, globals
<1>8. CASE CommandOnDead
  BY <1>8, FatalType DEF CommandOnDead
<1> QED
  BY <1>1, <1>2, <1>3, <1>4, <1>5, <1>6, <1>7, <1>8 DEF Command

\* The steps of continue_execution, single_step and wait_program keep the types.
LEMMA ProgressType ==
  ASSUME TypeOK, SignalAssumption, Progress
  PROVE  TypeOK'
<1> USE DEF TypeOK, TraceeTypeOK, BreakpointsTypeOK, DebuggerTypeOK
<1>0. NoSig \in AllSignals \cup {NoSig}
  OBVIOUS
<1>1. CASE continue_execution
  BY <1>1 DEF continue_execution, ContinueRequest, Resume, Phases, Modes,
              traceeVars, bpVars
<1>2. CASE continue_after_step
  BY <1>2 DEF continue_after_step, ContinueRequest, Resume, Phases, Modes, bpVars
<1>3. CASE single_step
  <2>1. /\ bps' \in Seq(BpType) /\ text' \in [Addr -> {"orig", "int3"}]
        /\ curbp' \in Nat /\ (curbp' # 0 => curbp' \in DOMAIN bps')
    <3>1. CASE \E i \in DOMAIN bps :
                 get_breakpoint(rip, i) /\ toggle_breakpoint(i) /\ curbp' = i
      <4>1. PICK i \in DOMAIN bps : toggle_breakpoint(i) /\ curbp' = i
        BY <3>1
      <4> QED BY <4>1, ToggleKeeps
    <3>2. CASE ~is_breakpoint(rip) /\ curbp' = 0 /\ UNCHANGED <<bps, text>>
      BY <3>2
    <3> QED BY <1>3, <3>1, <3>2 DEF single_step
  <2> QED BY <1>3, <2>1 DEF single_step, Resume, Phases, Modes
<1>4. CASE single_step_end
  <2>1. bps' \in Seq(BpType) /\ text' \in [Addr -> {"orig", "int3"}]
    <3>1. CASE curbp # 0 /\ ~ToggleIsNoop(curbp)
      <4>1. curbp \in DOMAIN bps /\ toggle_breakpoint(curbp)
        BY <1>4, <3>1 DEF single_step_end
      <4> QED BY <4>1, ToggleKeeps
    <3>2. CASE ~(curbp # 0 /\ ~ToggleIsNoop(curbp))
      BY <1>4, <3>2 DEF single_step_end
    <3> QED BY <3>1, <3>2
  <2>2. pc' \in {"resume", "epilogue"} /\ curbp' = 0
    BY <1>4 DEF single_step_end
  <2> QED BY <1>4, <2>1, <2>2 DEF single_step_end, Phases, globals
<1>5. CASE single_step_fatal
  BY <1>5, FatalType DEF single_step_fatal
<1>6. CASE my_wait
  <2>1. NoStop \in StatusType
    BY StatusTypes DEF Causes
  <2> QED BY <1>6, <2>1 DEF my_wait, Phases, bpVars, locals, globals
<1>7. CASE wait_stepped \/ wait_signal \/ wait_dead
  <2>1. wstatus.sig \in AllSignals \cup {NoSig}
    BY DEF StatusType
  <2> QED
    BY <1>7, <2>1 DEF wait_stepped, wait_signal, wait_dead, Return, Phases,
                      traceeVars, bpVars
<1>8. CASE wait_breakpoint
  <2>1. wstatus.sig \in AllSignals \cup {NoSig}
    BY DEF StatusType
  <2>2. PICK i \in DOMAIN bps :
          IF TEMP \in bps[i].flags THEN toggle_breakpoint(i) ELSE UNCHANGED <<bps, text>>
    BY <1>8 DEF wait_breakpoint
  <2>3. /\ bps' \in Seq(BpType) /\ text' \in [Addr -> {"orig", "int3"}]
        /\ DOMAIN bps' = DOMAIN bps
    BY <2>2, ToggleKeeps
  <2>4. /\ rip' \in Int /\ pc' \in Phases /\ ret' \in BOOLEAN
        /\ g_signum' \in AllSignals \cup {NoSig} /\ g_syscall_entry' \in BOOLEAN
    <3>1. g_syscall_entry' \in BOOLEAN
      BY <1>8, Zenon DEF wait_breakpoint
    <3>2. pc' \in {"stepped", "epilogue"} /\ ret' = FALSE
      BY <1>8 DEF wait_breakpoint, Return
    <3>3. rip' = rip - 1 /\ g_signum' \in {NoSig, wstatus.sig}
      BY <1>8, Zenon DEF wait_breakpoint
    <3>4. rip - 1 \in Int /\ NoSig \in AllSignals \cup {NoSig}
      OBVIOUS
    <3>5. pc' \in Phases
      BY <3>2 DEF Phases
    <3> QED BY <2>1, <3>1, <3>2, <3>3, <3>4, <3>5
  <2>5. UNCHANGED <<frames, run, stop, insys, inject, sigs, syscalls, cmd, nested,
                    step, curbp, depth, wstatus, g_quit>>
    BY <1>8, Zenon DEF wait_breakpoint
  <2> QED BY <2>3, <2>4, <2>5
<1>9. CASE wait_syscall
  <2>1. g_syscall_entry' \in BOOLEAN
    BY <1>9, Zenon DEF wait_syscall
  <2>2. \/ Return(FALSE) /\ UNCHANGED depth
        \/ pc' = "continue" /\ depth' = depth + 1 /\ UNCHANGED ret
        \/ pc' = "overflow" /\ UNCHANGED <<depth, ret>>
    BY <1>9, Zenon DEF wait_syscall
  <2>3. pc' \in Phases /\ depth' \in Nat /\ ret' \in BOOLEAN
    <3>1. pc' \in Phases
      BY <2>2 DEF Return, Phases, Ended
    <3>2. depth' \in Nat
      <4>1. depth' \in {depth, depth + 1}
        BY <2>2, Zenon
      <4> QED BY <4>1
    <3>3. ret' \in {ret, FALSE}
      BY <2>2, Zenon DEF Return
    <3> QED BY <3>1, <3>2, <3>3
  <2>4. g_signum' = NoSig /\ UNCHANGED <<traceeVars, bpVars, cmd, nested, step, curbp,
                                        wstatus, g_quit>>
    BY <1>9, Zenon DEF wait_syscall
  <2> QED BY <2>1, <2>3, <2>4 DEF traceeVars, bpVars
<1>10. CASE wait_fatal \/ command_fatal \/ ptrace_fatal
  BY <1>10, FatalType DEF wait_fatal, command_fatal, ptrace_fatal
<1>11. CASE command_end
  BY <1>11 DEF command_end, Phases, Ended, traceeVars, bpVars, globals
<1> QED
  BY <1>1, <1>2, <1>3, <1>4, <1>5, <1>6, <1>7, <1>8, <1>9, <1>10, <1>11
  DEF Progress, wait_program

\* Every step keeps the types.
LEMMA TypeStep ==
  ASSUME TypeOK, [Next]_vars
  PROVE  TypeOK'
<1> USE ProgramAssumption, SignalAssumption, DebuggerAssumption
<1>1. CASE Command
  BY <1>1, CommandType
<1>2. CASE Progress
  BY <1>2, ProgressType
<1>3. CASE TraceeRuns \/ Outside
  <2>1. TraceeTypeOK'
    BY <1>3, TraceeStepType DEF TraceeRuns, Outside, TypeOK
  <2> QED
    BY <1>3, <2>1 DEF TraceeRuns, Outside, TypeOK, BreakpointsTypeOK,
                      DebuggerTypeOK, bpVars, dbgVars, locals, globals
<1>4. CASE Exit
  <2>1. Death("killed") \in StatusType
    BY StatusTypes DEF Causes, NoSys
  <2> QED
    BY <1>4, <2>1 DEF Exit, ExitKill, TypeOK, TraceeTypeOK, BreakpointsTypeOK,
                      DebuggerTypeOK, bpVars, dbgVars, locals, globals
<1>5. CASE UNCHANGED vars
  BY <1>5 DEF vars, traceeVars, bpVars, dbgVars, locals, globals, TypeOK,
              TraceeTypeOK, BreakpointsTypeOK, DebuggerTypeOK
<1> QED
  BY <1>1, <1>2, <1>3, <1>4, <1>5 DEF Next, Terminated

\* The initial state has the types.
LEMMA TypeCorrectInit ==
  ASSUME Init
  PROVE  TypeOK
<1> USE ProgramAssumption, SignalAssumption, DebuggerAssumption
<1>1. NoStop \in StatusType
  BY StatusTypes DEF Causes
<1>2. Entry \in Int /\ NoSys \in Int
  BY ProgramTypes DEF ProgramAssumption
<1>3. TraceeTypeOK
  BY <1>1, <1>2 DEF Init, TraceeInit, TraceeTypeOK, SignalAssumption
<1>4. BreakpointsTypeOK
  BY DEF Init, BreakpointsInit, BreakpointsTypeOK
<1>5. DebuggerTypeOK
  BY <1>1 DEF Init, LocalsInit, DebuggerTypeOK, Phases
<1> QED BY <1>3, <1>4, <1>5 DEF TypeOK

\* In every behaviour of every program, the tables, the registers and my-dbg's
\* own variables have their types; in particular single_step never re-arms a
\* record that does not exist.
THEOREM TypeCorrect == Spec => []TypeOK
<1>1. Init => TypeOK
  BY TypeCorrectInit
<1>2. TypeOK /\ [Next]_vars => TypeOK'
  BY TypeStep
<1> QED BY <1>1, <1>2, PTL DEF Spec

-----------------------------------------------------------------------------
(* The text of the program and the breakpoint table agree. *)
(* What the table operations do, record by record. *)

\* toggle_breakpoint flips one flag and writes one byte.
LEMMA ToggleEffect ==
  ASSUME TypeOK, NEW i \in DOMAIN bps, toggle_breakpoint(i), ~ToggleIsNoop(i)
  PROVE  /\ DOMAIN bps' = DOMAIN bps
         /\ \A j \in DOMAIN bps :
              /\ bps'[j].flags = bps[j].flags
              /\ bps'[j].addr = bps[j].addr
              /\ bps'[j].word = bps[j].word
              /\ bps'[j].deleted = bps[j].deleted
              /\ j # i => bps'[j].enabled = bps[j].enabled
         /\ bps'[i].enabled = ~bps[i].enabled
         /\ text' = [text EXCEPT ![bps[i].addr] =
                       IF bps[i].enabled THEN bps[i].word ELSE "int3"]
<1>1. bps[i] \in BpType
  BY DEF TypeOK, BreakpointsTypeOK
<1>2. bps' = [bps EXCEPT ![i].enabled = ~bps[i].enabled]
  BY DEF toggle_breakpoint
<1>3. bps' = [bps EXCEPT ![i] = [bps[i] EXCEPT !.enabled = ~bps[i].enabled]]
  BY <1>2
<1>4. DOMAIN bps' = DOMAIN bps
  BY <1>3
<1>5. bps'[i] = [bps[i] EXCEPT !.enabled = ~bps[i].enabled]
  BY <1>3
<1>6. \A j \in DOMAIN bps : j # i => bps'[j] = bps[j]
  BY <1>3
<1>7. /\ bps'[i].flags = bps[i].flags /\ bps'[i].addr = bps[i].addr
      /\ bps'[i].word = bps[i].word /\ bps'[i].deleted = bps[i].deleted
      /\ bps'[i].enabled = ~bps[i].enabled
  BY <1>1, <1>5 DEF BpType
<1> QED BY <1>4, <1>6, <1>7 DEF toggle_breakpoint

\* place_breakpoint adds one record and writes one byte.
LEMMA PlaceEffect ==
  ASSUME TypeOK, NEW a, NEW f, place_breakpoint(a, f)
  PROVE  \E n \in Nat :
         /\ n \notin DOMAIN bps
         /\ DOMAIN bps' = DOMAIN bps \cup {n}
         /\ \A j \in DOMAIN bps : bps'[j] = bps[j]
         /\ bps'[n].flags = f /\ bps'[n].addr = a /\ bps'[n].word = text[a]
         /\ bps'[n].enabled /\ ~bps'[n].deleted
         /\ text' = [text EXCEPT ![a] = "int3"]
<1> DEFINE n == Len(bps) + 1
           r == [flags |-> f, addr |-> a, word |-> text[a], slot |-> 0,
                 enabled |-> TRUE, deleted |-> FALSE]
<1>1. bps \in Seq(BpType) /\ bps' = Append(bps, r) /\ n \in Nat
  BY DEF place_breakpoint, TypeOK, BreakpointsTypeOK
<1> HIDE DEF r
<1>2. /\ n \notin DOMAIN bps /\ DOMAIN bps' = DOMAIN bps \cup {n}
      /\ \A j \in DOMAIN bps : bps'[j] = bps[j]
      /\ bps'[n] = r
  BY <1>1
<1>3. /\ r.flags = f /\ r.addr = a /\ r.word = text[a]
      /\ r.enabled /\ ~r.deleted
  BY DEF r
<1> QED BY <1>2, <1>3 DEF place_breakpoint

-----------------------------------------------------------------------------
(* The inductive invariant. *)

\* A step that leaves the table and the text alone keeps the invariant, as
\* long as it does not leave the step over a breakpoint.
LEMMA TableFrame ==
  ASSUME TableInv, TypeOK', SyscallStopsTrap', UNCHANGED <<bps, text, curbp>>,
         curbp # 0 => pc' \in {"wait", "handle", "stepped", "fatal"} /\ step'
  PROVE  TableInv'
<1>1. CodeMapped'
  BY DEF TableInv, CodeMapped, IsCode
<1>2. SavedOriginals' <=> SavedOriginals
  BY DEF SavedOriginals, IsCode
<1>3. \A i, a : EnabledAt(i, a)' <=> EnabledAt(i, a)
  BY DEF EnabledAt, IsCode
<1>4. TrapsMatchTable'
  BY <1>2, <1>3 DEF TableInv, TrapsMatchTable
<1>5. SteppedOver'
  BY <1>2, <1>3 DEF TableInv, SteppedOver, IsCode
<1>6. NoLostBreakpoint'
  <2>1. \A i \in DOMAIN bps :
          IsCode(i) /\ TEMP \notin bps[i].flags /\ ~bps[i].enabled => curbp = i /\ i # 0
    BY DEF TableInv, NoLostBreakpoint, TypeOK, BreakpointsTypeOK
  <2> QED BY <2>1 DEF NoLostBreakpoint, IsCode
<1> QED BY <1>1, <1>4, <1>5, <1>6 DEF TableInv

\* Placing a breakpoint from the prompt.
LEMMA TablePlace ==
  ASSUME TableInv, TypeOK', SyscallStopsTrap', curbp = 0, curbp' = 0,
         NEW a \in Addr, NEW f \in SUBSET Flags, SYSCALL \notin f,
         place_breakpoint(a, f)
  PROVE  TableInv'
<1>1. PICK n \in Nat :
      /\ n \notin DOMAIN bps
      /\ DOMAIN bps' = DOMAIN bps \cup {n}
      /\ \A j \in DOMAIN bps : bps'[j] = bps[j]
      /\ bps'[n].flags = f /\ bps'[n].addr = a /\ bps'[n].word = text[a]
      /\ bps'[n].enabled /\ ~bps'[n].deleted
      /\ text' = [text EXCEPT ![a] = "int3"]
  BY PlaceEffect DEF TableInv
<1>2. text \in [Addr -> {"orig", "int3"}]
  BY DEF TableInv, TypeOK, TraceeTypeOK
<1>3. CodeMapped'
  BY <1>1 DEF TableInv, CodeMapped, IsCode
<1>4. SteppedOver'
  BY DEF SteppedOver
<1>5. NoLostBreakpoint'
  <2>1. \A i \in DOMAIN bps :
          IsCode(i) /\ TEMP \notin bps[i].flags => bps[i].enabled
    BY DEF TableInv, NoLostBreakpoint, TypeOK, BreakpointsTypeOK
  <2> QED BY <1>1, <2>1 DEF NoLostBreakpoint, IsCode
<1>6. TrapsMatchTable'
  <2> SUFFICES ASSUME SavedOriginals', NEW b \in Addr
               PROVE  /\ text'[b] = "int3" <=> \E i \in DOMAIN bps' : EnabledAt(i, b)'
                      /\ \A i, j \in DOMAIN bps' : EnabledAt(i, b)' /\ EnabledAt(j, b)' => i = j
    BY DEF TrapsMatchTable
  <2>1. SavedOriginals /\ text[a] = "orig"
    BY <1>1 DEF SavedOriginals, IsCode
  <2>2. \A j \in DOMAIN bps : EnabledAt(j, b)' <=> EnabledAt(j, b)
    BY <1>1 DEF EnabledAt, IsCode
  <2>3. EnabledAt(n, b)' <=> a = b
    BY <1>1 DEF EnabledAt, IsCode
  <2>4. /\ text[b] = "int3" <=> \E i \in DOMAIN bps : EnabledAt(i, b)
        /\ \A i, j \in DOMAIN bps : EnabledAt(i, b) /\ EnabledAt(j, b) => i = j
    BY <2>1 DEF TableInv, TrapsMatchTable
  <2>5. CASE a = b
    BY <1>1, <1>2, <2>1, <2>2, <2>3, <2>4, <2>5
  <2>6. CASE a # b
    BY <1>1, <1>2, <2>2, <2>3, <2>4, <2>6
  <2> QED BY <2>5, <2>6
<1> QED BY <1>3, <1>4, <1>5, <1>6 DEF TableInv

\* Disabling an enabled record lifts its trap and no other.
LEMMA TableOff ==
  ASSUME TableInv, NEW i \in DOMAIN bps, IsCode(i), bps[i].enabled,
         toggle_breakpoint(i)
  PROVE  /\ DOMAIN bps' = DOMAIN bps
         /\ \A j \in DOMAIN bps : /\ IsCode(j)' <=> IsCode(j)
                                  /\ bps'[j].flags = bps[j].flags
                                  /\ bps'[j].addr = bps[j].addr
                                  /\ j # i => bps'[j].enabled = bps[j].enabled
         /\ ~bps'[i].enabled
         /\ SavedOriginals' <=> SavedOriginals
         /\ \A j, b : EnabledAt(j, b)' <=> EnabledAt(j, b) /\ j # i
         /\ CodeMapped'
         /\ TrapsMatchTable'
<1>0. ~ToggleIsNoop(i) /\ TypeOK
  BY DEF ToggleIsNoop, TableInv
<1>1. /\ DOMAIN bps' = DOMAIN bps
      /\ \A j \in DOMAIN bps :
           /\ bps'[j].flags = bps[j].flags
           /\ bps'[j].addr = bps[j].addr
           /\ bps'[j].word = bps[j].word
           /\ j # i => bps'[j].enabled = bps[j].enabled
      /\ ~bps'[i].enabled
      /\ text' = [text EXCEPT ![bps[i].addr] = bps[i].word]
  BY <1>0, ToggleEffect
<1>2. \A j \in DOMAIN bps : IsCode(j)' <=> IsCode(j)
  BY <1>1 DEF IsCode
<1>3. SavedOriginals' <=> SavedOriginals
  BY <1>1, <1>2 DEF SavedOriginals
<1>4. \A j, b : EnabledAt(j, b)' <=> EnabledAt(j, b) /\ j # i
  BY <1>1, <1>2 DEF EnabledAt
<1>5. CodeMapped'
  BY <1>1, <1>2 DEF TableInv, CodeMapped
<1>6. TrapsMatchTable'
  <2> SUFFICES ASSUME SavedOriginals', NEW b \in Addr
               PROVE  /\ text'[b] = "int3" <=> \E j \in DOMAIN bps' : EnabledAt(j, b)'
                      /\ \A j, k \in DOMAIN bps' : EnabledAt(j, b)' /\ EnabledAt(k, b)' => j = k
    BY DEF TrapsMatchTable
  <2>1. SavedOriginals /\ bps[i].word = "orig"
    BY <1>3 DEF SavedOriginals
  <2>2. /\ text[b] = "int3" <=> \E j \in DOMAIN bps : EnabledAt(j, b)
        /\ \A j, k \in DOMAIN bps : EnabledAt(j, b) /\ EnabledAt(k, b) => j = k
    BY <2>1 DEF TableInv, TrapsMatchTable
  <2>3. EnabledAt(i, bps[i].addr)
    BY DEF EnabledAt
  <2>4. text \in [Addr -> {"orig", "int3"}]
    BY DEF TableInv, TypeOK, TraceeTypeOK
  <2>5. CASE bps[i].addr = b
    BY <1>1, <1>4, <2>1, <2>2, <2>3, <2>4, <2>5
  <2>6. CASE bps[i].addr # b
    <3>1. ~EnabledAt(i, b)
      BY <2>6 DEF EnabledAt
    <3> QED BY <1>1, <1>4, <2>2, <2>4, <2>6, <3>1
  <2> QED BY <2>5, <2>6
<1> QED BY <1>1, <1>2, <1>3, <1>4, <1>5, <1>6

\* single_step lifts the trap it stands on.
LEMMA TableStepOver ==
  ASSUME TableInv, TypeOK', SyscallStopsTrap', curbp = 0,
         NEW i \in DOMAIN bps, IsCode(i), bps[i].enabled, toggle_breakpoint(i),
         curbp' = i, pc' = "wait", step'
  PROVE  TableInv'
<1>1. /\ DOMAIN bps' = DOMAIN bps
      /\ \A j \in DOMAIN bps : /\ IsCode(j)' <=> IsCode(j)
                               /\ bps'[j].flags = bps[j].flags
                               /\ bps'[j].addr = bps[j].addr
                               /\ j # i => bps'[j].enabled = bps[j].enabled
      /\ ~bps'[i].enabled
      /\ SavedOriginals' <=> SavedOriginals
      /\ \A j, b : EnabledAt(j, b)' <=> EnabledAt(j, b) /\ j # i
      /\ CodeMapped'
      /\ TrapsMatchTable'
  BY TableOff
<1>2. SteppedOver'
  <2>1. ASSUME SavedOriginals'
        PROVE  \A j \in DOMAIN bps : ~EnabledAt(j, bps[i].addr)'
    <3>1. bps[i].addr \in Addr /\ EnabledAt(i, bps[i].addr)
      BY DEF TableInv, CodeMapped, EnabledAt
    <3>2. \A j, k \in DOMAIN bps :
            EnabledAt(j, bps[i].addr) /\ EnabledAt(k, bps[i].addr) => j = k
      BY <1>1, <2>1, <3>1 DEF TableInv, TrapsMatchTable
    <3>3. ASSUME NEW j \in DOMAIN bps, EnabledAt(j, bps[i].addr)' PROVE FALSE
      <4>1. EnabledAt(j, bps[i].addr) /\ j # i
        BY <1>1, <3>3 DEF EnabledAt
      <4> QED BY <3>1, <3>2, <4>1
    <3> QED BY <3>3
  <2> QED BY <1>1, <2>1 DEF SteppedOver, IsCode, EnabledAt
<1>3. NoLostBreakpoint'
  <2>1. \A j \in DOMAIN bps : IsCode(j) /\ TEMP \notin bps[j].flags => bps[j].enabled
    BY DEF TableInv, NoLostBreakpoint, TypeOK, BreakpointsTypeOK
  <2> QED BY <1>1, <2>1 DEF NoLostBreakpoint
<1> QED BY <1>1, <1>2, <1>3 DEF TableInv

\* wait_program disables a temporary breakpoint that was hit.
LEMMA TableTempHit ==
  ASSUME TableInv, TypeOK', SyscallStopsTrap',
         NEW i \in DOMAIN bps, IsCode(i), bps[i].enabled, TEMP \in bps[i].flags,
         toggle_breakpoint(i), UNCHANGED <<curbp, step>>,
         curbp # 0 => pc' \in {"wait", "handle", "stepped", "fatal"}
  PROVE  TableInv'
<1>1. /\ DOMAIN bps' = DOMAIN bps
      /\ \A j \in DOMAIN bps : /\ IsCode(j)' <=> IsCode(j)
                               /\ bps'[j].flags = bps[j].flags
                               /\ bps'[j].addr = bps[j].addr
                               /\ j # i => bps'[j].enabled = bps[j].enabled
      /\ ~bps'[i].enabled
      /\ SavedOriginals' <=> SavedOriginals
      /\ \A j, b : EnabledAt(j, b)' <=> EnabledAt(j, b) /\ j # i
      /\ CodeMapped'
      /\ TrapsMatchTable'
  BY TableOff
<1>2. SteppedOver'
  <2> SUFFICES ASSUME curbp # 0 PROVE SteppedOver'
    BY DEF SteppedOver
  <2>1. curbp \in DOMAIN bps /\ step /\ IsCode(curbp) /\ ~bps[curbp].enabled /\ curbp # i
    BY DEF TableInv, SteppedOver, TypeOK, DebuggerTypeOK
  <2>2. SavedOriginals => \A j \in DOMAIN bps : ~EnabledAt(j, bps[curbp].addr)
    BY DEF TableInv, SteppedOver
  <2> QED BY <1>1, <2>1, <2>2 DEF SteppedOver, IsCode, EnabledAt
<1>3. NoLostBreakpoint'
  <2>1. \A j \in DOMAIN bps :
          IsCode(j) /\ TEMP \notin bps[j].flags /\ ~bps[j].enabled => curbp = j /\ j # 0
    BY DEF TableInv, NoLostBreakpoint, TypeOK, BreakpointsTypeOK
  <2> QED BY <1>1, <2>1 DEF NoLostBreakpoint
<1> QED BY <1>1, <1>2, <1>3 DEF TableInv

\* single_step arms again what it lifted: the place is still free.
LEMMA TableReArm ==
  ASSUME TableInv, TypeOK', SyscallStopsTrap', curbp # 0, curbp' = 0,
         ~ToggleIsNoop(curbp), toggle_breakpoint(curbp)
  PROVE  TableInv'
<1>0. curbp \in DOMAIN bps /\ TypeOK /\ IsCode(curbp) /\ ~bps[curbp].enabled
  BY DEF TableInv, SteppedOver, TypeOK, DebuggerTypeOK
<1>1. PICK c \in DOMAIN bps : c = curbp
  BY <1>0
<1>2. /\ DOMAIN bps' = DOMAIN bps
      /\ \A j \in DOMAIN bps :
           /\ bps'[j].flags = bps[j].flags
           /\ bps'[j].addr = bps[j].addr
           /\ bps'[j].word = bps[j].word
           /\ j # c => bps'[j].enabled = bps[j].enabled
      /\ bps'[c].enabled
      /\ text' = [text EXCEPT ![bps[c].addr] = "int3"]
  BY <1>0, <1>1, ToggleEffect
<1>3. \A j \in DOMAIN bps : IsCode(j)' <=> IsCode(j)
  BY <1>2 DEF IsCode
<1>4. SavedOriginals' <=> SavedOriginals
  BY <1>2, <1>3 DEF SavedOriginals
<1>5. \A j, b : EnabledAt(j, b)' <=> EnabledAt(j, b) \/ (j = c /\ bps[c].addr = b)
  BY <1>0, <1>1, <1>2, <1>3 DEF EnabledAt
<1>6. CodeMapped'
  BY <1>2, <1>3 DEF TableInv, CodeMapped
<1>7. SteppedOver'
  BY DEF SteppedOver
<1>8. NoLostBreakpoint'
  BY <1>1, <1>2, <1>3 DEF TableInv, NoLostBreakpoint
<1>9. TrapsMatchTable'
  <2> SUFFICES ASSUME SavedOriginals', NEW b \in Addr
               PROVE  /\ text'[b] = "int3" <=> \E j \in DOMAIN bps' : EnabledAt(j, b)'
                      /\ \A j, k \in DOMAIN bps' : EnabledAt(j, b)' /\ EnabledAt(k, b)' => j = k
    BY DEF TrapsMatchTable
  <2>1. SavedOriginals
    BY <1>4
  <2>2. /\ text[b] = "int3" <=> \E j \in DOMAIN bps : EnabledAt(j, b)
        /\ \A j, k \in DOMAIN bps : EnabledAt(j, b) /\ EnabledAt(k, b) => j = k
    BY <2>1 DEF TableInv, TrapsMatchTable
  <2>3. \A j \in DOMAIN bps : ~EnabledAt(j, bps[c].addr)
    BY <1>1, <2>1 DEF TableInv, SteppedOver
  <2>4. text \in [Addr -> {"orig", "int3"}]
    BY DEF TableInv, TypeOK, TraceeTypeOK
  <2>5. CASE bps[c].addr = b
    BY <1>2, <1>5, <2>3, <2>4, <2>5
  <2>6. CASE bps[c].addr # b
    BY <1>2, <1>5, <2>2, <2>4, <2>6
  <2> QED BY <2>5, <2>6
<1> QED BY <1>6, <1>7, <1>8, <1>9 DEF TableInv

\* break_del sets a flag the table's relation to the text does not depend on.
LEMMA TableDelete ==
  ASSUME TableInv, TypeOK', SyscallStopsTrap', curbp = 0, curbp' = 0,
         UNCHANGED text, NEW i \in DOMAIN bps, MarkDeleted(i)
  PROVE  TableInv'
<1>1. bps[i] \in BpType
  BY DEF TableInv, TypeOK, BreakpointsTypeOK
<1>2. bps' = [bps EXCEPT ![i] = [bps[i] EXCEPT !.deleted = TRUE]]
  BY DEF MarkDeleted
<1>3. /\ DOMAIN bps' = DOMAIN bps
      /\ bps'[i] = [bps[i] EXCEPT !.deleted = TRUE]
      /\ \A j \in DOMAIN bps : j # i => bps'[j] = bps[j]
  BY <1>2
<1>4. \A j \in DOMAIN bps :
        /\ bps'[j].flags = bps[j].flags /\ bps'[j].addr = bps[j].addr
        /\ bps'[j].word = bps[j].word /\ bps'[j].enabled = bps[j].enabled
  BY <1>1, <1>3 DEF BpType
<1>5. \A j \in DOMAIN bps : IsCode(j)' <=> IsCode(j)
  BY <1>3, <1>4 DEF IsCode
<1>6. SavedOriginals' <=> SavedOriginals
  BY <1>3, <1>4, <1>5 DEF SavedOriginals
<1>7. \A j, b : EnabledAt(j, b)' <=> EnabledAt(j, b)
  BY <1>3, <1>4, <1>5 DEF EnabledAt
<1>8. CodeMapped' /\ SteppedOver'
  BY <1>3, <1>4, <1>5 DEF TableInv, CodeMapped, SteppedOver
<1>9. TrapsMatchTable'
  BY <1>3, <1>6, <1>7 DEF TableInv, TrapsMatchTable
<1>10. NoLostBreakpoint'
  <2>1. \A j \in DOMAIN bps : IsCode(j) /\ TEMP \notin bps[j].flags => bps[j].enabled
    BY DEF TableInv, NoLostBreakpoint, TypeOK, BreakpointsTypeOK
  <2> QED BY <1>3, <1>4, <1>5, <2>1 DEF NoLostBreakpoint
<1> QED BY <1>8, <1>9, <1>10 DEF TableInv

\* A record of a system call is not about the text.
LEMMA TableCatch ==
  ASSUME TableInv, TypeOK', SyscallStopsTrap', curbp = 0, curbp' = 0,
         UNCHANGED text, NEW n, add_syscall_break(n)
  PROVE  TableInv'
<1> DEFINE r == [flags |-> {SYSCALL}, addr |-> n, word |-> "orig",
                 slot |-> Len(syscalls) + 1, enabled |-> TRUE, deleted |-> FALSE]
<1>1. bps \in Seq(BpType) /\ bps' = Append(bps, r)
  BY DEF add_syscall_break, TableInv, TypeOK, BreakpointsTypeOK
<1>2. r.flags = {SYSCALL}
  OBVIOUS
<1> HIDE DEF r
<1>3. PICK m \in Nat : /\ m \notin DOMAIN bps
                       /\ DOMAIN bps' = DOMAIN bps \cup {m}
                       /\ \A j \in DOMAIN bps : bps'[j] = bps[j]
                       /\ bps'[m] = r
  <2>1. /\ Len(bps) + 1 \in Nat /\ Len(bps) + 1 \notin DOMAIN bps
        /\ DOMAIN bps' = DOMAIN bps \cup {Len(bps) + 1}
        /\ \A j \in DOMAIN bps : bps'[j] = bps[j]
        /\ bps'[Len(bps) + 1] = r
    BY <1>1
  <2> QED BY <2>1
<1>4. bps'[m].flags = {SYSCALL}
  BY <1>2, <1>3
<1>5. /\ \A j \in DOMAIN bps : IsCode(j)' <=> IsCode(j)
      /\ ~IsCode(m)'
  BY <1>3, <1>4 DEF IsCode
<1>6. SavedOriginals' <=> SavedOriginals
  BY <1>3, <1>5 DEF SavedOriginals
<1>7. \A j, b : EnabledAt(j, b)' <=> EnabledAt(j, b)
  BY <1>3, <1>5 DEF EnabledAt
<1>8. CodeMapped' /\ SteppedOver'
  BY <1>3, <1>5 DEF TableInv, CodeMapped, SteppedOver
<1>9. TrapsMatchTable'
  <2> SUFFICES ASSUME SavedOriginals', NEW b \in Addr
               PROVE  /\ text'[b] = "int3" <=> \E j \in DOMAIN bps' : EnabledAt(j, b)'
                      /\ \A j, k \in DOMAIN bps' : EnabledAt(j, b)' /\ EnabledAt(k, b)' => j = k
    BY DEF TrapsMatchTable
  <2>1. SavedOriginals
    BY <1>6
  <2>2. /\ text[b] = "int3" <=> \E j \in DOMAIN bps : EnabledAt(j, b)
        /\ \A j, k \in DOMAIN bps : EnabledAt(j, b) /\ EnabledAt(k, b) => j = k
    BY <2>1 DEF TableInv, TrapsMatchTable
  <2>3. \A j : EnabledAt(j, b) => j \in DOMAIN bps
    BY DEF EnabledAt
  <2> QED BY <1>3, <1>7, <2>2, <2>3
<1>10. NoLostBreakpoint'
  <2>1. \A j \in DOMAIN bps : IsCode(j) /\ TEMP \notin bps[j].flags => bps[j].enabled
    BY DEF TableInv, NoLostBreakpoint, TypeOK, BreakpointsTypeOK
  <2> QED BY <1>3, <1>5, <2>1 DEF NoLostBreakpoint
<1> QED BY <1>8, <1>9, <1>10 DEF TableInv

-----------------------------------------------------------------------------
(* Every action keeps the invariant. *)

\* The kernel marks a stop as a syscall stop only together with SIGTRAP.
LEMMA SyscallStopsStep ==
  ASSUME TableInv, [Next]_vars
  PROVE  SyscallStopsTrap'
<1> USE DEF TableInv, SyscallStopsTrap, NoStop, Status, Death
<1>1. CASE UNCHANGED <<stop, wstatus>>
  BY <1>1
<1>2. CASE my_wait
  BY <1>2 DEF my_wait
<1>3. CASE TraceeRuns \/ Outside \/ Exit
  <2>1. UNCHANGED wstatus
    BY <1>3 DEF TraceeRuns, Outside, Exit, dbgVars
  <2>2. stop'.cause = "syscall" => stop'.sig = SIGTRAP
    BY <1>3 DEF TraceeRuns, Outside, Exit, Execution, Int3, Plain, Call, Ret, Syscall,
                SyscallReturn, Derail, TakeSignal, Signal, Kill, ExitKill, StopWith,
                Retire, Fault, Die
  <2> QED BY <2>1, <2>2
<1>4. CASE Command
  <2>1. UNCHANGED <<stop, wstatus>>
    BY <1>4 DEF Command, cmd_break, cmd_tbreak, cmd_breakl, PlaceCommand, cmd_breaks,
                cmd_break_del, cmd_continue, cmd_step_instr, cmd_next_instr, cmd_finish,
                cmd_quit, EndOfInput, CommandOnDead, FatalAt, Enter, StayAtPrompt,
                traceeVars
  <2> QED BY <1>1, <2>1
<1>5. CASE Progress /\ ~my_wait
  <2>1. UNCHANGED <<stop, wstatus>>
    BY <1>5 DEF Progress, continue_execution, continue_after_step, ContinueRequest,
                single_step, single_step_end, single_step_fatal, wait_program,
                wait_stepped, wait_breakpoint, wait_syscall, wait_signal, wait_dead,
                wait_fatal, command_end, command_fatal, ptrace_fatal, FatalAt, Resume,
                traceeVars
  <2> QED BY <1>1, <2>1
<1>6. CASE UNCHANGED vars
  BY <1>1, <1>6 DEF vars, traceeVars, dbgVars
<1> QED
  BY <1>2, <1>3, <1>4, <1>5, <1>6 DEF Next, Terminated

\* A request that fails changes nothing but pc.
LEMMA FatalTable ==
  ASSUME TableInv, TypeOK', SyscallStopsTrap', NEW p, FatalAt(p)
  PROVE  TableInv'
<1>1. UNCHANGED <<bps, text, curbp, step>> /\ pc' = "fatal"
  BY DEF FatalAt, traceeVars, bpVars, locals
<1>2. curbp # 0 => step
  BY DEF TableInv, SteppedOver
<1> QED BY <1>1, <1>2, TableFrame

\* The commands keep the invariant.
LEMMA CommandTable ==
  ASSUME TableInv, TypeOK', SyscallStopsTrap', Command
  PROVE  TableInv'
<1>0. curbp = 0
  <2>1. pc = "prompt"
    BY DEF Command, cmd_break, cmd_tbreak, cmd_breakl, PlaceCommand, cmd_breaks,
           cmd_break_del, cmd_continue, cmd_step_instr, cmd_next_instr, cmd_finish,
           cmd_quit, EndOfInput, CommandOnDead, FatalAt, Typed
  <2> QED BY <2>1 DEF TableInv, SteppedOver
<1>1. curbp' = 0
  BY <1>0 DEF Command, cmd_break, cmd_tbreak, cmd_breakl, PlaceCommand, cmd_breaks,
         cmd_break_del, cmd_continue, cmd_step_instr, cmd_next_instr, cmd_finish,
         cmd_quit, EndOfInput, CommandOnDead, FatalAt, Enter, StayAtPrompt, locals
<1>2. CASE UNCHANGED <<bps, text>>
  BY <1>0, <1>1, <1>2, TableFrame
<1>3. CASE \E a \in Addr, f \in SUBSET (Flags \ {SYSCALL}) : place_breakpoint(a, f)
  <2>1. PICK a \in Addr, f \in SUBSET (Flags \ {SYSCALL}) : place_breakpoint(a, f)
    BY <1>3
  <2>2. f \in SUBSET Flags /\ SYSCALL \notin f
    OBVIOUS
  <2> QED BY <1>0, <1>1, <2>1, <2>2, TablePlace
<1>4. CASE cmd_breaks
  <2>1. PICK n : add_syscall_break(n)
    BY <1>4 DEF cmd_breaks
  <2>2. UNCHANGED text
    BY <1>4 DEF cmd_breaks, traceeVars
  <2> QED BY <1>0, <1>1, <2>1, <2>2, TableCatch
<1>5. CASE cmd_break_del
  <2>1. PICK i \in DOMAIN bps : MarkDeleted(i)
    BY <1>5 DEF cmd_break_del
  <2>2. UNCHANGED text
    BY <1>5 DEF cmd_break_del, traceeVars
  <2> QED BY <1>0, <1>1, <2>1, <2>2, TableDelete
<1>6. ASSUME ~cmd_breaks, ~cmd_break_del
      PROVE  \/ UNCHANGED <<bps, text>>
             \/ \E a \in Addr, f \in SUBSET (Flags \ {SYSCALL}) : place_breakpoint(a, f)
  <2>1. /\ {} \in SUBSET (Flags \ {SYSCALL}) /\ {TEMP} \in SUBSET (Flags \ {SYSCALL})
        /\ {TEMP, INTERNAL} \in SUBSET (Flags \ {SYSCALL})
    BY DEF Flags, TEMP, INTERNAL, SYSCALL
  <2>2. CASE cmd_break \/ cmd_tbreak \/ cmd_breakl
    BY <2>1, <2>2 DEF cmd_break, cmd_tbreak, cmd_breakl, PlaceCommand
  <2>3. CASE cmd_next_instr
    BY <2>1, <2>3 DEF cmd_next_instr
  <2>4. CASE cmd_finish
    BY <2>1, <2>4 DEF cmd_finish
  <2>5. CASE cmd_continue \/ cmd_step_instr \/ cmd_quit \/ EndOfInput \/ CommandOnDead
    BY <2>5 DEF cmd_continue, cmd_step_instr, cmd_quit, EndOfInput, CommandOnDead,
                FatalAt, traceeVars, bpVars
  <2> QED BY <1>6, <2>2, <2>3, <2>4, <2>5 DEF Command
<1> QED BY <1>2, <1>3, <1>4, <1>5, <1>6

\* The end of single_step keeps the invariant, a record that is not armed
\* again included: it is temporary.
LEMMA StepEndTable ==
  ASSUME TableInv, TypeOK', SyscallStopsTrap', single_step_end
  PROVE  TableInv'
<1>1. curbp' = 0
  BY DEF single_step_end
<1>2. CASE curbp # 0 /\ ~ToggleIsNoop(curbp)
  BY <1>1, <1>2, TableReArm DEF single_step_end
<1>3. CASE curbp = 0
  BY <1>1, <1>3, TableFrame DEF single_step_end
<1>4. CASE curbp # 0 /\ ToggleIsNoop(curbp)
  <2>1. UNCHANGED <<bps, text>>
    BY <1>4 DEF single_step_end
  <2>2. CodeMapped' /\ SteppedOver'
    BY <1>1, <2>1 DEF TableInv, CodeMapped, IsCode, SteppedOver
  <2>3. SavedOriginals' <=> SavedOriginals
    BY <2>1 DEF SavedOriginals, IsCode
  <2>4. \A i, a : EnabledAt(i, a)' <=> EnabledAt(i, a)
    BY <2>1 DEF EnabledAt, IsCode
  <2>5. TrapsMatchTable'
    BY <2>1, <2>3, <2>4 DEF TableInv, TrapsMatchTable
  <2>6. NoLostBreakpoint'
    <3>1. \A j \in DOMAIN bps :
            IsCode(j) /\ TEMP \notin bps[j].flags /\ ~bps[j].enabled => curbp = j
      BY DEF TableInv, NoLostBreakpoint
    <3>2. TEMP \in bps[curbp].flags
      BY <1>4 DEF ToggleIsNoop
    <3> QED BY <2>1, <3>1, <3>2 DEF NoLostBreakpoint, IsCode
  <2> QED BY <2>2, <2>5, <2>6 DEF TableInv
<1> QED BY <1>2, <1>3, <1>4

\* The steps of wait_program keep the invariant.
LEMMA WaitTable ==
  ASSUME TableInv, TypeOK', SyscallStopsTrap', wait_program
  PROVE  TableInv'
<1>0. curbp # 0 => step
  BY DEF TableInv, SteppedOver
<1>1. CASE wait_stepped \/ wait_signal \/ wait_dead
  <2>1. UNCHANGED <<bps, text, curbp, step>> /\ (step => pc' = "stepped")
    BY <1>1 DEF wait_stepped, wait_signal, wait_dead, Return, traceeVars, bpVars
  <2> QED BY <1>0, <2>1, TableFrame
<1>2. CASE wait_breakpoint
  <2>1. PICK i \in DOMAIN bps :
          /\ Matches(i, rip - 1)
          /\ IF TEMP \in bps[i].flags THEN toggle_breakpoint(i) ELSE UNCHANGED <<bps, text>>
    BY <1>2 DEF wait_breakpoint, get_breakpoint
  <2>2. UNCHANGED <<curbp, step>> /\ (step => pc' = "stepped")
    BY <1>2 DEF wait_breakpoint, Return
  <2>3. CASE TEMP \in bps[i].flags
    <3>1. IsCode(i) /\ bps[i].enabled /\ toggle_breakpoint(i)
      BY <2>1, <2>3 DEF Matches
    <3> QED BY <1>0, <2>2, <2>3, <3>1, TableTempHit
  <2>4. CASE TEMP \notin bps[i].flags
    BY <1>0, <2>1, <2>2, <2>4, TableFrame
  <2> QED BY <2>3, <2>4
<1>3. CASE wait_syscall
  <2>1. curbp = 0
    BY <1>0, <1>3 DEF wait_syscall, IsSyscallStop, StepDone, TableInv, SyscallStopsTrap
  <2>2. UNCHANGED <<bps, text, curbp>>
    BY <1>3, Zenon DEF wait_syscall, traceeVars, bpVars
  <2> QED BY <2>1, <2>2, TableFrame
<1>4. CASE wait_fatal
  BY <1>4, FatalTable DEF wait_fatal
<1> QED BY <1>1, <1>2, <1>3, <1>4 DEF wait_program

\* The steps my-dbg takes on its own keep the invariant.
LEMMA ProgressTable ==
  ASSUME TableInv, TypeOK', SyscallStopsTrap', Progress
  PROVE  TableInv'
<1>0. curbp # 0 => step /\ pc \in {"wait", "handle", "stepped", "fatal"}
  BY DEF TableInv, SteppedOver
<1>1. CASE continue_execution \/ continue_after_step
  <2>1. UNCHANGED <<bps, text, curbp>> /\ curbp = 0
    BY <1>0, <1>1 DEF continue_execution, continue_after_step, traceeVars, bpVars
  <2> QED BY <2>1, TableFrame
<1>2. CASE single_step
  <2>1. curbp = 0 /\ pc' = "wait" /\ step'
    BY <1>0, <1>2 DEF single_step
  <2>2. CASE \E i \in DOMAIN bps :
               get_breakpoint(rip, i) /\ toggle_breakpoint(i) /\ curbp' = i
    <3>1. PICK i \in DOMAIN bps :
            get_breakpoint(rip, i) /\ toggle_breakpoint(i) /\ curbp' = i
      BY <2>2
    <3>2. IsCode(i) /\ bps[i].enabled
      BY <3>1 DEF get_breakpoint, Matches
    <3> QED BY <2>1, <3>1, <3>2, TableStepOver
  <2>3. CASE curbp' = 0 /\ UNCHANGED <<bps, text>>
    BY <2>1, <2>3, TableFrame
  <2> QED BY <1>2, <2>2, <2>3 DEF single_step
<1>3. CASE single_step_end
  BY <1>3, StepEndTable
<1>4. CASE single_step_fatal \/ command_fatal \/ ptrace_fatal
  BY <1>4, FatalTable DEF single_step_fatal, command_fatal, ptrace_fatal
<1>5. CASE my_wait
  BY <1>0, <1>5, TableFrame DEF my_wait, bpVars, locals
<1>6. CASE wait_program
  BY <1>6, WaitTable
<1>7. CASE command_end
  <2>1. UNCHANGED <<bps, text, curbp>> /\ curbp = 0
    BY <1>0, <1>7 DEF command_end, traceeVars, bpVars
  <2> QED BY <2>1, TableFrame
<1> QED BY <1>1, <1>2, <1>3, <1>4, <1>5, <1>6, <1>7 DEF Progress

\* Every step keeps the invariant.
LEMMA TableStep ==
  ASSUME TableInv, [Next]_vars
  PROVE  TableInv'
<1>1. TypeOK'
  BY TypeStep DEF TableInv
<1>2. SyscallStopsTrap'
  BY SyscallStopsStep
<1>3. CASE Command
  BY <1>1, <1>2, <1>3, CommandTable
<1>4. CASE Progress
  BY <1>1, <1>2, <1>4, ProgressTable
<1>5. CASE TraceeRuns \/ Outside \/ Exit \/ UNCHANGED vars
  <2>1. UNCHANGED <<bps, text, curbp, step, pc>>
    BY <1>5 DEF TraceeRuns, Outside, Exit, Execution, Int3, Plain, Call, Ret, Syscall,
                SyscallReturn, Derail, TakeSignal, Signal, Kill, ExitKill, vars,
                traceeVars, bpVars, dbgVars, locals
  <2>2. curbp # 0 => step /\ pc \in {"wait", "handle", "stepped", "fatal"}
    BY DEF TableInv, SteppedOver
  <2> QED BY <1>1, <1>2, <2>1, <2>2, TableFrame
<1> QED BY <1>3, <1>4, <1>5 DEF Next, Terminated

-----------------------------------------------------------------------------

\* For every program, every sequence of commands, and signals and kills at any
\* moment: the table invariant holds.
THEOREM TableCorrect == Spec => []TableInv
<1>1. Init => TableInv
  <2>1. ASSUME Init PROVE TypeOK
    BY <2>1, TypeCorrectInit
  <2>2. ASSUME Init PROVE bps = <<>> /\ curbp = 0 /\ text = [a \in Addr |-> "orig"]
    BY <2>2 DEF Init, BreakpointsInit, LocalsInit, TraceeInit
  <2>3. ASSUME Init PROVE SyscallStopsTrap
    BY <2>3 DEF Init, TraceeInit, NoStop, Status, SyscallStopsTrap
  <2>4. ASSUME Init
        PROVE  CodeMapped /\ SteppedOver /\ TrapsMatchTable /\ NoLostBreakpoint
    BY <2>2, <2>4 DEF CodeMapped, SteppedOver, TrapsMatchTable, NoLostBreakpoint, EnabledAt
  <2> QED BY <2>1, <2>3, <2>4 DEF TableInv
<1>2. TableInv /\ [Next]_vars => TableInv'
  BY TableStep
<1> QED BY <1>1, <1>2, PTL DEF Spec

\* The text holds a trap exactly where one record is enabled.
THEOREM TrapsMatchCorrect == Spec => []TrapsMatchTable
<1>1. TableInv => TrapsMatchTable
  BY DEF TableInv
<1> QED BY <1>1, TableCorrect, PTL

\* A breakpoint that is not temporary is never lost: it is disabled only while
\* the step over it is under way or when my-dbg ended in the middle of it.
THEOREM NoLostCorrect == Spec => []NoLostBreakpoint
<1>1. TableInv => NoLostBreakpoint
  BY DEF TableInv
<1> QED BY <1>1, TableCorrect, PTL

=============================================================================
