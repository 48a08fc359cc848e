----------------------------- MODULE CoreProofs -----------------------------
(***************************************************************************)
(* Proofs about the core as a whole: stops, signals and system calls.      *)
(***************************************************************************)
EXTENDS DebuggerProofs

-----------------------------------------------------------------------------
(* What the program and the outside can do, seen from my-dbg. *)

\* The end of an instruction stops a program that is stepped and no other.
LEMMA RetireEffect ==
  ASSUME Retire, run \in Modes
  PROVE  \/ run # "step" /\ run' = run /\ stop' = stop
         \/ /\ run = "step" /\ run' = "stopped"
            /\ stop'.cause = "step" /\ stop'.sig = SIGTRAP
BY DEF Retire, StopWith, Status

\* The outcomes of an execution step or of a signal: the program is dead, goes
\* on, or has stopped for one of four reasons.  rip moves only outside of
\* system calls.
ProgramOutcome ==
  /\ insys # NoSys => rip' = rip
  /\ \/ /\ run' = "dead" /\ stop'.cause \in {"exit", "killed"}
        /\ insys' \in {insys, NoSys}
     \/ /\ run' = run /\ stop' = stop
        /\ insys' = insys \/ (run = "cont" /\ insys # NoSys /\ insys' = NoSys)
     \/ /\ run = "syscall" /\ run' = "stopped" /\ (insys' # NoSys <=> insys = NoSys)
        /\ stop'.cause = "syscall" /\ stop'.sig = SIGTRAP
     \/ /\ run = "step" /\ run' = "stopped" /\ insys' = NoSys
        /\ stop'.cause = "step" /\ stop'.sig = SIGTRAP
     \/ /\ run' = "stopped" /\ insys = NoSys /\ insys' = NoSys
        /\ Trapped(rip) /\ rip' = rip + 1
        /\ stop'.cause = "int3" /\ stop'.sig = SIGTRAP
     \/ /\ run' = "stopped" /\ insys = NoSys /\ insys' = NoSys
        /\ stop'.cause = "signal"

\* Every step of a running program has one of these outcomes.
LEMMA ProgramSteps ==
  ASSUME ProgramAssumption, Execution \/ TakeSignal \/ Signal
  PROVE  run \in Modes /\ UNCHANGED text /\ ProgramOutcome
<1> USE DEF StopWith, Status
<1>1. CASE Int3
  BY <1>1 DEF Int3, Executing, ProgramOutcome
<1>2. CASE Plain
  <2>1. run \in Modes /\ insys = NoSys /\ insys' = NoSys /\ Retire /\ UNCHANGED text
    BY <1>2 DEF Plain, Executing
  <2> QED BY <2>1, RetireEffect DEF ProgramOutcome
<1>3. CASE Call \/ Ret \/ Derail
  <2>1. /\ run \in Modes /\ insys = NoSys /\ insys' = NoSys /\ UNCHANGED text
        /\ Retire \/ Fault
    BY <1>3 DEF Call, Ret, Derail, Executing
  <2>2. CASE Retire
    BY <2>1, <2>2, RetireEffect DEF ProgramOutcome
  <2>3. CASE Fault
    BY <2>1, <2>3 DEF Fault, ProgramOutcome
  <2> QED BY <2>1, <2>2, <2>3
<1>4. CASE Syscall
  <2>1. run \in Modes /\ insys = NoSys /\ UNCHANGED text /\ rip \in Start
    BY <1>4 DEF Syscall, Executing, Intact
  <2>2. Insn[rip].nr # NoSys
    BY <2>1 DEF ProgramAssumption
  <2>3. CASE run = "syscall"
    BY <1>4, <2>1, <2>2, <2>3 DEF Syscall, ProgramOutcome
  <2>4. CASE run # "syscall" /\ Insn[rip].nr # ExitNo
    <3>1. insys' = insys /\ Retire
      BY <1>4, <2>4 DEF Syscall
    <3> QED BY <2>1, <3>1, RetireEffect DEF ProgramOutcome
  <2>5. CASE run # "syscall" /\ Insn[rip].nr = ExitNo
    BY <1>4, <2>1, <2>5 DEF Syscall, Die, Death, ProgramOutcome
  <2> QED BY <2>3, <2>4, <2>5
<1>5. CASE SyscallReturn
  <2>1. /\ run \in Modes /\ insys # NoSys /\ insys' = NoSys /\ rip' = rip
        /\ UNCHANGED text
    BY <1>5 DEF SyscallReturn
  <2>2. CASE insys = ExitNo
    BY <1>5, <2>1, <2>2 DEF SyscallReturn, Die, Death, ProgramOutcome
  <2>3. CASE insys # ExitNo /\ run = "syscall"
    BY <1>5, <2>1, <2>3 DEF SyscallReturn, ProgramOutcome
  <2>4. CASE insys # ExitNo /\ run # "syscall"
    <3>1. Retire /\ run \in {"cont", "step"}
      BY <1>5, <2>1, <2>4 DEF SyscallReturn, Modes
    <3> QED BY <2>1, <3>1, RetireEffect DEF ProgramOutcome
  <2> QED BY <2>2, <2>3, <2>4
<1>6. CASE TakeSignal
  BY <1>6 DEF TakeSignal, Die, Death, ProgramOutcome
<1>7. CASE Signal
  BY <1>7 DEF Signal, Executing, ProgramOutcome
<1> QED BY <1>1, <1>2, <1>3, <1>4, <1>5, <1>6, <1>7 DEF Execution

\* Death, whoever causes it, leaves everything else as it was.
Killed ==
  /\ run' = "dead" /\ stop'.cause = "killed"
  /\ UNCHANGED <<text, rip, frames, insys, inject, sigs>>

\* The steps that are not my-dbg's.
LEMMA OtherSteps ==
  ASSUME ProgramAssumption, TraceeRuns \/ Outside \/ Exit
  PROVE  /\ UNCHANGED <<bpVars, dbgVars, text>>
         /\ \/ run \in Modes /\ ProgramOutcome
            \/ Killed
<1>1. UNCHANGED <<bpVars, dbgVars>>
  BY DEF TraceeRuns, Outside, Exit
<1>2. CASE Execution \/ TakeSignal \/ Signal
  BY <1>1, <1>2, ProgramSteps
<1>3. CASE Kill \/ ExitKill
  BY <1>1, <1>3 DEF Kill, ExitKill, Die, Death, Status, Killed
<1> QED BY <1>2, <1>3 DEF TraceeRuns, Outside, Exit

-----------------------------------------------------------------------------
(* What my-dbg's steps leave alone. *)

\* A command typed at the prompt changes the tables or enters a phase; the
\* program stays as it is but for its text.
LEMMA CommandFrame ==
  ASSUME Command
  PROVE  /\ pc = "prompt" /\ pc' \in {"prompt", "continue", "single_step"} \cup Ended
         /\ UNCHANGED <<rip, frames, run, stop, insys, inject, step, curbp, depth, wstatus,
                        g_signum, g_syscall_entry>>
<1> USE DEF Typed, Enter, StayAtPrompt, locals, globals, traceeVars, Ended
<1>1. CASE cmd_break \/ cmd_tbreak \/ cmd_breakl
  BY <1>1 DEF cmd_break, cmd_tbreak, cmd_breakl, PlaceCommand
<1>2. CASE cmd_breaks \/ cmd_break_del
  BY <1>2 DEF cmd_breaks, cmd_break_del
<1>3. CASE cmd_continue \/ cmd_step_instr
  BY <1>3 DEF cmd_continue, cmd_step_instr
<1>4. CASE cmd_next_instr
  BY <1>4 DEF cmd_next_instr
<1>5. CASE cmd_finish
  BY <1>5 DEF cmd_finish
<1>6. CASE cmd_quit \/ EndOfInput \/ CommandOnDead
  BY <1>6 DEF cmd_quit, EndOfInput, CommandOnDead, FatalAt
<1> QED BY <1>1, <1>2, <1>3, <1>4, <1>5, <1>6 DEF Command

\* What a command does to the tables: a record more, a system call more, or a
\* record marked and perhaps a slot cleared.
LEMMA CommandTables ==
  ASSUME Command
  PROVE  \/ UNCHANGED <<bps, syscalls>>
         \/ /\ \E a \in Addr, f \in SUBSET (Flags \ {SYSCALL}) : place_breakpoint(a, f)
            /\ UNCHANGED syscalls
         \/ \E n \in SysNumbers : add_syscall_break(n)
         \/ \E i \in DOMAIN bps :
              /\ MarkDeleted(i)
              /\ \/ ~IsCode(i) /\ ~bps[i].deleted /\ ClearSlot(i)
                 \/ IsCode(i) /\ (StrayWrite \/ UNCHANGED syscalls)
<1>0. /\ {} \in SUBSET (Flags \ {SYSCALL}) /\ {TEMP} \in SUBSET (Flags \ {SYSCALL})
      /\ {TEMP, INTERNAL} \in SUBSET (Flags \ {SYSCALL})
  BY DEF Flags, TEMP, INTERNAL, SYSCALL
<1>1. CASE cmd_break \/ cmd_tbreak \/ cmd_breakl
  BY <1>0, <1>1 DEF cmd_break, cmd_tbreak, cmd_breakl, PlaceCommand
<1>2. CASE cmd_breaks
  BY <1>2 DEF cmd_breaks
<1>3. CASE cmd_break_del
  BY <1>3 DEF cmd_break_del
<1>4. CASE cmd_next_instr
  BY <1>0, <1>4 DEF cmd_next_instr
<1>5. CASE cmd_finish
  BY <1>0, <1>5 DEF cmd_finish
<1>6. CASE cmd_continue \/ cmd_step_instr \/ cmd_quit \/ EndOfInput \/ CommandOnDead
  BY <1>6 DEF cmd_continue, cmd_step_instr, cmd_quit, EndOfInput, CommandOnDead,
              FatalAt, bpVars
<1> QED BY <1>1, <1>2, <1>3, <1>4, <1>5, <1>6 DEF Command

\* What my-dbg does on its own changes no record but its enabled flag, and no
\* slot.
LEMMA ProgressTables ==
  ASSUME TypeOK, Progress
  PROVE  /\ UNCHANGED syscalls
         /\ \/ UNCHANGED bps
            \/ \E i \in DOMAIN bps : toggle_breakpoint(i)
<1>1. CASE continue_execution \/ continue_after_step \/ my_wait \/ command_end
  BY <1>1 DEF continue_execution, continue_after_step, my_wait, command_end, bpVars
<1>2. CASE single_step
  BY <1>2 DEF single_step
<1>3. CASE single_step_end
  BY <1>3 DEF single_step_end, TypeOK, DebuggerTypeOK
<1>4. CASE single_step_fatal \/ command_fatal \/ ptrace_fatal
  BY <1>4 DEF single_step_fatal, command_fatal, ptrace_fatal, FatalAt, bpVars
<1>5. CASE wait_program
  BY <1>5 DEF wait_program, wait_stepped, wait_breakpoint, wait_syscall, wait_signal,
              wait_dead, wait_fatal, FatalAt, bpVars
<1> QED BY <1>1, <1>2, <1>3, <1>4, <1>5 DEF Progress

\* A step toggles at most the enabled flag of a record it does not delete or add.
LEMMA ToggleKeepsRecords ==
  ASSUME TypeOK, NEW i \in DOMAIN bps, toggle_breakpoint(i)
  PROVE  /\ DOMAIN bps' = DOMAIN bps
         /\ \A j \in DOMAIN bps :
              /\ bps'[j].flags = bps[j].flags
              /\ bps'[j].addr = bps[j].addr
              /\ bps'[j].word = bps[j].word
              /\ bps'[j].slot = bps[j].slot
              /\ bps'[j].deleted = bps[j].deleted
<1>1. bps \in Seq(BpType) /\ bps[i] \in BpType
  BY DEF TypeOK, BreakpointsTypeOK
<1>2. CASE ToggleIsNoop(i)
  BY <1>2 DEF toggle_breakpoint
<1>3. CASE ~ToggleIsNoop(i)
  <2>1. bps' = [bps EXCEPT ![i] = [bps[i] EXCEPT !.enabled = ~bps[i].enabled]]
    BY <1>3 DEF toggle_breakpoint
  <2>2. /\ DOMAIN bps' = DOMAIN bps
        /\ bps'[i] = [bps[i] EXCEPT !.enabled = ~bps[i].enabled]
        /\ \A j \in DOMAIN bps : j # i => bps'[j] = bps[j]
    BY <1>1, <2>1
  <2>3. /\ bps'[i].flags = bps[i].flags /\ bps'[i].addr = bps[i].addr
        /\ bps'[i].word = bps[i].word /\ bps'[i].slot = bps[i].slot
        /\ bps'[i].deleted = bps[i].deleted
    BY <1>1, <2>2 DEF BpType
  <2> QED BY <2>2, <2>3
<1> QED BY <1>2, <1>3

\* A deleted record stays deleted.
LEMMA DeleteEffect ==
  ASSUME TypeOK, NEW i \in DOMAIN bps, MarkDeleted(i)
  PROVE  /\ DOMAIN bps' = DOMAIN bps
         /\ \A j \in DOMAIN bps :
              /\ bps'[j].flags = bps[j].flags
              /\ bps'[j].addr = bps[j].addr
              /\ bps'[j].word = bps[j].word
              /\ bps'[j].slot = bps[j].slot
              /\ j # i => bps'[j].deleted = bps[j].deleted
         /\ bps'[i].deleted
<1>1. bps \in Seq(BpType) /\ bps[i] \in BpType
  BY DEF TypeOK, BreakpointsTypeOK
<1>2. bps' = [bps EXCEPT ![i] = [bps[i] EXCEPT !.deleted = TRUE]]
  BY DEF MarkDeleted
<1>3. /\ DOMAIN bps' = DOMAIN bps
      /\ bps'[i] = [bps[i] EXCEPT !.deleted = TRUE]
      /\ \A j \in DOMAIN bps : j # i => bps'[j] = bps[j]
  BY <1>1, <1>2
<1>4. /\ bps'[i].flags = bps[i].flags /\ bps'[i].addr = bps[i].addr
      /\ bps'[i].word = bps[i].word /\ bps'[i].slot = bps[i].slot
      /\ bps'[i].deleted
  BY <1>1, <1>3 DEF BpType
<1> QED BY <1>3, <1>4

\* A caught system call adds one record and one slot, which belong together.
LEMMA CatchEffect ==
  ASSUME TypeOK, NEW n \in SysNumbers, add_syscall_break(n)
  PROVE  \E m, t \in Nat :
           /\ m \notin DOMAIN bps /\ DOMAIN bps' = DOMAIN bps \cup {m}
           /\ \A j \in DOMAIN bps : bps'[j] = bps[j]
           /\ bps'[m].flags = {SYSCALL} /\ bps'[m].addr = n
           /\ bps'[m].slot = t /\ ~bps'[m].deleted /\ bps'[m].word = "orig"
           /\ t \notin DOMAIN syscalls /\ DOMAIN syscalls' = DOMAIN syscalls \cup {t}
           /\ \A s \in DOMAIN syscalls : syscalls'[s] = syscalls[s]
           /\ syscalls'[t] = n
<1> DEFINE r == [flags |-> {SYSCALL}, addr |-> n, word |-> "orig",
                 slot |-> Len(syscalls) + 1, enabled |-> TRUE, deleted |-> FALSE]
           m == Len(bps) + 1
           t == Len(syscalls) + 1
<1>1. /\ bps \in Seq(BpType) /\ bps' = Append(bps, r)
      /\ syscalls \in Seq(Int) /\ syscalls' = Append(syscalls, n)
  BY DEF add_syscall_break, TypeOK, BreakpointsTypeOK
<1>2. /\ r.flags = {SYSCALL} /\ r.addr = n /\ r.slot = t /\ ~r.deleted
      /\ r.word = "orig"
  OBVIOUS
<1> HIDE DEF r
<1>3. /\ m \in Nat /\ m \notin DOMAIN bps /\ DOMAIN bps' = DOMAIN bps \cup {m}
      /\ \A j \in DOMAIN bps : bps'[j] = bps[j]
      /\ bps'[m] = r
  BY <1>1
<1>4. /\ t \in Nat /\ t \notin DOMAIN syscalls
      /\ DOMAIN syscalls' = DOMAIN syscalls \cup {t}
      /\ \A s \in DOMAIN syscalls : syscalls'[s] = syscalls[s]
      /\ syscalls'[t] = n
  BY <1>1
<1> HIDE DEF m, t
<1> QED BY <1>2, <1>3, <1>4

-----------------------------------------------------------------------------
(* The slots of g_syscalls. *)

\* Steps that keep every record's flags, address, slot and deletion mark keep
\* the slots matched.
LEMMA SlotsFrame ==
  ASSUME SlotsMatch, UNCHANGED syscalls, DOMAIN bps' = DOMAIN bps,
         \A j \in DOMAIN bps :
           /\ bps'[j].flags = bps[j].flags
           /\ bps'[j].addr = bps[j].addr
           /\ bps'[j].slot = bps[j].slot
           /\ bps'[j].deleted = bps[j].deleted
  PROVE  SlotsMatch' /\ (CodeBpDeleted' <=> CodeBpDeleted)
<1>1. SysRecords' = SysRecords /\ SysRecords \subseteq DOMAIN bps
  BY DEF SysRecords, IsCode
<1>2. CodeBpDeleted' <=> CodeBpDeleted
  BY DEF CodeBpDeleted, IsCode
<1> QED BY <1>1, <1>2 DEF SlotsMatch

\* A breakpoint in the code has no slot.
LEMMA SlotsPlace ==
  ASSUME TypeOK, SlotsMatch, UNCHANGED syscalls, NEW a, NEW f, SYSCALL \notin f,
         place_breakpoint(a, f)
  PROVE  SlotsMatch'
<1>1. PICK n \in Nat :
      /\ n \notin DOMAIN bps /\ DOMAIN bps' = DOMAIN bps \cup {n}
      /\ \A j \in DOMAIN bps : bps'[j] = bps[j]
      /\ bps'[n].flags = f /\ ~bps'[n].deleted
  BY PlaceEffect
<1>2. SysRecords' = SysRecords /\ SysRecords \subseteq DOMAIN bps
  BY <1>1 DEF SysRecords, IsCode
<1>3. CodeBpDeleted' <=> CodeBpDeleted
  BY <1>1 DEF CodeBpDeleted, IsCode
<1> QED BY <1>1, <1>2, <1>3 DEF SlotsMatch

\* The new record owns the new slot.
LEMMA SlotsCatch ==
  ASSUME TypeOK, SlotsMatch, DebuggerAssumption,
         NEW n \in SysNumbers, add_syscall_break(n)
  PROVE  SlotsMatch'
<1>1. PICK m, t \in Nat :
        /\ m \notin DOMAIN bps /\ DOMAIN bps' = DOMAIN bps \cup {m}
        /\ \A j \in DOMAIN bps : bps'[j] = bps[j]
        /\ bps'[m].flags = {SYSCALL} /\ bps'[m].addr = n
        /\ bps'[m].slot = t /\ ~bps'[m].deleted
        /\ t \notin DOMAIN syscalls /\ DOMAIN syscalls' = DOMAIN syscalls \cup {t}
        /\ \A s \in DOMAIN syscalls : syscalls'[s] = syscalls[s]
        /\ syscalls'[t] = n
  BY CatchEffect
<1>2. SysRecords' = SysRecords \cup {m} /\ SysRecords \subseteq DOMAIN bps
  BY <1>1 DEF SysRecords, IsCode
<1>3. CodeBpDeleted' <=> CodeBpDeleted
  BY <1>1 DEF CodeBpDeleted, IsCode
<1>4. n # Deleted
  BY DEF DebuggerAssumption, Deleted
<1>5. \A i \in SysRecords : bps'[i] = bps[i] /\ bps[i].slot \in DOMAIN syscalls
  BY <1>1, <1>2 DEF SlotsMatch
<1>6. \A i \in SysRecords' : bps'[i].slot \in DOMAIN syscalls' /\ bps'[i].addr # Deleted
  BY <1>1, <1>2, <1>4, <1>5 DEF SlotsMatch
<1>7. \A i, j \in SysRecords' : bps'[i].slot = bps'[j].slot => i = j
  BY <1>1, <1>2, <1>5 DEF SlotsMatch
<1>8. \A s \in DOMAIN syscalls' : \E i \in SysRecords' : bps'[i].slot = s
  BY <1>1, <1>2, <1>5 DEF SlotsMatch
<1>9. ASSUME ~CodeBpDeleted'
      PROVE  \A i \in SysRecords' :
               syscalls'[bps'[i].slot] =
                 IF bps'[i].deleted THEN Deleted ELSE bps'[i].addr
  BY <1>1, <1>2, <1>3, <1>5, <1>9 DEF SlotsMatch
<1> QED BY <1>6, <1>7, <1>8, <1>9 DEF SlotsMatch

\* break_del of a system call clears the slot of that record and of no other.
LEMMA SlotsDelete ==
  ASSUME TypeOK, SlotsMatch, NEW i \in DOMAIN bps, MarkDeleted(i),
         \/ ~IsCode(i) /\ ClearSlot(i)
         \/ IsCode(i) /\ (StrayWrite \/ UNCHANGED syscalls)
  PROVE  SlotsMatch'
<1>1. /\ DOMAIN bps' = DOMAIN bps
      /\ \A j \in DOMAIN bps :
           /\ bps'[j].flags = bps[j].flags
           /\ bps'[j].addr = bps[j].addr
           /\ bps'[j].slot = bps[j].slot
           /\ j # i => bps'[j].deleted = bps[j].deleted
      /\ bps'[i].deleted
  BY DeleteEffect
<1>2. SysRecords' = SysRecords /\ SysRecords \subseteq DOMAIN bps
  BY <1>1 DEF SysRecords, IsCode
<1>3. DOMAIN syscalls' = DOMAIN syscalls
  BY DEF ClearSlot, StrayWrite
<1>4. /\ \A j \in SysRecords' : bps'[j].slot \in DOMAIN syscalls' /\ bps'[j].addr # Deleted
      /\ \A j, k \in SysRecords' : bps'[j].slot = bps'[k].slot => j = k
      /\ \A s \in DOMAIN syscalls' : \E j \in SysRecords' : bps'[j].slot = s
  BY <1>1, <1>2, <1>3 DEF SlotsMatch
<1>5. CASE IsCode(i)
  <2>1. CodeBpDeleted'
    BY <1>1, <1>5 DEF CodeBpDeleted, IsCode
  <2> QED BY <1>4, <2>1 DEF SlotsMatch
<1>6. CASE ~IsCode(i)
  <2>1. i \in SysRecords /\ bps[i].slot \in DOMAIN syscalls
    BY <1>6 DEF SysRecords, SlotsMatch
  <2>2. syscalls' = [syscalls EXCEPT ![bps[i].slot] = Deleted]
    BY <1>6 DEF ClearSlot
  <2>3. CodeBpDeleted => CodeBpDeleted'
    BY <1>1, <1>6 DEF CodeBpDeleted, IsCode
  <2>4. ASSUME ~CodeBpDeleted', NEW j \in SysRecords
        PROVE  syscalls'[bps'[j].slot] =
                 IF bps'[j].deleted THEN Deleted ELSE bps'[j].addr
    <3>1. /\ syscalls[bps[j].slot] = IF bps[j].deleted THEN Deleted ELSE bps[j].addr
          /\ bps[j].slot \in DOMAIN syscalls
          /\ bps[i].slot = bps[j].slot => i = j
      BY <2>1, <2>3, <2>4 DEF SlotsMatch
    <3>2. CASE i = j
      BY <1>1, <1>2, <2>1, <2>2, <3>2
    <3>3. CASE i # j
      BY <1>1, <1>2, <2>1, <2>2, <3>1, <3>3
    <3> QED BY <3>2, <3>3
  <2> QED BY <1>2, <1>4, <2>4 DEF SlotsMatch
<1> QED BY <1>5, <1>6

\* Every step keeps the slots matched.
LEMMA SlotsStep ==
  ASSUME TypeOK, SlotsMatch, ProgramAssumption, DebuggerAssumption, [Next]_vars
  PROVE  SlotsMatch'
<1>1. CASE UNCHANGED bpVars
  BY <1>1, SlotsFrame DEF bpVars
<1>2. CASE Command
  <2>1. CASE UNCHANGED <<bps, syscalls>>
    BY <1>1, <2>1 DEF bpVars
  <2>2. CASE \E a \in Addr, f \in SUBSET (Flags \ {SYSCALL}) :
               place_breakpoint(a, f) /\ UNCHANGED syscalls
    <3>1. PICK a \in Addr, f \in SUBSET (Flags \ {SYSCALL}) :
            place_breakpoint(a, f) /\ UNCHANGED syscalls
      BY <2>2
    <3>2. SYSCALL \notin f
      OBVIOUS
    <3> QED BY <3>1, <3>2, SlotsPlace
  <2>3. CASE \E n \in SysNumbers : add_syscall_break(n)
    BY <2>3, SlotsCatch
  <2>4. CASE \E i \in DOMAIN bps :
               /\ MarkDeleted(i)
               /\ \/ ~IsCode(i) /\ ~bps[i].deleted /\ ClearSlot(i)
                  \/ IsCode(i) /\ (StrayWrite \/ UNCHANGED syscalls)
    BY <2>4, SlotsDelete
  <2> QED BY <1>2, <2>1, <2>2, <2>3, <2>4, CommandTables
<1>3. CASE Progress
  <2>1. CASE UNCHANGED <<bps, syscalls>>
    BY <1>1, <2>1 DEF bpVars
  <2>2. CASE \E i \in DOMAIN bps : toggle_breakpoint(i) /\ UNCHANGED syscalls
    BY <2>2, ToggleKeepsRecords, SlotsFrame
  <2> QED BY <1>3, <2>1, <2>2, ProgressTables
<1>4. CASE TraceeRuns \/ Outside \/ Exit
  BY <1>1, <1>4, OtherSteps
<1>5. CASE UNCHANGED vars
  BY <1>1, <1>5 DEF vars
<1> QED BY <1>2, <1>3, <1>4, <1>5 DEF Next, Terminated

\* g_syscalls is NULL until the first `breaks' and never again.
LEMMA ListGrows ==
  ASSUME TypeOK, [Next]_vars, ProgramAssumption
  PROVE  /\ syscalls # <<>> => syscalls' # <<>>
         /\ pc # "prompt" => UNCHANGED syscalls
<1> USE DEF TypeOK, BreakpointsTypeOK
<1>1. CASE UNCHANGED bpVars
  BY <1>1 DEF bpVars
<1>2. CASE Command
  <2>1. ASSUME NEW s, syscalls' = [syscalls EXCEPT ![s] = Deleted], syscalls # <<>>
        PROVE  syscalls' # <<>>
    <3>1. DOMAIN syscalls' = DOMAIN syscalls /\ 1 \in DOMAIN syscalls
      BY <2>1
    <3> QED BY <3>1
  <2>2. ASSUME NEW n, syscalls' = Append(syscalls, n)
        PROVE  syscalls' # <<>>
    BY <2>2
  <2>3. \/ UNCHANGED syscalls
        \/ \E s : syscalls' = [syscalls EXCEPT ![s] = Deleted]
        \/ \E n : syscalls' = Append(syscalls, n)
    BY <1>2, CommandTables DEF add_syscall_break, ClearSlot, StrayWrite
  <2> QED BY <1>2, <2>1, <2>2, <2>3, CommandFrame
<1>3. CASE Progress
  BY <1>3, ProgressTables
<1>4. CASE TraceeRuns \/ Outside \/ Exit
  BY <1>1, <1>4, OtherSteps
<1>5. CASE UNCHANGED vars
  BY <1>1, <1>5 DEF vars
<1> QED BY <1>2, <1>3, <1>4, <1>5 DEF Next, Terminated

-----------------------------------------------------------------------------
(* Where the program runs, and under which request. *)

\* wait_program leaves the program alone and ends in a phase that resumes
\* nothing by itself.
LEMMA WaitFrame ==
  ASSUME wait_program
  PROVE  /\ pc = "handle"
         /\ pc' \in {"stepped", "epilogue", "continue", "overflow", "fatal"}
         /\ UNCHANGED <<frames, run, stop, insys, inject, step, curbp, wstatus, syscalls>>
<1> USE DEF Return, traceeVars, bpVars, locals, globals
<1>1. CASE wait_stepped
  BY <1>1 DEF wait_stepped
<1>2. CASE wait_breakpoint
  BY <1>2 DEF wait_breakpoint
<1>3. CASE wait_syscall
  <2>1. /\ pc = "handle" /\ UNCHANGED <<step, curbp, wstatus>>
        /\ pc' \in {"stepped", "epilogue", "continue", "overflow"}
    BY <1>3 DEF wait_syscall
  <2>2. UNCHANGED <<traceeVars, bpVars>>
    BY <1>3, Zenon DEF wait_syscall
  <2> QED BY <2>1, <2>2
<1>4. CASE wait_signal \/ wait_dead \/ wait_fatal
  BY <1>4 DEF wait_signal, wait_dead, wait_fatal, FatalAt
<1> QED BY <1>1, <1>2, <1>3, <1>4 DEF wait_program

\* The requests of ptrace and what they start.
ResumeStep ==
  /\ pc \in {"continue", "resume", "single_step"} /\ pc' = "wait" /\ run # "dead"
  /\ inject' = g_signum
  /\ UNCHANGED <<rip, frames, stop, insys, syscalls, wstatus, depth>>
  /\ \/ /\ pc = "single_step" /\ step' /\ run' = "step"
        /\ curbp' # 0 => is_breakpoint(rip)
     \/ /\ pc = "resume" \/ (pc = "continue" /\ ~is_breakpoint(rip))
        /\ ~step' /\ run' = IF syscalls # <<>> THEN "syscall" ELSE "cont"
        /\ UNCHANGED <<bps, curbp>>

\* my-dbg's own steps: it resumes the program, fetches a stop, decodes one, or
\* goes from phase to phase while the program is stopped or dead.
LEMMA ProgressFrame ==
  ASSUME Progress
  PROVE  \/ ResumeStep
         \/ my_wait
         \/ wait_program
         \/ /\ pc \in {"continue", "single_step", "stepped", "resume", "epilogue"}
            /\ pc' \notin {"wait", "handle"}
            /\ UNCHANGED <<rip, frames, run, stop, insys, wstatus, syscalls, g_signum>>
            /\ pc' = "resume" => pc = "stepped" /\ step' = step
            /\ pc' \in {"continue", "single_step"} => pc = "continue" /\ UNCHANGED <<bps, depth>>
            /\ pc' = "prompt" => depth' = 0
            /\ pc' # "stepped"
<1> USE DEF traceeVars, bpVars, locals, globals
<1>1. CASE continue_execution
  <2>1. CASE pc' = "single_step" /\ UNCHANGED traceeVars /\ UNCHANGED g_signum
    BY <1>1, <2>1 DEF continue_execution
  <2>2. CASE ContinueRequest
    BY <1>1, <2>2 DEF continue_execution, ContinueRequest, Resume, Dead, ResumeStep
  <2> QED BY <1>1, <2>1, <2>2 DEF continue_execution
<1>2. CASE continue_after_step
  BY <1>2 DEF continue_after_step, ContinueRequest, Resume, Dead, ResumeStep
<1>3. CASE single_step
  BY <1>3 DEF single_step, Resume, Dead, ResumeStep, is_breakpoint, get_breakpoint
<1>4. CASE single_step_end
  BY <1>4 DEF single_step_end
<1>5. CASE command_end
  BY <1>5 DEF command_end
<1>6. CASE single_step_fatal \/ command_fatal \/ ptrace_fatal
  <2>1. PICK p \in {"continue", "single_step", "stepped", "resume", "epilogue"} : FatalAt(p)
    BY <1>6 DEF single_step_fatal, command_fatal, ptrace_fatal
  <2> QED BY <2>1 DEF FatalAt
<1> QED BY <1>1, <1>2, <1>3, <1>4, <1>5, <1>6 DEF Progress

\* A stop on its way finds my-dbg in waitpid.
LEMMA StopsInWait ==
  ASSUME TypeOK, RunsInWait, stop.cause \in {"int3", "step", "syscall", "signal"}
  PROVE  pc = "wait" /\ run = "stopped"
BY DEF TypeOK, TraceeTypeOK, RunsInWait, NoStop, Status

\* Every step keeps the thread and the program taking turns.
LEMMA RunsStep ==
  ASSUME TypeOK, RunsInWait, ProgramAssumption, [Next]_vars
  PROVE  RunsInWait'
<1> USE DEF RunsInWait, TypeOK, TraceeTypeOK
<1>1. CASE Command
  <2>1. pc = "prompt" /\ pc' \notin {"wait", "handle"} /\ UNCHANGED <<run, stop, step>>
    BY <1>1, CommandFrame DEF Ended
  <2>2. stop.cause \in {"none", "exit", "killed"}
    BY <2>1 DEF NoStop, Status
  <2> QED BY <2>1, <2>2 DEF StopFits
<1>2. CASE Progress
  <2>1. CASE ResumeStep
    <3>1. stop = NoStop /\ stop' = NoStop
      BY <2>1 DEF ResumeStep
    <3>2. run' \in Modes /\ (step' <=> run' = "step")
      BY <2>1 DEF ResumeStep, Modes
    <3>3. stop'.cause = "none"
      BY <3>1 DEF NoStop, Status
    <3> QED BY <2>1, <3>1, <3>2, <3>3 DEF ResumeStep, StopFits, Modes
  <2>2. CASE my_wait
    <3>1. /\ UNCHANGED <<run, step, rip, text>> /\ wstatus' = stop /\ stop' = NoStop
          /\ pc = "wait" /\ pc' = "handle" /\ stop # NoStop
      BY <2>2 DEF my_wait, locals
    <3>2. stop'.cause = "none"
      BY <3>1 DEF NoStop, Status
    <3> QED BY <3>1, <3>2 DEF StopFits, Trapped
  <2>3. CASE wait_program
    <3>1. pc = "handle" /\ pc' \notin {"wait", "handle"} /\ UNCHANGED <<run, stop>>
      BY <2>3, WaitFrame
    <3>2. stop.cause \in {"none", "exit", "killed"}
      BY <3>1 DEF NoStop, Status
    <3> QED BY <3>1, <3>2 DEF StopFits
  <2>4. CASE pc \notin {"wait", "handle"} /\ pc' \notin {"wait", "handle"} /\ UNCHANGED <<run, stop>>
    <3>1. stop.cause \in {"none", "exit", "killed"}
      BY <2>4 DEF NoStop, Status
    <3> QED BY <2>4, <3>1 DEF StopFits
  <2> QED BY <1>2, <2>1, <2>2, <2>3, <2>4, ProgressFrame
<1>3. CASE TraceeRuns \/ Outside \/ Exit
  <2>1. UNCHANGED <<pc, step, wstatus, text>>
    BY <1>3, OtherSteps DEF dbgVars, locals
  <2>2. CASE run \in Modes /\ ProgramOutcome
    <3>1. pc = "wait" /\ stop.cause = "none" /\ (step <=> run = "step")
      BY <2>2 DEF NoStop, Status
    <3>2. rip \in Int
      OBVIOUS
    <3> QED BY <2>1, <2>2, <3>1, <3>2 DEF ProgramOutcome, StopFits, Trapped, Modes
  <2>3. CASE Killed
    BY <2>1, <2>3 DEF Killed, StopFits, Trapped, Modes
  <2> QED BY <1>3, <2>2, <2>3, OtherSteps
<1>4. CASE UNCHANGED vars
  BY <1>4 DEF vars, traceeVars, dbgVars, locals, StopFits, Trapped
<1> QED BY <1>1, <1>2, <1>3, <1>4 DEF Next, Terminated

\* Every step keeps requests and system calls in line with g_syscalls.
LEMMA RequestsStep ==
  ASSUME TypeOK, RunsInWait, Requests, ProgramAssumption, [Next]_vars
  PROVE  Requests'
<1> USE DEF Requests
<1>0. /\ syscalls # <<>> => syscalls' # <<>>
      /\ pc # "prompt" => UNCHANGED syscalls
  BY ListGrows
<1>1. CASE UNCHANGED <<run, insys>>
  <2>1. run = "cont" => UNCHANGED syscalls
    BY <1>0 DEF RunsInWait, Modes
  <2> QED BY <1>0, <1>1, <2>1
<1>2. CASE ResumeStep
  BY <1>2 DEF ResumeStep
<1>3. CASE Progress /\ ~ResumeStep
  <2>1. my_wait => UNCHANGED <<run, insys>>
    BY DEF my_wait
  <2> QED BY <1>1, <1>3, <2>1, ProgressFrame, WaitFrame
<1>4. CASE TraceeRuns \/ Outside \/ Exit
  <2>1. UNCHANGED syscalls
    BY <1>4, OtherSteps DEF bpVars
  <2> QED BY <1>4, <2>1, OtherSteps DEF ProgramOutcome, Killed
<1>5. CASE Command
  BY <1>1, <1>5, CommandFrame
<1>6. CASE UNCHANGED vars
  BY <1>1, <1>6 DEF vars, traceeVars
<1> QED BY <1>2, <1>3, <1>4, <1>5, <1>6 DEF Next, Terminated

-----------------------------------------------------------------------------
(* Nested activations of continue_execution. *)

\* wait_program can only take a breakpoint away, and starts a new activation
\* only at a syscall stop.
LEMMA WaitDepth ==
  ASSUME TypeOK, wait_program
  PROVE  /\ \A a : is_breakpoint(a)' => is_breakpoint(a)
         /\ pc' = "stepped" => step
         /\ pc' = "continue" => wstatus.cause = "syscall" /\ rip' = rip
<1>1. CASE wait_breakpoint
  <2>1. PICK i \in DOMAIN bps :
          /\ Matches(i, rip - 1)
          /\ IF TEMP \in bps[i].flags THEN toggle_breakpoint(i) ELSE UNCHANGED <<bps, text>>
    BY <1>1 DEF wait_breakpoint, get_breakpoint
  <2>2. pc' \in {"stepped", "epilogue"} /\ (pc' = "stepped" => step)
    BY <1>1 DEF wait_breakpoint, Return
  <2>3. CASE TEMP \in bps[i].flags
    <3>1. bps[i].enabled /\ toggle_breakpoint(i) /\ ~ToggleIsNoop(i)
      BY <2>1, <2>3 DEF Matches, ToggleIsNoop
    <3>2. /\ DOMAIN bps' = DOMAIN bps /\ ~bps'[i].enabled
          /\ \A j \in DOMAIN bps :
               /\ bps'[j].flags = bps[j].flags /\ bps'[j].addr = bps[j].addr
               /\ bps'[j].deleted = bps[j].deleted
               /\ j # i => bps'[j].enabled = bps[j].enabled
      BY <3>1, ToggleEffect
    <3>3. ASSUME NEW a, is_breakpoint(a)' PROVE is_breakpoint(a)
      <4>1. PICK j \in DOMAIN bps : Matches(j, a)'
        BY <3>2, <3>3 DEF is_breakpoint, Matches
      <4> QED BY <3>2, <4>1 DEF is_breakpoint, Matches, IsCode
    <3> QED BY <2>2, <3>3
  <2>4. CASE TEMP \notin bps[i].flags
    BY <2>1, <2>2, <2>4 DEF is_breakpoint, Matches, IsCode
  <2> QED BY <2>3, <2>4
<1>2. CASE wait_syscall
  <2>1. wstatus.cause = "syscall" /\ (pc' = "stepped" => step)
    BY <1>2 DEF wait_syscall, IsSyscallStop, Return
  <2>2. UNCHANGED <<rip, bps>>
    BY <1>2, Zenon DEF wait_syscall, traceeVars, bpVars
  <2> QED BY <2>1, <2>2 DEF is_breakpoint, Matches, IsCode
<1>3. CASE wait_stepped \/ wait_signal \/ wait_dead \/ wait_fatal
  <2>1. UNCHANGED bps /\ pc' # "continue" /\ (pc' = "stepped" => step)
    BY <1>3 DEF wait_stepped, wait_signal, wait_dead, wait_fatal, FatalAt, Return, bpVars
  <2> QED BY <2>1 DEF is_breakpoint, Matches, IsCode
<1> QED BY <1>1, <1>2, <1>3 DEF wait_program

\* Every step keeps the relation of activations, breakpoints and system calls.
LEMMA StandsStep ==
  ASSUME TableInv, RunsInWait, StandsInCall, ProgramAssumption, [Next]_vars
  PROVE  StandsInCall'
<1> USE DEF StandsInCall
<1>0. /\ TypeOK /\ run \in Modes \cup {"stopped", "dead"}
      /\ curbp # 0 => step /\ pc \in {"wait", "handle", "stepped", "fatal"}
  BY DEF TableInv, SteppedOver, TypeOK, TraceeTypeOK
<1>1. ASSUME pc # "wait" PROVE run \notin Modes /\ stop.cause # "syscall"
  BY <1>0, <1>1, StopsInWait DEF RunsInWait
<1>2. CASE Command
  <2>1. /\ pc = "prompt" /\ pc' \in {"prompt", "continue", "single_step"} \cup Ended
        /\ UNCHANGED <<run, stop, insys, rip, step, curbp, depth, wstatus>>
    BY <1>2, CommandFrame
  <2>2. depth' = 0 /\ run' \notin Modes /\ stop'.cause # "syscall"
    BY <1>1, <2>1
  <2> QED BY <2>1, <2>2 DEF Ended, Modes
<1>3. CASE Progress
  <2>1. CASE ResumeStep
    <3>1. run = "stopped" /\ stop'.cause # "syscall" /\ pc' = "wait" /\ insys' = insys
      BY <1>0, <1>1, <2>1 DEF ResumeStep
    <3>2. CASE pc = "single_step" /\ step'
      BY <2>1, <3>1, <3>2 DEF ResumeStep
    <3>3. CASE pc = "continue" /\ ~step'
      <4>1. ~is_breakpoint(rip) /\ UNCHANGED <<bps, rip, curbp>> /\ curbp = 0
        BY <1>0, <2>1, <3>3 DEF ResumeStep
      <4>2. ~is_breakpoint(rip)'
        BY <4>1 DEF is_breakpoint, Matches, IsCode
      <4> QED BY <2>1, <3>1, <3>3, <4>1, <4>2 DEF ResumeStep
    <3>4. CASE pc = "resume" /\ ~step'
      <4>1. insys = NoSys /\ curbp' = 0
        BY <1>0, <2>1, <3>1, <3>4 DEF ResumeStep
      <4> QED BY <2>1, <3>1, <3>4, <4>1 DEF ResumeStep
    <3> QED BY <2>1, <3>2, <3>3, <3>4 DEF ResumeStep
  <2>2. CASE my_wait
    <3>1. /\ pc = "wait" /\ pc' = "handle" /\ wstatus' = stop /\ stop' = NoStop
          /\ UNCHANGED <<rip, run, insys, bps, step, curbp, depth>>
      BY <2>2 DEF my_wait, bpVars, locals
    <3>2. run' \notin Modes /\ stop'.cause # "syscall"
      BY <2>2, <3>1 DEF RunsInWait, NoStop, Status, my_wait
    <3>3. is_breakpoint(rip)' <=> is_breakpoint(rip)
      BY <3>1 DEF is_breakpoint, Matches, IsCode
    <3> QED BY <3>1, <3>2, <3>3 DEF Modes
  <2>3. CASE wait_program
    <3>1. /\ pc = "handle"
          /\ pc' \in {"stepped", "epilogue", "continue", "overflow", "fatal"}
          /\ UNCHANGED <<run, stop, insys, step, curbp, wstatus>>
      BY <2>3, WaitFrame
    <3>2. run' \notin Modes /\ stop'.cause # "syscall"
      BY <1>1, <3>1
    <3>3. /\ pc' = "stepped" => step
          /\ pc' = "continue" => wstatus.cause = "syscall" /\ rip' = rip
      BY <1>0, <2>3, WaitDepth
    <3>4. pc' = "continue" /\ is_breakpoint(rip)' => insys # NoSys
      BY <1>0, <2>3, <3>1, WaitDepth
    <3> QED BY <3>1, <3>2, <3>3, <3>4 DEF Modes
  <2>4. CASE /\ pc \in {"continue", "single_step", "stepped", "resume", "epilogue"}
             /\ pc' \notin {"wait", "handle"}
             /\ UNCHANGED <<rip, frames, run, stop, insys, wstatus, syscalls, g_signum>>
             /\ pc' = "resume" => pc = "stepped" /\ step' = step
             /\ pc' \in {"continue", "single_step"} => pc = "continue" /\ UNCHANGED <<bps, depth>>
             /\ pc' = "prompt" => depth' = 0
             /\ pc' # "stepped"
    <3>1. run' \notin Modes /\ stop'.cause # "syscall"
      BY <1>1, <2>4
    <3>2. UNCHANGED bps => (is_breakpoint(rip)' <=> is_breakpoint(rip))
      BY <2>4 DEF is_breakpoint, Matches, IsCode
    <3> QED BY <2>4, <3>1, <3>2 DEF Modes
  <2> QED BY <1>3, <2>1, <2>2, <2>3, <2>4, ProgressFrame
<1>4. CASE TraceeRuns \/ Outside \/ Exit
  <2>1. UNCHANGED <<pc, step, wstatus, bps, curbp, depth>>
    BY <1>4, OtherSteps DEF dbgVars, locals, bpVars
  <2>2. rip' = rip => (is_breakpoint(rip)' <=> is_breakpoint(rip))
    BY <2>1 DEF is_breakpoint, Matches, IsCode
  <2>3. CASE run \in Modes /\ ProgramOutcome
    <3>1. pc = "wait" /\ stop.cause = "none" /\ (step <=> run = "step")
      BY <2>3 DEF RunsInWait, NoStop, Status
    <3> QED BY <1>0, <2>1, <2>2, <2>3, <3>1 DEF ProgramOutcome, Modes
  <2>4. CASE Killed
    BY <2>1, <2>2, <2>4 DEF Killed, Modes
  <2> QED BY <1>4, <2>3, <2>4, OtherSteps
<1>5. CASE UNCHANGED vars
  BY <1>5 DEF vars, traceeVars, bpVars, dbgVars, locals, is_breakpoint, Matches, IsCode
<1> QED BY <1>2, <1>3, <1>4, <1>5 DEF Next, Terminated

-----------------------------------------------------------------------------
(* The signal to deliver. *)

\* No step repairs a table whose records saved a trap or were deleted.
LEMMA DamageStays ==
  ASSUME TypeOK, ProgramAssumption, DebuggerAssumption, [Next]_vars,
         SavedOriginals', ~CodeBpDeleted'
  PROVE  SavedOriginals /\ ~CodeBpDeleted
<1> USE DEF SavedOriginals, CodeBpDeleted, IsCode
<1>1. CASE UNCHANGED bps
  BY <1>1
<1>2. CASE \E i \in DOMAIN bps : toggle_breakpoint(i)
  BY <1>2, ToggleKeepsRecords
<1>3. CASE Command
  <2>1. CASE \E a, f : place_breakpoint(a, f)
    <3>1. PICK a, f : place_breakpoint(a, f)
      BY <2>1
    <3>2. PICK m \in Nat : /\ m \notin DOMAIN bps /\ DOMAIN bps' = DOMAIN bps \cup {m}
                           /\ \A j \in DOMAIN bps : bps'[j] = bps[j]
      BY <3>1, PlaceEffect
    <3> QED BY <3>2
  <2>2. CASE \E n \in SysNumbers : add_syscall_break(n)
    <3>1. PICK n \in SysNumbers : add_syscall_break(n)
      BY <2>2
    <3>2. PICK m \in Nat : /\ m \notin DOMAIN bps /\ DOMAIN bps' = DOMAIN bps \cup {m}
                           /\ \A j \in DOMAIN bps : bps'[j] = bps[j]
      BY <3>1, CatchEffect
    <3> QED BY <3>2
  <2>3. CASE \E i \in DOMAIN bps : MarkDeleted(i)
    <3>1. PICK i \in DOMAIN bps : MarkDeleted(i)
      BY <2>3
    <3>2. /\ DOMAIN bps' = DOMAIN bps
          /\ \A j \in DOMAIN bps :
               /\ bps'[j].flags = bps[j].flags
               /\ bps'[j].word = bps[j].word
               /\ j # i => bps'[j].deleted = bps[j].deleted
          /\ bps'[i].deleted
      BY <3>1, DeleteEffect
    <3> QED BY <3>2
  <2> QED BY <1>1, <1>3, <2>1, <2>2, <2>3, CommandTables
<1>4. CASE Progress
  BY <1>1, <1>2, <1>4, ProgressTables
<1>5. CASE TraceeRuns \/ Outside \/ Exit \/ UNCHANGED vars
  BY <1>1, <1>5, OtherSteps DEF bpVars, vars
<1> QED BY <1>3, <1>4, <1>5 DEF Next, Terminated

\* What wait_program keeps to deliver.
LEMMA WaitSignal ==
  ASSUME TableInv, RunsInWait, wait_program
  PROVE  SignalKept'
<1> USE DEF SignalKept
<1>0. /\ pc = "handle" /\ wstatus' = wstatus /\ SyscallStopsTrap
      /\ StopFits(wstatus) /\ wstatus.cause # "none"
  BY WaitFrame DEF RunsInWait, TableInv
<1> USE DEF StopFits, SyscallStopsTrap
<1>1. CASE wait_stepped
  BY <1>0, <1>1 DEF wait_stepped, StepDone
<1>2. CASE wait_breakpoint
  <2>1. /\ ~StepDone
        /\ g_signum' = IF wstatus.sig = SIGTRAP THEN NoSig ELSE wstatus.sig
    BY <1>2 DEF wait_breakpoint
  <2> QED BY <1>0, <2>1 DEF StepDone
<1>3. CASE wait_syscall
  BY <1>0, <1>3 DEF wait_syscall, IsSyscallStop
<1>4. CASE wait_signal
  <2>1. /\ g_signum' = wstatus.sig /\ UNCHANGED <<bps, rip>>
        /\ wstatus.cause \notin {"syscall", "step", "none"}
        /\ ~is_breakpoint(rip - 1)
    BY <1>0, <1>4 DEF wait_signal, IsSyscallStop, StepDone, bpVars, traceeVars
  <2>2. ASSUME wstatus.cause = "int3", SavedOriginals, ~CodeBpDeleted PROVE FALSE
    <3>1. rip - 1 \in Addr /\ text[rip - 1] = "int3"
      BY <1>0, <2>2 DEF Trapped
    <3>2. PICK i \in DOMAIN bps : EnabledAt(i, rip - 1)
      BY <2>2, <3>1 DEF TableInv, TrapsMatchTable
    <3>3. Matches(i, rip - 1)
      BY <2>2, <3>2 DEF EnabledAt, Matches, CodeBpDeleted
    <3> QED BY <2>1, <3>3 DEF is_breakpoint
  <2>3. (SavedOriginals' <=> SavedOriginals) /\ (CodeBpDeleted' <=> CodeBpDeleted)
    BY <2>1 DEF SavedOriginals, CodeBpDeleted, IsCode
  <2> QED BY <1>0, <2>1, <2>2, <2>3
<1>5. CASE wait_dead
  BY <1>0, <1>5 DEF wait_dead, IsStopped
<1>6. CASE wait_fatal
  BY <1>6 DEF wait_fatal, FatalAt
<1> QED BY <1>1, <1>2, <1>3, <1>4, <1>5, <1>6 DEF wait_program

\* Every step keeps the signal that is due.
LEMMA SignalStep ==
  ASSUME TableInv, RunsInWait, SignalKept, ProgramAssumption, DebuggerAssumption,
         [Next]_vars
  PROVE  SignalKept'
<1>0. TypeOK /\ (SavedOriginals' /\ ~CodeBpDeleted' => SavedOriginals /\ ~CodeBpDeleted)
  BY DamageStays DEF TableInv
<1> DEFINE Due == {"prompt", "continue", "single_step", "stepped", "resume", "epilogue"}
<1>1. CASE pc' \notin Due
  BY <1>1 DEF SignalKept
<1>2. CASE pc \in Due /\ UNCHANGED <<wstatus, g_signum>>
  BY <1>0, <1>2 DEF SignalKept
<1>3. CASE Command
  BY <1>1, <1>2, <1>3, CommandFrame
<1>4. CASE Progress
  <2>1. CASE my_wait \/ ResumeStep
    BY <1>1, <2>1 DEF my_wait, ResumeStep
  <2>2. CASE wait_program
    BY <2>2, WaitSignal
  <2> QED BY <1>2, <1>4, <2>1, <2>2, ProgressFrame
<1>5. CASE TraceeRuns \/ Outside \/ Exit \/ UNCHANGED vars
  <2>1. UNCHANGED <<pc, wstatus, g_signum>>
    BY <1>5, OtherSteps DEF dbgVars, globals, vars
  <2> QED BY <1>1, <1>2, <2>1
<1> QED BY <1>3, <1>4, <1>5 DEF Next, Terminated

-----------------------------------------------------------------------------
(* The invariant of the core. *)

\* Every step of the thread, the program and the outside keeps it.
LEMMA CoreStep ==
  ASSUME CoreInv, [Next]_vars
  PROVE  CoreInv'
<1> USE ProgramAssumption, DebuggerAssumption
<1>1. TableInv' /\ TypeOK
  BY TableStep DEF CoreInv, TableInv
<1>2. RunsInWait' /\ Requests'
  BY <1>1, RunsStep, RequestsStep DEF CoreInv
<1>3. SlotsMatch'
  BY <1>1, SlotsStep DEF CoreInv
<1>4. StandsInCall'
  BY StandsStep DEF CoreInv
<1>5. SignalKept'
  BY SignalStep DEF CoreInv
<1> QED BY <1>1, <1>2, <1>3, <1>4, <1>5 DEF CoreInv

LEMMA CoreStart ==
  ASSUME Init
  PROVE  CoreInv
<1> USE DEF Init, TraceeInit, BreakpointsInit, LocalsInit
<1>1. TypeOK
  BY TypeCorrectInit
<1>2. TableInv
  BY <1>1 DEF NoStop, Status, CodeMapped, SyscallStopsTrap, SteppedOver, TrapsMatchTable,
              NoLostBreakpoint, EnabledAt, TableInv
<1>3. stop.cause = "none" /\ wstatus.cause = "none" /\ stop = NoStop
  BY DEF NoStop, Status
<1>4. RunsInWait
  BY <1>3 DEF RunsInWait, StopFits, Modes
<1>5. Requests /\ SlotsMatch
  BY DEF Requests, SlotsMatch, SysRecords
<1>6. StandsInCall
  BY <1>3 DEF StandsInCall, Modes
<1>7. SignalKept
  BY <1>3 DEF SignalKept
<1> QED BY <1>2, <1>4, <1>5, <1>6, <1>7 DEF CoreInv

\* For every program, every sequence of commands, and signals and kills at any
\* moment: the invariant of the core holds.
THEOREM CoreCorrect == Spec => []CoreInv
<1>1. Init => CoreInv
  BY CoreStart
<1>2. CoreInv /\ [Next]_vars => CoreInv'
  BY CoreStep
<1> QED BY <1>1, <1>2, PTL DEF Spec

-----------------------------------------------------------------------------
(* What the invariant shows. *)

\* The list of caught system calls is the list of the records that catch one.
LEMMA ListExact ==
  ASSUME TypeOK, SlotsMatch, ~CodeBpDeleted
  PROVE  {syscalls[s] : s \in DOMAIN syscalls} \ {Deleted} = Caught
<1>1. Caught = {bps[i].addr : i \in {j \in SysRecords : ~bps[j].deleted}}
  BY DEF Caught, SysRecords
<1>2. ASSUME NEW s \in DOMAIN syscalls, syscalls[s] # Deleted PROVE syscalls[s] \in Caught
  BY <1>1, <1>2 DEF SlotsMatch
<1>3. ASSUME NEW i \in SysRecords, ~bps[i].deleted
      PROVE  bps[i].addr \in {syscalls[s] : s \in DOMAIN syscalls} \ {Deleted}
  BY <1>3 DEF SlotsMatch
<1> QED BY <1>1, <1>2, <1>3

\* g_syscalls holds exactly the system calls of the records that are not deleted.
THEOREM CatchListedCorrect == Spec => []CatchListed
<1>1. CoreInv => CatchListed
  BY ListExact DEF CoreInv, TableInv, CatchListed
<1> QED BY <1>1, CoreCorrect, PTL

\* A request delivers what SignalKept says is due.
LEMMA ResumeDelivers ==
  ASSUME [Next]_vars, ProgramAssumption, pc # "wait", pc' = "wait"
  PROVE  pc \in {"continue", "resume", "single_step"} /\ inject' = g_signum
<1>1. ~Command
  BY CommandFrame DEF Ended
<1>2. ~(TraceeRuns \/ Outside \/ Exit)
  BY OtherSteps DEF dbgVars
<1>3. pc' # pc /\ ~Terminated
  BY DEF Terminated, vars, dbgVars
<1>4. Progress
  BY <1>1, <1>2, <1>3 DEF Next, vars, dbgVars
<1>5. ~my_wait /\ ~wait_program
  BY WaitFrame DEF my_wait
<1>6. ResumeStep
  BY <1>4, <1>5, ProgressFrame
<1> QED BY <1>6 DEF ResumeStep

\* The signal that stopped the program is delivered, once, and my-dbg's own
\* SIGTRAPs are not.
THEOREM SignalForwardedCorrect == Spec => SignalForwarded
<1> DEFINE Delivered ==
      pc # "wait" /\ pc' = "wait" =>
        /\ wstatus.cause = "signal" /\ wstatus.sig # SIGTRAP => inject' = wstatus.sig
        /\ wstatus.cause \in {"none", "step", "syscall"} => inject' = NoSig
        /\ wstatus.cause = "int3" /\ SavedOriginals /\ ~CodeBpDeleted => inject' = NoSig
<1>1. CoreInv /\ [Next]_vars => Delivered
  <2> SUFFICES ASSUME CoreInv, [Next]_vars, pc # "wait", pc' = "wait"
               PROVE  Delivered
    OBVIOUS
  <2>1. pc \in {"continue", "resume", "single_step"} /\ inject' = g_signum
    BY ProgramAssumption, ResumeDelivers
  <2> QED BY <2>1 DEF CoreInv, SignalKept
<1>2. CoreInv /\ [Next]_vars => [Delivered]_vars
  BY <1>1
<1> QED BY <1>2, CoreCorrect, PTL DEF Spec, SignalForwarded

\* Where the thread decodes a syscall stop, its flag flips with the stop.
LEMMA WaitPhase ==
  ASSUME CoreInv, wait_program, InPhase
  PROVE  InPhase' \/ Dead
<1>0. /\ pc = "handle" /\ pc' # "handle" /\ UNCHANGED <<insys, stop>>
      /\ stop.cause # "syscall" /\ StopFits(wstatus)
  BY WaitFrame, StopsInWait DEF CoreInv, TableInv, RunsInWait
<1>1. Uncounted <=> wstatus.cause = "syscall"
  BY <1>0 DEF Uncounted, StopFits, StepDone
<1>2. ~Uncounted'
  BY <1>0 DEF Uncounted
<1> DEFINE inside == insys # NoSys
<1>8. g_syscall_entry <=> ~(inside <=> Uncounted)
  BY DEF InPhase, Uncounted
<1>9. ASSUME g_syscall_entry' <=> inside PROVE InPhase'
  BY <1>0, <1>2, <1>9 DEF InPhase, Uncounted
<1> HIDE DEF inside
<1>3. g_syscall_entry \in BOOLEAN
  BY DEF CoreInv, TableInv, TypeOK, DebuggerTypeOK
<1>4. CASE wait_stepped \/ wait_signal \/ wait_dead
  <2>1. UNCHANGED g_syscall_entry /\ wstatus.cause # "syscall"
    BY <1>0, <1>4 DEF wait_stepped, wait_signal, wait_dead, IsSyscallStop, IsStopped,
                      StepDone, StopFits
  <2> QED BY <1>1, <1>8, <1>9, <2>1
<1>5. CASE wait_breakpoint
  <2>1. g_syscall_entry' = IF IsSyscallStop THEN ~g_syscall_entry ELSE g_syscall_entry
    BY <1>5 DEF wait_breakpoint
  <2> QED BY <1>1, <1>3, <1>8, <1>9, <2>1 DEF IsSyscallStop
<1>6. CASE wait_syscall
  <2>1. IsSyscallStop /\ g_syscall_entry' = ~g_syscall_entry
    BY <1>6 DEF wait_syscall
  <2> QED BY <1>1, <1>3, <1>8, <1>9, <2>1 DEF IsSyscallStop
<1>7. CASE wait_fatal
  BY <1>7 DEF wait_fatal, FatalAt
<1> QED BY <1>4, <1>5, <1>6, <1>7 DEF wait_program

\* The entry flag is put out of phase only by a single step out of a system call.
THEOREM PhaseKeptCorrect == Spec => PhaseKept
<1> DEFINE Kept == InPhase /\ ~Dead /\ ~Dead' /\ ~(run = "step" /\ insys # NoSys) => InPhase'
<1>1. CoreInv /\ [Next]_vars => Kept
  <2> SUFFICES ASSUME CoreInv, [Next]_vars, InPhase, ~Dead, ~Dead',
                      ~(run = "step" /\ insys # NoSys)
               PROVE  InPhase'
    OBVIOUS
  <2>0. TypeOK /\ RunsInWait /\ Requests
    BY DEF CoreInv, TableInv
  <2>1. CASE /\ UNCHANGED <<stop, insys, g_syscall_entry>>
             /\ pc # "handle" /\ pc' # "handle"
    BY <2>1 DEF InPhase, Uncounted
  <2>2. CASE Command
    BY <2>1, <2>2, CommandFrame DEF Ended
  <2>3. CASE Progress
    <3>1. CASE my_wait
      <4>1. /\ pc = "wait" /\ pc' = "handle" /\ wstatus' = stop /\ stop' = NoStop
            /\ UNCHANGED <<insys, step, g_syscall_entry>> /\ StopFits(stop)
        BY <2>0, <3>1 DEF my_wait, locals, globals, RunsInWait
      <4>2. Uncounted' <=> Uncounted
        BY <4>1 DEF Uncounted, StopFits, StepDone, NoStop, Status
      <4> QED BY <4>1, <4>2 DEF InPhase
    <3>2. CASE wait_program
      BY <3>2, WaitPhase
    <3>3. CASE ~my_wait /\ ~wait_program
      <4>1. /\ UNCHANGED <<stop, insys>> /\ pc # "handle" /\ pc' # "handle"
        BY <2>3, <3>3, ProgressFrame DEF ResumeStep
      <4>2. UNCHANGED g_syscall_entry
        BY <2>3, <3>3 DEF Progress, continue_execution, continue_after_step, single_step,
                          single_step_end, single_step_fatal, command_end, command_fatal,
                          ptrace_fatal, FatalAt, globals
      <4> QED BY <2>1, <4>1, <4>2
    <3> QED BY <3>1, <3>2, <3>3
  <2>4. CASE TraceeRuns \/ Outside \/ Exit
    <3>1. UNCHANGED <<pc, step, wstatus, g_syscall_entry>>
      BY <2>4, OtherSteps, ProgramAssumption DEF dbgVars, locals, globals
    <3>2. run \in Modes /\ ProgramOutcome
      BY <2>4, OtherSteps, ProgramAssumption DEF Killed, Dead
    <3>3. pc = "wait" /\ stop.cause = "none" /\ g_syscall_entry \in BOOLEAN
      BY <2>0, <3>2 DEF RunsInWait, NoStop, Status, TypeOK, DebuggerTypeOK
    <3>4. ~(run = "cont" /\ insys # NoSys)
      BY <2>0 DEF Requests
    <3>5. Uncounted <=> FALSE
      BY <3>3 DEF Uncounted
    <3>6. Uncounted' <=> stop'.cause = "syscall"
      BY <3>1, <3>3 DEF Uncounted
    <3>7. (insys' # NoSys) = (insys # NoSys) <=> stop'.cause # "syscall"
      BY <3>2, <3>3, <3>4 DEF ProgramOutcome, Dead
    <3> QED BY <3>1, <3>3, <3>5, <3>6, <3>7 DEF InPhase
  <2>5. CASE UNCHANGED vars
    BY <2>5 DEF vars, traceeVars, dbgVars, locals, globals, InPhase, Uncounted, StepDone
  <2> QED BY <2>2, <2>3, <2>4, <2>5 DEF Next, Terminated
<1>2. CoreInv /\ [Next]_vars => [Kept]_vars
  BY <1>1
<1> QED BY <1>2, CoreCorrect, PTL DEF Spec, PhaseKept

\* in_syscalls finds exactly the system calls some record catches.
LEMMA FoundIsCaught ==
  ASSUME TypeOK, SlotsMatch, ~CodeBpDeleted, NEW n
  PROVE  in_syscalls(n) <=> n \in Caught
<1>1. n \in {syscalls[s] : s \in DOMAIN syscalls} \ {Deleted} <=> n \in Caught
  BY ListExact
<1> QED BY <1>1 DEF in_syscalls, Deleted

\* A syscall stop is reported exactly at the entry of a system call that is caught.
THEOREM CatchExactCorrect == Spec => CatchExact
<1> DEFINE Reported ==
      pc = "handle" /\ IsSyscallStop /\ pc' \notin {"handle", "fatal"} /\ InPhase
        /\ ~CodeBpDeleted /\ ~is_breakpoint(rip - 1) =>
      (pc' = "epilogue" <=> insys # NoSys /\ wstatus.nr \in Caught)
<1>1. CoreInv /\ [Next]_vars => Reported
  <2> SUFFICES ASSUME CoreInv, [Next]_vars, pc = "handle", IsSyscallStop,
                      pc' \notin {"handle", "fatal"}, InPhase,
                      ~CodeBpDeleted, ~is_breakpoint(rip - 1)
               PROVE  pc' = "epilogue" <=> insys # NoSys /\ wstatus.nr \in Caught
    OBVIOUS
  <2>1. StopFits(wstatus) /\ wstatus.cause = "syscall" /\ ~step /\ ~StepDone /\ IsStopped
    BY DEF CoreInv, RunsInWait, IsSyscallStop, StopFits, StepDone, IsStopped
  <2>2. wait_program
    <3>1. ~Command
      BY CommandFrame
    <3>2. ~(TraceeRuns \/ Outside \/ Exit)
      BY OtherSteps, ProgramAssumption DEF dbgVars
    <3>3. Progress
      BY <3>1, <3>2 DEF Next, Terminated, vars, dbgVars
    <3> QED BY <3>3, ProgressFrame DEF ResumeStep, my_wait
  <2>3. wait_syscall
    <3>1. ~wait_breakpoint
      BY DEF wait_breakpoint, get_breakpoint, is_breakpoint
    <3> QED
      BY <2>1, <2>2, <3>1 DEF wait_program, wait_stepped, wait_signal, wait_dead,
                              wait_fatal, FatalAt
  <2>4. g_syscall_entry' <=> insys # NoSys
    <3>1. Uncounted
      BY <2>1 DEF Uncounted
    <3>2. g_syscall_entry \in BOOLEAN
      BY DEF CoreInv, TableInv, TypeOK, DebuggerTypeOK
    <3>3. g_syscall_entry <=> ~(insys # NoSys)
      BY <3>1 DEF InPhase, Uncounted
    <3>4. g_syscall_entry' = ~g_syscall_entry
      BY <2>3 DEF wait_syscall
    <3> QED BY <3>2, <3>3, <3>4
  <2>5. in_syscalls(wstatus.nr) <=> wstatus.nr \in Caught
    BY FoundIsCaught DEF CoreInv, TableInv
  <2>6. CASE in_syscalls(wstatus.nr) /\ g_syscall_entry'
    <3>1. pc' = "epilogue"
      BY <2>1, <2>3, <2>6 DEF wait_syscall, Return
    <3> QED BY <2>4, <2>5, <2>6, <3>1
  <2>7. CASE ~(in_syscalls(wstatus.nr) /\ g_syscall_entry')
    <3>1. pc' # "epilogue"
      BY <2>3, <2>7 DEF wait_syscall
    <3> QED BY <2>4, <2>5, <2>7, <3>1
  <2> QED BY <2>6, <2>7
<1>2. CoreInv /\ [Next]_vars => [Reported]_vars
  BY <1>1
<1> QED BY <1>2, CoreCorrect, PTL DEF Spec, CatchExact

\* The step over a breakpoint executes the instruction under it only in the
\* activation of continue_execution the user asked for.
THEOREM BreakpointsStopCorrect == Spec => BreakpointsStop
<1> DEFINE Stops ==
      pc = "wait" /\ curbp # 0 /\ rip = bps[curbp].addr /\ rip' # rip => depth = 0
<1>1. CoreInv /\ [Next]_vars => Stops
  <2> SUFFICES ASSUME CoreInv, [Next]_vars, pc = "wait", curbp # 0, rip' # rip
               PROVE  depth = 0
    OBVIOUS
  <2>1. ~Command
    BY CommandFrame
  <2>2. ~Progress
    BY ProgressFrame, WaitFrame DEF ResumeStep, my_wait
  <2>3. TraceeRuns \/ Outside \/ Exit
    BY <2>1, <2>2 DEF Next, Terminated, vars, traceeVars
  <2>4. run \in Modes /\ insys = NoSys
    BY <2>3, OtherSteps, ProgramAssumption DEF ProgramOutcome, Killed
  <2>5. ~(depth > 0) /\ depth \in Nat
    BY <2>4 DEF CoreInv, StandsInCall, TableInv, TypeOK, DebuggerTypeOK
  <2> QED BY <2>5
<1>2. CoreInv /\ [Next]_vars => [Stops]_vars
  BY <1>1
<1> QED BY <1>2, CoreCorrect, PTL DEF Spec, BreakpointsStop

=============================================================================
