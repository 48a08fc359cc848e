------------------------------ MODULE Debugger ------------------------------
(***************************************************************************)
(* The execution core of my-dbg: src/binary.c and the commands that place  *)
(* breakpoints or move the traced program, run by the loop of              *)
(* src/my-dbg.c, composed with the breakpoint tables and the program.      *)
(*                                                                         *)
(* my-dbg is one thread; what interleaves with it is the program, the      *)
(* signals other processes send to it and SIGKILL.  pc says where the      *)
(* thread is.  Requests that follow each other with no waitpid between     *)
(* them are one step: the program is stopped, and when it is killed in the *)
(* middle of them the next one fails as the first would have.              *)
(* A request on a dead program fails with ESRCH: PtraceException reaches   *)
(* run_command and ptrace_error ends my-dbg ("fatal").                     *)
(***************************************************************************)
EXTENDS Breakpoints

CONSTANTS
  UserCmds,    \* the commands the user types in this run
  BreakAddrs,  \* the addresses they are given; some may be unmapped
  SysNumbers,  \* the system calls they are given
  MaxBps,      \* bound: records in the breakpoint table
  MaxDepth     \* bound: calls of continue_execution the C stack has room for

ASSUME DebuggerAssumption ==
  /\ BreakAddrs \subseteq Int
  /\ SysNumbers \subseteq Int \ {-1}
  /\ MaxBps \in Nat
  /\ MaxDepth \in Nat

VARIABLES
  pc,               \* where the thread is
  cmd,              \* the command that called continue_execution or single_step
  nested,           \* was single_step called by continue_execution?
  step,             \* the parameter of wait_program
  ret,              \* what wait_program returned
  curbp,            \* bp in single_step, 0 for NULL
  depth,            \* calls of continue_execution on the C stack
  wstatus,          \* the status wait_program decodes
  g_signum,
  g_syscall_entry,
  g_quit

locals == <<cmd, nested, step, ret, curbp, depth>>
globals == <<g_signum, g_syscall_entry, g_quit>>
dbgVars == <<pc, locals, wstatus, globals>>
vars == <<traceeVars, bpVars, dbgVars>>

Ended == {"exited", "fatal", "segv", "overflow"}
Phases == {"prompt", "continue", "single_step", "wait", "handle", "stepped",
           "resume", "epilogue"} \cup Ended
RunCmds == {"continue", "step_instr", "next_instr", "finish"}

DebuggerTypeOK ==
  /\ pc \in Phases
  /\ cmd \in RunCmds \cup {"none"}
  /\ nested \in BOOLEAN
  /\ step \in BOOLEAN
  /\ ret \in BOOLEAN
  /\ curbp \in Nat
  /\ curbp # 0 => curbp \in DOMAIN bps
  /\ depth \in Nat
  /\ wstatus \in StatusType
  /\ g_signum \in AllSignals \cup {NoSig}
  /\ g_syscall_entry \in BOOLEAN
  /\ g_quit \in BOOLEAN

\* The registers, the tables and my-dbg's variables have their types: single_step
\* keeps no pointer to a record that is not in the table.
TypeOK == TraceeTypeOK /\ BreakpointsTypeOK /\ DebuggerTypeOK

LocalsInit ==
  /\ cmd = "none" /\ nested = FALSE /\ step = FALSE
  /\ ret = FALSE /\ curbp = 0 /\ depth = 0

Init ==
  /\ TraceeInit
  /\ BreakpointsInit
  /\ LocalsInit
  /\ pc = "prompt"
  /\ wstatus = NoStop
  /\ g_signum = NoSig
  /\ g_syscall_entry = FALSE
  /\ g_quit = FALSE

-----------------------------------------------------------------------------
(* Helpers. *)

Dead == run = "dead"

\* ptrace fails with ESRCH while my-dbg is in phase p.
FatalAt(p) ==
  /\ pc = p /\ Dead
  /\ pc' = "fatal"
  /\ UNCHANGED <<traceeVars, bpVars, locals, wstatus, globals>>

\* The instruction get_instruction disassembles at a.  It reads the memory of
\* the program, traps included; other bytes than an instruction's decode to
\* anything, and to nothing (DisasmException).
Decodings(a) ==
  IF Trapped(a) THEN {[call |-> FALSE, size |-> 1]}
  ELSE IF Intact(a) THEN {[call |-> Insn[a].kind = "call", size |-> Insn[a].size]}
  ELSE [call : BOOLEAN, size : {1}]

Typed(c) == pc = "prompt" /\ c \in UserCmds

Enter(c, phase) ==
  /\ pc' = phase
  /\ cmd' = c
  /\ UNCHANGED <<nested, step, ret, curbp, depth, wstatus, globals>>

StayAtPrompt == UNCHANGED <<pc, locals, wstatus, globals>>

-----------------------------------------------------------------------------
(* Commands that change the tables. *)

\* `break', `tbreak' and `breakl' differ in the flags; PTRACE_PEEKDATA fails
\* on an unmapped address (EIO), the exception is printed and nothing changes.
PlaceCommand(c, flags) ==
  /\ Typed(c)
  /\ ~Dead
  /\ \E a \in BreakAddrs :
       IF a \in Addr
       THEN Len(bps) < MaxBps /\ place_breakpoint(a, flags)
       ELSE UNCHANGED <<bps, text>>
  /\ StayAtPrompt
  /\ UNCHANGED <<rip, frames, run, stop, insys, inject, sigs, syscalls>>

cmd_break == PlaceCommand("break", {})
cmd_tbreak == PlaceCommand("tbreak", {TEMP})
cmd_breakl == PlaceCommand("breakl", {TEMP, INTERNAL})

\* A number is added without any request to the kernel.
cmd_breaks ==
  /\ Typed("breaks")
  /\ Len(bps) < MaxBps
  /\ \E n \in SysNumbers : add_syscall_break(n)
  /\ StayAtPrompt
  /\ UNCHANGED traceeVars

\* The text keeps the trap, and g_syscalls is written for every record: for one
\* of code at an address that most often is not mapped, and never is while no
\* system call was caught and g_syscalls is NULL.
cmd_break_del ==
  /\ Typed("break_del")
  /\ \E i \in DOMAIN bps :
       /\ ~bps[i].deleted
       /\ MarkDeleted(i)
       /\ \/ ~IsCode(i) /\ ClearSlot(i) /\ UNCHANGED pc
          \/ IsCode(i) /\ StrayWrite /\ UNCHANGED pc
          \/ IsCode(i) /\ UNCHANGED syscalls /\ pc' = "segv"
  /\ UNCHANGED <<locals, wstatus, globals, traceeVars>>

cmd_quit ==
  /\ Typed("quit")
  /\ g_quit' = TRUE
  /\ pc' = "exited"
  /\ UNCHANGED <<traceeVars, bpVars, locals, wstatus, g_signum, g_syscall_entry>>

\* prompt returns NULL
EndOfInput ==
  /\ pc = "prompt"
  /\ pc' = "exited"
  /\ UNCHANGED <<traceeVars, bpVars, locals, wstatus, globals>>

-----------------------------------------------------------------------------
(* Commands that move the program. *)

cmd_continue ==
  /\ Typed("continue")
  /\ Enter("continue", "continue")
  /\ UNCHANGED <<traceeVars, bpVars>>

cmd_step_instr ==
  /\ Typed("step_instr")
  /\ Enter("step_instr", "single_step")
  /\ UNCHANGED <<traceeVars, bpVars>>

\* PtraceException (unmapped address) or DisasmException: nothing happens.
cmd_next_instr ==
  /\ Typed("next_instr") /\ ~Dead
  /\ \/ \E d \in Decodings(rip) :
          \/ /\ d.call /\ rip + d.size \in Addr /\ Len(bps) < MaxBps
             /\ place_breakpoint(rip + d.size, {TEMP, INTERNAL})
             /\ Enter("next_instr", "continue")
          \/ /\ ~d.call
             /\ UNCHANGED <<bps, text>>
             /\ Enter("next_instr", "single_step")
     \/ /\ ~Trapped(rip) /\ ~Intact(rip)
        /\ UNCHANGED <<bps, text>>
        /\ StayAtPrompt
  /\ UNCHANGED <<rip, frames, run, stop, insys, inject, sigs, syscalls>>

\* get_finish_address: the end of the instruction at the return address.
FinishAddresses ==
  LET ip == frames[Len(frames)] IN {ip + d.size : d \in Decodings(ip)}

\* UnwindException (no caller, or a dead program), DisasmException, or
\* PtraceException (unmapped address): nothing happens.
FinishFails ==
  \/ Dead
  \/ frames = <<>>
  \/ frames # <<>> /\ ~(FinishAddresses \subseteq Addr)
  \/ frames # <<>> /\ LET ip == frames[Len(frames)] IN ~Trapped(ip) /\ ~Intact(ip)

cmd_finish ==
  /\ Typed("finish")
  /\ \/ /\ ~Dead /\ frames # <<>>
        /\ \E a \in FinishAddresses :
             /\ a \in Addr /\ Len(bps) < MaxBps
             /\ place_breakpoint(a, {TEMP, INTERNAL})
        /\ Enter("finish", "continue")
     \/ /\ FinishFails
        /\ StayAtPrompt
        /\ UNCHANGED <<bps, text>>
  /\ UNCHANGED <<rip, frames, run, stop, insys, inject, sigs, syscalls>>

\* The other commands' first request fails.  `breakl' looks its line up before,
\* and fails here when the program is killed in between.
CommandOnDead ==
  /\ \E c \in {"break", "tbreak", "breakl", "next_instr"} : c \in UserCmds
  /\ FatalAt("prompt")

-----------------------------------------------------------------------------
(* continue_execution and single_step. *)

\* Mutant: PTRACE_SYSCALL only while some system call is still caught.
ContinueRequest_WhileCaught ==
  /\ Resume(IF \E s \in DOMAIN syscalls : syscalls[s] # Deleted THEN "syscall" ELSE "cont",
            g_signum)
  /\ g_signum' = NoSig
  /\ step' = FALSE
  /\ pc' = "wait"

\* PTRACE_SYSCALL once the user has caught any system call, PTRACE_CONT before.
ContinueRequest ==
  /\ Resume(IF syscalls # <<>> THEN "syscall" ELSE "cont", g_signum)
  /\ g_signum' = NoSig
  /\ step' = FALSE
  /\ pc' = "wait"

\* Mutant: inside a system call the breakpoint at rip is left alone.
continue_execution_NotInSyscall ==
  /\ pc = "continue" /\ ~Dead
  /\ \/ /\ is_breakpoint(rip) /\ ~g_syscall_entry
        /\ pc' = "single_step"
        /\ nested' = TRUE
        /\ UNCHANGED <<traceeVars, step, g_signum>>
     \/ /\ ~is_breakpoint(rip) \/ g_syscall_entry
        /\ ContinueRequest
        /\ nested' = FALSE
        /\ UNCHANGED text
  /\ UNCHANGED <<bpVars, cmd, ret, curbp, depth, wstatus, g_syscall_entry, g_quit>>

continue_execution ==
  /\ pc = "continue" /\ ~Dead
  /\ \/ /\ is_breakpoint(rip)
        /\ pc' = "single_step"
        /\ nested' = TRUE
        /\ UNCHANGED <<traceeVars, step, g_signum>>
     \/ /\ ~is_breakpoint(rip)
        /\ ContinueRequest
        /\ nested' = FALSE
        /\ UNCHANGED text
  /\ UNCHANGED <<bpVars, cmd, ret, curbp, depth, wstatus, g_syscall_entry, g_quit>>

\* The second half of continue_execution, after a single_step that returned 1.
continue_after_step ==
  /\ pc = "resume" /\ ~Dead
  /\ ContinueRequest
  /\ nested' = FALSE
  /\ UNCHANGED <<text, bpVars, cmd, ret, curbp, depth, wstatus,
                 g_syscall_entry, g_quit>>

\* Mutant: the trap stays in the text during the step.
single_step_TrapStays ==
  /\ pc = "single_step" /\ ~Dead
  /\ \/ \E i \in DOMAIN bps : get_breakpoint(rip, i) /\ curbp' = i
     \/ ~is_breakpoint(rip) /\ curbp' = 0
  /\ Resume("step", g_signum)
  /\ g_signum' = NoSig
  /\ step' = TRUE
  /\ pc' = "wait"
  /\ UNCHANGED <<text, bpVars, cmd, nested, ret, depth, wstatus, g_syscall_entry, g_quit>>

\* Mutant: the loop that looks for the record runs past the end of the table.
single_step_PastEnd ==
  /\ pc = "single_step" /\ ~Dead
  /\ \/ \E i \in DOMAIN bps :
          get_breakpoint(rip, i) /\ toggle_breakpoint(i) /\ curbp' = Len(bps) + 1
     \/ ~is_breakpoint(rip) /\ curbp' = 0 /\ UNCHANGED <<bps, text>>
  /\ Resume("step", g_signum)
  /\ g_signum' = NoSig
  /\ step' = TRUE
  /\ pc' = "wait"
  /\ UNCHANGED <<syscalls, cmd, nested, ret, depth, wstatus, g_syscall_entry, g_quit>>

single_step ==
  /\ pc = "single_step" /\ ~Dead
  /\ \/ \E i \in DOMAIN bps :
          get_breakpoint(rip, i) /\ toggle_breakpoint(i) /\ curbp' = i
     \/ ~is_breakpoint(rip) /\ curbp' = 0 /\ UNCHANGED <<bps, text>>
  /\ Resume("step", g_signum)
  /\ g_signum' = NoSig
  /\ step' = TRUE
  /\ pc' = "wait"
  /\ UNCHANGED <<syscalls, cmd, nested, ret, depth, wstatus, g_syscall_entry, g_quit>>

\* The end of single_step: the breakpoint stepped over is armed again.
single_step_end ==
  /\ pc = "stepped"
  /\ IF curbp # 0 /\ ~ToggleIsNoop(curbp)
     THEN ~Dead /\ toggle_breakpoint(curbp)
     ELSE UNCHANGED <<bps, text>>
  /\ curbp' = 0
  /\ pc' = IF nested /\ ret THEN "resume" ELSE "epilogue"
  /\ UNCHANGED <<rip, frames, run, stop, insys, inject, sigs, syscalls, cmd,
                 nested, step, ret, depth, wstatus, globals>>

single_step_fatal ==
  /\ curbp # 0 /\ ~ToggleIsNoop(curbp)
  /\ FatalAt("stepped")

-----------------------------------------------------------------------------
(* wait_program. *)

\* Mutant: waitpid is called again until it reports a stop; death is none.
my_wait_StopsOnly ==
  /\ pc = "wait" /\ stop # NoStop
  /\ IF stop.cause \in {"exit", "killed"}
     THEN UNCHANGED <<wstatus, stop, pc>>
     ELSE wstatus' = stop /\ stop' = NoStop /\ pc' = "handle"
  /\ UNCHANGED <<text, rip, frames, run, insys, inject, sigs, bpVars, locals, globals>>

my_wait ==
  /\ pc = "wait" /\ stop # NoStop
  /\ wstatus' = stop
  /\ stop' = NoStop
  /\ pc' = "handle"
  /\ UNCHANGED <<text, rip, frames, run, insys, inject, sigs, bpVars, locals, globals>>

IsStopped == wstatus.cause \notin {"exit", "killed"}
IsSyscallStop == wstatus.cause = "syscall"      \* WSTOPSIG(wstatus) & 0x80
StepDone == step /\ wstatus.sig = SIGTRAP

\* continue_execution has nothing to do after wait_program(0), so every
\* activation of it returns to the command at once.
Return(r) ==
  /\ ret' = r
  /\ pc' = IF step THEN "stepped" ELSE "epilogue"

wait_stepped ==
  /\ pc = "handle" /\ IsStopped /\ StepDone
  /\ g_signum' = NoSig
  /\ Return(TRUE)
  /\ UNCHANGED <<traceeVars, bpVars, cmd, nested, step, curbp, depth, wstatus,
                 g_syscall_entry, g_quit>>

\* Mutant: rip stays after the trap.
wait_breakpoint_NoRewind ==
  /\ pc = "handle" /\ ~Dead /\ IsStopped /\ ~StepDone
  /\ \E i \in DOMAIN bps :
       /\ get_breakpoint(rip - 1, i)
       /\ IF TEMP \in bps[i].flags THEN toggle_breakpoint(i)
                                   ELSE UNCHANGED <<bps, text>>
  /\ rip' = rip
  /\ g_signum' = IF wstatus.sig = SIGTRAP THEN NoSig ELSE wstatus.sig
  /\ g_syscall_entry' = IF IsSyscallStop THEN ~g_syscall_entry ELSE g_syscall_entry
  /\ Return(FALSE)
  /\ UNCHANGED <<frames, run, stop, insys, inject, sigs, syscalls, cmd, nested,
                 step, curbp, depth, wstatus, g_quit>>

\* Mutant: the SIGTRAP of the trap is kept for the next resumption.
wait_breakpoint_KeepTrap ==
  /\ pc = "handle" /\ ~Dead /\ IsStopped /\ ~StepDone
  /\ \E i \in DOMAIN bps :
       /\ get_breakpoint(rip - 1, i)
       /\ IF TEMP \in bps[i].flags THEN toggle_breakpoint(i)
                                   ELSE UNCHANGED <<bps, text>>
  /\ rip' = rip - 1
  /\ g_signum' = wstatus.sig
  /\ g_syscall_entry' = IF IsSyscallStop THEN ~g_syscall_entry ELSE g_syscall_entry
  /\ Return(FALSE)
  /\ UNCHANGED <<frames, run, stop, insys, inject, sigs, syscalls, cmd, nested,
                 step, curbp, depth, wstatus, g_quit>>

\* Mutant: the hit is not reported, the program goes on.
wait_breakpoint_GoOn ==
  /\ pc = "handle" /\ ~Dead /\ IsStopped /\ ~StepDone
  /\ \E i \in DOMAIN bps :
       /\ get_breakpoint(rip - 1, i)
       /\ IF TEMP \in bps[i].flags THEN toggle_breakpoint(i)
                                   ELSE UNCHANGED <<bps, text>>
  /\ rip' = rip - 1
  /\ g_signum' = IF wstatus.sig = SIGTRAP THEN NoSig ELSE wstatus.sig
  /\ g_syscall_entry' = IF IsSyscallStop THEN ~g_syscall_entry ELSE g_syscall_entry
  /\ pc' = IF step THEN "stepped" ELSE "continue"
  /\ UNCHANGED <<frames, run, stop, insys, inject, sigs, syscalls, cmd, nested,
                 step, curbp, depth, wstatus, g_quit, ret>>

\* The stop is taken for a hit whenever the byte before rip has a breakpoint.
wait_breakpoint ==
  /\ pc = "handle" /\ ~Dead /\ IsStopped /\ ~StepDone
  /\ \E i \in DOMAIN bps :
       /\ get_breakpoint(rip - 1, i)
       /\ IF TEMP \in bps[i].flags THEN toggle_breakpoint(i)
                                   ELSE UNCHANGED <<bps, text>>
  /\ rip' = rip - 1
  /\ g_signum' = IF wstatus.sig = SIGTRAP THEN NoSig ELSE wstatus.sig
  /\ g_syscall_entry' = IF IsSyscallStop THEN ~g_syscall_entry ELSE g_syscall_entry
  /\ Return(FALSE)
  /\ UNCHANGED <<frames, run, stop, insys, inject, sigs, syscalls, cmd, nested,
                 step, curbp, depth, wstatus, g_quit>>

\* Mutant: the entry flag is only kept for the system calls that are caught.
wait_syscall_FlagIfCaught ==
  /\ pc = "handle" /\ ~Dead /\ IsSyscallStop /\ ~StepDone
  /\ ~is_breakpoint(rip - 1)
  /\ g_signum' = NoSig
  /\ g_syscall_entry' = IF in_syscalls(wstatus.nr) THEN ~g_syscall_entry ELSE g_syscall_entry
  /\ IF in_syscalls(wstatus.nr) /\ g_syscall_entry'
     THEN Return(FALSE) /\ UNCHANGED depth
     ELSE IF depth < MaxDepth
     THEN pc' = "continue" /\ depth' = depth + 1 /\ UNCHANGED ret
     ELSE pc' = "overflow" /\ UNCHANGED <<depth, ret>>
  /\ UNCHANGED <<traceeVars, bpVars, cmd, nested, step, curbp, wstatus, g_quit>>

\* Mutant: the return from a caught system call is reported too.
wait_syscall_BothEnds ==
  /\ pc = "handle" /\ ~Dead /\ IsSyscallStop /\ ~StepDone
  /\ ~is_breakpoint(rip - 1)
  /\ g_signum' = NoSig
  /\ g_syscall_entry' = ~g_syscall_entry
  /\ IF in_syscalls(wstatus.nr)
     THEN Return(FALSE) /\ UNCHANGED depth
     ELSE IF depth < MaxDepth
     THEN pc' = "continue" /\ depth' = depth + 1 /\ UNCHANGED ret
     ELSE pc' = "overflow" /\ UNCHANGED <<depth, ret>>
  /\ UNCHANGED <<traceeVars, bpVars, cmd, nested, step, curbp, wstatus, g_quit>>

\* Reported when caught and at an entry; any other stop goes on in a new
\* activation of continue_execution.
wait_syscall ==
  /\ pc = "handle" /\ ~Dead /\ IsSyscallStop /\ ~StepDone
  /\ ~is_breakpoint(rip - 1)
  /\ g_signum' = NoSig
  /\ g_syscall_entry' = ~g_syscall_entry
  /\ IF in_syscalls(wstatus.nr) /\ g_syscall_entry'
     THEN Return(FALSE) /\ UNCHANGED depth
     ELSE IF depth < MaxDepth
     THEN pc' = "continue" /\ depth' = depth + 1 /\ UNCHANGED ret
     ELSE pc' = "overflow" /\ UNCHANGED <<depth, ret>>
  /\ UNCHANGED <<traceeVars, bpVars, cmd, nested, step, curbp, wstatus, g_quit>>

wait_signal ==
  /\ pc = "handle" /\ ~Dead /\ IsStopped /\ ~IsSyscallStop /\ ~StepDone
  /\ ~is_breakpoint(rip - 1)
  /\ g_signum' = wstatus.sig
  /\ Return(FALSE)
  /\ UNCHANGED <<traceeVars, bpVars, cmd, nested, step, curbp, depth, wstatus,
                 g_syscall_entry, g_quit>>

wait_dead ==
  /\ pc = "handle" /\ ~IsStopped
  /\ g_quit' = TRUE
  /\ Return(FALSE)
  /\ UNCHANGED <<traceeVars, bpVars, cmd, nested, step, curbp, depth, wstatus,
                 g_signum, g_syscall_entry>>

\* get_register fails: the program was killed after waitpid returned a stop.
wait_fatal == IsStopped /\ ~StepDone /\ FatalAt("handle")

wait_program ==
  \/ wait_stepped \/ wait_breakpoint \/ wait_syscall \/ wait_signal
  \/ wait_dead \/ wait_fatal

-----------------------------------------------------------------------------
(* The end of the command, and of my-dbg. *)

\* step_instr reads rip without looking at g_quit, next_instr looks first.
ReadsRip == cmd = "step_instr" \/ (cmd = "next_instr" /\ ~g_quit)

\* run_command returns and the loop of main tests g_quit.
command_end ==
  /\ pc = "epilogue" /\ ~(ReadsRip /\ Dead)
  /\ pc' = IF g_quit THEN "exited" ELSE "prompt"
  /\ cmd' = "none" /\ nested' = FALSE /\ step' = FALSE
  /\ ret' = FALSE /\ curbp' = 0 /\ depth' = 0
  /\ UNCHANGED <<traceeVars, bpVars, wstatus, globals>>

command_fatal == ReadsRip /\ FatalAt("epilogue")

ptrace_fatal == \E p \in {"continue", "single_step", "resume"} : FatalAt(p)

Exit == pc \in Ended /\ ExitKill /\ UNCHANGED <<bpVars, dbgVars>>

Terminated == pc \in Ended /\ Dead /\ UNCHANGED vars

-----------------------------------------------------------------------------

Command ==
  \/ cmd_break \/ cmd_tbreak \/ cmd_breakl \/ cmd_breaks \/ cmd_break_del
  \/ cmd_continue \/ cmd_step_instr \/ cmd_next_instr \/ cmd_finish
  \/ cmd_quit \/ EndOfInput \/ CommandOnDead

\* What my-dbg does without waiting for the user.
Progress ==
  \/ continue_execution \/ continue_after_step
  \/ single_step \/ single_step_end \/ single_step_fatal
  \/ my_wait \/ wait_program
  \/ command_end \/ command_fatal \/ ptrace_fatal

TraceeRuns == (Execution \/ TakeSignal) /\ UNCHANGED <<bpVars, dbgVars>>

Outside == pc \notin Ended /\ (Signal \/ Kill) /\ UNCHANGED <<bpVars, dbgVars>>

Next == Command \/ Progress \/ TraceeRuns \/ Outside \/ Exit \/ Terminated

Spec == Init /\ [][Next]_vars

\* my-dbg and the program it resumed are both scheduled; the user need not type.
Fairness == WF_vars(Progress) /\ WF_vars(TraceeRuns) /\ WF_vars(Exit)

FairSpec == Spec /\ Fairness

=============================================================================
