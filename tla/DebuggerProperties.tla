------------------------- MODULE DebuggerProperties -------------------------
(***************************************************************************)
(* What the execution core of my-dbg is expected to do.                    *)
(***************************************************************************)
EXTENDS Debugger

-----------------------------------------------------------------------------
(* The breakpoint table and the text of the program. *)

EnabledAt(i, a) ==
  i \in DOMAIN bps /\ IsCode(i) /\ bps[i].enabled /\ bps[i].addr = a

\* Every record saved a byte of the program.  It is not so when a breakpoint
\* was placed where a trap already was.
SavedOriginals == \A i \in DOMAIN bps : IsCode(i) => bps[i].word = "orig"

\* As long as every record saved an original byte, the text holds a trap
\* exactly where one record is enabled: toggle_breakpoint, place_breakpoint
\* and the step over a breakpoint never leave a trap without its record, a
\* record without its trap, or two records on one trap.
TrapsMatchTable ==
  SavedOriginals =>
    \A a \in Addr :
      /\ text[a] = "int3" <=> \E i \in DOMAIN bps : EnabledAt(i, a)
      /\ \A i, j \in DOMAIN bps : EnabledAt(i, a) /\ EnabledAt(j, a) => i = j

\* single_step disables the breakpoint it starts on and always enables it
\* again: a breakpoint that is not temporary is found disabled only while the
\* step over it is under way, or when my-dbg ended during that step.
NoLostBreakpoint ==
  \A i \in DOMAIN bps :
    IsCode(i) /\ TEMP \notin bps[i].flags /\ ~bps[i].enabled =>
      curbp = i /\ pc \in {"wait", "handle", "stepped", "fatal"}

\* What holds of the record single_step has lifted, until it is armed again:
\* nothing else has taken its place, and my-dbg is in the middle of that step.
SteppedOver ==
  curbp # 0 =>
    /\ pc \in {"wait", "handle", "stepped", "fatal"}
    /\ step
    /\ IsCode(curbp)
    /\ ~bps[curbp].enabled
    /\ SavedOriginals => \A i \in DOMAIN bps : ~EnabledAt(i, bps[curbp].addr)

CodeMapped == \A i \in DOMAIN bps : IsCode(i) => bps[i].addr \in Addr

SyscallStopsTrap ==
  /\ stop.cause = "syscall" => stop.sig = SIGTRAP
  /\ wstatus.cause = "syscall" => wstatus.sig = SIGTRAP

\* The three facts about the table as one that every step keeps: the trap of
\* the record being stepped over is out of the text, its place is free, and
\* neither a command nor a syscall stop can come between its two toggles.
TableInv ==
  /\ TypeOK
  /\ CodeMapped
  /\ SyscallStopsTrap
  /\ SteppedOver
  /\ TrapsMatchTable
  /\ NoLostBreakpoint

-----------------------------------------------------------------------------
(* Signals. *)

CodeBpDeleted == \E i \in DOMAIN bps : IsCode(i) /\ bps[i].deleted

\* The signal that stopped the program last is delivered when my-dbg resumes
\* it, once; the SIGTRAPs my-dbg causes itself are not.  (A SIGTRAP sent by
\* somebody else cannot be told from them and is not promised anything.)
SignalForwarded ==
  [][pc # "wait" /\ pc' = "wait" =>
       /\ wstatus.cause = "signal" /\ wstatus.sig # SIGTRAP
            => inject' = wstatus.sig
       /\ wstatus.cause \in {"none", "step", "syscall"} => inject' = NoSig
       /\ wstatus.cause = "int3" /\ SavedOriginals /\ ~CodeBpDeleted
            => inject' = NoSig]_vars

-----------------------------------------------------------------------------
(* System calls. *)

Caught ==
  {bps[i].addr : i \in {j \in DOMAIN bps : ~IsCode(j) /\ ~bps[j].deleted}}

\* g_syscalls holds exactly the system calls of the records that are not
\* deleted, as long as only records of system calls were deleted.
CatchListed ==
  ~CodeBpDeleted => {syscalls[s] : s \in DOMAIN syscalls} \ {Deleted} = Caught

\* A syscall stop my-dbg has not counted yet.
Uncounted ==
  stop.cause = "syscall" \/ (pc = "handle" /\ wstatus.cause = "syscall" /\ ~StepDone)

\* g_syscall_entry is true while the program is inside a system call it
\* stopped at the entry of.
InPhase == g_syscall_entry <=> ((insys # NoSys) # Uncounted)

\* The entry flag follows the program through every order of stops, signals,
\* breakpoints and deaths; only a single step out of a system call (its end is
\* reported as a plain SIGTRAP) puts it out of phase.
PhaseKept ==
  [][InPhase /\ ~Dead /\ ~Dead' /\ ~(run = "step" /\ insys # NoSys) => InPhase']_vars

\* While the flag is in phase, a syscall stop returns to the user exactly when
\* it is the entry of a system call some record catches; at any other the
\* program goes on.
CatchExact ==
  [][pc = "handle" /\ IsSyscallStop /\ pc' \notin {"handle", "fatal"} /\ InPhase
       /\ ~CodeBpDeleted /\ ~is_breakpoint(rip - 1) =>
       (pc' = "epilogue" <=> insys # NoSys /\ wstatus.nr \in Caught)]_vars

\* A program that is continued executes the instruction under an armed
\* breakpoint only as the first one, when it stood there.  After a syscall stop
\* that is not reported continue_execution steps over the breakpoint at rip as
\* if it had been: nothing is missed because rip is there already at the entry
\* of the system call, and the step then only ends the call (binary.c:120, :182).
BreakpointsStop ==
  [][pc = "wait" /\ curbp # 0 /\ rip = bps[curbp].addr /\ rip' # rip
       => depth = 0]_vars

-----------------------------------------------------------------------------
(* What every step keeps besides the table: the proofs rest on it. *)

\* The program runs only inside waitpid, under the request that fits `step',
\* and a stop is on its way only there.
StopFits(status) ==
  /\ status.cause = "none" => status = NoStop
  /\ status.cause = "syscall" => ~step
  /\ status.cause = "step" => step /\ status.sig = SIGTRAP
  /\ status.cause = "int3" => status.sig = SIGTRAP /\ Trapped(rip - 1)

RunsInWait ==
  /\ run \in Modes => pc = "wait" /\ stop = NoStop /\ (step <=> run = "step")
  /\ run = "stopped" /\ pc # "wait" => stop = NoStop
  /\ run = "dead" => stop.cause \in {"none", "exit", "killed"}
  /\ StopFits(stop)
  /\ pc = "handle" => StopFits(wstatus) /\ wstatus.cause # "none"

\* PTRACE_SYSCALL is used from the first `breaks' on, so no system call the
\* program was stopped in ends unseen under PTRACE_CONT.
Requests ==
  /\ insys # NoSys \/ run = "syscall" => syscalls # <<>>
  /\ run = "cont" => syscalls = <<>>

SysRecords == {i \in DOMAIN bps : ~IsCode(i)}

\* The slots of g_syscalls and the records of system calls are one to one.
SlotsMatch ==
  /\ \A i \in SysRecords : bps[i].slot \in DOMAIN syscalls /\ bps[i].addr # Deleted
  /\ \A i, j \in SysRecords : bps[i].slot = bps[j].slot => i = j
  /\ \A s \in DOMAIN syscalls : \E i \in SysRecords : bps[i].slot = s
  /\ ~CodeBpDeleted =>
       \A i \in SysRecords :
         syscalls[bps[i].slot] = IF bps[i].deleted THEN Deleted ELSE bps[i].addr

\* Whenever a nested activation of continue_execution stands at an armed
\* breakpoint the program is inside a system call, and a single step never
\* stops there.
StandsInCall ==
  /\ pc = "prompt" => depth = 0
  /\ pc \in {"stepped", "resume"} => step
  /\ depth > 0 /\ pc \in {"continue", "single_step"} /\ is_breakpoint(rip)
       => insys # NoSys
  /\ depth > 0 /\ pc = "wait" /\ curbp # 0 /\ run \in Modes => insys # NoSys
  /\ run \in {"cont", "syscall"} /\ insys # NoSys => ~is_breakpoint(rip)
  /\ stop.cause = "syscall" /\ insys = NoSys => ~is_breakpoint(rip)
  /\ pc = "handle" /\ wstatus.cause = "syscall" /\ insys = NoSys => ~is_breakpoint(rip)
  /\ step /\ run = "stopped" /\ pc \in {"wait", "handle", "stepped", "resume"}
       => insys = NoSys

\* g_signum is what the last stop left to deliver, from the end of
\* wait_program to the next request.
SignalKept ==
  pc \in {"prompt", "continue", "single_step", "stepped", "resume", "epilogue"} =>
    /\ wstatus.cause = "signal" /\ wstatus.sig # SIGTRAP => g_signum = wstatus.sig
    /\ wstatus.cause \in {"none", "step", "syscall"} => g_signum = NoSig
    /\ wstatus.cause = "int3" /\ SavedOriginals /\ ~CodeBpDeleted => g_signum = NoSig

\* The table invariant with what it needs to say about stops, system calls and
\* signals: one conjunction every step of the thread, the program and the
\* outside keeps.
CoreInv ==
  /\ TableInv
  /\ RunsInWait
  /\ Requests
  /\ SlotsMatch
  /\ StandsInCall
  /\ SignalKept

-----------------------------------------------------------------------------
(* The program under the debugger is the program alone. *)

\* The table can no longer undo its changes to the text: a breakpoint was
\* placed on a trap or inside an instruction, or was deleted.
TableDamaged ==
  \E i \in DOMAIN bps :
    IsCode(i) /\ (bps[i].word = "int3" \/ bps[i].deleted \/ bps[i].addr \notin Start)

\* A signal stop right after a breakpoint of one byte is taken for its hit.
SignalTakenForHit ==
  /\ pc = "handle" /\ wstatus.cause = "signal" /\ ~StepDone
  /\ is_breakpoint(rip - 1)

\* The instruction the program is about to execute: a trap that my-dbg has not
\* handled is not executed yet, nor is a system call before its return.
Position ==
  IF Dead THEN -1
  ELSE IF insys # NoSys THEN rip - SyscallSize
  ELSE IF stop.cause = "int3" \/ (pc = "handle" /\ wstatus.cause = "int3")
  THEN rip - 1
  ELSE rip

Disturbed == TableDamaged \/ SignalTakenForHit

Native == INSTANCE NativeExecution WITH
  pos <- Position,
  stack <- frames,
  disturbed <- Disturbed,
  killable <- CanKill \/ inject # NoSig \/ pc \in Ended

\* Breakpoints, steps, catches and signals change nothing in what the program
\* executes: traps are lifted before the instruction under them runs and rip
\* is put back after each of them.
Transparent == Native!Spec

\* A system call the program is in, or whose stop my-dbg has not decoded yet.
AtSyscall ==
  \/ insys # NoSys
  \/ stop.cause = "syscall"
  \/ pc = "handle" /\ wstatus.cause = "syscall"

AtTrap == stop.cause = "int3" \/ (pc = "handle" /\ wstatus.cause = "int3")

\* Why the program stays on its own instructions while the table is sound: the
\* instruction it is about to execute is one of its own, a system call it is in
\* is the one before rip, and a step never meets a trap.
OnInstructions ==
  /\ \A i \in DOMAIN frames : frames[i] \in Start
  /\ ~TableDamaged =>
       /\ ~Dead => Position \in Start
       /\ AtSyscall =>
            /\ rip - SyscallSize \in Start
            /\ Insn[rip - SyscallSize].kind = "syscall"
            /\ insys # NoSys => Insn[rip - SyscallSize].nr = insys
       /\ AtTrap => ~step /\ insys = NoSys
       /\ run = "step" => ~Trapped(rip)

-----------------------------------------------------------------------------
(* Liveness. *)

Idle == pc = "prompt" \/ pc \in Ended

\* When the program dies, at whatever point of a command, the command comes
\* back to the user or my-dbg ends; it does not wait for a dead program.
DeathEndsCommand == (Dead /\ ~Idle) ~> Idle

\* A resumed program that keeps coming to an armed breakpoint is stopped there.
BreakpointReached(a) ==
  (pc = "wait" /\ \E i \in DOMAIN bps : Matches(i, a) /\ TEMP \notin bps[i].flags)
     ~> Idle

=============================================================================
