------------------------------- MODULE Tracee -------------------------------
(***************************************************************************)
(* EXTERNAL.  The traced program and the part of Linux that stops it: what *)
(* my-dbg relies on when it calls ptrace and waitpid.  None of it is code  *)
(* of the repository; it is modelled from how src/binary.c,                *)
(* src/breakpoints.c and src/wrappers/my_syscalls.c use it, for one thread *)
(* on x86-64.                                                              *)
(*                                                                         *)
(* The program is a function from the address of an instruction to what    *)
(* the instruction does to the control flow.  A byte of its text is the    *)
(* compiler's ("orig") or the trap 0xCC the debugger wrote ("int3").       *)
(***************************************************************************)
EXTENDS Integers, Sequences, FiniteSets

CONSTANTS
  Insn,        \* [start address -> [kind, size, next, nr]]
  Entry,       \* the address the program is stopped at after execv
  ExitNo,      \* the number of the system call that ends the process
  Signals,     \* signals other processes send to the program
  MaxSignals,  \* bound: how many of them are sent in one behaviour
  MaxFrames,   \* bound: depth of the program's stack; a deeper call faults
  CanKill      \* may somebody send SIGKILL?

Start == DOMAIN Insn
Bytes(a) == a .. (a + Insn[a].size - 1)
Addr == UNION {Bytes(a) : a \in Start}

SIGTRAP == "SIGTRAP"
SIGSEGV == "SIGSEGV"
NoSig == "none"
NoSys == -1
SyscallSize == 2     \* the instruction `syscall' is 0F 05

Kinds == {"plain", "call", "ret", "syscall"}

\* Instructions do not overlap, control flows to instructions, and the number
\* -1 is no system call.
ASSUME ProgramAssumption ==
  /\ Start \subseteq Int
  /\ Entry \in Start
  /\ \A a \in Start :
       /\ Insn[a].kind \in Kinds
       /\ Insn[a].size \in Nat \ {0}
       /\ Insn[a].next \subseteq Start
       /\ Insn[a].nr \in Int \ {NoSys}
       /\ Insn[a].kind = "call" => a + Insn[a].size \in Start
       /\ Insn[a].kind = "syscall" /\ Insn[a].nr # ExitNo => a + Insn[a].size \in Start
       /\ Insn[a].kind = "syscall" => Insn[a].size = SyscallSize
  /\ \A a, b \in Start : a # b => Bytes(a) \cap Bytes(b) = {}

ASSUME SignalAssumption ==
  /\ NoSig \notin Signals
  /\ MaxSignals \in Nat
  /\ MaxFrames \in Nat
  /\ CanKill \in BOOLEAN
  /\ ExitNo \in Int \ {NoSys}

VARIABLES
  text,    \* the code as it is in the program's memory
  rip,     \* register rip
  frames,  \* return addresses on the stack, innermost last
  run,     \* "stopped", "dead", or the request that resumed the program
  stop,    \* the status waitpid has not fetched yet
  insys,   \* the system call the program has entered and not left, or NoSys
  inject,  \* the signal the last resumption delivers
  sigs     \* how many more signals may be sent

traceeVars == <<text, rip, frames, run, stop, insys, inject, sigs>>

AllSignals == Signals \cup {SIGTRAP, SIGSEGV}
Modes == {"cont", "step", "syscall"}
Causes == {"none", "int3", "step", "syscall", "signal", "exit", "killed"}

\* cause is what happened; the debugger sees only the signal, and for
\* "syscall" the bit 0x80 that PTRACE_O_TRACESYSGOOD adds to it.
Status(cause, sig, nr) == [cause |-> cause, sig |-> sig, nr |-> nr]
NoStop == Status("none", NoSig, NoSys)
Death(cause) == Status(cause, NoSig, NoSys)
StatusType == [cause : Causes, sig : AllSignals \cup {NoSig}, nr : Int]

TraceeTypeOK ==
  /\ text \in [Addr -> {"orig", "int3"}]
  /\ rip \in Int
  /\ frames \in Seq(Int)
  /\ run \in Modes \cup {"stopped", "dead"}
  /\ stop \in StatusType
  /\ insys \in Int
  /\ inject \in AllSignals \cup {NoSig}
  /\ sigs \in Nat

\* setup_binary has fetched the stop that execv causes.
TraceeInit ==
  /\ text = [a \in Addr |-> "orig"]
  /\ rip = Entry
  /\ frames = <<>>
  /\ run = "stopped"
  /\ stop = NoStop
  /\ insys = NoSys
  /\ inject = NoSig
  /\ sigs = MaxSignals

-----------------------------------------------------------------------------
(* Execution of one instruction. *)

Trapped(a) == a \in Addr /\ text[a] = "int3"
Intact(a) == a \in Start /\ \A b \in Bytes(a) : text[b] = "orig"

Executing == run \in Modes /\ inject = NoSig /\ insys = NoSys

StopWith(status) == run' = "stopped" /\ stop' = status

\* Under PTRACE_SINGLESTEP the processor traps after every instruction.
Retire ==
  IF run = "step" THEN StopWith(Status("step", SIGTRAP, NoSys))
                  ELSE UNCHANGED <<run, stop>>

Fault == StopWith(Status("signal", SIGSEGV, NoSys))

Die(cause) == run' = "dead" /\ stop' = Death(cause)

\* 0xCC traps with rip after the byte.
Int3 ==
  /\ Executing /\ Trapped(rip)
  /\ rip' = rip + 1
  /\ StopWith(Status("int3", SIGTRAP, NoSys))
  /\ UNCHANGED <<text, frames, insys, inject, sigs>>

Plain ==
  /\ Executing /\ Intact(rip) /\ Insn[rip].kind = "plain"
  /\ rip' \in Insn[rip].next
  /\ Retire
  /\ UNCHANGED <<text, frames, insys, inject, sigs>>

Call ==
  /\ Executing /\ Intact(rip) /\ Insn[rip].kind = "call"
  /\ IF Len(frames) < MaxFrames
     THEN /\ rip' \in Insn[rip].next
          /\ frames' = Append(frames, rip + Insn[rip].size)
          /\ Retire
     ELSE Fault /\ UNCHANGED <<rip, frames>>
  /\ UNCHANGED <<text, insys, inject, sigs>>

Ret ==
  /\ Executing /\ Intact(rip) /\ Insn[rip].kind = "ret"
  /\ IF frames # <<>>
     THEN /\ rip' = frames[Len(frames)]
          /\ frames' = SubSeq(frames, 1, Len(frames) - 1)
          /\ Retire
     ELSE Fault /\ UNCHANGED <<rip, frames>>
  /\ UNCHANGED <<text, insys, inject, sigs>>

\* Only PTRACE_SYSCALL stops at the entry; rip is already after the instruction.
Syscall ==
  /\ Executing /\ Intact(rip) /\ Insn[rip].kind = "syscall"
  /\ LET nr == Insn[rip].nr IN
       \/ /\ run = "syscall"
          /\ rip' = rip + SyscallSize
          /\ insys' = nr
          /\ StopWith(Status("syscall", SIGTRAP, nr))
       \/ /\ run # "syscall" /\ nr # ExitNo
          /\ rip' = rip + SyscallSize
          /\ insys' = insys
          /\ Retire
       \/ /\ run # "syscall" /\ nr = ExitNo
          /\ UNCHANGED <<rip, insys>>
          /\ Die("exit")
  /\ UNCHANGED <<text, frames, inject, sigs>>

\* A step requested at the entry ends in a plain SIGTRAP, without the bit 0x80.
SyscallReturn ==
  /\ run \in Modes /\ inject = NoSig /\ insys # NoSys
  /\ insys' = NoSys
  /\ IF insys = ExitNo THEN Die("exit")
     ELSE IF run = "syscall" THEN StopWith(Status("syscall", SIGTRAP, insys))
     ELSE Retire
  /\ UNCHANGED <<text, rip, frames, inject, sigs>>

\* Bytes that are no instruction of the program: the processor decodes
\* something else, faults, or finds its way back to some instruction.
Derail ==
  /\ Executing /\ ~Trapped(rip) /\ ~Intact(rip)
  /\ \/ rip' \in Start /\ Retire
     \/ rip' = rip /\ Fault
  /\ UNCHANGED <<text, frames, insys, inject, sigs>>

Execution == Int3 \/ Plain \/ Call \/ Ret \/ Syscall \/ SyscallReturn \/ Derail

-----------------------------------------------------------------------------
(* Signals and death. *)

\* The resumption delivers inject: the program ignores it or dies of it.
TakeSignal ==
  /\ run \in Modes /\ inject # NoSig
  /\ inject' = NoSig
  /\ \/ UNCHANGED <<run, stop>>
     \/ Die("killed")
  /\ UNCHANGED <<text, rip, frames, insys, sigs>>

\* A signal of another process stops the program before it executes anything.
Signal ==
  /\ Executing /\ sigs > 0
  /\ sigs' = sigs - 1
  /\ \E s \in Signals : StopWith(Status("signal", s, NoSys))
  /\ UNCHANGED <<text, rip, frames, insys, inject>>

\* SIGKILL ends the program in any state, stopped ones included.
Kill ==
  /\ CanKill /\ run # "dead"
  /\ Die("killed")
  /\ UNCHANGED <<text, rip, frames, insys, inject, sigs>>

-----------------------------------------------------------------------------
(* Requests of the debugger. *)

\* PTRACE_CONT, PTRACE_SYSCALL or PTRACE_SINGLESTEP with a signal to deliver;
\* the text is what the debugger leaves behind in the same action.
Resume(mode, sig) ==
  /\ run' = mode
  /\ inject' = sig
  /\ UNCHANGED <<rip, frames, stop, insys, sigs>>

\* The kernel kills the program when the debugger is gone (PTRACE_O_EXITKILL).
ExitKill ==
  /\ run # "dead"
  /\ run' = "dead"
  /\ stop' = Death("killed")
  /\ UNCHANGED <<text, rip, frames, insys, inject, sigs>>

=============================================================================
