--------------------------- MODULE NativeExecution ---------------------------
(***************************************************************************)
(* What a debugger promises about the program it debugs: however it is     *)
(* stopped, stepped and resumed, the program executes its own instructions *)
(* in their own order, as it would alone.                                  *)
(*                                                                         *)
(* pos is the instruction about to be executed, Gone once the program is   *)
(* dead.  The promise is suspended in the states where disturbed holds:    *)
(* the debugger modules say which, and that nothing else may suspend it.   *)
(***************************************************************************)
EXTENDS Integers, Sequences

CONSTANTS Insn, Entry, ExitNo, MaxFrames

VARIABLES pos, stack, disturbed, killable

Gone == -1

Init == pos = Entry /\ stack = <<>> /\ ~disturbed

At(kind) == pos \in DOMAIN Insn /\ Insn[pos].kind = kind

After == pos + Insn[pos].size

Jump == At("plain") /\ pos' \in Insn[pos].next /\ stack' = stack

Call ==
  /\ At("call") /\ Len(stack) < MaxFrames
  /\ pos' \in Insn[pos].next
  /\ stack' = Append(stack, After)

Ret ==
  /\ At("ret") /\ stack # <<>>
  /\ pos' = stack[Len(stack)]
  /\ stack' = SubSeq(stack, 1, Len(stack) - 1)

\* A system call has been executed when the program leaves it.
Syscall ==
  /\ At("syscall") /\ Insn[pos].nr # ExitNo
  /\ pos' = After
  /\ stack' = stack

\* The program ends by its own exit; killable says when a signal, that of a
\* fault of its own included, or SIGKILL may end it.
End ==
  /\ pos' = Gone
  /\ stack' = stack
  /\ \/ killable
     \/ At("syscall") /\ Insn[pos].nr = ExitNo

Execute == Jump \/ Call \/ Ret \/ Syscall

Next == Execute \/ End \/ disturbed \/ disturbed'

Spec == Init /\ [][Next]_<<pos, stack>>

=============================================================================
