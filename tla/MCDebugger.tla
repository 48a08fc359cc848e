----------------------------- MODULE MCDebugger -----------------------------
(***************************************************************************)
(* Small programs and inputs for TLC.                                      *)
(*                                                                         *)
(*    0  call 8    (2 bytes)         8  nop       (1 byte)                 *)
(*    2  mov       (2 bytes)         9  syscall   (write)                  *)
(*    4  jcc 0     (2 bytes)        11  ret       (1 byte)                 *)
(*    6  syscall   (exit)                                                  *)
(*                                                                         *)
(* It has a loop, a call, breakpoints of one byte and of two, a system     *)
(* call followed by an instruction one can break on, and an end.  The      *)
(* address 100 in a configuration is one the program has not mapped.       *)
(***************************************************************************)
EXTENDS DocumentedClaims

Write == 1
ExitGroup == 231

I(kind, size, next, nr) == [kind |-> kind, size |-> size, next |-> next, nr |-> nr]

Program == [a \in {0, 2, 4, 6, 8, 9, 11} |->
  CASE a = 0 -> I("call", 2, {8}, 0)
    [] a = 2 -> I("plain", 2, {4}, 0)
    [] a = 4 -> I("plain", 2, {0, 6}, 0)
    [] a = 6 -> I("syscall", 2, {}, ExitGroup)
    [] a = 8 -> I("plain", 1, {9}, 0)
    [] a = 9 -> I("syscall", 2, {}, Write)
    [] a = 11 -> I("ret", 1, {}, 0)]

\* A breakpoint at the head of the loop stops a program that keeps looping.
LoopBreakpointReached == BreakpointReached(2)

=============================================================================
