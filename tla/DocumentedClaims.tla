-------------------------- MODULE DocumentedClaims --------------------------
(***************************************************************************)
(* What the README, a message or a comment of the repository says of the   *)
(* execution core, stated as it is said.  The code does not live up to     *)
(* these: each has a run in which TLC finds the behaviour that shows it.   *)
(***************************************************************************)
EXTENDS DebuggerProperties

\* README:101, break_del is to "Delete a breakpoint": it is none any more, and
\* the program is not sent the SIGTRAP of a trap my-dbg wrote into its text
\* (binary.c:93 keeps the ones of its breakpoints from it).
TrapNotDelivered ==
  [][pc # "wait" /\ pc' = "wait" /\ wstatus.cause = "int3" /\ SavedOriginals
       => inject' # SIGTRAP]_vars

\* binary.c:88 announces "Breakpoint %zu at %p" and puts rip back for a stop
\* that was a breakpoint.
RewindOnlyAfterTrap ==
  [][pc = "handle" /\ rip' # rip => wstatus.cause = "int3"]_vars

\* README:93, breaks is for "syscall entry": only entries are reported.
CatchOnlyAtEntry ==
  [][pc = "handle" /\ IsSyscallStop /\ pc' = "epilogue" => insys # NoSys]_vars

=============================================================================
