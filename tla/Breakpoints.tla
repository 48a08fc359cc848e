----------------------------- MODULE Breakpoints -----------------------------
(***************************************************************************)
(* The breakpoint table of src/breakpoints.c and the table of caught       *)
(* system calls of src/syscalls.c, over the text of the traced program.    *)
(*                                                                         *)
(* Both tables are arrays that only grow: a record is never removed, its   *)
(* index is the ID the user sees.  A record's `word' stands for the low    *)
(* byte of the word PTRACE_PEEKDATA returned when it was placed (the other *)
(* seven bytes are written back as they were read).  For a record of a     *)
(* system call the code reuses `word' as an index into g_syscalls; that    *)
(* use is the field `slot' here.                                           *)
(***************************************************************************)
EXTENDS Tracee

VARIABLES
  bps,       \* g_breakpoints, bps[i] is the record of ID i
  syscalls   \* g_syscalls; the empty sequence is the NULL pointer

bpVars == <<bps, syscalls>>

TEMP == "TEMP"
INTERNAL == "INTERNAL"
SYSCALL == "SYSCALL"
Flags == {TEMP, INTERNAL, SYSCALL}

Deleted == -1        \* what break_del stores into g_syscalls

BpType == [flags : SUBSET Flags, addr : Int, word : {"orig", "int3"},
           slot : Nat, enabled : BOOLEAN, deleted : BOOLEAN]

BreakpointsTypeOK ==
  /\ bps \in Seq(BpType)
  /\ syscalls \in Seq(Int)

BreakpointsInit == bps = <<>> /\ syscalls = <<>>

-----------------------------------------------------------------------------

IsCode(i) == SYSCALL \notin bps[i].flags

\* The record get_breakpoint looks for.
Matches(i, a) ==
  /\ bps[i].addr = a
  /\ bps[i].enabled
  /\ ~bps[i].deleted
  /\ IsCode(i)

is_breakpoint(a) == \E i \in DOMAIN bps : Matches(i, a)

\* get_breakpoint(a) returns record i: the first that matches.
get_breakpoint(a, i) ==
  /\ i \in DOMAIN bps
  /\ Matches(i, a)
  /\ \A j \in 1 .. (i - 1) : ~Matches(j, a)

\* Mutant: every disabled breakpoint stays disabled, temporary or not.
ToggleIsNoop_AnyDisabled(i) == ~bps[i].enabled

\* A temporary breakpoint that has been disabled is never armed again.
ToggleIsNoop(i) == ~bps[i].enabled /\ TEMP \in bps[i].flags

\* Mutant: is_enabled is flipped before it chooses the byte to write.
toggle_breakpoint_FlippedFirst(i) ==
  IF ToggleIsNoop(i)
  THEN UNCHANGED <<bps, text>>
  ELSE /\ text' = [text EXCEPT ![bps[i].addr] =
                     IF bps[i].enabled THEN "int3" ELSE bps[i].word]
       /\ bps' = [bps EXCEPT ![i].enabled = ~bps[i].enabled]

toggle_breakpoint(i) ==
  IF ToggleIsNoop(i)
  THEN UNCHANGED <<bps, text>>
  ELSE /\ text' = [text EXCEPT ![bps[i].addr] =
                     IF bps[i].enabled THEN bps[i].word ELSE "int3"]
       /\ bps' = [bps EXCEPT ![i].enabled = ~bps[i].enabled]

\* Whatever the byte at a is at this moment is saved as the original one.
place_breakpoint(a, flags) ==
  /\ bps' = Append(bps, [flags |-> flags, addr |-> a, word |-> text[a],
                         slot |-> 0, enabled |-> TRUE, deleted |-> FALSE])
  /\ text' = [text EXCEPT ![a] = "int3"]

\* Mutant: the record's index is the length before the realloc, off by one.
add_syscall_break_PreviousSlot(n) ==
  /\ syscalls' = Append(syscalls, n)
  /\ bps' = Append(bps, [flags |-> {SYSCALL}, addr |-> n, word |-> "orig",
                         slot |-> Len(syscalls),
                         enabled |-> TRUE, deleted |-> FALSE])

add_syscall_break(n) ==
  /\ syscalls' = Append(syscalls, n)
  /\ bps' = Append(bps, [flags |-> {SYSCALL}, addr |-> n, word |-> "orig",
                         slot |-> Len(syscalls) + 1,
                         enabled |-> TRUE, deleted |-> FALSE])

in_syscalls(n) == n # -1 /\ \E i \in DOMAIN syscalls : syscalls[i] = n

\* bp->deleted = 1
MarkDeleted(i) == bps' = [bps EXCEPT ![i].deleted = TRUE]

\* g_syscalls[bp->word] = -1 with the index add_syscall_break stored.
ClearSlot(i) == syscalls' = [syscalls EXCEPT ![bps[i].slot] = Deleted]

\* The same assignment when bp->word is eight bytes of code and the address
\* they give is writable: it lands in memory that is no part of the tables, or
\* happens to hit an entry.  Without an array the bytes are added to NULL, and
\* no writable page is found that way.
StrayWrite ==
  /\ syscalls # <<>>
  /\ \/ UNCHANGED syscalls
     \/ \E s \in DOMAIN syscalls : syscalls' = [syscalls EXCEPT ![s] = Deleted]

=============================================================================
