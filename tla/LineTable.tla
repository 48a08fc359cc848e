------------------------------ MODULE LineTable ------------------------------
(***************************************************************************)
(* What the DWARF standard promises of a line number program: the rows of  *)
(* its matrix, one instruction after another (external: no code of my-dbg).*)
(* A reader either delivers the whole matrix or refuses a program that     *)
(* uses an instruction outside those it supports.  Of the registers, those *)
(* are kept that my-dbg ever reads.                                        *)
(***************************************************************************)
EXTENDS Integers, Sequences, FiniteSets

VARIABLES
  header,  \* of the unit
  instrs,  \* the program
  done,    \* how many instructions were executed
  regs,
  rows,
  status   \* "running", "complete", "refused"

vars == <<header, instrs, done, regs, rows, status>>

Unsupported == {"define_file", "vendor", "unknown"}

Initial == [address |-> 0, op_index |-> 0, file |-> 1, line |-> 1, end_sequence |-> FALSE]

\* 6.2.5.1: operations of a VLIW instruction, one per instruction before version 4
Operations == IF header.version < 4 THEN 1
              ELSE header.maximum_operations_per_instruction
Advance(r, n) ==
  [r EXCEPT !.address = @ + header.minimum_instruction_length
                            * ((r.op_index + n) \div Operations),
            !.op_index = (@ + n) % Operations]

AfterSpecial(adjusted) ==
  [Advance(regs, adjusted \div header.line_range) EXCEPT
     !.line = @ + header.line_base + (adjusted % header.line_range)]

Changed(i) ==
  CASE i.op = "special" -> AfterSpecial(i.arg)
    [] i.op = "advance_pc" -> Advance(regs, i.arg)
    [] i.op = "const_add_pc" ->
         Advance(regs, (255 - header.opcode_base) \div header.line_range)
    [] i.op = "fixed_advance_pc" -> [regs EXCEPT !.address = @ + i.arg, !.op_index = 0]
    [] i.op = "set_address" -> [regs EXCEPT !.address = i.arg, !.op_index = 0]
    [] i.op = "advance_line" -> [regs EXCEPT !.line = @ + i.arg]
    [] i.op = "set_file" -> [regs EXCEPT !.file = i.arg]
    [] i.op = "end_sequence" -> [regs EXCEPT !.end_sequence = TRUE]
    [] OTHER -> regs

Init ==
  /\ done = 0 /\ regs = Initial /\ rows = <<>> /\ status = "running"

Execute ==
  /\ status = "running" /\ done < Len(instrs)
  /\ LET i == instrs[done + 1] IN
     /\ i.op \notin Unsupported
     /\ rows' = IF i.op \in {"copy", "special", "end_sequence"}
                THEN Append(rows, Changed(i)) ELSE rows
     /\ regs' = IF i.op = "end_sequence" THEN Initial ELSE Changed(i)
  /\ done' = done + 1
  /\ UNCHANGED <<header, instrs, status>>

Refuse ==
  /\ status = "running" /\ done < Len(instrs)
  /\ instrs[done + 1].op \in Unsupported
  /\ status' = "refused"
  /\ UNCHANGED <<header, instrs, done, regs, rows>>

Complete ==
  /\ status = "running" /\ done = Len(instrs)
  /\ status' = "complete"
  /\ UNCHANGED <<header, instrs, done, regs, rows>>

Next == Execute \/ Refuse \/ Complete

Spec == Init /\ [][Next]_vars /\ WF_vars(Next)

-----------------------------------------------------------------------------

\* The rows r stands for an address: of a sequence, the last row not above it.
Covers(k, address) ==
  /\ k \in DOMAIN rows /\ ~rows[k].end_sequence /\ k + 1 \in DOMAIN rows
  /\ rows[k].address <= address /\ address < rows[k + 1].address
Covered(address) == \E k \in DOMAIN rows : Covers(k, address)

\* The last row ends its sequence.
Ended == rows # <<>> => rows[Len(rows)].end_sequence

\* Addresses do not decrease within a sequence, and no two sequences overlap:
\* whatever their order, one is below the other.
SequenceOf(k) == Cardinality({j \in 1 .. k - 1 : rows[j].end_sequence})
Apart ==
  \A j, k \in DOMAIN rows :
    IF SequenceOf(j) = SequenceOf(k) THEN j < k => rows[j].address <= rows[k].address
    ELSE rows[j].address < rows[k].address =>
           \A l, m \in DOMAIN rows :
             SequenceOf(l) = SequenceOf(j) /\ SequenceOf(m) = SequenceOf(k) =>
               rows[l].address <= rows[m].address

=============================================================================
