---------------------------- MODULE LineProperties ----------------------------
(***************************************************************************)
(* What list and breakl may be relied on for.                              *)
(***************************************************************************)
EXTENDS DwarfLine

Status == [running |-> "running", states |-> "complete", DWARFException |-> "refused"]

Table == INSTANCE LineTable WITH
  header <- lconf, regs <- sm, rows <- states, status <- Status[outcome]

\* The header and the program are of their types; the registers and the rows
\* hold unsigned numbers, the file and the line numbers that fit an unsigned.
Row == [address : Nat, op_index : Nat, file : 0 .. Width - 1, line : 0 .. Width - 1,
        end_sequence : BOOLEAN]
LineTypeOK ==
  /\ lconf \in HeaderType /\ instrs \in Seq(Instructions) /\ program \in Seq(0 .. 255)
  /\ i \in 0 .. Len(program) /\ done \in 0 .. Len(instrs)
  /\ sm \in Row /\ states \in Seq(Row)
  /\ outcome \in DOMAIN Status

\* run_machine stands between two instructions, at the one that comes after
\* those it executed, whatever it made of their operands; it has rows when it
\* executed all.
Aligned ==
  /\ program = Encoded(lconf, instrs) /\ i = Len(BytesOf(lconf, instrs)[done])
  /\ outcome = "states" => done = Len(instrs)

\* The operands read_leb128 reads right: of one byte; of two when bit 7 of the
\* value is set, which is where the continuation bit of the first falls; and
\* none that is negative.
ReadRight(n) ==
  CASE n.op \in {"advance_pc", "set_file"} -> n.arg < 128 \/ (n.arg \div 128) % 2 = 1
    [] n.op = "advance_line" ->
         n.arg >= 0 /\ (n.arg < 64 \/ (n.arg \div 128) % 2 = 1)
    [] OTHER -> TRUE

\* The operand of the next instruction is one of those, and what the standard
\* makes of it fits the registers.
Regular ==
  done < Len(instrs) =>
    LET n == instrs[done + 1] IN
    /\ ReadRight(n)
    /\ Table!Changed(n).line \in 0 .. Width - 1
    /\ Table!Changed(n).file \in 0 .. Width - 1

\* Each round of run_machine (dwarf_state_machine.c:228-257) does what the
\* standard says of the next instruction, or refuses it, or ends at the end,
\* after operands that were read wrong as well: such an operand spoils a
\* register until the next instruction sets it, or the next sequence resets it,
\* and nothing else.
InStep == [][Regular => Table!Next]_(Table!vars)

\* Whatever it makes of the operands, run_machine ends: every branch moves on,
\* so dwarf_lines returns the rows or throws DWARFException.
Ends == <>(outcome # "running")

\* my-dbg reads versions 2, 3 and 4 (my_dwarf.c:19): it ends with the matrix
\* the standard promises for the program, or refuses one with an instruction
\* it does not know, before anything after it is read.
TableRefined == Table!Spec

\* The addresses where rows begin, those next to them and those between.
Addresses == {Base + a : a \in {0} \cup UNION {{m.address - 1, m.address, m.address + 1} :
                                               m \in {states[k] : k \in DOMAIN states}}}

\* `list' shows the line the standard gives for rip whenever it gives one: the
\* distances of get_nearest_state (my_dwarf.c:156-191) agree with the ranges
\* between rows.  The one exception is the first address of a sequence another
\* one, later in the program, ends at: that end is shown.
ListShowsCovering ==
  outcome = "states" /\ Table!Ended /\ Table!Apart =>
    \A a \in Addresses : \A k \in DOMAIN states :
      Table!Covers(k, a - Base) =>
        \/ LET n == get_nearest_state(a) IN n # 0 /\ states[n] = states[k]
        \/ \E j \in k + 1 .. Len(states) :
             states[j].end_sequence /\ states[j].address = states[k].address

\* The line `breakl' was given is the one `list' shows once the program has
\* stopped there, unless a later row says otherwise of the same address, or
\* the row has no file.
BreaklThenList ==
  outcome = "states" =>
    \A l \in {states[k].line : k \in DOMAIN states} :
      LET shown == print_line_at_addr(get_line_address_internal(l)) IN
      \/ shown.line = l
      \/ shown.why = "DWARFException" /\ \E k \in DOMAIN states : states[k].file = 0
      \/ \E j, k \in DOMAIN states :
           /\ j < k /\ states[j].line = l /\ states[k].line # l
           /\ states[j].address = states[k].address

\* A program that keeps to the file and directory tables its header declares, and
\* that has no more files than read_leb128 reads the numbers of.
Declared ==
  /\ Files \in Seq(0 .. Directories) /\ Len(Files) \in 1 .. 255 /\ Len(Files) < Width
  /\ \A p \in Programs : \A k \in DOMAIN p :
       p[k].op = "set_file" => p[k].arg \in 0 .. Len(Files)

\* Neither the files nor the directories are read outside their arrays
\* (my_dwarf.c:216, :231) for a program that keeps to those tables, 0 for "no
\* file" included.
FilesInside ==
  outcome = "states" => \A a \in Addresses : print_line_at_addr(a).why # "segv"

=============================================================================
