------------------------------ MODULE DwarfLine ------------------------------
(***************************************************************************)
(* How list and breakl read .debug_line: src/infos/dwarf_state_machine.c   *)
(* runs the line number program byte by byte, src/infos/my_dwarf.c looks   *)
(* the address or the line up in what comes out.                           *)
(*                                                                         *)
(* The registers column, isa, discriminator, is_stmt, basic_block,         *)
(* prologue_end and epilogue_begin are written and never read: only the    *)
(* operands of the instructions that write them matter.                    *)
(***************************************************************************)
EXTENDS LineProgram

CONSTANTS
  Headers,   \* the headers of units
  Programs,  \* the line number programs, as sequences of instructions
  Width,     \* the values of an unsigned: 2^32, less for TLC
  Base,      \* where the program is loaded
  Files,     \* file table: the index of the directory of each
  Directories \* how many include_directories there are

HeaderType ==
  [version : Nat, minimum_instruction_length : Nat,
   maximum_operations_per_instruction : Nat, line_base : Int,
   line_range : Nat \ {0}, opcode_base : 1 .. 255]

ASSUME LineAssumption ==
  /\ Width \in Nat \ {0, 1} /\ Base \in Nat
  /\ \A h \in Headers :
       h \in HeaderType /\ (h.version >= 4 => h.maximum_operations_per_instruction > 0)
  /\ \A p \in Programs : p \in Seq(Instructions)
  /\ Files \in Seq(Nat) /\ Directories \in Nat

VARIABLES
  lconf,    \* the header
  instrs,   \* what the compiler wrote
  program,  \* the bytes of it
  i,        \* how many of them run_machine has read
  sm,       \* the registers
  states,   \* the rows
  outcome,  \* "running", "states" or "DWARFException"
  done      \* ghost: instructions executed

lineVars == <<lconf, instrs, program, i, sm, states, outcome, done>>

DW_LNS == [copy |-> 1, advance_pc |-> 2, advance_line |-> 3, set_file |-> 4,
           set_column |-> 5, negate_stmt |-> 6, set_basic_block |-> 7, const_add_pc |-> 8,
           fixed_advance_pc |-> 9, set_prologue_end |-> 10, set_epilogue_begin |-> 11,
           set_isa |-> 12]
DW_LNE == [end_sequence |-> 1, set_address |-> 2, define_file |-> 3,
           set_discriminator |-> 4]

\* VAL: a header before version 4 has no maximum_operations_per_instruction.
VAL(key) ==
  IF lconf.version < 4 /\ key = "maximum_operations_per_instruction" THEN 1
  ELSE lconf[key]

\* What follows the program in the section is not ours; zeros are.
Byte(p) == IF p < Len(program) THEN program[p + 1] ELSE 0
Number(p, size) == Byte(p) + (IF size > 1 THEN 256 * Byte(p + 1) ELSE 0)

\* byte is promoted to int, so that (byte << 1) >> 1 keeps its bit 7; when the
\* next byte is or'ed in, that bit is its bit 0.  At most four bytes: the
\* shifts beyond are undefined.
LastByte(p) ==
  CHOOSE q \in p .. p + 3 : Byte(q) < 128 /\ \A r \in p .. q - 1 : Byte(r) >= 128
Ored(p, k, weight) ==
  IF p + k <= LastByte(p) THEN (Byte(p + k) - (Byte(p + k) % 2)) * weight ELSE 0
read_leb128(p) == Byte(p) + Ored(p, 1, 128) + Ored(p, 2, 16384) + Ored(p, 3, 2097152)
after_leb128(p) == LastByte(p) + 1

reset_machine ==
  [address |-> 0, op_index |-> 0, file |-> 1, line |-> 1, end_sequence |-> FALSE]

advance_addr_and_op_index(m, op_adv) ==
  [m EXCEPT
     !.address = @ + VAL("minimum_instruction_length")
                     * ((m.op_index + op_adv) \div VAL("maximum_operations_per_instruction")),
     !.op_index = (@ + op_adv) % VAL("maximum_operations_per_instruction")]

clone_state(m) == states' = Append(states, m)

Init ==
  /\ lconf \in Headers
  /\ instrs \in {p \in Programs : \A k \in DOMAIN p : Encodable(lconf, p[k])}
  /\ program = Encoded(lconf, instrs)
  /\ i = 0 /\ sm = reset_machine /\ states = <<>> /\ outcome = "running" /\ done = 0

Running == outcome = "running" /\ i < Len(program)

Read(next) == i' = next /\ done' = done + 1

\* Mutant: what is not known is warned about and its first byte skipped.
DWARFException_Skip == Read(i + 1) /\ UNCHANGED <<sm, states, outcome>>

\* Mutant: what is not known is warned about, and read again.
DWARFException_Again == UNCHANGED <<i, sm, states, outcome, done>>

DWARFException ==
  outcome' = "DWARFException" /\ UNCHANGED <<i, sm, states, done>>

-----------------------------------------------------------------------------

\* Mutant: the registers are kept at the end of a sequence.
extended_instruction_NoReset ==
  /\ Running /\ Byte(i) = 0
  /\ LET p == after_leb128(i + 1) + 1
         opcode == Byte(p - 1)
     IN \/ /\ opcode = DW_LNE.end_sequence
           /\ clone_state([sm EXCEPT !.end_sequence = TRUE])
           /\ Read(p) /\ UNCHANGED <<sm, outcome>>
        \/ /\ opcode = DW_LNE.set_address
           /\ sm' = [sm EXCEPT !.address = Number(p, 8), !.op_index = 0]
           /\ Read(p + 8) /\ UNCHANGED <<states, outcome>>
        \/ /\ opcode = DW_LNE.set_discriminator
           /\ Read(after_leb128(p)) /\ UNCHANGED <<sm, states, outcome>>
        \/ /\ opcode \notin {DW_LNE.end_sequence, DW_LNE.set_address,
                             DW_LNE.set_discriminator}
           /\ DWARFException
  /\ UNCHANGED <<lconf, instrs, program>>

\* The length that precedes the opcode is read and not used.
extended_instruction ==
  /\ Running /\ Byte(i) = 0
  /\ LET p == after_leb128(i + 1) + 1
         opcode == Byte(p - 1)
     IN \/ /\ opcode = DW_LNE.end_sequence
           /\ clone_state([sm EXCEPT !.end_sequence = TRUE])
           /\ sm' = reset_machine
           /\ Read(p) /\ UNCHANGED outcome
        \/ /\ opcode = DW_LNE.set_address
           /\ sm' = [sm EXCEPT !.address = Number(p, 8), !.op_index = 0]
           /\ Read(p + 8) /\ UNCHANGED <<states, outcome>>
        \/ /\ opcode = DW_LNE.set_discriminator
           /\ Read(after_leb128(p)) /\ UNCHANGED <<sm, states, outcome>>
        \/ /\ opcode \notin {DW_LNE.end_sequence, DW_LNE.set_address,
                             DW_LNE.set_discriminator}
           /\ DWARFException
  /\ UNCHANGED <<lconf, instrs, program>>

\* The opcodes that write a register nobody reads: without and with an operand.
Marks == {DW_LNS.negate_stmt, DW_LNS.set_basic_block, DW_LNS.set_prologue_end,
          DW_LNS.set_epilogue_begin}
Notes == {DW_LNS.set_column, DW_LNS.set_isa}

standard_instruction ==
  /\ Running /\ Byte(i) # 0 /\ Byte(i) < VAL("opcode_base")
  /\ LET opcode == Byte(i)
         p == i + 1
         operand == read_leb128(p)
     IN \/ /\ opcode = DW_LNS.copy
           /\ clone_state(sm) /\ Read(p) /\ UNCHANGED <<sm, outcome>>
        \/ /\ opcode = DW_LNS.advance_pc
           /\ sm' = advance_addr_and_op_index(sm, operand)
           /\ Read(after_leb128(p)) /\ UNCHANGED <<states, outcome>>
        \/ /\ opcode = DW_LNS.advance_line
           /\ sm' = [sm EXCEPT !.line = (@ + operand) % Width]
           /\ Read(after_leb128(p)) /\ UNCHANGED <<states, outcome>>
        \/ /\ opcode = DW_LNS.set_file
           /\ sm' = [sm EXCEPT !.file = operand % Width]
           /\ Read(after_leb128(p)) /\ UNCHANGED <<states, outcome>>
        \/ /\ opcode \in Notes
           /\ Read(after_leb128(p)) /\ UNCHANGED <<sm, states, outcome>>
        \/ /\ opcode \in Marks
           /\ Read(p) /\ UNCHANGED <<sm, states, outcome>>
        \/ /\ opcode = DW_LNS.const_add_pc
           /\ sm' = advance_addr_and_op_index(
                      sm, (255 - VAL("opcode_base")) \div VAL("line_range"))
           /\ Read(p) /\ UNCHANGED <<states, outcome>>
        \/ /\ opcode = DW_LNS.fixed_advance_pc
           /\ sm' = [sm EXCEPT !.address = @ + Number(p, 2), !.op_index = 0]
           /\ Read(p + 2) /\ UNCHANGED <<states, outcome>>
        \/ /\ \A name \in DOMAIN DW_LNS : opcode # DW_LNS[name]
           /\ DWARFException
  /\ UNCHANGED <<lconf, instrs, program>>

special_instruction ==
  /\ Running /\ Byte(i) >= VAL("opcode_base")
  /\ LET adj_opcode == Byte(i) - VAL("opcode_base")
         op_adv == adj_opcode \div VAL("line_range")
         moved == [sm EXCEPT !.line = (@ + VAL("line_base")
                                         + (adj_opcode % VAL("line_range"))) % Width]
     IN /\ sm' = advance_addr_and_op_index(moved, op_adv)
        /\ clone_state(sm')
  /\ Read(i + 1)
  /\ UNCHANGED <<lconf, instrs, program, outcome>>

run_machine_end ==
  /\ outcome = "running" /\ i >= Len(program)
  /\ outcome' = "states"
  /\ UNCHANGED <<lconf, instrs, program, i, sm, states, done>>

run_machine ==
  extended_instruction \/ standard_instruction \/ special_instruction \/ run_machine_end

-----------------------------------------------------------------------------
(* Looking up.  The result of print_line_at_addr is the row it prints, with *)
(* the directory, or why it prints none.                                    *)

\* addr_dist is LONG_MAX, which is no distance in an address space, for a row
\* above addr; of the rows at the least distance the last is kept.
Reached(addr) == {k \in DOMAIN states : Base + states[k].address <= addr}
addr_dist(k, addr) == addr - (Base + states[k].address)
Nearest(addr) ==
  {k \in Reached(addr) : \A j \in Reached(addr) : addr_dist(k, addr) <= addr_dist(j, addr)}

\* Mutant: of rows at the same distance the first is kept.
get_nearest_state_FirstKept(addr) ==
  IF Nearest(addr) = {} THEN 0 ELSE Min(Nearest(addr))

\* The index of a row, 0 for NULL.
get_nearest_state(addr) == IF Nearest(addr) = {} THEN 0 ELSE Max(Nearest(addr))

Nothing(why) == [why |-> why, file |-> 0, dir |-> 0, line |-> 0]

\* Mutant: file 0 is not looked for.
print_line_at_addr_AnyFile(addr) ==
  LET near == get_nearest_state(addr)
      file == states[near].file
  IN IF near = 0 THEN Nothing("No line found")
     ELSE IF file \notin DOMAIN Files THEN Nothing("segv")
     ELSE IF Files[file] > Directories + 1 THEN Nothing("segv")
     ELSE [why |-> "", file |-> file, dir |-> Files[file], line |-> states[near].line]

\* files ends with NULL, which is read through, and so does include_directories:
\* the directory after the last is none, further ones are not of the array.
\* Directory 0 stands for that of the executable.
print_line_at_addr(addr) ==
  LET near == get_nearest_state(addr)
      file == states[near].file
  IN IF near = 0 THEN Nothing("No line found")
     ELSE IF file = 0 THEN Nothing("DWARFException")
     ELSE IF file > Len(Files) \/ Files[file] > Directories + 1 THEN Nothing("segv")
     ELSE [why |-> "", file |-> file, dir |-> Files[file], line |-> states[near].line]

\* Mutant: the first line that is not before the wanted one.
get_line_address_internal_AtLeast(line) ==
  LET k == SelectInSeq(states, LAMBDA m : m.line >= line) IN
  IF k = 0 THEN "DWARFException" ELSE Base + states[k].address

\* The file is not looked at.
get_line_address_internal(line) ==
  LET k == SelectInSeq(states, LAMBDA m : m.line = line) IN
  IF k = 0 THEN "DWARFException" ELSE Base + states[k].address

LineTerminated == outcome # "running" /\ UNCHANGED lineVars

Next == run_machine \/ LineTerminated

Spec == Init /\ [][Next]_lineVars /\ WF_lineVars(run_machine)

=============================================================================
