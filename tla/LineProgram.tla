----------------------------- MODULE LineProgram -----------------------------
(***************************************************************************)
(* The line number programs compilers put in .debug_line, versions 2 to 4  *)
(* of the DWARF standard: not code of my-dbg, but what it is given.  An    *)
(* instruction is its name and its operand; Encoded is what the assembler  *)
(* writes.                                                                 *)
(***************************************************************************)
EXTENDS Integers, Sequences, SequencesExt

Instruction(op, arg) == [op |-> op, arg |-> arg]

\* The numbers the standard gives, by the form of the operand.
Plain == [copy |-> 1, negate_stmt |-> 6, set_basic_block |-> 7, const_add_pc |-> 8,
          set_prologue_end |-> 10, set_epilogue_begin |-> 11]
Unsigned == [advance_pc |-> 2, set_file |-> 4, set_column |-> 5, set_isa |-> 12]
Extended == [end_sequence |-> 1, set_address |-> 2, define_file |-> 3,
             set_discriminator |-> 4, vendor |-> 128]

\* Bound: operands below 2^13 in magnitude, which take one byte or two.
MaxOperand == 8191
\* Bound: addresses and fixed operands of two bytes.
MaxFixed == 65535
ULEB(n) == IF n < 128 THEN <<n>> ELSE <<128 + (n % 128), n \div 128>>
SLEB(n) == IF n \in -64 .. 63 THEN <<n % 128>>
           ELSE <<128 + (n % 128), (n \div 128) % 128>>
Fixed(n, size) ==
  [k \in 1 .. size |-> IF k <= 2 THEN (n \div (IF k = 1 THEN 1 ELSE 256)) % 256 ELSE 0]

ExtendedOperand(i) ==
  CASE i.op = "set_address" -> Fixed(i.arg, 8)
    [] i.op = "set_discriminator" -> ULEB(i.arg)
    [] i.op = "define_file" -> <<97, 0, 0, 0, 0>>
    [] OTHER -> <<>>

\* An unknown standard opcode has no operand here.
EncodedOne(header, i) ==
  CASE i.op \in DOMAIN Plain -> <<Plain[i.op]>>
    [] i.op \in DOMAIN Unsigned -> <<Unsigned[i.op]>> \o ULEB(i.arg)
    [] i.op = "advance_line" -> <<3>> \o SLEB(i.arg)
    [] i.op = "fixed_advance_pc" -> <<9>> \o Fixed(i.arg, 2)
    [] i.op = "special" -> <<header.opcode_base + i.arg>>
    [] i.op = "unknown" -> <<13>>
    [] i.op \in DOMAIN Extended ->
         <<0>> \o ULEB(1 + Len(ExtendedOperand(i))) \o <<Extended[i.op]>>
         \o ExtendedOperand(i)

\* The bytes of the first n instructions, and of all.
BytesOf(header, instructions) ==
  LET bytes[n \in 0 .. Len(instructions)] ==
        IF n = 0 THEN <<>> ELSE bytes[n - 1] \o EncodedOne(header, instructions[n])
  IN bytes
Encoded(header, instructions) == BytesOf(header, instructions)[Len(instructions)]

\* What a header lets a program use.
Encodable(header, i) ==
  CASE i.op \in DOMAIN Plain -> Plain[i.op] < header.opcode_base
    [] i.op \in DOMAIN Unsigned -> Unsigned[i.op] < header.opcode_base
    [] i.op = "advance_line" -> 3 < header.opcode_base
    [] i.op = "fixed_advance_pc" -> 9 < header.opcode_base
    [] i.op = "special" -> header.opcode_base + i.arg <= 255
    [] i.op = "unknown" -> header.opcode_base > 13
    [] OTHER -> TRUE

\* The instructions there are, with operands in their ranges.
Names == DOMAIN Plain \cup DOMAIN Unsigned \cup DOMAIN Extended
         \cup {"advance_line", "fixed_advance_pc", "special", "unknown"}
Operands(op) ==
  CASE op \in DOMAIN Unsigned \cup {"set_discriminator"} -> 0 .. MaxOperand
    [] op = "advance_line" -> -MaxOperand .. MaxOperand
    [] op \in {"fixed_advance_pc", "set_address"} -> 0 .. MaxFixed
    [] op = "special" -> 0 .. 254
    [] OTHER -> {0}
Instructions == {n \in [op : Names, arg : Int] : n.arg \in Operands(n.op)}

=============================================================================
