------------------------------- MODULE MCLines -------------------------------
(***************************************************************************)
(* Line number programs of two sequences for TLC: any two instructions     *)
(* between the start and the end of the first, and a second one before,    *)
(* after or right at the end of it.                                        *)
(***************************************************************************)
EXTENDS LineProperties

Header(version, max_ops, opcode_base) ==
  [version |-> version, minimum_instruction_length |-> 1,
   maximum_operations_per_instruction |-> max_ops,
   line_base |-> -3, line_range |-> 12, opcode_base |-> opcode_base]
AllHeaders == {Header(2, 4, 10), Header(3, 4, 13), Header(4, 2, 14)}

\* Operands read_leb128 and the advance of the line get right, and others.
Small == {Instruction("advance_pc", n) : n \in {1, 200}}
         \cup {Instruction("advance_line", n) : n \in {2, 63}}
Large == {Instruction("advance_pc", 300), Instruction("advance_line", -1),
          Instruction("advance_line", 64)}

Others ==
  {Instruction(op, 0) : op \in DOMAIN Plain \cup {"define_file", "vendor", "unknown"}}
  \cup {Instruction("set_file", 0), Instruction("set_file", 2), Instruction("set_column", 130),
        Instruction("set_isa", 1), Instruction("fixed_advance_pc", 3),
        Instruction("set_discriminator", 200)}
  \cup {Instruction("special", n) : n \in {3, 16, 30}}

Two(middle, second) ==
  {<<Instruction("set_address", 40), Instruction("advance_line", 9), a, b,
     Instruction("advance_pc", 1), Instruction("end_sequence", 0),
     Instruction("set_address", at), c, Instruction("advance_pc", 2),
     Instruction("end_sequence", 0)>> :
   a \in middle, b \in middle, c \in second, at \in {20, 38, 43, 400}}

Second == {Instruction("copy", 0), Instruction("special", 4)}
AllPrograms == Two(Small \cup Large \cup Others, Second)

TwoFiles == <<0, 1>>

\* The hypothesis of two theorems of LineProofs, met by the runs.
ASSUME DeclaredHere == Declared

=============================================================================
