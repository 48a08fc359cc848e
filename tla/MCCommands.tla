----------------------------- MODULE MCCommands -----------------------------
(***************************************************************************)
(* The functions of my-dbg under the exception mechanism, for TLC.         *)
(***************************************************************************)
EXTENDS MCFlow, CommandFlow

Addresses == 1 .. 17

\* Bound: the loops that read one entry of a table of the program after another
\* do not go round again once MaxLooped blocks are listed.  The code after them
\* is reached with any number up to that, and runs with addresses to spare.
MaxLooped == 2
TableLoops ==
  {"get_program_header", "get_dynamic_entry", "get_address_dyn",
   "get_address_gnu_hash", "get_address_internal"}
LoopBound ==
  ~(/\ Active("goto") \/ Active("if")
    /\ Top.fn \in TableLoops
    /\ Len(blocks) > MaxLooped
    /\ calls' # calls
    /\ calls'[Len(calls)].at <= Top.at)

\* Bound: no more than one string of a command fails in the middle.
OneFailedString == Cardinality(Listed \ (heap \cup {NULL})) <= 1

=============================================================================
