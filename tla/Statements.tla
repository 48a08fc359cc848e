----------------------------- MODULE Statements -----------------------------
(***************************************************************************)
(* The statements a C function is reduced to when the only questions are   *)
(* which functions it calls, what it may throw, which resources it takes   *)
(* and gives back, and where its try blocks are.                           *)
(*                                                                         *)
(* A function is a map from line numbers of its source file to statements. *)
(* Control goes from a line to the next one of the map unless the          *)
(* statement says otherwise.                                               *)
(***************************************************************************)
None == "None"
Exception == "Exception"
PtraceException == "PtraceException"
WaitException == "WaitException"
ScanfException == "ScanfException"
PrintfException == "PrintfException"
IOException == "IOException"
MemoryException == "MemoryException"
ELFException == "ELFException"
SyscallException == "SyscallException"
DisasmException == "DisasmException"
UnwindException == "UnwindException"
DWARFException == "DWARFException"

Exceptions ==
  {Exception, PtraceException, WaitException, ScanfException, PrintfException,
   IOException, MemoryException, ELFException, SyscallException,
   DisasmException, UnwindException, DWARFException}

\* arg: what the statement is about; fns: the functions it may call; exs: what
\* it may throw or catches; to: a line.
Statement(op, arg, fns, exs, to) ==
  [op |-> op, arg |-> arg, fns |-> fns, exs |-> exs, to |-> to]

\* Calls of functions.  Hand passes the resources of the caller on.
Call(f) == Statement("call", "", {f}, {}, 0)
CallOne(fs) == Statement("call", "", fs, {}, 0)
Hand(f) == Statement("call", "hand", {f}, {}, 0)

\* Conditions of the program that the model does not follow go both ways.
If(line) == Statement("if", "", {}, {}, line)
IfCond(cond, line) == Statement("if", cond, {}, {}, line)
Goto(line) == Statement("goto", "", {}, {}, line)
Return == Statement("return", "", {}, {}, 0)
ReturnIf == Statement("return_if", "", {}, {}, 0)
Give == Statement("return", "give", {}, {}, 0)
\* delete_env(); return: the only way out of a try block but its end
Leave == Statement("leave", "give", {}, {}, 0)

\* The macros of exceptions.h: try names the line of its etry, the others the
\* line of their try.
Try(line) == Statement("try", "", {}, {}, line)
Catch(line, exs) == Statement("catch", "", {}, exs, line)
Finally(line) == Statement("finally", "", {}, Exceptions, line)
Etry(line) == Statement("etry", "", {}, {}, line)
Throw(e) == Statement("throw", "", {}, {e}, 0)

\* my_ex = ex; the same if my_ex is None; throw(my_ex) if it is not.
Save == Statement("save", "", {}, {}, 0)
Keep == Statement("keep", "", {}, {}, 0)
Rethrow == Statement("rethrow", "", {}, Exceptions, 0)

\* Something outside the function that succeeds or throws one of exs.
May(exs) == Statement("do", "", {}, exs, 0)
Get(resource, exs) == Statement("get", resource, {}, exs, 0)
GetOr(resource, line) == Statement("get", resource, {}, {}, line)
Put(resource) == Statement("put", resource, {}, {}, 0)

\* tmp_malloc and its kin; tmp_realloc of the local pointer; free of it.
Tmp == Statement("tmp", "", {}, {MemoryException}, 0)
Grow == Statement("grow", "", {}, {MemoryException}, 0)
FreeByHand == Statement("free", "", {}, {}, 0)
FreeAll == Statement("free_all", "", {}, {}, 0)

\* Changes of the globals of my-dbg, and its end.
Set(what) == Statement("set", what, {}, {}, 0)
SetOr(what, exs) == Statement("set", what, {}, exs, 0)
Ends(how) == Statement("end", how, {}, {}, 0)
EndsIf(how) == Statement("end_if", how, {}, {}, 0)

Control == {"call", "if", "goto", "return", "return_if", "leave", "try", "catch",
            "finally", "etry", "throw", "save", "keep", "rethrow", "end", "end_if"}
Effects == {"do", "get", "put", "tmp", "grow", "free", "free_all", "set"}

=============================================================================
