----------------------------- MODULE FlowRules -----------------------------
(***************************************************************************)
(* What each statement of a function does with what is known about it.  A  *)
(* fact at a line relates the globals the function was entered with to the *)
(* globals now, the resources it holds, ex and my_ex.  Neither the stack   *)
(* nor the addresses of temporary blocks appear in it.                     *)
(***************************************************************************)
EXTENDS CommandProperties

Fact(from, now, held, ex, my_ex) ==
  [from |-> from, now |-> now, held |-> held, ex |-> ex, my_ex |-> my_ex]

\* A fact is placed at a line of a function; the fact that e leaves the
\* function is placed at its line 0.
Placed(f, a, x) == [fn |-> f, at |-> a, x |-> x]
Escape(from, e, now) == Fact(from, now, {}, e, None)

\* The globals, and whether a temporary block is listed.
Globals ==
  [ended |-> ended, g_pid |-> g_pid, first |-> first, pid_before |-> pid_before,
   overread |-> overread, empty |-> (blocks = <<>>)]

\* The globals when main calls run_command.
AtStart(end_mark, pid) ==
  [ended |-> end_mark, g_pid |-> pid, first |-> None, pid_before |-> pid,
   overread |-> FALSE, empty |-> TRUE]

-----------------------------------------------------------------------------
(* What the statement s of function f does with the fact x. *)

Returning == {"return", "return_if", "leave"}

Meets(cond, x) ==
  \/ cond = "null" /\ x.held = {}
  \/ cond = "attached" /\ x.now.g_pid
  \/ cond = "nothing saved" /\ x.my_ex = None

MayPass(s, x) ==
  \/ s.op \in Effects \cup {"return_if", "finally", "end_if", "try", "etry", "save", "keep"}
  \/ s.op = "if" /\ ~Meets(s.arg, x)
  \/ s.op = "rethrow" /\ x.my_ex = None

MayJump(s, x) ==
  \/ s.op = "if" /\ (s.arg \in {"", "quit"} \/ Meets(s.arg, x))
  \/ s.op \in {"goto", "catch"}
  \/ s.op = "get" /\ s.to # 0

Target(f, s) == IF s.op = "catch" THEN Code[f][s.to].to ELSE s.to

PastEnd(s, x) ==
  s.arg = "free_mem_mappings" /\ "mappings" \in x.held /\ ~x.now.ended

NowSet(s, x) ==
  CASE s.arg = "add_mem_mapping" -> [x.now EXCEPT !.ended = FALSE]
    [] s.arg = "end_mark" -> [x.now EXCEPT !.ended = TRUE]
    [] s.arg = "g_pid = pid" -> [x.now EXCEPT !.g_pid = TRUE]
    [] s.arg = "g_pid = 0" -> [x.now EXCEPT !.g_pid = FALSE]
    [] s.arg = "free_mem_mappings" ->
         [x.now EXCEPT !.overread = (@ \/ PastEnd(s, x))]
    [] OTHER -> x.now

\* An exception that a try below run_command has handled is not reported.
Handled(f, x) == f \notin Roots /\ x.ex # None /\ x.my_ex = None

NowAfter(f, s, x) ==
  CASE s.op = "set" -> NowSet(s, x)
    [] s.op \in {"tmp", "grow"} -> [x.now EXCEPT !.empty = FALSE]
    [] s.op = "free_all" -> [x.now EXCEPT !.empty = TRUE]
    [] s.op = "etry" -> [x.now EXCEPT !.first = IF Handled(f, x) THEN None ELSE @]
    [] OTHER -> x.now

HeldAfter(s, x) ==
  CASE s.op = "get" -> x.held \cup {s.arg}
    [] s.op = "put" -> x.held \ {s.arg}
    [] s.op = "set" /\ s.arg \in {"add_mem_mapping", "end_mark"} ->
         x.held \cup {"mappings"}
    [] s.op = "set" /\ s.arg = "free_mem_mappings" -> x.held \ {"mappings"}
    [] OTHER -> x.held

Passed(f, s, x) ==
  Fact(x.from, NowAfter(f, s, x), HeldAfter(s, x),
       IF s.op = "try" THEN None ELSE x.ex,
       IF s.op = "save" \/ (s.op = "keep" /\ x.my_ex = None) THEN x.ex ELSE x.my_ex)

Throws(s, x) ==
  IF s.op = "rethrow" THEN {x.my_ex} \ {None}
  ELSE IF s.op \in Effects \cup {"throw"} THEN s.exs ELSE {}

\* What is known when s throws e: a mapping that does not scan is in the array.
Thrown(s, x, e) ==
  LET adds == s.op = "set" /\ s.arg = "add_mem_mapping"
      reports == [x.now EXCEPT !.first = IF @ = None THEN e ELSE @]
      now == IF adds THEN [reports EXCEPT !.ended = FALSE] ELSE reports
  IN Fact(x.from, now, IF adds THEN x.held \cup {"mappings"} ELSE x.held, x.ex, x.my_ex)

\* What a caller keeps, what it hands on and what it is given back.
Keeps(s, held) == IF s.arg = "hand" THEN {} ELSE held
Hands(s, held) == IF s.arg = "hand" THEN held ELSE {}
Gives(s, held) == IF s.arg = "give" THEN held ELSE {}

Entered(s, x) == Fact(x.now, x.now, Hands(s, x.held), None, None)
Resumed(s, x, now, given) ==
  Fact(x.from, now, Keeps(s, x.held) \cup given, x.ex, x.my_ex)

MayCall(s, x) == {g \in s.fns : s.op = "call" /\ (g \in NeedsProgram => x.now.g_pid)}

=============================================================================
