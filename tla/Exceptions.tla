----------------------------- MODULE Exceptions -----------------------------
(***************************************************************************)
(* try, catch, finally, etry and throw of include/utils/exceptions.h and   *)
(* src/utils/exceptions.c: setjmp and longjmp over one global list of      *)
(* environments.  The functions that use them are the constant Code, so    *)
(* that what is proved here holds of every program written with these      *)
(* macros whose blocks are nested.                                         *)
(*                                                                         *)
(* An environment stays in the list until etry: a throw in a handler or in *)
(* a finally block jumps to the setjmp of the same try again.  A throw     *)
(* that no case of the switch names falls out of it and is forgotten.      *)
(* The build has no optimisation (Makefile), so a local variable keeps the *)
(* value it had when longjmp is called.                                    *)
(***************************************************************************)
EXTENDS Statements, Naturals, Sequences, FiniteSets

CONSTANTS
  Code,      \* [function -> [line -> statement]]
  Roots,     \* the functions called when no other one is active
  MaxNested  \* bound: activations of one function the C stack has room for

VARIABLES
  calls,  \* the active functions, innermost last
  list,   \* the environments; the head of the C list is the last one
  over    \* how my-dbg ended, "no" while it runs

excVars == <<calls, list, over>>

Endings == {"fatal", "segv", "uncaught", "overflow", "abort"}

Lines(f) == DOMAIN Code[f]
First(f) == CHOOSE a \in Lines(f) : \A b \in Lines(f) : a <= b
NextLine ==
  [f \in DOMAIN Code |-> [a \in Lines(f) |->
     CHOOSE b \in Lines(f) \cup {0} :
       IF \E c \in Lines(f) : c > a
       THEN b > a /\ \A c \in Lines(f) : c > a => b <= c
       ELSE b = 0]]
After(f, a) == NextLine[f][a]

TryLines(f) == {t \in Lines(f) : Code[f][t].op = "try"}

\* The tries of f that control is inside of at line a, handlers included.
Inside ==
  [f \in DOMAIN Code |-> [a \in Lines(f) |->
     {t \in TryLines(f) : t < a /\ a <= Code[f][t].to}]]
Open(f, a) == Inside[f][a]

\* Where longjmp continues: after the case label that names e, or after the
\* switch when none does.
Handlers(f, t, e) ==
  {c \in Lines(f) : /\ Code[f][c].op \in {"catch", "finally"}
                    /\ Code[f][c].to = t
                    /\ e \in Code[f][c].exs}
Handler(f, t, e) ==
  IF Handlers(f, t, e) = {} THEN Code[f][t].to
  ELSE After(f, CHOOSE c \in Handlers(f, t, e) : TRUE)

GoesOn == Effects \cup {"call", "if", "return_if", "finally", "save", "keep",
                        "rethrow", "end_if"}

\* What the macros need of a function: its blocks are nested, a jump does not
\* enter or leave one, and a return is outside of them all.
WellNested(f) ==
  /\ Lines(f) \subseteq Nat
  /\ First(f) \in Lines(f)
  /\ Open(f, First(f)) = {}
  /\ \A t, u \in TryLines(f) :
       t < u /\ u <= Code[f][t].to => Code[f][u].to < Code[f][t].to
  /\ \A t \in TryLines(f) :
       /\ Code[f][t].to \in Lines(f) /\ t < Code[f][t].to
       /\ After(f, t) \in Lines(f)
       /\ Open(f, After(f, t)) = Open(f, t) \cup {t}
       /\ \A e \in Exceptions :
            /\ Handler(f, t, e) \in Lines(f)
            /\ Open(f, Handler(f, t, e)) = Open(f, t) \cup {t}
  /\ \A a \in Lines(f) : LET s == Code[f][a] IN
       /\ s.op \in Control \cup Effects
       /\ s.fns \subseteq DOMAIN Code
       /\ s.exs \subseteq Exceptions
       /\ s.op \in {"end", "end_if"} => s.arg \in Endings
       /\ s.op \in GoesOn =>
            After(f, a) \in Lines(f) /\ Open(f, After(f, a)) = Open(f, a)
       /\ s.op \in {"if", "goto"} \/ (s.op = "get" /\ s.to # 0) =>
            s.to \in Lines(f) /\ Open(f, s.to) = Open(f, a)
       /\ s.op = "catch" =>
            /\ s.to \in TryLines(f)
            /\ Open(f, Code[f][s.to].to) = Open(f, a)
       /\ s.op = "etry" =>
            /\ s.to \in Open(f, a)
            /\ \A t \in Open(f, a) : t <= s.to
            /\ After(f, a) \in Lines(f)
            /\ Open(f, After(f, a)) = Open(f, a) \ {s.to}
       /\ s.op \in {"return", "return_if"} => Open(f, a) = {}
       /\ s.op = "leave" => \E t \in TryLines(f) : Open(f, a) = {t}

ASSUME CodeAssumption ==
  /\ \A f \in DOMAIN Code : WellNested(f)
  /\ Roots \subseteq DOMAIN Code
  /\ MaxNested \in Nat

-----------------------------------------------------------------------------

Activation(f) == [fn |-> f, at |-> First(f), ex |-> None, my_ex |-> None]

Top == calls[Len(calls)]
Here == Code[Top.fn][Top.at]
Next_line == After(Top.fn, Top.at)

Active(op) == over = "no" /\ calls # <<>> /\ Here.op = op

Move(line) == calls' = [calls EXCEPT ![Len(calls)].at = line]

Init ==
  /\ calls = <<>>
  /\ list = <<>>
  /\ over = "no"

\* main calls run_command, with no function of my-dbg that can throw active.
Enter(f) ==
  /\ over = "no" /\ calls = <<>>
  /\ calls' = <<Activation(f)>>
  /\ UNCHANGED <<list, over>>

Invoke(f) ==
  /\ Active("call") /\ f \in Here.fns
  /\ IF Cardinality({d \in DOMAIN calls : calls[d].fn = f}) < MaxNested
     THEN calls' = Append(calls, Activation(f)) /\ UNCHANGED over
     ELSE over' = "overflow" /\ UNCHANGED calls
  /\ UNCHANGED list

\* The caller goes on after its call.
Back ==
  IF Len(calls) = 1 THEN calls' = <<>>
  ELSE LET caller == calls[Len(calls) - 1] IN
       calls' = [SubSeq(calls, 1, Len(calls) - 1) EXCEPT
                   ![Len(calls) - 1].at = After(caller.fn, caller.at)]

Returns ==
  /\ Active("return") \/ Active("return_if")
  /\ Back
  /\ UNCHANGED <<list, over>>

delete_env == list' = SubSeq(list, 1, Len(list) - 1)

Leaves ==
  /\ Active("leave")
  /\ delete_env
  /\ Back
  /\ UNCHANGED over

\* The statement succeeds, or its condition is false.
Passes(op) ==
  /\ op \in Effects \cup {"if", "return_if", "finally", "end_if"}
  /\ Active(op)
  /\ Move(Next_line)
  /\ UNCHANGED <<list, over>>

Jumps ==
  /\ Active("if") \/ Active("goto") \/ (Active("get") /\ Here.to # 0)
  /\ Move(Here.to)
  /\ UNCHANGED <<list, over>>

\* new_env
Tries ==
  /\ Active("try")
  /\ list' = Append(list, [depth |-> Len(calls), at |-> Top.at])
  /\ calls' = [calls EXCEPT ![Len(calls)].at = Next_line, ![Len(calls)].ex = None]
  /\ UNCHANGED over

\* `break' before a case label: the block or the handler above it is done.
Skips ==
  /\ Active("catch")
  /\ Move(Code[Top.fn][Here.to].to)
  /\ UNCHANGED <<list, over>>

\* Mutant: the environment stays when its try is done.
Etries_Kept ==
  /\ Active("etry")
  /\ Move(Next_line)
  /\ UNCHANGED <<list, over>>

Etries ==
  /\ Active("etry")
  /\ delete_env
  /\ Move(Next_line)
  /\ UNCHANGED over

Saves ==
  /\ \/ Active("save")
     \/ Active("keep")
  /\ calls' = [calls EXCEPT
       ![Len(calls)].at = Next_line,
       ![Len(calls)].my_ex = IF Here.op = "save" \/ @ = None THEN Top.ex ELSE @]
  /\ UNCHANGED <<list, over>>

NothingSaved ==
  /\ Active("rethrow") /\ Top.my_ex = None
  /\ Move(Next_line)
  /\ UNCHANGED <<list, over>>

\* The exceptions the current statement can throw.
Throwable ==
  IF over # "no" \/ calls = <<>> THEN {}
  ELSE IF Here.op = "rethrow" THEN {Top.my_ex} \ {None}
  ELSE IF Here.op \in Effects \cup {"throw"} THEN Here.exs
  ELSE {}

Env == list[Len(list)]

\* throw_exception: longjmp to the newest environment, or errx.
throw_exception(e) ==
  /\ e \in Throwable
  /\ IF list = <<>>
     THEN over' = "uncaught" /\ UNCHANGED <<calls, list>>
     ELSE /\ calls' = [SubSeq(calls, 1, Env.depth) EXCEPT
               ![Env.depth].at = Handler(calls[Env.depth].fn, Env.at, e),
               ![Env.depth].ex = e]
          /\ UNCHANGED <<list, over>>

ends(how) ==
  /\ Active("end") \/ Active("end_if")
  /\ over' = how
  /\ UNCHANGED <<calls, list>>

\* Undefined behaviour that ends the process.
crashes(how) ==
  /\ \E op \in Effects : Active(op)
  /\ over' = how
  /\ UNCHANGED <<calls, list>>

Next ==
  \/ \E f \in Roots : Enter(f)
  \/ \E f \in DOMAIN Code : Invoke(f)
  \/ Returns \/ Leaves
  \/ \E op \in Effects \cup {"if", "return_if", "finally", "end_if"} : Passes(op)
  \/ Jumps \/ Tries \/ Skips \/ Etries \/ Saves \/ NothingSaved
  \/ \E e \in Exceptions : throw_exception(e)
  \/ \E how \in Endings : ends(how) \/ crashes(how)

Spec == Init /\ [][Next]_excVars

-----------------------------------------------------------------------------

Before(e, g) == e.depth < g.depth \/ (e.depth = g.depth /\ e.at < g.at)

\* The list holds one environment for every try an active function is inside
\* of, in the order they were entered, and no other: longjmp always goes to a
\* function that has not returned, and to the innermost try that is open.
EnvsMatch ==
  /\ \A i \in DOMAIN list :
       /\ list[i].depth \in DOMAIN calls
       /\ list[i].at \in Open(calls[list[i].depth].fn, calls[list[i].depth].at)
  /\ \A i, j \in DOMAIN list : i < j => Before(list[i], list[j])
  /\ \A d \in DOMAIN calls : \A t \in Open(calls[d].fn, calls[d].at) :
       \E i \in DOMAIN list : list[i] = [depth |-> d, at |-> t]

=============================================================================
