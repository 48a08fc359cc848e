---------------------------- MODULE CommandFlow ----------------------------
(***************************************************************************)
(* A relational analysis of the functions of Code, whatever calls them.    *)
(* FlowAssumption says that Flow is closed under the rules.  It restricts  *)
(* no program: every Code has such a set (that of all facts, for one), and *)
(* the smaller it is the more it says.  What it has to say for the         *)
(* properties of the commands to hold is Verdicts.                         *)
(***************************************************************************)
EXTENDS FlowRules

CONSTANT Flow  \* the facts, each placed at a line of a function

Facts ==
  [f \in DOMAIN Code |-> [a \in Lines(f) |->
     {p.x : p \in {q \in Flow : q.fn = f /\ q.at = a}}]]
Escapes == [f \in DOMAIN Code |-> {p.x : p \in {q \in Flow : q.fn = f /\ q.at = 0}}]

\* The exceptions that reach f at line a where x is known, and what is known
\* then: those thrown there and those that leave a function called there.
Raised(f, a, x) ==
  LET s == Code[f][a] IN
  {[ex |-> e, x |-> Thrown(s, x, e)] : e \in Throws(s, x)}
  \cup UNION {{[ex |-> r.ex, x |-> Resumed(s, x, r.now, {})] :
                 r \in {r \in Escapes[g] : r.from = x.now}} : g \in MayCall(s, x)}

-----------------------------------------------------------------------------
(* Closure. *)

\* longjmp goes to the newest open try or drops f.
Arrives(f, a, y) ==
  /\ Open(f, a) = {} => Escape(y.x.from, y.ex, y.x.now) \in Escapes[f]
  /\ \A t \in Open(f, a) : (\A u \in Open(f, a) : u <= t) =>
       [y.x EXCEPT !.ex = y.ex] \in Facts[f][Handler(f, t, y.ex)]

CallClosed(f, a, x, g) ==
  LET s == Code[f][a] IN
  /\ Entered(s, x) \in Facts[g][First(g)]
  /\ \A b \in Lines(g) : \A r \in Facts[g][b] :
       Code[g][b].op \in Returning /\ r.from = x.now =>
         Resumed(s, x, r.now, Gives(Code[g][b], r.held)) \in Facts[f][After(f, a)]

FactClosed(f, a, x) ==
  LET s == Code[f][a] IN
  /\ MayPass(s, x) => Passed(f, s, x) \in Facts[f][After(f, a)]
  /\ MayJump(s, x) => x \in Facts[f][Target(f, s)]
  /\ \A g \in MayCall(s, x) : CallClosed(f, a, x, g)
  /\ \A y \in Raised(f, a, x) : Arrives(f, a, y)

FlowClosed ==
  /\ \A f \in Roots : \A end_mark \in BOOLEAN : \A pid \in BOOLEAN :
       LET g == AtStart(end_mark, pid) IN Fact(g, g, {}, None, None) \in Facts[f][First(f)]
  /\ \A f \in DOMAIN Code : \A a \in Lines(f) : \A x \in Facts[f][a] : FactClosed(f, a, x)

\* run_command is called by main only.
RootsNotCalled ==
  \A f \in DOMAIN Code : \A a \in Lines(f) : Code[f][a].fns \cap Roots = {}

ASSUME FlowAssumption == FlowClosed /\ RootsNotCalled

-----------------------------------------------------------------------------
(* What the facts have to say for the properties of the commands to hold.  *)

\* What f loses at line a where x is known: when an exception drops it, when
\* it takes what it has already, and when it returns without giving it.
LostAt(f, a, x) ==
  LET s == Code[f][a] IN
  {r \in UNION {y.x.held : y \in Raised(f, a, x)} : Open(f, a) = {}}
  \cup {r \in x.held : s.op = "get" /\ r = s.arg}
  \cup {r \in x.held : s.op \in Returning /\ s.arg # "give"}

LossesListed ==
  \A f \in DOMAIN Code : \A a \in Lines(f) : \A x \in Facts[f][a] :
    \A r \in LostAt(f, a, x) : <<f, r>> \in Windows

\* No case of the innermost try that is open at line a names e.
Unnamed(f, a, e) ==
  \E t \in Open(f, a) : (\A u \in Open(f, a) : u <= t) /\ Handlers(f, t, e) = {}

UnnamedListed ==
  \A f \in DOMAIN Code : \A a \in Lines(f) : \A x \in Facts[f][a] :
    \A y \in Raised(f, a, x) : Unnamed(f, a, y.ex) => <<f, y.ex>> \in Unreported

\* What run_command knows when it returns.
RootReturns ==
  UNION {UNION {Facts[f][a] : a \in {b \in Lines(f) : Code[f][b].op \in Returning}} :
         f \in Roots}

BlocksFreed == \A x \in RootReturns : x.now.empty

PidRestored ==
  \A x \in RootReturns : x.now.first # None => x.now.g_pid = x.now.pid_before

RootsReport ==
  \A f \in Roots : \A a \in Lines(f) : \A x \in Facts[f][a] :
    x.ex # None => x.ex = x.now.first \/ x.ex = SyscallException

OverreadExcused ==
  \A f \in DOMAIN Code : \A a \in Lines(f) : \A x \in Facts[f][a] :
    x.now.overread => x.now.first \in {ScanfException, IOException}

Verdicts ==
  /\ LossesListed /\ UnnamedListed /\ BlocksFreed /\ PidRestored
  /\ RootsReport /\ OverreadExcused

\* When the user is asked for a command, the facts about the functions of
\* my-dbg already tell how it can end, whatever will fail in it: what it may
\* lose, what it reports, what it leaves of blocks, g_pid and mappings.
FactsSuffice == Prompt => Verdicts

\* The analysis covers every run: what a function that is running knows of the
\* globals, of its resources, of ex and my_ex is one of the facts of its line.
FlowCovers ==
  over = "no" /\ calls # <<>> =>
    \E x \in Facts[Top.fn][Top.at] :
      /\ x.now = Globals /\ x.held = Mine.held
      /\ x.ex = Top.ex /\ x.my_ex = Top.my_ex

=============================================================================
