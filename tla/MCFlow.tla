------------------------------- MODULE MCFlow -------------------------------
(***************************************************************************)
(* The least set that is closed under the rules, computed round by round,  *)
(* for TLC.                                                                *)
(***************************************************************************)
EXTENDS CommandCode, FlowRules

Arrival(f, a, y) ==
  IF Open(f, a) = {} THEN Placed(f, 0, Escape(y.x.from, y.ex, y.x.now))
  ELSE LET t == CHOOSE t \in Open(f, a) : \A u \in Open(f, a) : u <= t IN
       Placed(f, Handler(f, t, y.ex), [y.x EXCEPT !.ex = y.ex])

Beginning ==
  {LET g == AtStart(end_mark, pid) IN Placed(f, First(f), Fact(g, g, {}, None, None)) :
     f \in Roots, end_mark \in BOOLEAN, pid \in BOOLEAN}

StatementOf(p) == Code[p.fn][p.at]

\* What follows from one fact.
FromOne(p) ==
  LET f == p.fn
      s == StatementOf(p)
  IN {Placed(f, b, Passed(f, s, p.x)) : b \in {c \in {After(f, p.at)} : MayPass(s, p.x)}}
     \cup {Placed(f, b, p.x) : b \in {c \in {Target(f, s)} : MayJump(s, p.x)}}
     \cup {Arrival(f, p.at, [ex |-> e, x |-> Thrown(s, p.x, e)]) : e \in Throws(s, p.x)}
     \cup {Placed(g, First(g), Entered(s, p.x)) : g \in MayCall(s, p.x)}

\* What follows from the fact p at a call and q at an end of the callee.
FromTwo(p, q) ==
  LET s == StatementOf(p) IN
  IF q.at = 0
  THEN Arrival(p.fn, p.at, [ex |-> q.x.ex, x |-> Resumed(s, p.x, q.x.now, {})])
  ELSE Placed(p.fn, After(p.fn, p.at),
              Resumed(s, p.x, q.x.now, Gives(StatementOf(q), q.x.held)))

CallsIn(S) ==
  UNION {{[callee |-> g, by |-> p] : g \in MayCall(StatementOf(p), p.x)} :
         p \in {q \in S : q.at # 0}}
EndsIn(S) == {q \in S : q.at = 0 \/ StatementOf(q).op \in Returning}
Answers(q, c) == q.fn = c.callee /\ q.x.from = c.by.x.now

Follows(known) ==
  UNION {FromOne(p) : p \in {q \in known.new : q.at # 0}}
  \cup UNION {{FromTwo(c.by, q) : q \in {q \in known.ends : Answers(q, c)}} :
              c \in CallsIn(known.new)}
  \cup UNION {{FromTwo(c.by, q) : c \in {c \in known.calls : Answers(q, c)}} :
              q \in EndsIn(known.new)}

With(known, new) ==
  [all |-> known.all \cup new, calls |-> known.calls \cup CallsIn(new),
   ends |-> known.ends \cup EndsIn(new), new |-> new]

\* A set of one element makes TLC compute that element before it goes on.
RECURSIVE Rounds(_)
Rounds(known) ==
  IF known.new = {} THEN known.all
  ELSE UNION {Rounds(more) : more \in {With(known, Follows(known) \ known.all)}}

LeastFlow == Rounds(With([all |-> {}, calls |-> {}, ends |-> {}], Beginning))

\* The value of the constant Flow.  (TLC keeps the value of a definition, but
\* evaluates again the body of one that is substituted for a constant.)
FlowOfCode == LET least == LeastFlow IN least

=============================================================================
