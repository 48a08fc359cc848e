----------------------------- MODULE FlowProofs -----------------------------
(***************************************************************************)
(* What the facts of CommandFlow say holds of every run of the commands,   *)
(* with any addresses, any number of blocks and any depth of calls.  The   *)
(* invariant names, for each active function, the globals it was entered   *)
(* with: they relate its facts to those of its caller, and an exception    *)
(* that leaves the newest function to one that leaves those below it, up   *)
(* to the function whose try block is open.                                *)
(***************************************************************************)
EXTENDS CommandFlow, CommandProofs

Resources ==
  (UNION {{Code[f][a].arg : a \in Lines(f)} : f \in DOMAIN Code}) \cup {"mappings"}

Local == [held : SUBSET Resources, buf : Ptrs \cup {NULL}]

LocalsOK == locals \in Seq(Local) /\ Len(locals) = Len(calls)

HereAt(d) == Code[calls[d].fn][calls[d].at]

\* What the newest function knows, if it was entered with the globals from.
View(from) == Fact(from, Globals, Mine.held, Top.ex, Top.my_ex)

\* What the function at depth d knew when it called the next one.
Known(d, ent, held) ==
  Fact(ent[d], ent[d + 1], held, calls[d].ex, calls[d].my_ex)

Waits(d, ent) ==
  \E held :
    /\ Known(d, ent, held) \in Facts[calls[d].fn][calls[d].at]
    /\ locals[d].held = Keeps(HereAt(d), held)
    /\ calls[d + 1].fn \in MayCall(HereAt(d), Known(d, ent, held))

\* What can leave the function at depth j can leave the one at depth h, when
\* no try is open between them.
Falls(ent) ==
  \A h, j \in DOMAIN calls :
    h <= j /\ (\A k \in DOMAIN calls : h <= k /\ k < j => Opened(k) = {}) =>
      \A e, now : Escape(ent[j], e, now) \in Escapes[calls[j].fn] =>
                  Escape(ent[h], e, now) \in Escapes[calls[h].fn]

\* ent[d] is what the globals were when the function at depth d was entered.
Explains(ent) ==
  /\ View(ent[Len(calls)]) \in Facts[Top.fn][Top.at]
  /\ \A d \in DOMAIN calls : d < Len(calls) => Waits(d, ent)
  /\ Falls(ent)

Explained ==
  /\ calls # <<>> => calls[1].fn \in Roots
  /\ over = "no" /\ calls # <<>> => \E ent : Explains(ent)

FlowInv ==
  /\ ExcInv /\ TempInv /\ LocalsOK
  /\ ended \in BOOLEAN /\ g_pid \in BOOLEAN
  /\ Explained

-----------------------------------------------------------------------------
(* What the closure of the facts says, rule by rule. *)

LEMMA FactFlows ==
  ASSUME NEW f \in DOMAIN Code, NEW a \in Lines(f), NEW x \in Facts[f][a]
  PROVE  FactClosed(f, a, x)
BY FlowAssumption DEF FlowClosed

LEMMA MoveFlows ==
  ASSUME NEW f \in DOMAIN Code, NEW a \in Lines(f), NEW x \in Facts[f][a]
  PROVE  /\ MayPass(Code[f][a], x) => Passed(f, Code[f][a], x) \in Facts[f][After(f, a)]
         /\ MayJump(Code[f][a], x) => x \in Facts[f][Target(f, Code[f][a])]
BY FactFlows DEF FactClosed

LEMMA CallFlows ==
  ASSUME NEW f \in DOMAIN Code, NEW a \in Lines(f), NEW x \in Facts[f][a],
         NEW g \in MayCall(Code[f][a], x)
  PROVE  Entered(Code[f][a], x) \in Facts[g][First(g)]
BY FactFlows DEF FactClosed, CallClosed

LEMMA ReturnFlows ==
  ASSUME NEW f \in DOMAIN Code, NEW a \in Lines(f), NEW x \in Facts[f][a],
         NEW g \in MayCall(Code[f][a], x), NEW b \in Lines(g), NEW r \in Facts[g][b],
         Code[g][b].op \in Returning, r.from = x.now
  PROVE  Resumed(Code[f][a], x, r.now, Gives(Code[g][b], r.held))
           \in Facts[f][After(f, a)]
BY FactFlows DEF FactClosed, CallClosed

LEMMA ThrowFlows ==
  ASSUME NEW f \in DOMAIN Code, NEW a \in Lines(f), NEW x \in Facts[f][a],
         NEW e \in Throws(Code[f][a], x)
  PROVE  LET y == [ex |-> e, x |-> Thrown(Code[f][a], x, e)] IN
         y \in Raised(f, a, x) /\ Arrives(f, a, y)
<1> DEFINE y == [ex |-> e, x |-> Thrown(Code[f][a], x, e)]
<1>1. y \in Raised(f, a, x)
  BY DEF Raised
<1> QED BY <1>1, FactFlows DEF FactClosed

LEMMA EscapeFlows ==
  ASSUME NEW f \in DOMAIN Code, NEW a \in Lines(f), NEW x \in Facts[f][a],
         NEW g \in MayCall(Code[f][a], x), NEW r \in Escapes[g], r.from = x.now
  PROVE  LET y == [ex |-> r.ex, x |-> Resumed(Code[f][a], x, r.now, {})] IN
         y \in Raised(f, a, x) /\ Arrives(f, a, y)
<1> DEFINE y == [ex |-> r.ex, x |-> Resumed(Code[f][a], x, r.now, {})]
<1>1. y \in Raised(f, a, x)
  BY DEF Raised
<1> QED BY <1>1, FactFlows DEF FactClosed

-----------------------------------------------------------------------------
(* The stack. *)

LEMMA Frames ==
  ASSUME FlowInv, calls # <<>>
  PROVE  /\ Len(calls) \in DOMAIN calls /\ Len(calls) \in Nat \ {0}
         /\ DOMAIN calls = 1 .. Len(calls) /\ DOMAIN locals = 1 .. Len(calls)
         /\ Top = calls[Len(calls)] /\ Mine = locals[Len(calls)]
         /\ \A d \in DOMAIN calls :
              /\ calls[d].fn \in DOMAIN Code /\ calls[d].at \in Lines(calls[d].fn)
              /\ locals[d] \in Local /\ calls[d] \in Act
<1>1. CallsOK /\ LocalsOK
  BY DEF FlowInv, ExcInv
<1>2. /\ Len(calls) \in DOMAIN calls /\ Len(calls) \in Nat \ {0}
      /\ DOMAIN calls = 1 .. Len(calls) /\ Top = calls[Len(calls)]
  BY <1>1, TopFacts
<1>3. DOMAIN locals = 1 .. Len(calls) /\ Mine = locals[Len(calls)]
  BY <1>1, LenProperties DEF LocalsOK, Mine
<1>4. \A d \in DOMAIN calls : locals[d] \in Local
  BY <1>1, <1>2, <1>3, ElementOfSeq DEF LocalsOK
<1>5. \A d \in DOMAIN calls : calls[d] \in Act
  BY <1>1, CallsFacts
<1> QED BY <1>1, <1>2, <1>3, <1>4, <1>5 DEF CallsOK, Act

\* The step has left the functions below depth m alone, and the one at depth m
\* is now the newest and at a line where it knows what it knows.
LEMMA Below ==
  ASSUME FlowInv, calls # <<>>, NEW ent, Explains(ent), NEW m \in DOMAIN calls,
         Len(calls') = m, DOMAIN calls' = 1 .. m,
         \A d \in 1 .. m : d < m => calls'[d] = calls[d] /\ locals'[d] = locals[d],
         calls'[m].fn = calls[m].fn,
         View(ent[m])' \in Facts[calls[m].fn][calls'[m].at]
  PROVE  Explains(ent)'
<1>1. /\ m \in Nat \ {0} /\ DOMAIN calls = 1 .. Len(calls) /\ Len(calls) \in Nat
      /\ m <= Len(calls)
  BY Frames
<1>2. View(ent[Len(calls)])' \in Facts[Top.fn][Top.at]'
  BY <1>1 DEF Top
<1>3. ASSUME NEW d \in 1 .. m, d < m PROVE Waits(d, ent)'
  <2>1. Waits(d, ent)
    BY <1>1, <1>3 DEF Explains
  <2>2. calls'[d] = calls[d] /\ locals'[d] = locals[d]
    BY <1>3
  <2>3. calls'[d + 1].fn = calls[d + 1].fn
    <3>1. d + 1 \in 1 .. m /\ (d + 1 = m \/ d + 1 < m)
      BY <1>1, <1>3
    <3> QED BY <3>1
  <2> QED BY <2>1, <2>2, <2>3 DEF Waits, Known, HereAt
<1>4. Falls(ent)'
  <2>1. \A k \in 1 .. m : k \in DOMAIN calls /\ calls'[k].fn = calls[k].fn
    BY <1>1
  <2>2. \A k \in 1 .. m : k < m => Opened(k)' = Opened(k)
    BY DEF Opened
  <2> SUFFICES ASSUME NEW h \in 1 .. m, NEW j \in 1 .. m, h <= j,
                      \A k \in 1 .. m : h <= k /\ k < j => Opened(k)' = {},
                      NEW e, NEW now,
                      Escape(ent[j], e, now) \in Escapes[calls[j].fn]
               PROVE  Escape(ent[h], e, now) \in Escapes[calls[h].fn]
    BY <2>1 DEF Falls
  <2>3. \A k \in DOMAIN calls : h <= k /\ k < j => k \in 1 .. m /\ k < m
    BY <1>1
  <2>4. \A k \in DOMAIN calls : h <= k /\ k < j => Opened(k) = {}
    BY <2>2, <2>3
  <2> QED BY <2>1, <2>4 DEF Explains, Falls
<1> QED BY <1>2, <1>3, <1>4 DEF Explains

-----------------------------------------------------------------------------
(* Steps of the newest function that neither call, return nor throw. *)

LEMMA ViewFields ==
  ASSUME NEW from
  PROVE  /\ View(from).from = from /\ View(from).now = Globals
         /\ View(from).held = Mine.held
         /\ View(from).ex = Top.ex /\ View(from).my_ex = Top.my_ex
BY DEF View, Fact

LEMMA SameRange ==
  ASSUME NEW m \in Nat \ {0}, NEW n \in Nat, 1 .. m = 1 .. n
  PROVE  m = n
<1>1. m \in 1 .. m
  OBVIOUS
<1>2. m \in 1 .. n
  BY <1>1
<1>3. n \in 1 .. n
  BY <1>2
<1>4. n \in 1 .. m
  BY <1>3
<1> QED BY <1>2, <1>4

LEMMA SameDepth ==
  ASSUME FlowInv, ExcInv', calls # <<>>, DOMAIN calls' = DOMAIN calls
  PROVE  Len(calls') = Len(calls)
<1>1. Len(calls') \in Nat /\ DOMAIN calls' = 1 .. Len(calls')
  BY CallsFacts DEF ExcInv
<1>2. Len(calls) \in Nat \ {0} /\ DOMAIN calls = 1 .. Len(calls)
  BY Frames
<1>3. 1 .. Len(calls) = 1 .. Len(calls')
  BY <1>1, <1>2
<1> QED BY <1>1, <1>2, <1>3, SameRange

LEMMA Stays ==
  ASSUME FlowInv, ExcInv', over = "no", calls # <<>>, DOMAIN calls' = DOMAIN calls,
         \A d \in DOMAIN calls : d < Len(calls) =>
           calls'[d] = calls[d] /\ locals'[d] = locals[d],
         calls'[Len(calls)].fn = Top.fn,
         \A from : View(from) \in Facts[Top.fn][Top.at] =>
                   View(from)' \in Facts[Top.fn][calls'[Len(calls)].at]
  PROVE  Explained'
<1>1. PICK ent : Explains(ent)
  BY DEF FlowInv, Explained
<1>2. /\ Len(calls) \in DOMAIN calls /\ Len(calls) \in Nat \ {0}
      /\ DOMAIN calls = 1 .. Len(calls) /\ Top = calls[Len(calls)]
  BY Frames
<1>3. Len(calls') = Len(calls)
  BY SameDepth
<1>4. View(ent[Len(calls)])' \in Facts[Top.fn][calls'[Len(calls)].at]
  BY <1>1 DEF Explains
<1>5. Explains(ent)'
  BY <1>1, <1>2, <1>3, <1>4, Below
<1>6. calls'[1].fn = calls[1].fn
  BY <1>2
<1> QED BY <1>5, <1>6 DEF Explained, FlowInv

\* What a jump within the newest function changes in calls.
LEMMA MoveEffect ==
  ASSUME FlowInv, calls # <<>>, NEW line, Move(line)
  PROVE  /\ DOMAIN calls' = DOMAIN calls
         /\ \A d \in DOMAIN calls : d < Len(calls) => calls'[d] = calls[d]
         /\ calls'[Len(calls)].fn = Top.fn /\ calls'[Len(calls)].at = line
         /\ calls'[Len(calls)].ex = Top.ex /\ calls'[Len(calls)].my_ex = Top.my_ex
<1>1. Len(calls) \in DOMAIN calls /\ Top = calls[Len(calls)] /\ Top \in Act
      /\ DOMAIN calls = 1 .. Len(calls)
  BY Frames
<1>2. calls' = [calls EXCEPT ![Len(calls)].at = line]
  BY DEF Move
<1>3. calls'[Len(calls)] = [Top EXCEPT !.at = line]
  BY <1>1, <1>2
<1>4. \A d \in DOMAIN calls : d # Len(calls) => calls'[d] = calls[d]
  BY <1>2
<1> QED BY <1>1, <1>2, <1>3, <1>4, Frames DEF Act

\* What the newest function knows after a step of its own.
LEMMA NextView ==
  ASSUME FlowInv, ExcInv', calls # <<>>, DOMAIN calls' = DOMAIN calls,
         NEW from
  PROVE  /\ Top' = calls'[Len(calls)]
         /\ Len(locals') = Len(locals) => Mine' = locals'[Len(calls)]
         /\ View(from)' = Fact(from, Globals', Mine'.held, Top'.ex, Top'.my_ex)
<1>1. Len(calls') = Len(calls)
  BY SameDepth
<1>2. Len(locals) = Len(calls)
  BY DEF FlowInv, LocalsOK
<1> QED BY <1>1, <1>2 DEF Top, Mine, View

\* A step to the next line that does what Passed says.
LEMMA PassStays ==
  ASSUME FlowInv, ExcInv', over = "no", calls # <<>>, Move(Next_line),
         Len(locals') = Len(locals),
         \A d \in DOMAIN calls : d < Len(calls) => locals'[d] = locals[d],
         \A from : /\ MayPass(Here, View(from))
                   /\ Globals' = NowAfter(Top.fn, Here, View(from))
                   /\ Mine'.held = HeldAfter(Here, View(from)),
         Here.op \notin {"try", "save", "keep"}
  PROVE  Explained'
<1>1. /\ DOMAIN calls' = DOMAIN calls
      /\ \A d \in DOMAIN calls : d < Len(calls) => calls'[d] = calls[d]
      /\ calls'[Len(calls)].fn = Top.fn /\ calls'[Len(calls)].at = Next_line
      /\ calls'[Len(calls)].ex = Top.ex /\ calls'[Len(calls)].my_ex = Top.my_ex
  BY MoveEffect
<1>2. ASSUME NEW from, View(from) \in Facts[Top.fn][Top.at]
      PROVE  View(from)' \in Facts[Top.fn][Next_line]
  <2>1. Passed(Top.fn, Here, View(from)) \in Facts[Top.fn][Next_line]
    BY <1>2, Frames, MoveFlows DEF Here, Next_line
  <2>2. View(from)' = Fact(from, Globals', Mine'.held, Top.ex, Top.my_ex)
    BY <1>1, NextView
  <2>3. View(from)' = Passed(Top.fn, Here, View(from))
    BY <2>2, ViewFields DEF Passed
  <2> QED BY <2>1, <2>3
<1> QED BY <1>1, <1>2, Stays

LEMMA UntouchedLocals ==
  ASSUME UNCHANGED locals
  PROVE  /\ Len(locals') = Len(locals) /\ Mine' = Mine
         /\ \A d \in DOMAIN calls : d < Len(calls) => locals'[d] = locals[d]
BY DEF Mine

LEMMA UntouchedGlobals ==
  ASSUME UNCHANGED <<ended, g_pid, first, pid_before, overread, blocks>>
  PROVE  Globals' = Globals
BY DEF Globals

LEMMA PlainFlows ==
  ASSUME FlowInv, ExcInv', PlainStep
  PROVE  Explained'
<1>1. /\ over = "no" /\ calls # <<>> /\ Move(Next_line)
      /\ Here.op \in {"do", "return_if", "finally", "end_if"}
  BY DEF PlainStep, Passes, Active
<1>2. UNCHANGED locals
      /\ UNCHANGED <<ended, g_pid, first, pid_before, overread, blocks>>
  BY DEF PlainStep, tmpVars, dbgVars, ghostVars
<1>3. \A from : /\ MayPass(Here, View(from))
                /\ NowAfter(Top.fn, Here, View(from)) = View(from).now
                /\ HeldAfter(Here, View(from)) = View(from).held
  BY <1>1 DEF MayPass, NowAfter, HeldAfter, Effects
<1> QED BY <1>1, <1>2, <1>3, UntouchedLocals, UntouchedGlobals, ViewFields, PassStays

\* A jump changes nothing but the line.
LEMMA JumpStays ==
  ASSUME FlowInv, ExcInv', over = "no", calls # <<>>, NEW line, Move(line),
         UNCHANGED locals,
         UNCHANGED <<ended, g_pid, first, pid_before, overread, blocks>>,
         \A from : View(from) \in Facts[Top.fn][Top.at] =>
                   View(from) \in Facts[Top.fn][line]
  PROVE  Explained'
<1>1. /\ DOMAIN calls' = DOMAIN calls
      /\ \A d \in DOMAIN calls : d < Len(calls) => calls'[d] = calls[d]
      /\ calls'[Len(calls)].fn = Top.fn /\ calls'[Len(calls)].at = line
      /\ calls'[Len(calls)].ex = Top.ex /\ calls'[Len(calls)].my_ex = Top.my_ex
  BY MoveEffect
<1>2. ASSUME NEW from PROVE View(from)' = View(from)
  <2>1. Globals' = Globals /\ Mine' = Mine
    BY UntouchedLocals, UntouchedGlobals
  <2> QED BY <1>1, <2>1, NextView DEF View
<1> QED BY <1>1, <1>2, UntouchedLocals, Stays

\* A condition the model follows holds where the newest function knows it.
LEMMA MeetsHolds ==
  ASSUME FlowInv, NEW from, NEW cond, cond # "quit"
  PROVE  Meets(cond, View(from)) <=> Holds(cond)
<1>1. View(from).now.g_pid = g_pid
  BY ViewFields DEF Globals
<1>2. View(from).held = Mine.held /\ View(from).my_ex = Top.my_ex
  BY ViewFields
<1>3. CASE cond = "attached"
  <2>1. Meets(cond, View(from)) <=> View(from).now.g_pid
    BY <1>3 DEF Meets
  <2>2. Holds(cond) <=> g_pid
    BY <1>3 DEF Holds
  <2> QED BY <1>1, <2>1, <2>2
<1>4. CASE cond # "attached"
  BY <1>2, <1>4 DEF Meets, Holds
<1> QED BY <1>3, <1>4

LEMMA BranchFlows ==
  ASSUME FlowInv, ExcInv', BranchStep
  PROVE  Explained'
<1>1. UNCHANGED locals
      /\ UNCHANGED <<ended, g_pid, first, pid_before, overread, blocks>>
  BY DEF BranchStep, tmpVars, dbgVars, ghostVars
<1>2. CASE Jumps /\ (Here.op = "if" /\ Here.arg # "" => Holds(Here.arg))
  <2>1. /\ over = "no" /\ calls # <<>> /\ Move(Here.to)
        /\ Here.op \in {"if", "goto"} \/ (Here.op = "get" /\ Here.to # 0)
    BY <1>2 DEF Jumps, Active
  <2>2. ASSUME NEW from, View(from) \in Facts[Top.fn][Top.at]
        PROVE  View(from) \in Facts[Top.fn][Here.to]
    <3>1. MayJump(Here, View(from))
      <4>1. Here.op = "if" /\ Here.arg # "" =>
              Here.arg = "quit" \/ Meets(Here.arg, View(from))
        BY <1>2, MeetsHolds
      <4> QED BY <2>1, <4>1 DEF MayJump
    <3>2. Target(Top.fn, Here) = Here.to
      BY <2>1 DEF Target
    <3> QED BY <2>1, <2>2, <3>1, <3>2, Frames, MoveFlows DEF Here
  <2> QED BY <1>1, <2>1, <2>2, JumpStays
<1>3. CASE Passes("if") /\ (Here.arg # "" => ~Holds(Here.arg))
  <2>1. over = "no" /\ calls # <<>> /\ Move(Next_line) /\ Here.op = "if"
    BY <1>3 DEF Passes, Active
  <2>2. ASSUME NEW from
        PROVE  /\ MayPass(Here, View(from))
               /\ NowAfter(Top.fn, Here, View(from)) = View(from).now
               /\ HeldAfter(Here, View(from)) = View(from).held
    <3>1. ~Meets(Here.arg, View(from))
      <4>1. CASE Here.arg \in {"", "quit"}
        BY <4>1 DEF Meets
      <4>2. CASE Here.arg \notin {"", "quit"}
        BY <1>3, <4>2, MeetsHolds
      <4> QED BY <4>1, <4>2
    <3> QED BY <2>1, <3>1 DEF MayPass, NowAfter, HeldAfter
  <2> QED BY <1>1, <2>1, <2>2, UntouchedLocals, UntouchedGlobals, ViewFields, PassStays
<1> QED BY <1>2, <1>3 DEF BranchStep

\* A step to the next line that changes ex or my_ex as Passed says.
LEMMA SwitchStays ==
  ASSUME FlowInv, ExcInv', over = "no", calls # <<>>, NEW r \in Act,
         r.fn = Top.fn, r.at = Next_line, Next_line \in Lines(Top.fn),
         calls' = [calls EXCEPT ![Len(calls)] = r],
         UNCHANGED locals,
         UNCHANGED <<ended, g_pid, first, pid_before, overread, blocks>>,
         Here.op \in {"try", "save", "keep"},
         \A from : /\ r.ex = Passed(Top.fn, Here, View(from)).ex
                   /\ r.my_ex = Passed(Top.fn, Here, View(from)).my_ex
  PROVE  Explained'
<1>1. /\ DOMAIN calls' = DOMAIN calls
      /\ \A d \in DOMAIN calls : calls'[d] = IF d = Len(calls) THEN r ELSE calls[d]
  BY Stepping DEF FlowInv, ExcInv
<1>2. /\ Len(calls) \in DOMAIN calls /\ DOMAIN calls = 1 .. Len(calls)
      /\ Len(calls) \in Nat \ {0}
  BY Frames
<1>3. calls'[Len(calls)] = r /\ \A d \in DOMAIN calls : d < Len(calls) => calls'[d] = calls[d]
  BY <1>1, <1>2
<1>4. Globals' = Globals /\ Mine' = Mine
  BY UntouchedLocals, UntouchedGlobals
<1>5. ASSUME NEW from, View(from) \in Facts[Top.fn][Top.at]
      PROVE  View(from)' \in Facts[Top.fn][Next_line]
  <2>1. MayPass(Here, View(from))
    BY DEF MayPass
  <2>2. Passed(Top.fn, Here, View(from)) \in Facts[Top.fn][Next_line]
    BY <1>5, <2>1, Frames, MoveFlows DEF Here, Next_line
  <2>3. View(from)' = Fact(from, Globals, Mine.held, r.ex, r.my_ex)
    BY <1>1, <1>3, <1>4, NextView
  <2>4. /\ NowAfter(Top.fn, Here, View(from)) = Globals
        /\ HeldAfter(Here, View(from)) = Mine.held
    BY ViewFields DEF NowAfter, HeldAfter
  <2>5. View(from)' = Passed(Top.fn, Here, View(from))
    BY <2>3, <2>4, ViewFields DEF Passed, Fact
  <2> QED BY <2>2, <2>5
<1> QED BY <1>1, <1>3, <1>5, UntouchedLocals, Stays

LEMMA TryFlows ==
  ASSUME FlowInv, ExcInv', TryStep
  PROVE  Explained'
<1>1. UNCHANGED locals
      /\ UNCHANGED <<ended, g_pid, first, pid_before, overread, blocks>>
  BY DEF TryStep, tmpVars, dbgVars, ghostVars
<1>2. CASE Tries
  <2> DEFINE r == [Top EXCEPT !.at = Next_line, !.ex = None]
  <2>1. over = "no" /\ calls # <<>> /\ Here.op = "try"
        /\ calls' = [calls EXCEPT ![Len(calls)].at = Next_line, ![Len(calls)].ex = None]
    BY <1>2 DEF Tries, Active
  <2>2. Top \in Act /\ Top.fn \in DOMAIN Code /\ Top.at \in Lines(Top.fn)
        /\ Len(calls) \in DOMAIN calls /\ Top = calls[Len(calls)]
    BY <2>1, Frames
  <2>3. Next_line \in Lines(Top.fn) /\ Next_line \in Nat
    <3>1. Top.at \in TryLines(Top.fn)
      BY <2>1, <2>2 DEF TryLines, Here
    <3> QED BY <2>2, <3>1, TryOpen, LinesAreNat DEF Next_line
  <2>4. calls' = [calls EXCEPT ![Len(calls)] = r]
    BY <2>1, <2>2
  <2>5. r \in Act /\ r.fn = Top.fn /\ r.at = Next_line /\ r.ex = None
        /\ r.my_ex = Top.my_ex
    BY <2>2, <2>3 DEF Act
  <2>6. ASSUME NEW from
        PROVE  /\ r.ex = Passed(Top.fn, Here, View(from)).ex
               /\ r.my_ex = Passed(Top.fn, Here, View(from)).my_ex
    BY <2>1, <2>5, ViewFields DEF Passed, Fact
  <2> HIDE DEF r
  <2> QED BY <1>1, <2>1, <2>3, <2>4, <2>5, <2>6, SwitchStays
<1>3. CASE Saves
  <2> DEFINE m == IF Here.op = "save" \/ Top.my_ex = None THEN Top.ex ELSE Top.my_ex
             r == [Top EXCEPT !.at = Next_line, !.my_ex = m]
  <2>1. /\ over = "no" /\ calls # <<>> /\ Here.op \in {"save", "keep"}
        /\ calls' = [calls EXCEPT
             ![Len(calls)].at = Next_line,
             ![Len(calls)].my_ex =
                IF Here.op = "save" \/ @ = None THEN Top.ex ELSE @]
    BY <1>3 DEF Saves, Active
  <2>2. Top \in Act /\ Top.fn \in DOMAIN Code /\ Top.at \in Lines(Top.fn)
        /\ Len(calls) \in DOMAIN calls /\ Top = calls[Len(calls)]
    BY <2>1, Frames
  <2>3. Next_line \in Lines(Top.fn) /\ Next_line \in Nat
    <3>1. Code[Top.fn][Top.at].op \in GoesOn
      BY <2>1 DEF GoesOn, Here
    <3> QED BY <2>2, <3>1, GoesOnOpen, LinesAreNat DEF Next_line
  <2>4. calls' = [calls EXCEPT ![Len(calls)] = r]
    BY <2>1, <2>2
  <2>5. r \in Act /\ r.fn = Top.fn /\ r.at = Next_line /\ r.ex = Top.ex
        /\ r.my_ex = m
    <3>1. Top.ex \in Exceptions \cup {None} /\ m \in Exceptions \cup {None}
      BY <2>2 DEF Act
    <3> HIDE DEF m
    <3> QED BY <2>2, <2>3, <3>1 DEF Act
  <2>6. ASSUME NEW from
        PROVE  /\ r.ex = Passed(Top.fn, Here, View(from)).ex
               /\ r.my_ex = Passed(Top.fn, Here, View(from)).my_ex
    BY <2>1, <2>5, ViewFields DEF Passed, Fact
  <2> HIDE DEF r
  <2> QED BY <1>1, <2>1, <2>3, <2>4, <2>5, <2>6, SwitchStays
<1>4. CASE NothingSaved
  <2>1. over = "no" /\ calls # <<>> /\ Move(Next_line)
        /\ Here.op = "rethrow" /\ Top.my_ex = None
    BY <1>4 DEF NothingSaved, Active
  <2>2. \A from : /\ MayPass(Here, View(from))
                  /\ NowAfter(Top.fn, Here, View(from)) = View(from).now
                  /\ HeldAfter(Here, View(from)) = View(from).held
    BY <2>1, ViewFields DEF MayPass, NowAfter, HeldAfter
  <2> QED BY <1>1, <2>1, <2>2, UntouchedLocals, UntouchedGlobals, ViewFields, PassStays
<1>5. CASE Skips
  <2> DEFINE line == Code[Top.fn][Here.to].to
  <2>1. over = "no" /\ calls # <<>> /\ Here.op = "catch" /\ Move(line)
    BY <1>5 DEF Skips, Active
  <2>2. ASSUME NEW from, View(from) \in Facts[Top.fn][Top.at]
        PROVE  View(from) \in Facts[Top.fn][line]
    <3>1. MayJump(Here, View(from)) /\ Target(Top.fn, Here) = line
      BY <2>1 DEF MayJump, Target
    <3> QED BY <2>1, <2>2, <3>1, Frames, MoveFlows DEF Here
  <2> HIDE DEF line
  <2> QED BY <1>1, <2>1, <2>2, JumpStays
<1> QED BY <1>2, <1>3, <1>4, <1>5 DEF TryStep


\* run_command is at the bottom of the stack and nowhere else.
LEMMA RootAtBottom ==
  ASSUME FlowInv, over = "no", calls # <<>>, NEW d \in DOMAIN calls
  PROVE  calls[d].fn \in Roots <=> d = 1
<1>1. DOMAIN calls = 1 .. Len(calls) /\ Len(calls) \in Nat
  BY Frames
<1>2. calls[1].fn \in Roots
  BY DEF FlowInv, Explained
<1>3. CASE d # 1
  <2>1. d - 1 \in DOMAIN calls /\ d - 1 < Len(calls) /\ d - 1 + 1 = d
    BY <1>1, <1>3
  <2>2. calls[d].fn \in HereAt(d - 1).fns
    BY <2>1 DEF FlowInv, Explained, Explains, Waits, MayCall
  <2>3. calls[d - 1].fn \in DOMAIN Code /\ calls[d - 1].at \in Lines(calls[d - 1].fn)
    BY <2>1, Frames
  <2> QED BY <1>3, <2>2, <2>3, FlowAssumption DEF RootsNotCalled, HereAt
<1> QED BY <1>2, <1>3

LEMMA EtryFlows ==
  ASSUME FlowInv, ExcInv', EtryStep
  PROVE  Explained'
<1>1. over = "no" /\ calls # <<>> /\ Here.op = "etry" /\ Move(Next_line)
  BY DEF EtryStep, Etries, Active
<1>2. /\ UNCHANGED locals
      /\ UNCHANGED <<ended, g_pid, pid_before, overread, blocks>>
      /\ first' = IF Len(calls) > 1 /\ Top.ex # None /\ Top.my_ex = None
                  THEN None ELSE first
  BY DEF EtryStep, tmpVars, dbgVars
<1>3. Len(calls) > 1 <=> Top.fn \notin Roots
  <2>1. Len(calls) \in DOMAIN calls /\ Len(calls) \in Nat \ {0} /\ Top = calls[Len(calls)]
    BY <1>1, Frames
  <2>2. Top.fn \in Roots <=> Len(calls) = 1
    BY <1>1, <2>1, RootAtBottom
  <2>3. \A n \in Nat \ {0} : n > 1 <=> n # 1
    OBVIOUS
  <2> QED BY <2>1, <2>2, <2>3, Zenon
<1>4. ASSUME NEW from
      PROVE  /\ MayPass(Here, View(from))
             /\ Globals' = NowAfter(Top.fn, Here, View(from))
             /\ HeldAfter(Here, View(from)) = View(from).held
  <2>1. first' = IF Handled(Top.fn, View(from)) THEN None ELSE first
    BY <1>2, <1>3, ViewFields DEF Handled
  <2>2. MayPass(Here, View(from)) /\ HeldAfter(Here, View(from)) = View(from).held
    BY <1>1 DEF MayPass, HeldAfter
  <2>3. NowAfter(Top.fn, Here, View(from)) = [Globals EXCEPT !.first = first']
    <3> HIDE DEF Handled
    <3>1. View(from).now = Globals
      BY ViewFields
    <3>2. Globals.first = first
      BY DEF Globals
    <3> QED BY <1>1, <2>1, <3>1, <3>2 DEF NowAfter
  <2>4. Globals' = [Globals EXCEPT !.first = first']
    BY <1>2 DEF Globals
  <2> QED BY <2>2, <2>3, <2>4
<1> QED BY <1>1, <1>2, <1>4, UntouchedLocals, ViewFields, PassStays

-----------------------------------------------------------------------------
(* Steps that take or release a resource. *)

LEMMA HereIsResource ==
  ASSUME FlowInv, calls # <<>>
  PROVE  Here.arg \in Resources /\ "mappings" \in Resources
BY Frames DEF Resources, Here

LEMMA OwnsEffect ==
  ASSUME FlowInv, calls # <<>>, NEW res \in SUBSET Resources, Owns(res)
  PROVE  /\ locals' \in Seq(Local) /\ Len(locals') = Len(locals)
         /\ \A d \in DOMAIN calls : d < Len(calls) => locals'[d] = locals[d]
         /\ Mine'.held = res /\ Mine'.buf = Mine.buf
<1> DEFINE r == [Mine EXCEPT !.held = res]
           n == Len(locals)
<1>1. /\ locals \in Seq(Local) /\ n = Len(calls) /\ n \in 1 .. Len(locals)
      /\ Mine = locals[n] /\ Mine \in Local /\ DOMAIN calls = 1 .. n
  BY Frames DEF FlowInv, LocalsOK
<1>2. r \in Local /\ r.held = res /\ r.buf = Mine.buf
  BY <1>1 DEF Local
<1>3. locals' = [locals EXCEPT ![n] = r]
  BY <1>1 DEF Owns
<1> HIDE DEF r, n
<1>4. /\ locals' \in Seq(Local) /\ Len(locals') = Len(locals)
      /\ \A d \in 1 .. Len(locals) : locals'[d] = IF d = n THEN r ELSE locals[d]
  BY <1>1, <1>2, <1>3, ExceptSeq
<1>5. Mine' = r
  BY <1>1, <1>4 DEF Mine, n
<1> QED BY <1>1, <1>2, <1>4, <1>5 DEF n

LEMMA GetFlows ==
  ASSUME FlowInv, ExcInv', GetStep \/ PutStep
  PROVE  Explained'
<1>1. /\ over = "no" /\ calls # <<>> /\ Move(Next_line)
      /\ UNCHANGED <<ended, g_pid, first, pid_before, overread, blocks>>
      /\ \/ Here.op = "get" /\ Owns(Mine.held \cup {Here.arg})
         \/ Here.op = "put" /\ Owns(Mine.held \ {Here.arg})
  BY DEF GetStep, PutStep, Passes, Active, tmpVars, ghostVars
<1>2. ASSUME NEW from
      PROVE  /\ MayPass(Here, View(from))
             /\ NowAfter(Top.fn, Here, View(from)) = View(from).now
             /\ Owns(HeldAfter(Here, View(from)))
             /\ HeldAfter(Here, View(from)) \in SUBSET Resources
  <2>1. MayPass(Here, View(from))
    BY <1>1 DEF MayPass, Effects
  <2>2. NowAfter(Top.fn, Here, View(from)) = View(from).now
    BY <1>1 DEF NowAfter
  <2>3. HeldAfter(Here, View(from)) =
          IF Here.op = "get" THEN Mine.held \cup {Here.arg} ELSE Mine.held \ {Here.arg}
    BY <1>1, ViewFields DEF HeldAfter
  <2>4. Mine.held \subseteq Resources
    BY <1>1, Frames DEF Local
  <2> QED BY <1>1, <2>1, <2>2, <2>3, <2>4, HereIsResource
<1>3. ASSUME NEW from PROVE Mine'.held = HeldAfter(Here, View(from))
  BY <1>1, <1>2, OwnsEffect
<1>4. /\ Len(locals') = Len(locals)
      /\ \A d \in DOMAIN calls : d < Len(calls) => locals'[d] = locals[d]
  BY <1>1, <1>2, OwnsEffect
<1> QED BY <1>1, <1>2, <1>3, <1>4, UntouchedGlobals, ViewFields, PassStays


LEMMA Over ==
  ASSUME FlowInv, UNCHANGED calls, over' # "no"
  PROVE  Explained'
BY DEF FlowInv, Explained

LEMMA MappingsFlows ==
  ASSUME FlowInv, ExcInv', MappingsStep
  PROVE  Explained'
<1>1. /\ over = "no" /\ calls # <<>> /\ Move(Next_line) /\ Here.op = "set"
      /\ UNCHANGED <<g_pid, first, pid_before, overread, blocks>>
      /\ Owns(Mine.held \cup {"mappings"})
      /\ \/ Here.arg = "add_mem_mapping" /\ ended' = FALSE
         \/ Here.arg = "end_mark" /\ ended' = TRUE
  BY DEF MappingsStep, add_mem_mapping, Sets, Passes, Active, tmpVars, ghostVars
<1>2. Mine.held \cup {"mappings"} \in SUBSET Resources
  BY <1>1, Frames, HereIsResource DEF Local
<1>3. /\ Len(locals') = Len(locals) /\ Mine'.held = Mine.held \cup {"mappings"}
      /\ \A d \in DOMAIN calls : d < Len(calls) => locals'[d] = locals[d]
  BY <1>1, <1>2, OwnsEffect
<1>4. Globals' = [Globals EXCEPT !.ended = ended']
  BY <1>1 DEF Globals
<1>5. ASSUME NEW from
      PROVE  /\ MayPass(Here, View(from))
             /\ Globals' = NowAfter(Top.fn, Here, View(from))
             /\ Mine'.held = HeldAfter(Here, View(from))
  <2>1. MayPass(Here, View(from))
    BY <1>1 DEF MayPass, Effects
  <2>2. NowAfter(Top.fn, Here, View(from)) = NowSet(Here, View(from))
    BY <1>1 DEF NowAfter
  <2>3. NowSet(Here, View(from)) = [Globals EXCEPT !.ended = ended']
    <3>1. CASE Here.arg = "add_mem_mapping" /\ ended' = FALSE
      BY <3>1, ViewFields DEF NowSet
    <3>2. CASE Here.arg = "end_mark" /\ ended' = TRUE
      BY <3>2, ViewFields DEF NowSet
    <3> QED BY <1>1, <3>1, <3>2
  <2>4. HeldAfter(Here, View(from)) = Mine.held \cup {"mappings"}
    BY <1>1, ViewFields DEF HeldAfter
  <2> QED BY <1>3, <1>4, <2>1, <2>2, <2>3, <2>4
<1> QED BY <1>1, <1>3, <1>5, PassStays

LEMMA FreeMappingsFlows ==
  ASSUME FlowInv, ExcInv', free_mem_mappings
  PROVE  Explained'
<1>1. /\ Here.op = "set" /\ Here.arg = "free_mem_mappings"
      /\ UNCHANGED <<ended, g_pid, first, pid_before, blocks>>
      /\ Owns(Mine.held \ {"mappings"})
      /\ overread' = (overread \/ FreesPastEnd)
  BY DEF free_mem_mappings, Sets, Active, tmpVars
<1>2. CASE crashes("segv")
  BY <1>2, Over DEF crashes
<1>3. CASE Passes("set")
  <2>1. over = "no" /\ calls # <<>> /\ Move(Next_line)
    BY <1>3 DEF Passes, Active
  <2>2. Mine.held \ {"mappings"} \in SUBSET Resources
    BY <2>1, Frames DEF Local
  <2>3. /\ Len(locals') = Len(locals) /\ Mine'.held = Mine.held \ {"mappings"}
        /\ \A d \in DOMAIN calls : d < Len(calls) => locals'[d] = locals[d]
    BY <1>1, <2>1, <2>2, OwnsEffect
  <2>4. Globals' = [Globals EXCEPT !.overread = overread']
    BY <1>1 DEF Globals
  <2>5. ASSUME NEW from
        PROVE  /\ MayPass(Here, View(from))
               /\ Globals' = NowAfter(Top.fn, Here, View(from))
               /\ Mine'.held = HeldAfter(Here, View(from))
    <3>1. MayPass(Here, View(from))
      BY <1>1 DEF MayPass, Effects
    <3>2. HeldAfter(Here, View(from)) = Mine.held \ {"mappings"}
      BY <1>1, ViewFields DEF HeldAfter
    <3>3. PastEnd(Here, View(from)) <=> FreesPastEnd
      <4>1. View(from).now.ended = ended /\ View(from).held = Mine.held
        BY ViewFields DEF Globals
      <4>2. PastEnd(Here, View(from)) <=> "mappings" \in Mine.held /\ ~View(from).now.ended
        BY <1>1, <4>1 DEF PastEnd
      <4>3. FreesPastEnd <=> "mappings" \in Mine.held /\ ~ended
        BY <1>1, <2>1 DEF FreesPastEnd, Sets, Active
      <4> QED BY <4>1, <4>2, <4>3
    <3>4. View(from).now = Globals /\ Globals.overread = overread
      BY ViewFields DEF Globals
    <3>5. NowAfter(Top.fn, Here, View(from)) = NowSet(Here, View(from))
      BY <1>1 DEF NowAfter
    <3>6. NowSet(Here, View(from)) =
            [Globals EXCEPT !.overread = (@ \/ PastEnd(Here, View(from)))]
      <4> HIDE DEF PastEnd
      <4> QED BY <1>1, <3>4 DEF NowSet
    <3>7. NowSet(Here, View(from)) = [Globals EXCEPT !.overread = overread']
      <4> HIDE DEF PastEnd, FreesPastEnd
      <4> QED BY <1>1, <3>3, <3>4, <3>6
    <3> QED BY <2>3, <2>4, <3>1, <3>2, <3>5, <3>7
  <2> QED BY <2>1, <2>3, <2>5, <1>1, PassStays
<1> QED BY <1>2, <1>3 DEF free_mem_mappings

LEMMA PidFlows ==
  ASSUME FlowInv, ExcInv', PidStep
  PROVE  Explained'
<1>1. /\ over = "no" /\ calls # <<>> /\ Move(Next_line) /\ Here.op = "set"
      /\ UNCHANGED <<locals, ended, first, pid_before, overread, blocks>>
      /\ \/ Here.arg = "g_pid = pid" /\ g_pid' = TRUE
         \/ Here.arg = "g_pid = 0" /\ g_pid' = FALSE
         \/ /\ Here.arg \in {"PTRACE_ATTACH", "g_quit", "add_syscall_break"}
            /\ UNCHANGED g_pid
  BY DEF PidStep, Sets, Passes, Active, tmpVars, ghostVars
<1>2. Globals' = [Globals EXCEPT !.g_pid = g_pid']
  <2>1. UNCHANGED <<ended, first, pid_before, overread, blocks>>
    BY <1>1
  <2> QED BY <2>1 DEF Globals
<1>3. ASSUME NEW from
      PROVE  /\ MayPass(Here, View(from))
             /\ Globals' = NowAfter(Top.fn, Here, View(from))
             /\ HeldAfter(Here, View(from)) = View(from).held
  <2>1. MayPass(Here, View(from)) /\ HeldAfter(Here, View(from)) = View(from).held
    BY <1>1 DEF MayPass, HeldAfter, Effects
  <2>2. NowAfter(Top.fn, Here, View(from)) = NowSet(Here, View(from))
    BY <1>1 DEF NowAfter
  <2>3. NowSet(Here, View(from)) = [Globals EXCEPT !.g_pid = g_pid']
    <3>1. CASE Here.arg = "g_pid = pid" /\ g_pid' = TRUE
      BY <3>1, ViewFields DEF NowSet
    <3>2. CASE Here.arg = "g_pid = 0" /\ g_pid' = FALSE
      BY <3>2, ViewFields DEF NowSet
    <3>3. CASE /\ Here.arg \in {"PTRACE_ATTACH", "g_quit", "add_syscall_break"}
               /\ UNCHANGED g_pid
      <4>1. NowSet(Here, View(from)) = Globals
        BY <3>3, ViewFields DEF NowSet
      <4>2. [Globals EXCEPT !.g_pid = g_pid'] = Globals
        BY <3>3 DEF Globals
      <4> QED BY <4>1, <4>2
    <3> QED BY <1>1, <3>1, <3>2, <3>3
  <2> QED BY <1>2, <2>1, <2>2, <2>3
<1> QED BY <1>1, <1>3, UntouchedLocals, ViewFields, PassStays


-----------------------------------------------------------------------------
(* Temporary memory. *)

LEMMA BufEffect ==
  ASSUME FlowInv, calls # <<>>, NEW p \in Ptrs \cup {NULL},
         locals' = [locals EXCEPT ![Len(locals)].buf = p]
  PROVE  /\ locals' \in Seq(Local) /\ Len(locals') = Len(locals)
         /\ \A d \in DOMAIN calls : d < Len(calls) => locals'[d] = locals[d]
         /\ Mine'.held = Mine.held
<1> DEFINE r == [Mine EXCEPT !.buf = p]
           n == Len(locals)
<1>1. /\ locals \in Seq(Local) /\ n = Len(calls) /\ n \in 1 .. Len(locals)
      /\ Mine = locals[n] /\ Mine \in Local /\ DOMAIN calls = 1 .. n
  BY Frames DEF FlowInv, LocalsOK
<1>2. r \in Local /\ r.held = Mine.held
  BY <1>1 DEF Local
<1>3. locals' = [locals EXCEPT ![n] = r]
  BY <1>1
<1> HIDE DEF r, n
<1>4. /\ locals' \in Seq(Local) /\ Len(locals') = Len(locals)
      /\ \A d \in 1 .. Len(locals) : locals'[d] = IF d = n THEN r ELSE locals[d]
  BY <1>1, <1>2, <1>3, ExceptSeq
<1>5. Mine' = r
  BY <1>1, <1>4 DEF Mine, n
<1> QED BY <1>1, <1>2, <1>4, <1>5 DEF n

\* A block that is allocated is listed.
LEMMA MallocFills ==
  ASSUME TempInv, NEW p, tmp_malloc(p)
  PROVE  blocks' # <<>> /\ p \in Ptrs
<1>1. blocks \in Seq(Ptrs \cup {NULL}) /\ blocks' = Append(blocks, p) /\ p \in Ptrs
  BY DEF TempInv, tmp_malloc
<1> QED BY <1>1

LEMMA ReallocFills ==
  ASSUME TempInv, NEW old, NEW p, tmp_realloc(old, p)
  PROVE  blocks' # <<>> /\ p \in Ptrs
<1>1. CASE ~Head_is(old)
  BY <1>1, MallocFills DEF tmp_realloc
<1>2. CASE Head_is(old)
  <2>1. /\ blocks \in Seq(Ptrs \cup {NULL}) /\ blocks # <<>> /\ p \in Ptrs
        /\ blocks' = [blocks EXCEPT ![Len(blocks)] = p]
    BY <1>2 DEF TempInv, tmp_realloc, Head_is
  <2>2. DOMAIN blocks' = DOMAIN blocks
    BY <2>1
  <2>3. Len(blocks) \in DOMAIN blocks
    BY <2>1, EmptySeq, LenProperties
  <2>4. DOMAIN << >> = {}
    OBVIOUS
  <2> QED BY <2>1, <2>2, <2>3, <2>4
<1> QED BY <1>1, <1>2

LEMMA NextEmpty ==
  ASSUME UNCHANGED <<ended, g_pid, first, pid_before, overread>>
  PROVE  /\ blocks' = <<>> => Globals' = [Globals EXCEPT !.empty = TRUE]
         /\ blocks' # <<>> => Globals' = [Globals EXCEPT !.empty = FALSE]
<1> DEFINE G(e) == [ended |-> ended, g_pid |-> g_pid, first |-> first,
                    pid_before |-> pid_before, overread |-> overread, empty |-> e]
<1>1. \A e : [Globals EXCEPT !.empty = e] = G(e)
  BY DEF Globals
<1>2. Globals' = G(blocks' = <<>>)
  BY DEF Globals
<1> HIDE DEF G
<1>3. CASE blocks' = <<>>
  <2>1. (blocks' = <<>>) = TRUE
    BY <1>3
  <2> QED BY <1>1, <1>2, <1>3, <2>1
<1>4. CASE blocks' # <<>>
  <2>1. (blocks' = <<>>) = FALSE
    BY <1>4
  <2> QED BY <1>1, <1>2, <1>4, <2>1
<1> QED BY <1>3, <1>4

LEMMA TmpFlows ==
  ASSUME FlowInv, ExcInv', TmpStep
  PROVE  Explained'
<1>1. /\ over = "no" /\ calls # <<>> /\ Move(Next_line)
      /\ UNCHANGED <<ended, g_pid, first, pid_before, overread>>
  BY DEF TmpStep, Passes, Active, ghostVars
<1>2. ASSUME Here.op \in {"tmp", "grow"}, blocks' # <<>>,
             Len(locals') = Len(locals), Mine'.held = Mine.held,
             \A d \in DOMAIN calls : d < Len(calls) => locals'[d] = locals[d]
      PROVE  Explained'
  <2>1. Globals' = [Globals EXCEPT !.empty = FALSE]
    BY <1>1, <1>2, NextEmpty
  <2>2. \A from : /\ MayPass(Here, View(from))
                  /\ NowAfter(Top.fn, Here, View(from)) = [Globals EXCEPT !.empty = FALSE]
                  /\ HeldAfter(Here, View(from)) = Mine.held
    BY <1>2, ViewFields DEF MayPass, NowAfter, HeldAfter, Effects
  <2> QED BY <1>1, <1>2, <2>1, <2>2, PassStays
<1>3. CASE Passes("tmp") /\ (\E p \in Candidates : tmp_malloc(p)) /\ UNCHANGED locals
  <2>1. Here.op = "tmp" /\ blocks' # <<>>
    BY <1>3, MallocFills DEF Passes, Active, FlowInv
  <2> QED BY <1>2, <1>3, <2>1, UntouchedLocals
<1>4. CASE /\ Passes("grow")
           /\ \E p \in Moves(Mine.buf) :
                /\ tmp_realloc(Mine.buf, p)
                /\ locals' = [locals EXCEPT ![Len(locals)].buf = p]
  <2>1. PICK p : tmp_realloc(Mine.buf, p)
                 /\ locals' = [locals EXCEPT ![Len(locals)].buf = p]
    BY <1>4
  <2>2. Here.op = "grow" /\ blocks' # <<>> /\ p \in Ptrs
    BY <1>4, <2>1, ReallocFills DEF Passes, Active, FlowInv
  <2> QED BY <1>1, <1>2, <2>1, <2>2, BufEffect
<1>5. CASE /\ Passes("free") /\ free_by_hand(Mine.buf)
           /\ locals' = [locals EXCEPT ![Len(locals)].buf = NULL]
  <2>1. Here.op = "free" /\ blocks' = blocks
    BY <1>5 DEF Passes, Active, free_by_hand
  <2>2. Globals' = Globals
    BY <1>1, <2>1, UntouchedGlobals
  <2>3. \A from : /\ MayPass(Here, View(from))
                  /\ NowAfter(Top.fn, Here, View(from)) = View(from).now
                  /\ HeldAfter(Here, View(from)) = View(from).held
    BY <2>1, ViewFields DEF MayPass, NowAfter, HeldAfter, Effects
  <2>4. /\ Len(locals') = Len(locals) /\ Mine'.held = Mine.held
        /\ \A d \in DOMAIN calls : d < Len(calls) => locals'[d] = locals[d]
    BY <1>1, <1>5, BufEffect
  <2> QED BY <1>1, <2>1, <2>2, <2>3, <2>4, ViewFields, PassStays
<1> QED BY <1>3, <1>4, <1>5 DEF TmpStep

LEMMA FreeAllFlows ==
  ASSUME FlowInv, ExcInv', FreeAllStep
  PROVE  Explained'
<1>1. /\ UNCHANGED <<locals, ended, g_pid, first, pid_before, overread>>
      /\ blocks' = <<>>
  BY DEF FreeAllStep, tmp_free_all, dbgVars, ghostVars
<1>2. CASE crashes("abort")
  BY <1>2, Over DEF crashes
<1>3. CASE Passes("free_all")
  <2>1. over = "no" /\ calls # <<>> /\ Move(Next_line) /\ Here.op = "free_all"
    BY <1>3 DEF Passes, Active
  <2>2. Globals' = [Globals EXCEPT !.empty = TRUE]
    BY <1>1, NextEmpty
  <2>3. \A from : /\ MayPass(Here, View(from))
                  /\ NowAfter(Top.fn, Here, View(from)) = [Globals EXCEPT !.empty = TRUE]
                  /\ HeldAfter(Here, View(from)) = Mine.held
    BY <2>1, ViewFields DEF MayPass, NowAfter, HeldAfter, Effects
  <2> QED BY <1>1, <2>1, <2>2, <2>3, UntouchedLocals, PassStays
<1> QED BY <1>2, <1>3 DEF FreeAllStep


-----------------------------------------------------------------------------
(* Calls. *)

LEMMA CallEffect ==
  ASSUME FlowInv, CallStep, over' = "no"
  PROVE  /\ over = "no" /\ calls # <<>> /\ Globals' = Globals
         /\ \E g \in MayCall(Here, View(Globals)) : calls' = Append(calls, Activation(g))
         /\ locals' \in Seq(Local) /\ Len(locals') = Len(calls) + 1
         /\ \A d \in DOMAIN calls : d < Len(calls) => locals'[d] = locals[d]
         /\ locals'[Len(calls)].held = Keeps(Here, Mine.held)
         /\ locals'[Len(calls) + 1].held = Hands(Here, Mine.held)
<1> DEFINE handed == Hands(Here, Mine.held)
           r == [Mine EXCEPT !.held = @ \ handed]
           left == [locals EXCEPT ![Len(locals)] = r]
           n == Len(locals)
<1>1. /\ over = "no" /\ calls # <<>> /\ Here.op = "call"
      /\ locals' = Append([locals EXCEPT ![n].held = @ \ handed], NewLocals(handed))
  BY DEF CallStep, Active, Hands
<1>2. /\ locals \in Seq(Local) /\ n = Len(calls) /\ n \in 1 .. n /\ n \in Nat
      /\ Mine = locals[n] /\ Mine \in Local /\ DOMAIN calls = 1 .. n
  BY <1>1, Frames DEF FlowInv, LocalsOK
<1>3. /\ UNCHANGED <<ended, g_pid, first, pid_before, overread, blocks>>
      /\ \E g \in Here.fns : /\ g \in NeedsProgram => g_pid
                             /\ calls' = Append(calls, Activation(g))
  BY DEF CallStep, Invoke, tmpVars, ghostVars
<1>4. View(Globals).now.g_pid = g_pid
  BY ViewFields DEF Globals
<1>5. handed \subseteq Mine.held /\ Mine.held \ handed = Keeps(Here, Mine.held)
  BY DEF Hands, Keeps
<1>6. NewLocals(handed) \in Local /\ NewLocals(handed).held = handed
  BY <1>2, <1>5 DEF Local, NewLocals
<1>7. r \in Local /\ r.held = Keeps(Here, Mine.held)
  BY <1>2, <1>5 DEF Local
<1>8. left = [locals EXCEPT ![n].held = @ \ handed]
  BY <1>2
<1> HIDE DEF handed, r
<1>9. /\ left \in Seq(Local) /\ Len(left) = n
      /\ \A d \in 1 .. n : left[d] = IF d = n THEN r ELSE locals[d]
  BY <1>2, <1>7, ExceptSeq
<1>10. locals' = Append(left, NewLocals(handed))
  BY <1>1, <1>8
<1> HIDE DEF left, n
<1>11. /\ locals' \in Seq(Local) /\ Len(locals') = n + 1
       /\ locals'[n + 1] = NewLocals(handed)
       /\ \A d \in 1 .. n : locals'[d] = left[d]
  BY <1>2, <1>6, <1>9, <1>10
<1>12. \A d \in 1 .. n : d < n => locals'[d] = locals[d]
  BY <1>2, <1>9, <1>11
<1>13. locals'[n] = r
  BY <1>2, <1>9, <1>11
<1>14. \A g : (g \in NeedsProgram => g_pid) /\ g \in Here.fns
              => g \in MayCall(Here, View(Globals))
  BY <1>1, <1>4 DEF MayCall
<1>15. \E g \in MayCall(Here, View(Globals)) : calls' = Append(calls, Activation(g))
  BY <1>3, <1>14
<1> QED
  BY <1>1, <1>2, <1>3, <1>6, <1>7, <1>11, <1>12, <1>13, <1>15, UntouchedGlobals DEF handed

LEMMA SameCalls ==
  ASSUME NEW s, NEW x, NEW y, x.now = y.now
  PROVE  MayCall(s, x) = MayCall(s, y)
BY DEF MayCall

LEMMA CallStepFlows ==
  ASSUME FlowInv, ExcInv', CallStep
  PROVE  Explained'
<1>1. CASE over' # "no"
  <2>1. UNCHANGED calls
    BY <1>1 DEF CallStep, Invoke, Active
  <2> QED BY <1>1, <2>1, Over
<1>2. CASE over' = "no"
  <2>0. PICK n : n = Len(calls)
    OBVIOUS
  <2>1. /\ over = "no" /\ calls # <<>> /\ Globals' = Globals
        /\ locals' \in Seq(Local) /\ Len(locals') = n + 1
        /\ \A d \in DOMAIN calls : d < n => locals'[d] = locals[d]
        /\ locals'[n].held = Keeps(Here, Mine.held)
        /\ locals'[n + 1].held = Hands(Here, Mine.held)
    BY <1>2, <2>0, CallEffect
  <2>2. PICK g \in MayCall(Here, View(Globals)) : calls' = Append(calls, Activation(g))
    BY <1>2, CallEffect
  <2>3. PICK ent : Explains(ent)
    BY <2>1 DEF FlowInv, Explained
  <2>15. PICK new : new = [d \in 1 .. n + 1 |-> IF d = n + 1 THEN Globals ELSE ent[d]]
    OBVIOUS
  <2> DEFINE x == View(ent[n])
  <2>4. /\ n \in Nat \ {0} /\ DOMAIN calls = 1 .. n /\ n \in DOMAIN calls
        /\ Top = calls[n] /\ Mine = locals[n] /\ calls \in Seq(Act)
        /\ Top.fn \in DOMAIN Code /\ Top.at \in Lines(Top.fn)
    BY <2>0, <2>1, Frames DEF FlowInv, ExcInv, CallsOK
  <2>5. x \in Facts[Top.fn][Top.at] /\ g \in MayCall(Here, x)
        /\ x.from = ent[n] /\ x.now = Globals
    BY <2>0, <2>2, <2>3, ViewFields, SameCalls DEF Explains
  <2>6. Here = Code[Top.fn][Top.at]
    BY DEF Here
  <2>7. /\ calls'[n + 1] = Activation(g) /\ Len(calls') = n + 1
        /\ DOMAIN calls' = 1 .. n + 1
        /\ \A d \in 1 .. n : calls'[d] = calls[d]
    <3>1. Len(calls') = n + 1 /\ calls'[n + 1] = Activation(g)
          /\ \A d \in 1 .. n : calls'[d] = calls[d]
      BY <2>2, <2>4
    <3> QED BY <3>1, CallsFacts DEF ExcInv
  <2>8. /\ new[n + 1] = Globals
        /\ \A d \in 1 .. n : new[d] = ent[d]
    BY <2>4, <2>15
  <2>9. View(new[n + 1])' \in Facts[g][First(g)]
    <3>1. Entered(Here, x) \in Facts[g][First(g)]
      BY <2>4, <2>5, <2>6, CallFlows
    <3>2. Mine'.held = Hands(Here, Mine.held)
      BY <2>1, <2>4 DEF Mine
    <3>3. Top' = Activation(g)
      BY <2>7 DEF Top
    <3>4. View(new[n + 1])' = Fact(Globals, Globals, Hands(Here, Mine.held), None, None)
      BY <2>1, <2>8, <3>2, <3>3 DEF View, Activation
    <3>5. Entered(Here, x) = Fact(Globals, Globals, Hands(Here, Mine.held), None, None)
      BY <2>5, ViewFields DEF Entered
    <3> QED BY <3>1, <3>4, <3>5
  <2>10. Top'.fn = g /\ Top'.at = First(g)
    BY <2>7 DEF Top, Activation
  <2>11. ASSUME NEW d \in 1 .. n + 1, d < n + 1 PROVE Waits(d, new)'
    <3>1. CASE d < n
      <4>1. Waits(d, ent)
        BY <2>0, <2>3, <2>4, <3>1 DEF Explains
      <4>2. d \in 1 .. n /\ d + 1 \in 1 .. n
        BY <2>4, <3>1
      <4>3. /\ calls'[d] = calls[d] /\ calls'[d + 1] = calls[d + 1]
            /\ locals'[d] = locals[d] /\ new[d] = ent[d] /\ new[d + 1] = ent[d + 1]
        BY <2>1, <2>4, <2>7, <2>8, <3>1, <4>2
      <4> QED BY <4>1, <4>3 DEF Waits, Known, HereAt
    <3>2. CASE d = n
      <4>1. PICK held : held = Mine.held
        OBVIOUS
      <4>2. HereAt(d)' = Here
        BY <2>4, <2>7, <3>2 DEF HereAt, Here
      <4>3. /\ calls'[d] = Top /\ calls'[d + 1].fn = g
            /\ new[d] = ent[n] /\ new[d + 1] = Globals
        BY <2>4, <2>7, <2>8, <3>2 DEF Activation
      <4>4. Known(d, new, held)' = x
        BY <4>1, <4>3 DEF Known, View
      <4>5. /\ Known(d, new, held)' \in Facts[calls'[d].fn][calls'[d].at]
            /\ locals'[d].held = Keeps(HereAt(d)', held)
            /\ calls'[d + 1].fn \in MayCall(HereAt(d)', Known(d, new, held)')
        BY <2>1, <2>5, <3>2, <4>1, <4>2, <4>3, <4>4
      <4> QED BY <4>5 DEF Waits, Known
    <3> QED BY <2>4, <2>11, <3>1, <3>2
  <2>12. Falls(new)'
    <3> SUFFICES ASSUME NEW h \in 1 .. n + 1, NEW j \in 1 .. n + 1, h <= j,
                        \A k \in 1 .. n + 1 : h <= k /\ k < j => Opened(k)' = {},
                        NEW e, NEW now,
                        Escape(new[j], e, now) \in Escapes[calls'[j].fn]
                 PROVE  Escape(new[h], e, now) \in Escapes[calls'[h].fn]
      BY <2>7 DEF Falls
    <3>1. \A k \in 1 .. n : h <= k /\ k < j => Opened(k) = {}
      <4>1. \A k \in 1 .. n : k \in 1 .. n + 1
        BY <2>4
      <4>2. \A k \in 1 .. n : Opened(k)' = Opened(k)
        BY <2>7 DEF Opened
      <4> QED BY <4>1, <4>2
    <3>2. CASE j \in 1 .. n
      <4>1. h \in 1 .. n
        BY <2>4, <3>2
      <4>2. Escape(ent[h], e, now) \in Escapes[calls[h].fn]
        BY <2>3, <2>4, <2>7, <2>8, <3>1, <3>2, <4>1 DEF Explains, Falls
      <4> QED BY <2>7, <2>8, <4>1, <4>2
    <3>3. CASE j = n + 1 /\ h \in 1 .. n
      <4> DEFINE r == Escape(Globals, e, now)
                 y == [ex |-> r.ex, x |-> Resumed(Here, x, r.now, {})]
      <4>1. r \in Escapes[g] /\ r.from = x.now /\ r.ex = e /\ r.now = now
        <5>1. calls'[j].fn = g /\ new[j] = Globals
          BY <2>7, <2>8, <3>3 DEF Activation
        <5>2. r \in Escapes[g]
          BY <5>1
        <5>3. r.from = Globals /\ r.ex = e /\ r.now = now
          BY DEF Escape, Fact
        <5> QED BY <2>5, <5>2, <5>3
      <4>2. Arrives(Top.fn, Top.at, y)
        BY <2>4, <2>5, <2>6, <4>1, EscapeFlows
      <4>3. Open(Top.fn, Top.at) = {}
        <5>1. n \in 1 .. n /\ h <= n /\ n < j
          BY <2>4, <3>3
        <5>2. Opened(n) = {}
          BY <3>1, <5>1
        <5> QED BY <2>4, <5>2 DEF Opened
      <4>4. y.ex = e /\ y.x.from = ent[n] /\ y.x.now = now
        BY <2>5, <4>1 DEF Resumed, Fact
      <4>5. Escape(ent[n], e, now) \in Escapes[Top.fn]
        BY <4>2, <4>3, <4>4 DEF Arrives
      <4>6. Escape(ent[h], e, now) \in Escapes[calls[h].fn]
        <5>1. h <= n /\ \A k \in 1 .. n : k < n => k < j
          BY <2>4, <3>3
        <5>2. \A k \in DOMAIN calls : h <= k /\ k < n => Opened(k) = {}
          BY <2>4, <3>1, <5>1
        <5> QED BY <2>3, <2>4, <3>3, <4>5, <5>1, <5>2 DEF Explains, Falls
      <4> QED BY <2>7, <2>8, <3>3, <4>6
    <3>4. CASE h = n + 1
      BY <2>4, <3>4
    <3> QED BY <2>4, <3>2, <3>3, <3>4
  <2>13. Explains(new)'
    BY <2>7, <2>9, <2>10, <2>11, <2>12 DEF Explains
  <2>14. calls'[1].fn = calls[1].fn
    BY <2>4, <2>7
  <2> QED BY <2>1, <2>13, <2>14 DEF Explained, FlowInv
<1> QED BY <1>1, <1>2


-----------------------------------------------------------------------------
(* Returns. *)

LEMMA CutAndSet ==
  ASSUME NEW S, NEW s \in Seq(S), NEW m \in 1 .. Len(s), NEW r \in S
  PROVE  LET t == [SubSeq(s, 1, m) EXCEPT ![m] = r] IN
         /\ t \in Seq(S) /\ Len(t) = m /\ DOMAIN t = 1 .. m /\ t[m] = r
         /\ \A d \in 1 .. m : d < m => t[d] = s[d]
<1> DEFINE low == SubSeq(s, 1, m)
           t == [low EXCEPT ![m] = r]
<1>1. m \in Nat /\ m \in 1 .. m /\ \A d \in 1 .. m : s[d] \in S
  BY ElementOfSeq
<1>2. low \in Seq(S) /\ Len(low) = m /\ \A d \in 1 .. m : low[d] = s[d]
  BY <1>1, SubSeqProperties
<1> HIDE DEF low
<1>3. /\ t \in Seq(S) /\ Len(t) = m
      /\ \A d \in 1 .. m : t[d] = IF d = m THEN r ELSE low[d]
  BY <1>1, <1>2, ExceptSeq
<1>4. DOMAIN t = 1 .. m
  BY <1>3, LenProperties
<1> HIDE DEF t
<1>5. \A d \in 1 .. m : d < m => t[d] = s[d]
  BY <1>1, <1>2, <1>3
<1>6. t[m] = r
  BY <1>1, <1>3
<1> QED BY <1>3, <1>4, <1>5, <1>6 DEF t, low

LEMMA ReturnEffect ==
  ASSUME FlowInv, ReturnStep
  PROVE  /\ over = "no" /\ over' = "no" /\ calls # <<>> /\ Here.op \in Returning
         /\ Globals' = Globals
         /\ Len(calls) = 1 => calls' = <<>> /\ locals' = <<>>
         /\ Len(calls) # 1 =>
              LET m == Len(calls) - 1 IN
              /\ m \in DOMAIN calls /\ m < Len(calls) /\ m + 1 = Len(calls)
              /\ Len(calls') = m /\ DOMAIN calls' = 1 .. m
              /\ \A d \in 1 .. m : d < m => calls'[d] = calls[d]
              /\ calls'[m].fn = calls[m].fn
              /\ calls'[m].at = After(calls[m].fn, calls[m].at)
              /\ calls'[m].ex = calls[m].ex /\ calls'[m].my_ex = calls[m].my_ex
              /\ locals' \in Seq(Local) /\ Len(locals') = m
              /\ \A d \in 1 .. m : d < m => locals'[d] = locals[d]
              /\ locals'[m].held = locals[m].held \cup Gives(Here, Mine.held)
<1> DEFINE n == Len(calls)
           m == n - 1
           given == Gives(Here, Mine.held)
<1>1. /\ over = "no" /\ over' = "no" /\ calls # <<>> /\ Here.op \in Returning /\ Back
      /\ UNCHANGED <<ended, g_pid, first, pid_before, overread, blocks>>
      /\ locals' = IF Len(locals) = 1 THEN <<>>
                   ELSE [SubSeq(locals, 1, Len(locals) - 1) EXCEPT
                           ![Len(locals) - 1].held = @ \cup given]
  BY DEF ReturnStep, Returns, Leaves, Active, Returning, Gives, tmpVars
<1>2. /\ locals \in Seq(Local) /\ Len(locals) = n /\ Mine \in Local
      /\ calls \in Seq(Act) /\ n \in Nat \ {0} /\ DOMAIN calls = 1 .. n
  BY <1>1, Frames DEF FlowInv, LocalsOK, ExcInv, CallsOK
<1>3. CASE n = 1
  BY <1>1, <1>2, <1>3, UntouchedGlobals DEF Back
<1>4. CASE n # 1
  <2> DEFINE caller == calls[m]
             r == [caller EXCEPT !.at = After(caller.fn, caller.at)]
             mine == locals[m]
             q == [mine EXCEPT !.held = @ \cup given]
  <2>1. /\ m \in Nat \ {0} /\ m < n /\ m + 1 = n
        /\ m \in DOMAIN calls /\ m \in 1 .. Len(calls) /\ m \in 1 .. Len(locals)
    BY <1>2, <1>4
  <2>2. /\ caller \in Act /\ caller.fn \in DOMAIN Code /\ caller.at \in Lines(caller.fn)
        /\ mine \in Local
    BY <1>1, <2>1, Frames
  <2>3. After(caller.fn, caller.at) \in Nat
    <3>1. Code[caller.fn][caller.at].op \in GoesOn
      BY <1>2, <2>1 DEF FlowInv, ExcInv, CallsOK, GoesOn
    <3> HIDE DEF caller
    <3> QED BY <2>2, <3>1, GoesOnOpen, LinesAreNat
  <2>4. calls' = [SubSeq(calls, 1, m) EXCEPT ![m].at = After(caller.fn, caller.at)]
    BY <1>1, <1>4 DEF Back
  <2>5. SubSeq(calls, 1, m)[m] = caller /\ m \in DOMAIN SubSeq(calls, 1, m)
    BY <1>2, <2>1
  <2>6. calls' = [SubSeq(calls, 1, m) EXCEPT ![m] = r]
    BY <2>4, <2>5
  <2>7. locals' = [SubSeq(locals, 1, m) EXCEPT ![m].held = @ \cup given]
    BY <1>1, <1>2, <1>4
  <2>8. SubSeq(locals, 1, m)[m] = mine /\ m \in DOMAIN SubSeq(locals, 1, m)
    BY <1>2, <2>1
  <2>9. locals' = [SubSeq(locals, 1, m) EXCEPT ![m] = q]
    BY <2>7, <2>8
  <2> HIDE DEF caller, mine
  <2>10. /\ r \in Act /\ r.fn = caller.fn /\ r.at = After(caller.fn, caller.at)
         /\ r.ex = caller.ex /\ r.my_ex = caller.my_ex
    BY <2>2, <2>3 DEF Act
  <2>11. q \in Local /\ q.held = mine.held \cup given
    <3>1. given \subseteq Mine.held
      BY DEF Gives
    <3> HIDE DEF given
    <3> QED BY <1>2, <2>2, <3>1 DEF Local
  <2> HIDE DEF r, q
  <2>12. /\ Len(calls') = m /\ DOMAIN calls' = 1 .. m /\ calls'[m] = r
         /\ \A d \in 1 .. m : d < m => calls'[d] = calls[d]
    BY <1>2, <2>1, <2>6, <2>10, CutAndSet
  <2>13. /\ locals' \in Seq(Local) /\ Len(locals') = m /\ locals'[m] = q
         /\ \A d \in 1 .. m : d < m => locals'[d] = locals[d]
    BY <1>2, <2>1, <2>9, <2>11, CutAndSet
  <2> HIDE DEF m, n
  <2>14. Globals' = Globals
    BY <1>1, UntouchedGlobals
  <2> QED BY <1>1, <1>4, <2>1, <2>10, <2>11, <2>12, <2>13, <2>14 DEF m, n, caller, mine, given
<1> QED BY <1>3, <1>4

LEMMA ReturnStepFlows ==
  ASSUME FlowInv, ExcInv', ReturnStep
  PROVE  Explained'
<1>1. /\ over = "no" /\ over' = "no" /\ calls # <<>> /\ Here.op \in Returning
      /\ Globals' = Globals
  BY ReturnEffect
<1>2. CASE Len(calls) = 1
  BY <1>2, ReturnEffect DEF Explained
<1>3. CASE Len(calls) # 1
  <2>1. PICK m : m = Len(calls) - 1
    OBVIOUS
  <2>2. /\ m \in DOMAIN calls /\ m < Len(calls) /\ m + 1 = Len(calls)
        /\ Len(calls') = m /\ DOMAIN calls' = 1 .. m
        /\ \A d \in 1 .. m : d < m => calls'[d] = calls[d]
        /\ calls'[m].fn = calls[m].fn
        /\ calls'[m].at = After(calls[m].fn, calls[m].at)
        /\ calls'[m].ex = calls[m].ex /\ calls'[m].my_ex = calls[m].my_ex
        /\ Len(locals') = m
        /\ \A d \in 1 .. m : d < m => locals'[d] = locals[d]
        /\ locals'[m].held = locals[m].held \cup Gives(Here, Mine.held)
    BY <1>3, <2>1, ReturnEffect
  <2>3. PICK ent : Explains(ent)
    BY <1>1 DEF FlowInv, Explained
  <2>4. PICK held : /\ Known(m, ent, held) \in Facts[calls[m].fn][calls[m].at]
                    /\ locals[m].held = Keeps(HereAt(m), held)
                    /\ calls[m + 1].fn \in MayCall(HereAt(m), Known(m, ent, held))
    BY <2>2, <2>3 DEF Explains, Waits
  <2> DEFINE x == Known(m, ent, held)
             r == View(ent[m + 1])
  <2>5. /\ Top = calls[m + 1] /\ Top.fn \in DOMAIN Code /\ Top.at \in Lines(Top.fn)
        /\ calls[m].fn \in DOMAIN Code /\ calls[m].at \in Lines(calls[m].fn)
        /\ Here = Code[Top.fn][Top.at] /\ HereAt(m) = Code[calls[m].fn][calls[m].at]
    BY <1>1, <2>2, Frames DEF Here, HereAt
  <2>6. r \in Facts[Top.fn][Top.at] /\ r.now = Globals /\ r.held = Mine.held
        /\ r.from = x.now
    BY <2>2, <2>3, ViewFields DEF Explains, Known, Fact
  <2>7. Resumed(HereAt(m), x, r.now, Gives(Here, r.held))
          \in Facts[calls[m].fn][After(calls[m].fn, calls[m].at)]
    BY <1>1, <2>4, <2>5, <2>6, ReturnFlows
  <2>8. Top' = calls'[m] /\ Mine' = locals'[m]
    BY <2>2 DEF Top, Mine
  <2>9. View(ent[m])' = Fact(ent[m], Globals, locals[m].held \cup Gives(Here, Mine.held),
                             calls[m].ex, calls[m].my_ex)
    BY <1>1, <2>2, <2>8 DEF View
  <2>10. Resumed(HereAt(m), x, r.now, Gives(Here, r.held)) = View(ent[m])'
    BY <2>4, <2>6, <2>9 DEF Resumed, Known, Fact
  <2>11. Explains(ent)'
    BY <1>1, <2>2, <2>3, <2>7, <2>10, Below
  <2>12. calls'[1].fn = calls[1].fn
    BY <1>1, <2>2, Frames
  <2> QED BY <1>1, <2>11, <2>12 DEF Explained, FlowInv
<1> QED BY <1>2, <1>3


-----------------------------------------------------------------------------
(* A new command. *)

LEMMA StartFlows ==
  ASSUME FlowInv, ExcInv', StartCommand
  PROVE  Explained' /\ locals' \in Seq(Local) /\ Len(locals') = Len(calls')
<1>1. PICK f \in Roots : calls' = <<Activation(f)>>
  BY DEF StartCommand, Enter
<1>2. /\ locals' = <<NewLocals({})>> /\ first' = None /\ pid_before' = g_pid
      /\ overread' = FALSE /\ blocks' = <<>> /\ ended' = ended /\ g_pid' = g_pid
      /\ ended \in BOOLEAN /\ g_pid \in BOOLEAN
  BY DEF StartCommand, NextRound, FlowInv
<1>3. PICK g : g = AtStart(ended, g_pid)
  OBVIOUS
<1>4. Globals' = g
  <2>1. (blocks' = <<>>) = TRUE
    BY <1>2
  <2> QED BY <1>2, <1>3, <2>1 DEF Globals, AtStart
<1>5. Fact(g, g, {}, None, None) \in Facts[f][First(f)]
  BY <1>2, <1>3, FlowAssumption DEF FlowClosed
<1>6. PICK ent : ent = [d \in {1} |-> g]
  OBVIOUS
<1>7. /\ Len(calls') = 1 /\ DOMAIN calls' = {1} /\ calls'[1] = Activation(f)
      /\ Len(locals') = 1 /\ locals'[1] = NewLocals({}) /\ ent[1] = g
  BY <1>1, <1>2, <1>6
<1>8. /\ Top'.fn = f /\ Top'.at = First(f) /\ Top'.ex = None /\ Top'.my_ex = None
      /\ Mine'.held = {}
  BY <1>7 DEF Top, Mine, Activation, NewLocals
<1>9. View(ent[1])' = Fact(g, g, {}, None, None)
  BY <1>4, <1>7, <1>8 DEF View
<1>10. View(ent[Len(calls)])' \in Facts[Top.fn][Top.at]'
  BY <1>5, <1>7, <1>8, <1>9
<1>11. Explains(ent)'
  <2>1. \A d \in DOMAIN calls' : ~(d < Len(calls'))
    BY <1>7
  <2>2. Falls(ent)'
    BY <1>7 DEF Falls
  <2> QED BY <1>10, <2>1, <2>2 DEF Explains
<1>12. NewLocals({}) \in Local
  BY DEF NewLocals, Local
<1>13. calls'[1].fn \in Roots
  BY <1>7 DEF Activation
<1>14. Explained'
  BY <1>11, <1>13 DEF Explained
<1> QED BY <1>2, <1>7, <1>12, <1>14

-----------------------------------------------------------------------------
(* Exceptions. *)

\* The step throws e.
Raises(e) ==
  /\ RaiseStep
  /\ throw_exception(e)
  /\ first' = IF first = None THEN e ELSE first
  /\ forgotten' =
       IF list # <<>> /\ Handlers(calls[Env.depth].fn, Env.at, e) = {}
       THEN forgotten \cup {<<calls[Env.depth].fn, e>>} ELSE forgotten

\* What the newest function holds when the exception leaves its statement.
Taken == IF add_mem_mapping THEN Mine.held \cup {"mappings"} ELSE Mine.held

LEMMA RaiseRaises == RaiseStep => \E e \in Throwable : Raises(e)
BY DEF RaiseStep, Raises

LEMMA ReallocFailsKeeps ==
  ASSUME TempInv, NEW old, tmp_realloc_fails(old)
  PROVE  (blocks' = <<>>) <=> (blocks = <<>>)
<1>1. CASE ~Head_is(old)
  BY <1>1 DEF tmp_realloc_fails
<1>2. CASE Head_is(old)
  <2>1. /\ blocks \in Seq(Ptrs \cup {NULL}) /\ blocks # <<>>
        /\ blocks' = [blocks EXCEPT ![Len(blocks)] = NULL]
    BY <1>2 DEF TempInv, tmp_realloc_fails, Head_is
  <2>2. DOMAIN blocks' = DOMAIN blocks /\ Len(blocks) \in DOMAIN blocks
    BY <2>1, EmptySeq, LenProperties
  <2>3. DOMAIN << >> = {}
    OBVIOUS
  <2> QED BY <2>1, <2>2, <2>3
<1> QED BY <1>1, <1>2

LEMMA RaiseFacts ==
  ASSUME FlowInv, NEW e, Raises(e)
  PROVE  /\ over = "no" /\ calls # <<>> /\ e \in Throwable /\ e \in Exceptions
         /\ Taken \subseteq Resources
         /\ UNCHANGED <<g_pid, pid_before, overread>>
         /\ (blocks' = <<>>) = (blocks = <<>>)
         /\ first' = IF first = None THEN e ELSE first
         /\ add_mem_mapping => ended' = FALSE
         /\ ~add_mem_mapping => ended' = ended
<1>1. e \in Throwable
  BY DEF Raises, throw_exception
<1>2. over = "no" /\ calls # <<>>
  BY <1>1 DEF Throwable
<1>3. e \in Exceptions
  BY <1>1, ThrowableFacts DEF FlowInv
<1>4. /\ UNCHANGED <<g_pid, pid_before, overread>>
      /\ ended' = (ended /\ ~add_mem_mapping)
      /\ tmp_realloc_fails(Mine.buf) \/ UNCHANGED tmpVars
  BY DEF Raises, RaiseStep
<1>5. (blocks' = <<>>) = (blocks = <<>>)
  BY <1>4, ReallocFailsKeeps DEF FlowInv, tmpVars
<1>6. Taken \subseteq Resources
  BY <1>2, Frames, HereIsResource DEF Taken, Local
<1>7. CASE add_mem_mapping
  BY <1>1, <1>2, <1>3, <1>4, <1>5, <1>6, <1>7 DEF Raises
<1>8. CASE ~add_mem_mapping
  BY <1>1, <1>2, <1>3, <1>4, <1>5, <1>6, <1>8 DEF Raises, FlowInv
<1> QED BY <1>7, <1>8

\* What the newest function knows when it throws.
LEMMA ThrowsHere ==
  ASSUME FlowInv, NEW e, Raises(e), NEW from
  PROVE  /\ e \in Throws(Here, View(from))
         /\ Thrown(Here, View(from), e) = Fact(from, Globals', Taken, Top.ex, Top.my_ex)
<1> DEFINE adds == Here.op = "set" /\ Here.arg = "add_mem_mapping"
           G(a, b, c) == [ended |-> a, g_pid |-> g_pid, first |-> b,
                          pid_before |-> pid_before, overread |-> overread, empty |-> c]
<1>1. /\ over = "no" /\ calls # <<>> /\ e \in Throwable
      /\ UNCHANGED <<g_pid, pid_before, overread>>
      /\ (blocks' = <<>>) = (blocks = <<>>)
      /\ first' = IF first = None THEN e ELSE first
      /\ add_mem_mapping => ended' = FALSE
      /\ ~add_mem_mapping => ended' = ended
  BY RaiseFacts
<1>2. View(from).my_ex = Top.my_ex /\ View(from).now = Globals
      /\ View(from).held = Mine.held /\ View(from).from = from /\ View(from).ex = Top.ex
  BY ViewFields
<1>3. e \in Throws(Here, View(from))
  BY <1>1, <1>2 DEF Throwable, Throws
<1>4. adds <=> add_mem_mapping
  BY <1>1 DEF add_mem_mapping, Sets, Active
<1>11. PICK none : none = (blocks = <<>>)
  OBVIOUS
<1>5. Globals' = G(ended', first', none)
  BY <1>1, <1>11 DEF Globals
<1> DEFINE reports == [Globals EXCEPT !.first = IF @ = None THEN e ELSE @]
<1>6. reports = G(ended, first', none)
  <2>1. \A b : [Globals EXCEPT !.first = b] = G(ended, b, none)
    BY <1>11 DEF Globals
  <2>2. Globals.first = first
    BY DEF Globals
  <2> HIDE DEF G
  <2> QED BY <1>1, <2>1, <2>2
<1>7. \A a, b, c, z : [G(a, b, c) EXCEPT !.ended = z] = G(z, b, c)
  OBVIOUS
<1> HIDE DEF reports, G, adds
<1>8. (IF adds THEN [reports EXCEPT !.ended = FALSE] ELSE reports) = Globals'
  <2>1. CASE adds
    <3>1. ended' = FALSE
      BY <1>1, <1>4, <2>1
    <3>2. [reports EXCEPT !.ended = ended'] = G(ended', first', none)
      BY <1>6, <1>7
    <3>3. [reports EXCEPT !.ended = FALSE] = [reports EXCEPT !.ended = ended']
      BY <3>1
    <3> QED BY <1>5, <2>1, <3>2, <3>3
  <2>2. CASE ~adds
    <3>1. ended' = ended
      BY <1>1, <1>4, <2>2
    <3> QED BY <1>5, <1>6, <2>2, <3>1
  <2> QED BY <2>1, <2>2
<1>9. (IF adds THEN Mine.held \cup {"mappings"} ELSE Mine.held) = Taken
  BY <1>4 DEF Taken
<1>10. Thrown(Here, View(from), e) =
         Fact(from, IF adds THEN [reports EXCEPT !.ended = FALSE] ELSE reports,
              IF adds THEN Mine.held \cup {"mappings"} ELSE Mine.held, Top.ex, Top.my_ex)
  BY <1>2 DEF Thrown, adds, reports
<1> QED BY <1>3, <1>8, <1>9, <1>10


\* The exception reaches every function above the newest environment, with the
\* globals as the throw leaves them.
LEMMA Unwinds ==
  ASSUME FlowInv, NEW ent, Explains(ent), NEW e, Raises(e), NEW now, now = Globals',
         NEW k \in DOMAIN calls,
         \A i \in DOMAIN calls : i > k => Opened(i) = {}
  PROVE  LET f == calls[k].fn
             a == calls[k].at
             held == IF k = Len(calls) THEN Taken ELSE locals[k].held
             y == [ex |-> e, x |-> Fact(ent[k], now, held, calls[k].ex, calls[k].my_ex)]
         IN \E x \in Facts[f][a] : y \in Raised(f, a, x) /\ Arrives(f, a, y)
<1>1. PICK n : n = Len(calls)
  OBVIOUS
<1>2. /\ over = "no" /\ calls # <<>> /\ n \in DOMAIN calls /\ n \in Nat \ {0}
      /\ DOMAIN calls = 1 .. n /\ Top = calls[n]
      /\ Top.fn \in DOMAIN Code /\ Top.at \in Lines(Top.fn) /\ Here = Code[Top.fn][Top.at]
  BY <1>1, RaiseFacts, Frames DEF Here
<1>3. LET y == [ex |-> e, x |-> Fact(ent[n], now, Taken, Top.ex, Top.my_ex)] IN
      /\ View(ent[n]) \in Facts[Top.fn][Top.at]
      /\ y \in Raised(Top.fn, Top.at, View(ent[n])) /\ Arrives(Top.fn, Top.at, y)
  <2>1. View(ent[n]) \in Facts[Top.fn][Top.at]
    BY <1>1 DEF Explains
  <2>2. e \in Throws(Here, View(ent[n]))
    BY ThrowsHere
  <2>3. Thrown(Here, View(ent[n]), e) = Fact(ent[n], now, Taken, Top.ex, Top.my_ex)
    BY ThrowsHere
  <2> QED BY <1>2, <2>1, <2>2, <2>3, ThrowFlows
<1>4. CASE k = n
  BY <1>1, <1>2, <1>3, <1>4
<1>5. CASE k # n
  <2>1. k \in 1 .. n /\ k + 1 \in DOMAIN calls /\ k < n /\ k + 1 <= n
    BY <1>2, <1>5
  <2>2. Escape(ent[n], e, now) \in Escapes[Top.fn]
    <3>1. Open(Top.fn, Top.at) = {}
      BY <1>2, <2>1 DEF Opened
    <3> QED BY <1>3, <3>1 DEF Arrives, Fact
  <2>3. \A i \in DOMAIN calls : k + 1 <= i /\ i < n => Opened(i) = {}
    <3>1. \A i \in DOMAIN calls : k + 1 <= i => i > k
      BY <1>2, <2>1
    <3> QED BY <3>1
  <2>4. Escape(ent[k + 1], e, now) \in Escapes[calls[k + 1].fn]
    BY <1>2, <2>1, <2>2, <2>3 DEF Explains, Falls
  <2>5. PICK held : /\ Known(k, ent, held) \in Facts[calls[k].fn][calls[k].at]
                    /\ locals[k].held = Keeps(HereAt(k), held)
                    /\ calls[k + 1].fn \in MayCall(HereAt(k), Known(k, ent, held))
    BY <1>1, <2>1 DEF Explains, Waits
  <2> DEFINE x == Known(k, ent, held)
             r == Escape(ent[k + 1], e, now)
             y == [ex |-> r.ex, x |-> Resumed(HereAt(k), x, r.now, {})]
  <2>6. r.from = x.now /\ r.ex = e /\ r.now = now
    BY DEF Known, Escape, Fact
  <2>7. /\ calls[k].fn \in DOMAIN Code /\ calls[k].at \in Lines(calls[k].fn)
        /\ HereAt(k) = Code[calls[k].fn][calls[k].at]
    BY <1>2, Frames DEF HereAt
  <2>8. y \in Raised(calls[k].fn, calls[k].at, x) /\ Arrives(calls[k].fn, calls[k].at, y)
    BY <2>4, <2>5, <2>6, <2>7, EscapeFlows
  <2>9. Resumed(HereAt(k), x, r.now, {})
          = Fact(ent[k], now, locals[k].held, calls[k].ex, calls[k].my_ex)
    BY <2>5, <2>6 DEF Resumed, Known, Fact
  <2> HIDE DEF x
  <2> QED BY <1>1, <1>5, <2>5, <2>6, <2>8, <2>9 DEF x
<1> QED BY <1>4, <1>5

\* The resources when the exception leaves the statement.
AtThrow ==
  IF add_mem_mapping THEN [locals EXCEPT ![Len(locals)].held = @ \cup {"mappings"}]
  ELSE locals

LEMMA AtThrowFacts ==
  ASSUME FlowInv, calls # <<>>
  PROVE  /\ AtThrow \in Seq(Local) /\ Len(AtThrow) = Len(calls)
         /\ \A k \in 1 .. Len(calls) : k # Len(calls) => AtThrow[k] = locals[k]
         /\ AtThrow[Len(calls)].held = Taken
<1> DEFINE n == Len(calls)
           mine == [Mine EXCEPT !.held = Taken]
<1>1. /\ n \in Nat \ {0} /\ n \in 1 .. n
      /\ locals \in Seq(Local) /\ Len(locals) = n /\ Mine = locals[n] /\ Mine \in Local
  BY Frames DEF FlowInv, LocalsOK
<1>2. CASE add_mem_mapping
  <2>1. Taken = Mine.held \cup {"mappings"}
    BY <1>2 DEF Taken
  <2>2. mine \in Local /\ mine.held = Taken
    BY <1>1, <2>1, HereIsResource DEF Local
  <2>3. AtThrow = [locals EXCEPT ![n] = mine]
    BY <1>1, <1>2, <2>1 DEF AtThrow
  <2> HIDE DEF mine, n
  <2> QED BY <1>1, <2>2, <2>3, ExceptSeq DEF n
<1>3. CASE ~add_mem_mapping
  BY <1>1, <1>3 DEF Taken, AtThrow
<1> QED BY <1>2, <1>3

\* longjmp drops the functions above the newest environment.
LEMMA RaiseEffect ==
  ASSUME FlowInv, NEW e, Raises(e), list # <<>>
  PROVE  LET d == Env.depth IN
         /\ d \in DOMAIN calls /\ over' = over
         /\ Len(calls') = d /\ DOMAIN calls' = 1 .. d
         /\ \A k \in 1 .. d : k < d => calls'[k] = calls[k] /\ locals'[k] = locals[k]
         /\ calls'[d].fn = calls[d].fn
         /\ calls'[d].at = Handler(calls[d].fn, Env.at, e)
         /\ calls'[d].ex = e /\ calls'[d].my_ex = calls[d].my_ex
         /\ locals' \in Seq(Local) /\ Len(locals') = d
         /\ locals'[d].held = IF d = Len(calls) THEN Taken ELSE locals[d].held
<1> DEFINE d == Env.depth
           n == Len(calls)
           h == Handler(calls[d].fn, Env.at, e)
           low == SubSeq(calls, 1, d)
           r == [calls[d] EXCEPT !.at = h, !.ex = e]
           before == IF add_mem_mapping
                     THEN [locals EXCEPT ![Len(locals)].held = @ \cup {"mappings"}]
                     ELSE locals
<1>1. /\ calls # <<>> /\ e \in Exceptions /\ Taken \subseteq Resources
      /\ calls' = [low EXCEPT ![d].at = h, ![d].ex = e] /\ over' = over
      /\ locals' = SubSeq(before, 1, d)
  BY RaiseFacts DEF Raises, RaiseStep, throw_exception
<1>2. /\ n \in Nat \ {0} /\ DOMAIN calls = 1 .. n /\ n \in 1 .. n
      /\ locals \in Seq(Local) /\ Len(locals) = n /\ Mine = locals[n] /\ Mine \in Local
      /\ calls \in Seq(Act)
  BY <1>1, Frames DEF FlowInv, ExcInv, CallsOK, LocalsOK
<1>3. /\ d \in DOMAIN calls /\ d \in 1 .. Len(calls) /\ d \in 1 .. d /\ d \in Nat \ {0}
      /\ Env.at \in Opened(d)
  BY <1>2, NewestEnv DEF FlowInv
<1>4. /\ calls[d] \in Act /\ calls[d].fn \in DOMAIN Code
      /\ calls[d].at \in Lines(calls[d].fn)
  BY <1>1, <1>3, Frames
<1>5. h \in Nat
  <2>1. Env.at \in TryLines(calls[d].fn)
    BY <1>3, <1>4, OpenLines DEF Opened
  <2> QED BY <1>1, <1>4, <2>1, TryOpen, LinesAreNat
<1>6. r \in Act /\ r.fn = calls[d].fn /\ r.at = h /\ r.ex = e /\ r.my_ex = calls[d].my_ex
  <2> HIDE DEF h, d
  <2> QED BY <1>1, <1>4, <1>5 DEF Act
<1>7. low[d] = calls[d] /\ d \in DOMAIN low
  <2> HIDE DEF d
  <2> QED BY <1>2, <1>3
<1>8. calls' = [low EXCEPT ![d] = r]
  <2> HIDE DEF h, d, low
  <2> QED BY <1>1, <1>7
<1> HIDE DEF d
<1>9. /\ Len(calls') = d /\ DOMAIN calls' = 1 .. d /\ calls'[d] = r
      /\ \A k \in 1 .. d : k < d => calls'[k] = calls[k]
  <2> HIDE DEF h, r
  <2> QED BY <1>2, <1>3, <1>6, <1>8, CutAndSet
<1>10. /\ before \in Seq(Local) /\ Len(before) = n
       /\ \A k \in 1 .. n : k # n => before[k] = locals[k]
       /\ before[n].held = Taken
  BY <1>1, <1>2, AtThrowFacts DEF AtThrow
<1> HIDE DEF before
<1>11. locals' \in Seq(Local) /\ Len(locals') = d /\ \A k \in 1 .. d : locals'[k] = before[k]
  <2>1. \A k \in 1 .. d : k \in 1 .. n
    BY <1>2, <1>3
  <2>2. \A k \in 1 .. d : before[k] \in Local
    BY <1>2, <1>10, <2>1, ElementOfSeq
  <2> QED BY <1>1, <1>3, <2>2, SubSeqProperties
<1>12. \A k \in 1 .. d : k < d => locals'[k] = locals[k]
  <2>1. \A k \in 1 .. d : k < d => k \in 1 .. n /\ k # n
    <3>1. d \in 1 .. n /\ n \in Nat
      BY <1>2, <1>3
    <3> HIDE DEF n
    <3> QED BY <3>1
  <2> QED BY <1>10, <1>11, <2>1
<1>13. locals'[d].held = IF d = n THEN Taken ELSE locals[d].held
  BY <1>3, <1>10, <1>11
<1> HIDE DEF r, h, n
<1> QED BY <1>1, <1>3, <1>6, <1>9, <1>11, <1>12, <1>13 DEF d, h, n

LEMMA RaiseStepFlows ==
  ASSUME FlowInv, ExcInv', RaiseStep
  PROVE  Explained'
<1>1. PICK e : Raises(e)
  BY RaiseRaises
<1>2. over = "no" /\ calls # <<>>
  BY <1>1, RaiseFacts
<1>3. CASE list = <<>>
  BY <1>1, <1>3, Over DEF Raises, throw_exception
<1>4. CASE list # <<>>
  <2>1. PICK d : d = Env.depth
    OBVIOUS
  <2>2. /\ d \in DOMAIN calls /\ over' = over
        /\ Len(calls') = d /\ DOMAIN calls' = 1 .. d
        /\ \A k \in 1 .. d : k < d => calls'[k] = calls[k] /\ locals'[k] = locals[k]
        /\ calls'[d].fn = calls[d].fn
        /\ calls'[d].at = Handler(calls[d].fn, Env.at, e)
        /\ calls'[d].ex = e /\ calls'[d].my_ex = calls[d].my_ex
        /\ Len(locals') = d
        /\ locals'[d].held = IF d = Len(calls) THEN Taken ELSE locals[d].held
    BY <1>1, <1>4, <2>1, RaiseEffect
  <2>3. /\ Env.at \in Opened(d) /\ \A u \in Opened(d) : u <= Env.at
        /\ \A k \in DOMAIN calls : k > d => Opened(k) = {}
    BY <1>4, <2>1, NewestEnv DEF FlowInv
  <2>4. PICK ent : Explains(ent)
    BY <1>2 DEF FlowInv, Explained
  <2>5. PICK now : now = Globals'
    OBVIOUS
  <2> DEFINE held == IF d = Len(calls) THEN Taken ELSE locals[d].held
             x == Fact(ent[d], now, held, calls[d].ex, calls[d].my_ex)
             y == [ex |-> e, x |-> x]
  <2>6. Arrives(calls[d].fn, calls[d].at, y)
    BY <1>1, <2>2, <2>3, <2>4, <2>5, Unwinds
  <2>7. [x EXCEPT !.ex = e] \in Facts[calls[d].fn][Handler(calls[d].fn, Env.at, e)]
    BY <2>3, <2>6 DEF Arrives, Opened
  <2>8. Top' = calls'[d] /\ Mine' = locals'[d]
    BY <2>2 DEF Top, Mine
  <2>9. View(ent[d])' = Fact(ent[d], now, held, e, calls[d].my_ex)
    BY <2>2, <2>5, <2>8 DEF View
  <2>10. [x EXCEPT !.ex = e] = Fact(ent[d], now, held, e, calls[d].my_ex)
    BY DEF Fact
  <2>11. Explains(ent)'
    BY <1>2, <2>2, <2>4, <2>7, <2>9, <2>10, Below
  <2>12. calls'[1].fn = calls[1].fn
    BY <1>2, <2>2, Frames
  <2> QED BY <1>2, <2>2, <2>11, <2>12 DEF Explained, FlowInv
<1> QED BY <1>3, <1>4


-----------------------------------------------------------------------------
(* The invariant. *)

LEMMA MoveDepth ==
  ASSUME FlowInv, ExcInv', calls # <<>>, NEW line, Move(line)
  PROVE  Len(calls') = Len(calls)
BY MoveEffect, SameDepth

LEMMA LocalsStay ==
  ASSUME FlowInv, ExcInv', UNCHANGED locals,
         \/ PlainStep \/ BranchStep \/ TryStep \/ EtryStep \/ FreeAllStep
         \/ PidStep \/ EndStep \/ UNCHANGED calls
  PROVE  LocalsOK'
<1>1. Len(calls') = Len(calls)
  <2>1. ASSUME calls # <<>>, \E line : Move(line) PROVE Len(calls') = Len(calls)
    BY <2>1, MoveDepth
  <2>2. CASE PlainStep \/ BranchStep \/ EtryStep \/ PidStep
    <3>1. calls # <<>> /\ \E line : Move(line)
      BY <2>2 DEF PlainStep, BranchStep, EtryStep, PidStep, Passes, Jumps, Etries, Active
    <3> QED BY <2>1, <3>1
  <2>3. CASE FreeAllStep
    <3>1. CASE Passes("free_all")
      BY <2>1, <3>1 DEF Passes, Active
    <3>2. CASE crashes("abort")
      BY <3>2 DEF crashes
    <3> QED BY <2>3, <3>1, <3>2 DEF FreeAllStep
  <2>4. CASE EndStep
    BY <2>4 DEF EndStep, ends
  <2>5. CASE TryStep
    <3>1. CASE Tries \/ Saves
      <4>1. calls # <<>> /\ DOMAIN calls' = DOMAIN calls
        BY <3>1 DEF Tries, Saves, Active
      <4> QED BY <4>1, SameDepth
    <3>2. CASE Skips \/ NothingSaved
      <4>1. calls # <<>> /\ \E line : Move(line)
        BY <3>2 DEF Skips, NothingSaved, Active
      <4> QED BY <2>1, <4>1
    <3> QED BY <2>5, <3>1, <3>2 DEF TryStep
  <2> QED BY <2>2, <2>3, <2>4, <2>5
<1> QED BY <1>1 DEF LocalsOK, FlowInv

LEMMA LocalsOwned ==
  ASSUME FlowInv, ExcInv', calls # <<>>,
         NEW res \in SUBSET Resources, Owns(res),
         Len(calls') = Len(calls)
  PROVE  LocalsOK'
BY OwnsEffect DEF LocalsOK, FlowInv

LEMMA LocalsNext ==
  ASSUME FlowInv, ExcInv', [CmdNext]_cmdVars
  PROVE  LocalsOK'
<1>1. CASE StartCommand
  BY <1>1, StartFlows DEF LocalsOK
<1>2. CASE CallStep
  <2>1. CASE over' # "no"
    <3>1. UNCHANGED <<calls, locals>>
      BY <1>2, <2>1 DEF CallStep, Invoke, Active
    <3> QED BY <3>1, LocalsStay
  <2>2. CASE over' = "no"
    <3>1. /\ locals' \in Seq(Local) /\ Len(locals') = Len(calls) + 1
          /\ \E g : calls' = Append(calls, Activation(g))
      BY <1>2, <2>2, CallEffect
    <3>2. Len(calls') = Len(calls) + 1
      BY <3>1 DEF FlowInv, ExcInv, CallsOK
    <3> QED BY <3>1, <3>2 DEF LocalsOK
  <2> QED BY <2>1, <2>2
<1>3. CASE ReturnStep
  <2>1. CASE Len(calls) = 1
    <3>1. calls' = <<>> /\ locals' = <<>>
      BY <1>3, <2>1, ReturnEffect
    <3> QED BY <3>1, EmptySeq DEF LocalsOK
  <2>2. CASE Len(calls) # 1
    BY <1>3, <2>2, ReturnEffect DEF LocalsOK
  <2> QED BY <2>1, <2>2
<1>4. CASE PlainStep \/ BranchStep \/ TryStep \/ EtryStep \/ FreeAllStep \/ PidStep \/ EndStep
  <2>1. UNCHANGED locals
    BY <1>4 DEF PlainStep, BranchStep, TryStep, EtryStep, FreeAllStep, PidStep, EndStep, dbgVars
  <2> QED BY <1>4, <2>1, LocalsStay
<1>5. CASE GetStep \/ PutStep \/ MappingsStep \/ free_mem_mappings
  <2>1. calls # <<>> /\ Len(calls') = Len(calls)
    <3>1. CASE \E op \in Effects : Passes(op)
      BY <3>1, MoveDepth DEF Passes, Active
    <3>2. CASE crashes("segv")
      BY <3>2 DEF crashes, Active
    <3> QED BY <1>5, <3>1, <3>2
          DEF GetStep, PutStep, MappingsStep, free_mem_mappings, Effects
  <2>2. \E res \in {Mine.held \cup {Here.arg}, Mine.held \ {Here.arg},
                    Mine.held \cup {"mappings"}, Mine.held \ {"mappings"}} : Owns(res)
    BY <1>5 DEF GetStep, PutStep, MappingsStep, free_mem_mappings
  <2>3. Mine.held \subseteq Resources
    BY <2>1, Frames DEF Local
  <2>4. \E res \in SUBSET Resources : Owns(res)
    BY <2>1, <2>2, <2>3, HereIsResource
  <2> QED BY <2>1, <2>4, LocalsOwned
<1>6. CASE TmpStep
  <2>1. calls # <<>> /\ Len(calls') = Len(calls)
    <3>1. calls # <<>> /\ Move(Next_line)
      BY <1>6 DEF TmpStep, Passes, Active
    <3> QED BY <3>1, MoveDepth
  <2>2. CASE UNCHANGED locals
    BY <2>1, <2>2 DEF LocalsOK, FlowInv
  <2>3. CASE \E p \in Moves(Mine.buf) :
               /\ tmp_realloc(Mine.buf, p)
               /\ locals' = [locals EXCEPT ![Len(locals)].buf = p]
    <3>1. PICK p : tmp_realloc(Mine.buf, p)
                   /\ locals' = [locals EXCEPT ![Len(locals)].buf = p]
      BY <2>3
    <3>2. p \in Ptrs
      BY <3>1, ReallocFills DEF FlowInv
    <3> QED BY <2>1, <3>1, <3>2, BufEffect DEF LocalsOK, FlowInv
  <2>4. CASE locals' = [locals EXCEPT ![Len(locals)].buf = NULL]
    BY <2>1, <2>4, BufEffect DEF LocalsOK, FlowInv
  <2> QED BY <1>6, <2>2, <2>3, <2>4 DEF TmpStep
<1>7. CASE RaiseStep
  <2>1. PICK e : Raises(e)
    BY <1>7, RaiseRaises
  <2>2. CASE list # <<>>
    BY <2>1, <2>2, RaiseEffect DEF LocalsOK
  <2>3. CASE list = <<>>
    <3>1. calls # <<>> /\ calls' = calls /\ locals' = SubSeq(AtThrow, 1, Len(calls))
      BY <2>1, <2>3, RaiseFacts DEF Raises, RaiseStep, throw_exception, AtThrow
    <3>2. /\ AtThrow \in Seq(Local) /\ Len(AtThrow) = Len(calls)
          /\ Len(calls) \in Nat \ {0}
      BY <3>1, AtThrowFacts, Frames
    <3>3. locals' \in Seq(Local) /\ Len(locals') = Len(calls)
      <4>1. \A k \in 1 .. Len(calls) : AtThrow[k] \in Local
        BY <3>2, ElementOfSeq
      <4> QED BY <3>1, <3>2, <4>1, SubSeqProperties
    <3> QED BY <3>1, <3>3 DEF LocalsOK
  <2> QED BY <2>2, <2>3
<1>8. CASE CmdTerminated \/ UNCHANGED cmdVars
  BY <1>8, LocalsStay DEF CmdTerminated, cmdVars, excVars, dbgVars
<1> QED BY <1>1, <1>2, <1>3, <1>4, <1>5, <1>6, <1>7, <1>8 DEF CmdNext


LEMMA BooleansNext ==
  ASSUME FlowInv, [CmdNext]_cmdVars
  PROVE  ended' \in BOOLEAN /\ g_pid' \in BOOLEAN
<1>1. ended \in BOOLEAN /\ g_pid \in BOOLEAN
  BY DEF FlowInv
<1>2. CASE StartCommand \/ CallStep \/ ReturnStep \/ PlainStep \/ BranchStep \/ TryStep
  BY <1>1, <1>2 DEF StartCommand, CallStep, ReturnStep, PlainStep, BranchStep, TryStep,
       dbgVars
<1>3. CASE EtryStep \/ GetStep \/ PutStep \/ TmpStep \/ FreeAllStep \/ EndStep
  BY <1>1, <1>3 DEF EtryStep, GetStep, PutStep, TmpStep, FreeAllStep, EndStep, dbgVars
<1>4. CASE MappingsStep
  BY <1>1, <1>4 DEF MappingsStep
<1>5. CASE free_mem_mappings
  BY <1>1, <1>5 DEF free_mem_mappings
<1>6. CASE PidStep
  BY <1>1, <1>6 DEF PidStep
<1>7. CASE RaiseStep
  <2>1. ended' = (ended /\ ~add_mem_mapping) /\ UNCHANGED g_pid
    BY <1>7 DEF RaiseStep
  <2> QED BY <1>1, <2>1
<1>8. CASE CmdTerminated \/ UNCHANGED cmdVars
  BY <1>1, <1>8 DEF CmdTerminated, cmdVars, dbgVars
<1> QED BY <1>2, <1>3, <1>4, <1>5, <1>6, <1>7, <1>8 DEF CmdNext

LEMMA ExplainedStays ==
  ASSUME FlowInv, UNCHANGED cmdVars
  PROVE  Explained'
<1>1. UNCHANGED <<calls, locals, over>>
      /\ UNCHANGED <<ended, g_pid, first, pid_before, overread, blocks>>
  BY DEF cmdVars, excVars, dbgVars, tmpVars, ghostVars
<1>2. ASSUME NEW ent, Explains(ent) PROVE Explains(ent)'
  <2>1. /\ Globals' = Globals /\ Mine' = Mine /\ Top' = Top
        /\ Len(calls') = Len(calls) /\ calls' = calls /\ locals' = locals
    BY <1>1, UntouchedGlobals DEF Mine, Top
  <2>2. View(ent[Len(calls)])' = View(ent[Len(calls)])
    BY <2>1 DEF View
  <2>3. Falls(ent)'
    BY <1>2, <2>1 DEF Explains, Falls, Opened
  <2>4. \A d \in DOMAIN calls : d < Len(calls) => Waits(d, ent)'
    BY <1>2, <2>1 DEF Explains, Waits, Known, HereAt
  <2> QED BY <1>2, <2>1, <2>2, <2>3, <2>4 DEF Explains
<1> QED BY <1>1, <1>2 DEF Explained, FlowInv

LEMMA ExplainedNext ==
  ASSUME FlowInv, ExcInv', [CmdNext]_cmdVars
  PROVE  Explained'
<1>1. CASE StartCommand \/ CallStep \/ ReturnStep \/ RaiseStep
  BY <1>1, StartFlows, CallStepFlows, ReturnStepFlows, RaiseStepFlows
<1>2. CASE PlainStep \/ BranchStep \/ TryStep \/ EtryStep \/ GetStep \/ PutStep
  BY <1>2, PlainFlows, BranchFlows, TryFlows, EtryFlows, GetFlows
<1>3. CASE TmpStep \/ FreeAllStep \/ MappingsStep \/ free_mem_mappings \/ PidStep
  BY <1>3, TmpFlows, FreeAllFlows, MappingsFlows, FreeMappingsFlows, PidFlows
<1>4. CASE EndStep
  <2>1. UNCHANGED calls /\ over' = Here.arg /\ calls # <<>> /\ Here.op \in {"end", "end_if"}
    BY <1>4 DEF EndStep, ends, Active
  <2>2. over' \in Endings
    BY <2>1, HereFacts DEF FlowInv
  <2>3. over' # "no"
    BY <2>2 DEF Endings
  <2> QED BY <2>1, <2>3, Over
<1>5. CASE CmdTerminated \/ UNCHANGED cmdVars
  BY <1>5, ExplainedStays DEF CmdTerminated
<1> QED BY <1>1, <1>2, <1>3, <1>4, <1>5 DEF CmdNext

LEMMA FlowInvInit == CmdInit => FlowInv
<1> SUFFICES ASSUME CmdInit PROVE FlowInv
  OBVIOUS
<1>1. ExcInv /\ TempInv
  BY ExcInvInit, TempInvInit DEF CmdInit
<1>2. calls = <<>> /\ locals = <<>> /\ ended \in BOOLEAN /\ g_pid \in BOOLEAN
  BY DEF CmdInit, Init
<1>3. LocalsOK
  BY <1>2, EmptySeq DEF LocalsOK
<1> QED BY <1>1, <1>2, <1>3 DEF FlowInv, Explained

LEMMA FlowInvNext == FlowInv /\ [CmdNext]_cmdVars => FlowInv'
<1> SUFFICES ASSUME FlowInv, [CmdNext]_cmdVars PROVE FlowInv'
  OBVIOUS
<1>1. ExcInv'
  BY CmdIsExceptions, ExcInvNext DEF FlowInv
<1>2. TempInv'
  BY CmdTempInv DEF FlowInv
<1> QED BY <1>1, <1>2, LocalsNext, BooleansNext, ExplainedNext DEF FlowInv

LEMMA FlowInvHolds == CmdSpec => []FlowInv
BY FlowInvInit, FlowInvNext, PTL DEF CmdSpec

\* The relational analysis covers every run of the commands: whatever calls a
\* function and whatever was thrown before, the globals, the resources, ex and
\* my_ex of the function that is running are as one of its facts says, with any
\* number of addresses and any depth of calls.
THEOREM CommandFlowCovers == CmdSpec => []FlowCovers
<1>1. FlowInv => FlowCovers
  <2> SUFFICES ASSUME FlowInv, over = "no", calls # <<>>
               PROVE  \E x \in Facts[Top.fn][Top.at] :
                        /\ x.now = Globals /\ x.held = Mine.held
                        /\ x.ex = Top.ex /\ x.my_ex = Top.my_ex
    BY DEF FlowCovers
  <2>1. PICK ent : Explains(ent)
    BY DEF FlowInv, Explained
  <2> QED BY <2>1, ViewFields DEF Explains
<1> QED BY <1>1, FlowInvHolds, PTL


-----------------------------------------------------------------------------
(* The properties of the commands, each from what the facts have to say    *)
(* for it (Verdicts).                                                      *)

LEMMA Running ==
  ASSUME FlowInv, over = "no", calls # <<>>
  PROVE  /\ Top.fn \in DOMAIN Code /\ Top.at \in Lines(Top.fn)
         /\ Here = Code[Top.fn][Top.at]
         /\ \E x \in Facts[Top.fn][Top.at] :
              /\ x.now = Globals /\ x.held = Mine.held
              /\ x.ex = Top.ex /\ x.my_ex = Top.my_ex
<1>1. PICK ent : Explains(ent)
  BY DEF FlowInv, Explained
<1> QED BY <1>1, Frames, ViewFields DEF Explains, Here

\* run_command returns what one of its facts says.
LEMMA RootReturned ==
  ASSUME FlowInv, ReturnStep, Len(calls) = 1
  PROVE  \E x \in RootReturns : x.now = Globals
<1>1. over = "no" /\ calls # <<>> /\ Here.op \in Returning
  BY ReturnEffect
<1>2. Top.fn \in Roots
  BY <1>1, Frames, RootAtBottom
<1>3. PICK x \in Facts[Top.fn][Top.at] : x.now = Globals
  BY <1>1, Running
<1>4. Top.at \in {b \in Lines(Top.fn) : Code[Top.fn][b].op \in Returning}
  BY <1>1, Running
<1>5. x \in RootReturns
  BY <1>2, <1>3, <1>4 DEF RootReturns
<1> QED BY <1>3, <1>5

\* The prompt is back when run_command returns, and only then.
LEMMA BackAtPrompt ==
  ASSUME FlowInv, FlowInv', [CmdNext]_cmdVars, calls' = <<>>
  PROVE  \/ ReturnStep /\ Len(calls) = 1 /\ UNCHANGED <<blocks, first, g_pid, pid_before>>
         \/ calls = <<>> /\ UNCHANGED <<blocks, first, g_pid, pid_before>>
<1>1. ASSUME DOMAIN calls' = DOMAIN calls, calls # <<>> PROVE FALSE
  <2>1. Len(calls) \in DOMAIN calls
    BY <1>1, Frames
  <2>2. DOMAIN << >> = {}
    OBVIOUS
  <2> QED BY <1>1, <2>1, <2>2
<1>2. ASSUME UNCHANGED calls, calls # <<>> PROVE FALSE
  BY <1>2
<1>3. ASSUME NEW line, Move(line), calls # <<>> PROVE FALSE
  BY <1>1, <1>3, MoveEffect
<1>4. CASE StartCommand
  BY <1>4 DEF StartCommand, Enter
<1>5. CASE CallStep
  <2>1. CASE over' = "no"
    <3>1. \E g : calls' = Append(calls, Activation(g))
      BY <1>5, <2>1, CallEffect
    <3>2. calls \in Seq(Act)
      BY DEF FlowInv, ExcInv, CallsOK
    <3> QED BY <3>1, <3>2
  <2>2. CASE over' # "no"
    <3>1. UNCHANGED calls /\ calls # <<>>
      BY <1>5, <2>2 DEF CallStep, Invoke, Active
    <3> QED BY <1>2, <3>1
  <2> QED BY <2>1, <2>2
<1>6. CASE ReturnStep
  <2>1. UNCHANGED <<blocks, first, g_pid, pid_before>>
    BY <1>6 DEF ReturnStep, tmpVars
  <2>2. Len(calls) # 1 => Len(calls') = Len(calls) - 1
    BY <1>6, ReturnEffect
  <2>3. Len(calls') = 0 /\ Len(calls) \in Nat \ {0}
    BY <1>6, ReturnEffect, Frames
  <2> QED BY <1>6, <2>1, <2>2, <2>3
<1>7. CASE PlainStep \/ BranchStep \/ EtryStep \/ GetStep \/ PutStep \/ TmpStep
           \/ MappingsStep \/ PidStep
  <2>1. calls # <<>> /\ \E line : Move(line)
    BY <1>7 DEF PlainStep, BranchStep, EtryStep, GetStep, PutStep, TmpStep,
         MappingsStep, PidStep, Passes, Jumps, Etries, Active
  <2> QED BY <1>3, <2>1
<1>8. CASE TryStep
  <2>1. CASE Tries \/ Saves
    <3>1. calls # <<>> /\ DOMAIN calls' = DOMAIN calls
      BY <2>1 DEF Tries, Saves, Active
    <3> QED BY <1>1, <3>1
  <2>2. CASE Skips \/ NothingSaved
    <3>1. calls # <<>> /\ \E line : Move(line)
      BY <2>2 DEF Skips, NothingSaved, Active
    <3> QED BY <1>3, <3>1
  <2> QED BY <1>8, <2>1, <2>2 DEF TryStep
<1>9. CASE FreeAllStep \/ free_mem_mappings \/ EndStep
  <2>1. calls # <<>>
    BY <1>9 DEF FreeAllStep, free_mem_mappings, EndStep, Passes, Sets, ends, Active
  <2>2. UNCHANGED calls \/ \E line : Move(line)
    BY <1>9 DEF FreeAllStep, free_mem_mappings, EndStep, Passes, crashes, ends
  <2> QED BY <1>2, <1>3, <2>1, <2>2
<1>10. CASE RaiseStep
  <2>1. PICK e : Raises(e)
    BY <1>10, RaiseRaises
  <2>2. calls # <<>>
    BY <2>1, RaiseFacts
  <2>3. CASE list = <<>>
    BY <1>2, <2>1, <2>2, <2>3 DEF Raises, throw_exception
  <2>4. CASE list # <<>>
    <3>1. Env.depth \in DOMAIN calls /\ Len(calls') = Env.depth
      BY <2>1, <2>4, RaiseEffect
    <3>2. Len(calls') \in Nat \ {0}
      BY <2>2, <3>1, Frames
    <3> QED BY <3>2
  <2> QED BY <2>3, <2>4
<1>11. CASE CmdTerminated \/ UNCHANGED cmdVars
  BY <1>11 DEF CmdTerminated, cmdVars, excVars, tmpVars, dbgVars, ghostVars
<1> QED
  BY <1>4, <1>5, <1>6, <1>7, <1>8, <1>9, <1>10, <1>11 DEF CmdNext

\* Whatever a command throws, run_command frees the temporary blocks before the
\* prompt is back.
THEOREM CommandFreesBlocks ==
  ASSUME BlocksFreed
  PROVE  CmdSpec => []NoBlockAtPrompt
<1>1. CmdInit => NoBlockAtPrompt
  BY DEF CmdInit, TmpInit, NoBlockAtPrompt
<1>2. FlowInv /\ FlowInv' /\ NoBlockAtPrompt /\ [CmdNext]_cmdVars => NoBlockAtPrompt'
  <2> SUFFICES ASSUME FlowInv, FlowInv', NoBlockAtPrompt, [CmdNext]_cmdVars,
                      calls' = <<>>
               PROVE  blocks' = <<>>
    BY DEF NoBlockAtPrompt, Prompt
  <2>1. CASE ReturnStep /\ Len(calls) = 1 /\ UNCHANGED blocks
    <3>1. PICK x \in RootReturns : x.now = Globals
      BY <2>1, RootReturned
    <3>2. Globals.empty
      BY <3>1 DEF BlocksFreed
    <3>3. Globals.empty = (blocks = <<>>)
      BY DEF Globals
    <3> QED BY <2>1, <3>2, <3>3
  <2>2. CASE calls = <<>> /\ UNCHANGED blocks
    BY <2>2 DEF NoBlockAtPrompt, Prompt
  <2> QED BY <2>1, <2>2, BackAtPrompt
<1> QED BY <1>1, <1>2, FlowInvHolds, PTL DEF CmdSpec

\* A command that failed has not changed which process is debugged, whatever
\* failed in it.
THEOREM CommandKeepsPid ==
  ASSUME PidRestored
  PROVE  CmdSpec => []FailureKeepsPid
<1>1. CmdInit => FailureKeepsPid
  BY DEF CmdInit, FailureKeepsPid
<1>2. FlowInv /\ FlowInv' /\ FailureKeepsPid /\ [CmdNext]_cmdVars => FailureKeepsPid'
  <2> SUFFICES ASSUME FlowInv, FlowInv', FailureKeepsPid, [CmdNext]_cmdVars,
                      calls' = <<>>, first' # None
               PROVE  g_pid' = pid_before'
    BY DEF FailureKeepsPid, Prompt
  <2>1. CASE ReturnStep /\ Len(calls) = 1 /\ UNCHANGED <<first, g_pid, pid_before>>
    <3>1. PICK x \in RootReturns : x.now = Globals
      BY <2>1, RootReturned
    <3>2. /\ Globals.first = first /\ Globals.g_pid = g_pid
          /\ Globals.pid_before = pid_before
      BY DEF Globals
    <3>3. Globals.first # None => Globals.g_pid = Globals.pid_before
      BY <3>1 DEF PidRestored
    <3> QED BY <2>1, <3>2, <3>3
  <2>2. CASE calls = <<>> /\ UNCHANGED <<first, g_pid, pid_before>>
    BY <2>2 DEF FailureKeepsPid, Prompt
  <2> QED BY <2>1, <2>2, BackAtPrompt
<1> QED BY <1>1, <1>2, FlowInvHolds, PTL DEF CmdSpec

\* run_command reports the exception that was thrown first, or the system call
\* that does not exist.
THEOREM CommandReportsFirst ==
  ASSUME RootsReport
  PROVE  CmdSpec => []FirstReported
<1>1. FlowInv => FirstReported
  <2> SUFFICES ASSUME FlowInv, over = "no", Len(calls) = 1, calls[1].ex # None
               PROVE  calls[1].ex = first \/ calls[1].ex = SyscallException
    BY DEF FirstReported
  <2>1. calls # <<>>
    OBVIOUS
  <2>2. Top = calls[1] /\ Top.fn \in Roots
    BY <2>1, Frames, RootAtBottom
  <2>3. PICK x \in Facts[Top.fn][Top.at] : x.now = Globals /\ x.ex = Top.ex
    BY <2>1, Running
  <2>4. Globals.first = first
    BY DEF Globals
  <2> QED BY <2>1, <2>2, <2>3, <2>4, Running DEF RootsReport
<1> QED BY <1>1, FlowInvHolds, PTL


\* free_mem_mappings reads past the end of the array only in a command in which
\* get_mem_mappings_file failed, whether or not that ends my-dbg.
THEOREM CommandOverread ==
  ASSUME OverreadExcused
  PROVE  CmdSpec => []OverreadOnlyOnFailure
<1>1. CmdInit => OverreadOnlyOnFailure
  BY DEF CmdInit, OverreadOnlyOnFailure
<1>2. FlowInv /\ over = "no" /\ calls # <<>> => OverreadOnlyOnFailure
  <2> SUFFICES ASSUME FlowInv, over = "no", calls # <<>>, overread
               PROVE  first \in {ScanfException, IOException}
    BY DEF OverreadOnlyOnFailure
  <2>1. PICK x \in Facts[Top.fn][Top.at] : x.now = Globals
    BY Running
  <2>2. Globals.overread = overread /\ Globals.first = first
    BY DEF Globals
  <2>3. x.now.overread => x.now.first \in {ScanfException, IOException}
    BY <2>1, Running DEF OverreadExcused
  <2> QED BY <2>1, <2>2, <2>3
<1>3. (FlowInv /\ over = "no" /\ calls # <<>> => OverreadOnlyOnFailure)'
  BY <1>2, PTL
<1>4. FlowInv /\ FlowInv' /\ OverreadOnlyOnFailure /\ [CmdNext]_cmdVars
        => OverreadOnlyOnFailure'
  <2> SUFFICES ASSUME FlowInv, FlowInv', OverreadOnlyOnFailure, [CmdNext]_cmdVars
               PROVE  OverreadOnlyOnFailure'
    OBVIOUS
  <2>1. CASE StartCommand
    BY <2>1 DEF StartCommand, OverreadOnlyOnFailure
  <2>2. CASE UNCHANGED <<overread, first>>
    BY <2>2 DEF OverreadOnlyOnFailure
  <2>3. CASE CallStep \/ ReturnStep \/ PlainStep \/ BranchStep \/ TryStep \/ GetStep
             \/ PutStep \/ TmpStep
    <3>1. UNCHANGED <<overread, first>>
      BY <2>3 DEF CallStep, ReturnStep, PlainStep, BranchStep, TryStep, GetStep,
           PutStep, TmpStep, ghostVars
    <3> QED BY <2>2, <3>1
  <2>4. CASE FreeAllStep \/ MappingsStep \/ PidStep \/ EndStep \/ CmdTerminated
             \/ UNCHANGED cmdVars
    <3>1. UNCHANGED <<overread, first>>
      BY <2>4 DEF FreeAllStep, MappingsStep, PidStep, EndStep, CmdTerminated, cmdVars, ghostVars
    <3> QED BY <2>2, <3>1
  <2>5. CASE EtryStep
    <3>1. over' = "no" /\ calls # <<>> /\ DOMAIN calls' = DOMAIN calls
      BY <2>5, MoveEffect DEF EtryStep, Etries, Active
    <3>2. calls' # <<>>
      <4>1. Len(calls) \in DOMAIN calls
        BY <3>1, Frames
      <4>2. DOMAIN << >> = {}
        OBVIOUS
      <4> QED BY <3>1, <4>1, <4>2
    <3> QED BY <1>3, <3>1, <3>2
  <2>6. CASE free_mem_mappings
    <3>1. /\ over = "no" /\ calls # <<>> /\ Here.op = "set"
          /\ Here.arg = "free_mem_mappings"
          /\ first' = first /\ overread' = (overread \/ FreesPastEnd)
      BY <2>6 DEF free_mem_mappings, Sets, Active
    <3>2. CASE overread
      BY <3>1, <3>2 DEF OverreadOnlyOnFailure
    <3>3. CASE ~FreesPastEnd /\ ~overread
      BY <3>1, <3>3 DEF OverreadOnlyOnFailure
    <3>4. CASE FreesPastEnd
      <4>1. PICK x \in Facts[Top.fn][Top.at] : x.now = Globals /\ x.held = Mine.held
        BY <3>1, Running
      <4>2. MayPass(Here, x)
        BY <3>1 DEF MayPass, Effects
      <4>3. Passed(Top.fn, Here, x) \in Facts[Top.fn][After(Top.fn, Top.at)]
        BY <3>1, <4>1, <4>2, Running, MoveFlows
      <4>4. Passed(Top.fn, Here, x).now = NowSet(Here, x)
        BY <3>1 DEF Passed, NowAfter, Fact
      <4>5. x.now.ended = ended /\ x.now.first = first
        BY <4>1 DEF Globals
      <4>6. "mappings" \in Mine.held /\ ~ended
        BY <3>4 DEF FreesPastEnd
      <4>7. PastEnd(Here, x)
        BY <3>1, <4>1, <4>5, <4>6 DEF PastEnd
      <4>8. NowSet(Here, x) = [x.now EXCEPT !.overread = (@ \/ PastEnd(Here, x))]
        <5> HIDE DEF PastEnd
        <5> QED BY <3>1 DEF NowSet
      <4>9. NowSet(Here, x).first = first /\ NowSet(Here, x).overread
        <5>1. x.now = [ended |-> ended, g_pid |-> g_pid, first |-> first,
                       pid_before |-> pid_before, overread |-> overread,
                       empty |-> (blocks = <<>>)]
          BY <4>1 DEF Globals
        <5>2. \A v : /\ [x.now EXCEPT !.overread = v].first = first
                      /\ [x.now EXCEPT !.overread = v].overread = v
          BY <5>1
        <5>3. PICK v : v = (x.now.overread \/ PastEnd(Here, x))
          OBVIOUS
        <5>4. NowSet(Here, x) = [x.now EXCEPT !.overread = v]
          BY <4>8, <5>3
        <5> QED BY <4>7, <5>2, <5>3, <5>4
      <4>10. After(Top.fn, Top.at) \in Lines(Top.fn)
        <5>1. Code[Top.fn][Top.at].op \in GoesOn
          BY <3>1, Running DEF GoesOn, Effects
        <5> QED BY <3>1, <5>1, Running, GoesOnOpen
      <4>11. first \in {ScanfException, IOException}
        BY <3>1, <4>3, <4>4, <4>9, <4>10, Running DEF OverreadExcused
      <4> QED BY <3>1, <4>11 DEF OverreadOnlyOnFailure
    <3> QED BY <3>2, <3>3, <3>4
  <2>7. CASE RaiseStep
    <3>1. PICK e : Raises(e)
      BY <2>7, RaiseRaises
    <3>2. overread' = overread /\ first' = IF first = None THEN e ELSE first
      BY <3>1, RaiseFacts
    <3> QED BY <3>2 DEF OverreadOnlyOnFailure, None, ScanfException, IOException
  <2> QED BY <2>1, <2>3, <2>4, <2>5, <2>6, <2>7 DEF CmdNext
<1> QED BY <1>1, <1>4, FlowInvHolds, PTL DEF CmdSpec

\* Every resource a command takes is released before the prompt is back, except
\* in the listed windows, whatever is thrown in whichever of the functions.
THEOREM CommandReleases ==
  ASSUME LossesListed
  PROVE  CmdSpec => []ResourcesReleased
<1>1. CmdInit => ResourcesReleased
  BY DEF CmdInit, ResourcesReleased
<1>2. ASSUME FlowInv, ResourcesReleased, over = "no", calls # <<>>,
             NEW lose, lose \subseteq Mine.held,
             \A r \in lose : \/ Here.op = "get" /\ r = Here.arg
                             \/ Here.op \in Returning /\ Here.arg # "give",
             lost' = lost \cup Stored(lose)
      PROVE  ResourcesReleased'
  <2>1. PICK x \in Facts[Top.fn][Top.at] : x.held = Mine.held
    BY <1>2, Running
  <2>2. \A r \in lose : r \in LostAt(Top.fn, Top.at, x)
    BY <1>2, <2>1, Running DEF LostAt
  <2>3. \A r \in lose : <<Top.fn, r>> \in Windows
    BY <1>2, <2>1, <2>2, Running DEF LossesListed
  <2>4. \A r \in Stored(lose) : r \in Windows
    BY <2>3 DEF Stored
  <2> QED BY <1>2, <2>4 DEF ResourcesReleased
<1>3. FlowInv /\ ResourcesReleased /\ [CmdNext]_cmdVars => ResourcesReleased'
  <2> SUFFICES ASSUME FlowInv, ResourcesReleased, [CmdNext]_cmdVars
               PROVE  ResourcesReleased'
    OBVIOUS
  <2>1. CASE StartCommand
    BY <2>1 DEF StartCommand, ResourcesReleased
  <2>2. CASE UNCHANGED lost
    BY <2>2 DEF ResourcesReleased
  <2>3. CASE CallStep \/ PlainStep \/ BranchStep \/ TryStep \/ EtryStep \/ PutStep
             \/ TmpStep \/ FreeAllStep
    <3>1. UNCHANGED lost
      BY <2>3 DEF CallStep, PlainStep, BranchStep, TryStep, EtryStep, PutStep, TmpStep,
           FreeAllStep, ghostVars
    <3> QED BY <2>2, <3>1
  <2>4. CASE MappingsStep \/ free_mem_mappings \/ PidStep \/ EndStep \/ CmdTerminated
             \/ UNCHANGED cmdVars
    <3>1. UNCHANGED lost
      BY <2>4 DEF MappingsStep, free_mem_mappings, PidStep, EndStep, CmdTerminated,
           cmdVars, ghostVars
    <3> QED BY <2>2, <3>1
  <2>5. CASE GetStep
    <3> DEFINE lose == Mine.held \cap {Here.arg}
    <3>1. over = "no" /\ calls # <<>> /\ Here.op = "get" /\ lost' = lost \cup Stored(lose)
      BY <2>5 DEF GetStep, Passes, Active
    <3> QED BY <1>2, <3>1
  <2>6. CASE ReturnStep
    <3> DEFINE lose == Mine.held \ (IF Here.arg = "give" THEN Mine.held ELSE {})
    <3>1. over = "no" /\ calls # <<>> /\ Here.op \in Returning
      BY <2>6, ReturnEffect
    <3>2. lost' = lost \cup Stored(lose)
      BY <2>6 DEF ReturnStep
    <3>3. \A r \in lose : Here.arg # "give"
      OBVIOUS
    <3> QED BY <1>2, <3>1, <3>2, <3>3
  <2>7. CASE RaiseStep
    <3>1. PICK e : Raises(e)
      BY <2>7, RaiseRaises
    <3> DEFINE keeps == IF list = <<>> THEN Len(calls) ELSE Env.depth
    <3>2. lost' = lost \cup UNION {{<<calls[d].fn, r>> : r \in AtThrow[d].held} :
                                   d \in (keeps + 1) .. Len(calls)}
      BY <2>7 DEF RaiseStep, AtThrow
    <3>3. over = "no" /\ calls # <<>> /\ Len(calls) \in Nat /\ DOMAIN calls = 1 .. Len(calls)
      BY <3>1, RaiseFacts, Frames
    <3>4. CASE list = <<>>
      <4>1. (keeps + 1) .. Len(calls) = {}
        BY <3>3, <3>4
      <4> QED BY <3>2, <4>1 DEF ResourcesReleased
    <3>5. CASE list # <<>>
      <4>1. PICK ent : Explains(ent)
        BY <3>3 DEF FlowInv, Explained
      <4>2. PICK now : now = Globals'
        OBVIOUS
      <4>3. /\ keeps \in DOMAIN calls
            /\ \A i \in DOMAIN calls : i > keeps => Opened(i) = {}
        BY <3>5, NewestEnv DEF FlowInv
      <4> HIDE DEF keeps
      <4>4. ASSUME NEW k \in (keeps + 1) .. Len(calls), NEW r \in AtThrow[k].held
            PROVE  <<calls[k].fn, r>> \in Windows
        <5>1. k \in DOMAIN calls /\ k > keeps
          BY <3>3, <4>3
        <5>2. \A i \in DOMAIN calls : i > k => Opened(i) = {}
          <6>1. \A i \in DOMAIN calls : i > k => i > keeps
            BY <3>3, <4>3, <5>1
          <6> QED BY <4>3, <6>1
        <5> DEFINE held == IF k = Len(calls) THEN Taken ELSE locals[k].held
                   y == [ex |-> e, x |-> Fact(ent[k], now, held, calls[k].ex, calls[k].my_ex)]
        <5>3. PICK x \in Facts[calls[k].fn][calls[k].at] :
                y \in Raised(calls[k].fn, calls[k].at, x)
          BY <3>1, <4>1, <4>2, <5>1, <5>2, Unwinds
        <5>4. AtThrow[k].held = held
          BY <3>3, <5>1, AtThrowFacts
        <5>5. y.x.held = held
          BY DEF Fact
        <5>6. Open(calls[k].fn, calls[k].at) = {}
          BY <4>3, <5>1 DEF Opened
        <5> HIDE DEF held, y
        <5>7. r \in LostAt(calls[k].fn, calls[k].at, x)
          BY <5>3, <5>4, <5>5, <5>6, <4>4 DEF LostAt
        <5> QED BY <3>3, <5>1, <5>3, <5>7, Frames DEF LossesListed
      <4> QED BY <3>2, <4>4 DEF ResourcesReleased
    <3> QED BY <3>4, <3>5
  <2> QED BY <2>1, <2>3, <2>4, <2>5, <2>6, <2>7 DEF CmdNext
<1> QED BY <1>1, <1>3, FlowInvHolds, PTL DEF CmdSpec

\* No exception disappears: whichever is thrown, in whichever function, the
\* innermost open try names it, except the two of Unreported.
THEOREM CommandForgetsNothing ==
  ASSUME UnnamedListed
  PROVE  CmdSpec => []NothingForgotten
<1>1. CmdInit => NothingForgotten
  BY DEF CmdInit, NothingForgotten
<1>2. FlowInv /\ NothingForgotten /\ [CmdNext]_cmdVars => NothingForgotten'
  <2> SUFFICES ASSUME FlowInv, NothingForgotten, [CmdNext]_cmdVars
               PROVE  NothingForgotten'
    OBVIOUS
  <2>1. CASE StartCommand
    BY <2>1 DEF StartCommand, NothingForgotten
  <2>2. CASE UNCHANGED forgotten
    BY <2>2 DEF NothingForgotten
  <2>3. CASE CallStep \/ ReturnStep \/ PlainStep \/ BranchStep \/ TryStep \/ EtryStep
             \/ GetStep \/ PutStep
    <3>1. UNCHANGED forgotten
      BY <2>3 DEF CallStep, ReturnStep, PlainStep, BranchStep, TryStep, EtryStep,
           GetStep, PutStep, ghostVars
    <3> QED BY <2>2, <3>1
  <2>4. CASE TmpStep \/ FreeAllStep \/ MappingsStep \/ free_mem_mappings \/ PidStep
             \/ EndStep \/ CmdTerminated \/ UNCHANGED cmdVars
    <3>1. UNCHANGED forgotten
      BY <2>4 DEF TmpStep, FreeAllStep, MappingsStep, free_mem_mappings, PidStep,
           EndStep, CmdTerminated, cmdVars, ghostVars
    <3> QED BY <2>2, <3>1
  <2>5. CASE RaiseStep
    <3>1. PICK e : Raises(e)
      BY <2>5, RaiseRaises
    <3>2. over = "no" /\ calls # <<>>
      BY <3>1, RaiseFacts
    <3>3. CASE ~(list # <<>> /\ Handlers(calls[Env.depth].fn, Env.at, e) = {})
      BY <2>2, <3>1, <3>3 DEF Raises
    <3>4. CASE list # <<>> /\ Handlers(calls[Env.depth].fn, Env.at, e) = {}
      <4>1. PICK d : d = Env.depth
        OBVIOUS
      <4>2. /\ d \in DOMAIN calls /\ Env.at \in Opened(d)
            /\ \A u \in Opened(d) : u <= Env.at
            /\ \A k \in DOMAIN calls : k > d => Opened(k) = {}
        BY <3>4, <4>1, NewestEnv DEF FlowInv
      <4>3. PICK ent : Explains(ent)
        BY <3>2 DEF FlowInv, Explained
      <4>4. PICK now : now = Globals'
        OBVIOUS
      <4> DEFINE held == IF d = Len(calls) THEN Taken ELSE locals[d].held
                 y == [ex |-> e, x |-> Fact(ent[d], now, held, calls[d].ex, calls[d].my_ex)]
      <4>5. PICK x \in Facts[calls[d].fn][calls[d].at] :
              y \in Raised(calls[d].fn, calls[d].at, x)
        BY <3>1, <4>2, <4>3, <4>4, Unwinds
      <4>9. y.ex = e
        OBVIOUS
      <4> HIDE DEF y
      <4>6. Unnamed(calls[d].fn, calls[d].at, e)
        BY <3>4, <4>1, <4>2 DEF Unnamed, Opened
      <4>7. <<calls[d].fn, e>> \in Unreported
        BY <3>2, <4>2, <4>5, <4>6, <4>9, Frames DEF UnnamedListed
      <4>8. forgotten' = forgotten \cup {<<calls[d].fn, e>>}
        BY <3>1, <3>4, <4>1 DEF Raises
      <4> QED BY <4>7, <4>8 DEF NothingForgotten
    <3> QED BY <3>3, <3>4
  <2> QED BY <2>1, <2>3, <2>4, <2>5 DEF CmdNext
<1> QED BY <1>1, <1>2, FlowInvHolds, PTL DEF CmdSpec


=============================================================================
