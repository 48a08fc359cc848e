-------------------------- MODULE ExceptionProofs --------------------------
(***************************************************************************)
(* The list of environments matches the open try blocks in every program   *)
(* written with the macros of exceptions.h, whatever its functions are, as *)
(* long as their blocks are nested (CodeAssumption).                       *)
(*                                                                         *)
(* The invariant is inductive once it also says that every function that   *)
(* has called another one is still at the line of its call: the callee     *)
(* returns to the line after it, which is inside of the same blocks.       *)
(***************************************************************************)
EXTENDS Exceptions, SequenceTheorems, TLAPS

Act == [fn : DOMAIN Code, at : Nat, ex : Exceptions \cup {None},
        my_ex : Exceptions \cup {None}]

CallsOK ==
  /\ calls \in Seq(Act)
  /\ \A d \in DOMAIN calls : calls[d].at \in Lines(calls[d].fn)
  /\ \A d \in DOMAIN calls :
       d < Len(calls) => Code[calls[d].fn][calls[d].at].op = "call"

ListOK == list \in Seq([depth : Nat, at : Nat])

ExcInv == CallsOK /\ ListOK /\ EnvsMatch

\* The tries the function at depth d is inside of.
Opened(d) == Open(calls[d].fn, calls[d].at)

-----------------------------------------------------------------------------
(* What nested blocks mean for the lines of one function. *)

LEMMA OpenDef ==
  ASSUME NEW f \in DOMAIN Code, NEW a \in Lines(f)
  PROVE  Open(f, a) = {t \in TryLines(f) : t < a /\ a <= Code[f][t].to}
BY DEF Open, Inside

LEMMA LinesAreNat ==
  ASSUME NEW f \in DOMAIN Code
  PROVE  Lines(f) \subseteq Nat /\ First(f) \in Lines(f) /\ Open(f, First(f)) = {}
BY CodeAssumption DEF WellNested

LEMMA OpenLines ==
  ASSUME NEW f \in DOMAIN Code, NEW a \in Lines(f)
  PROVE  Open(f, a) \subseteq TryLines(f) /\ \A t \in Open(f, a) : t \in Lines(f) /\ t < a
BY OpenDef DEF TryLines

LEMMA GoesOnOpen ==
  ASSUME NEW f \in DOMAIN Code, NEW a \in Lines(f), Code[f][a].op \in GoesOn
  PROVE  After(f, a) \in Lines(f) /\ Open(f, After(f, a)) = Open(f, a)
BY CodeAssumption DEF WellNested

LEMMA JumpOpen ==
  ASSUME NEW f \in DOMAIN Code, NEW a \in Lines(f),
         Code[f][a].op \in {"if", "goto"}
         \/ (Code[f][a].op = "get" /\ Code[f][a].to # 0)
  PROVE  Code[f][a].to \in Lines(f) /\ Open(f, Code[f][a].to) = Open(f, a)
BY CodeAssumption DEF WellNested

LEMMA TryOpen ==
  ASSUME NEW f \in DOMAIN Code, NEW t \in TryLines(f)
  PROVE  /\ t \in Lines(f)
         /\ Code[f][t].to \in Lines(f) /\ t < Code[f][t].to
         /\ After(f, t) \in Lines(f)
         /\ Open(f, After(f, t)) = Open(f, t) \cup {t}
         /\ \A e \in Exceptions :
              /\ Handler(f, t, e) \in Lines(f)
              /\ Open(f, Handler(f, t, e)) = Open(f, t) \cup {t}
BY CodeAssumption DEF WellNested, TryLines

LEMMA CatchOpen ==
  ASSUME NEW f \in DOMAIN Code, NEW a \in Lines(f), Code[f][a].op = "catch"
  PROVE  /\ Code[f][a].to \in TryLines(f)
         /\ Open(f, Code[f][Code[f][a].to].to) = Open(f, a)
BY CodeAssumption DEF WellNested

LEMMA EtryOpen ==
  ASSUME NEW f \in DOMAIN Code, NEW a \in Lines(f), Code[f][a].op = "etry"
  PROVE  /\ Code[f][a].to \in Open(f, a)
         /\ \A t \in Open(f, a) : t <= Code[f][a].to
         /\ After(f, a) \in Lines(f)
         /\ Open(f, After(f, a)) = Open(f, a) \ {Code[f][a].to}
BY CodeAssumption DEF WellNested

LEMMA ReturnOpen ==
  ASSUME NEW f \in DOMAIN Code, NEW a \in Lines(f)
  PROVE  /\ Code[f][a].op \in {"return", "return_if"} => Open(f, a) = {}
         /\ Code[f][a].op = "leave" => \E t \in TryLines(f) : Open(f, a) = {t}
BY CodeAssumption DEF WellNested

\* At the innermost open try control was inside of the other open ones.
LEMMA InnermostOpen ==
  ASSUME NEW f \in DOMAIN Code, NEW a \in Lines(f),
         NEW t \in Open(f, a), \A u \in Open(f, a) : u <= t
  PROVE  Open(f, t) \cup {t} = Open(f, a)
<1>1. /\ t \in TryLines(f) /\ t \in Lines(f) /\ t < a /\ a <= Code[f][t].to
      /\ a \in Nat /\ t \in Nat
  BY OpenDef, LinesAreNat DEF TryLines
<1>2. \A u \in TryLines(f) : u \in Nat /\ Code[f][u].to \in Nat
  BY TryOpen, LinesAreNat
<1>3. \A u, v \in TryLines(f) :
        u < v /\ v <= Code[f][u].to => Code[f][v].to < Code[f][u].to
  BY CodeAssumption DEF WellNested
<1>4. Open(f, t) = {u \in TryLines(f) : u < t /\ t <= Code[f][u].to}
  BY <1>1, OpenDef
<1>5. Open(f, a) = {u \in TryLines(f) : u < a /\ a <= Code[f][u].to}
  BY OpenDef
<1>6. ASSUME NEW u \in Open(f, t) PROVE u \in Open(f, a)
  <2>1. u \in TryLines(f) /\ u < t /\ t <= Code[f][u].to
    BY <1>4, <1>6
  <2>2. Code[f][t].to < Code[f][u].to
    BY <1>1, <1>3, <2>1
  <2> QED BY <1>1, <1>2, <1>5, <2>1, <2>2
<1>7. ASSUME NEW u \in Open(f, a), u # t PROVE u \in Open(f, t)
  <2>1. u \in TryLines(f) /\ u < a /\ a <= Code[f][u].to /\ u <= t
    BY <1>5
  <2> QED BY <1>1, <1>2, <1>4, <1>7, <2>1
<1> QED BY <1>6, <1>7

-----------------------------------------------------------------------------
(* The newest environment. *)

LEMMA CallsFacts ==
  ASSUME CallsOK
  PROVE  /\ Len(calls) \in Nat /\ DOMAIN calls = 1 .. Len(calls)
         /\ \A d \in DOMAIN calls : calls[d] \in Act
<1>1. calls \in Seq(Act)
  BY DEF CallsOK
<1> QED BY <1>1, LenProperties, ElementOfSeq

LEMMA ListFacts ==
  ASSUME ListOK
  PROVE  /\ Len(list) \in Nat /\ DOMAIN list = 1 .. Len(list)
         /\ \A i \in DOMAIN list : list[i] \in [depth : Nat, at : Nat]
BY LenProperties, ElementOfSeq DEF ListOK

LEMMA TopFacts ==
  ASSUME CallsOK, calls # <<>>
  PROVE  /\ Len(calls) \in DOMAIN calls /\ Len(calls) \in Nat \ {0}
         /\ DOMAIN calls = 1 .. Len(calls)
         /\ Top \in Act /\ Top.fn \in DOMAIN Code /\ Top.at \in Lines(Top.fn)
         /\ Top = calls[Len(calls)]
<1>1. Len(calls) \in Nat \ {0}
  BY EmptySeq DEF CallsOK
<1>2. Len(calls) \in DOMAIN calls /\ DOMAIN calls = 1 .. Len(calls)
  BY <1>1, CallsFacts
<1>3. Top \in Act /\ Top.at \in Lines(Top.fn)
  BY <1>2, CallsFacts DEF CallsOK, Top
<1>4. Top.fn \in DOMAIN Code
  BY <1>3 DEF Act
<1> QED BY <1>1, <1>2, <1>3, <1>4 DEF Top

\* The newest environment belongs to the innermost open try: no active function
\* above it is inside of one.
LEMMA NewestEnv ==
  ASSUME ExcInv, list # <<>>
  PROVE  /\ Env.depth \in DOMAIN calls
         /\ Env.at \in Opened(Env.depth)
         /\ \A u \in Opened(Env.depth) : u <= Env.at
         /\ \A d \in DOMAIN calls : d > Env.depth => Opened(d) = {}
<1>1. /\ Len(list) \in DOMAIN list /\ DOMAIN list = 1 .. Len(list)
      /\ Env = list[Len(list)] /\ Len(list) \in Nat
  <2>1. Len(list) \in Nat \ {0}
    BY EmptySeq DEF ExcInv, ListOK
  <2> QED BY <2>1, ListFacts DEF ExcInv, Env
<1>2. Env.depth \in DOMAIN calls /\ Env.at \in Opened(Env.depth)
  BY <1>1 DEF ExcInv, EnvsMatch, Opened
<1>3. \A i \in DOMAIN list : list[i].depth \in Nat /\ list[i].at \in Nat
  BY ListFacts DEF ExcInv
<1>5. DOMAIN calls = 1 .. Len(calls) /\ Len(calls) \in Nat
  BY CallsFacts DEF ExcInv
<1>4. ASSUME NEW d \in DOMAIN calls, NEW u \in Opened(d), d >= Env.depth
      PROVE  d = Env.depth /\ u <= Env.at
  <2>1. PICK i \in DOMAIN list : list[i] = [depth |-> d, at |-> u]
    BY DEF ExcInv, EnvsMatch, Opened
  <2>2. list[i].depth = d /\ list[i].at = u /\ d \in Nat /\ u \in Nat
    BY <2>1, <1>3
  <2>3. CASE i = Len(list)
    BY <2>3, <2>2, <1>1
  <2>4. CASE i # Len(list)
    <3>1. Before(list[i], list[Len(list)])
      BY <2>4, <1>1 DEF ExcInv, EnvsMatch
    <3> QED BY <3>1, <2>2, <1>1, <1>3, <1>5, <1>4 DEF Before
  <2> QED BY <2>3, <2>4
<1> QED BY <1>1, <1>2, <1>3, <1>5, <1>4

-----------------------------------------------------------------------------
(* Steps that move the innermost function. *)

LEMMA MoveRecord ==
  ASSUME CallsOK, calls # <<>>, NEW x \in Lines(Top.fn)
  PROVE  /\ [Top EXCEPT !.at = x] \in Act
         /\ [Top EXCEPT !.at = x].fn = Top.fn /\ [Top EXCEPT !.at = x].at = x
         /\ [calls EXCEPT ![Len(calls)].at = x]
              = [calls EXCEPT ![Len(calls)] = [Top EXCEPT !.at = x]]
<1>1. x \in Nat
  BY TopFacts, LinesAreNat
<1>2. Top \in Act /\ Top = calls[Len(calls)]
  BY TopFacts
<1> QED BY <1>1, <1>2 DEF Act

LEMMA Stepping ==
  ASSUME CallsOK, calls # <<>>, NEW r \in Act, r.fn = Top.fn,
         r.at \in Lines(Top.fn), calls' = [calls EXCEPT ![Len(calls)] = r]
  PROVE  /\ CallsOK' /\ Len(calls') = Len(calls) /\ DOMAIN calls' = DOMAIN calls
         /\ \A d \in DOMAIN calls : calls'[d] = IF d = Len(calls) THEN r ELSE calls[d]
<1>1. calls \in Seq(Act) /\ Len(calls) \in 1 .. Len(calls)
  BY TopFacts DEF CallsOK
<1>2. calls' \in Seq(Act) /\ Len(calls') = Len(calls)
      /\ \A d \in 1 .. Len(calls) : calls'[d] = IF d = Len(calls) THEN r ELSE calls[d]
  BY <1>1, ExceptSeq
<1>3. DOMAIN calls' = DOMAIN calls /\ DOMAIN calls = 1 .. Len(calls)
  BY <1>1, <1>2, LenProperties
<1> QED BY <1>2, <1>3, TopFacts DEF CallsOK

\* A step to a line inside of the same blocks.
LEMMA SameBlocks ==
  ASSUME ExcInv, calls # <<>>, NEW x \in Lines(Top.fn),
         Open(Top.fn, x) = Open(Top.fn, Top.at),
         Move(x), UNCHANGED list
  PROVE  ExcInv'
<1> DEFINE r == [Top EXCEPT !.at = x]
<1>1. r \in Act /\ r.fn = Top.fn /\ r.at = x
      /\ calls' = [calls EXCEPT ![Len(calls)] = r]
  BY MoveRecord DEF Move, ExcInv
<1> HIDE DEF r
<1>2. /\ CallsOK' /\ DOMAIN calls' = DOMAIN calls
      /\ \A d \in DOMAIN calls : calls'[d] = IF d = Len(calls) THEN r ELSE calls[d]
  BY <1>1, Stepping DEF ExcInv
<1>3. \A d \in DOMAIN calls :
        Open(calls'[d].fn, calls'[d].at) = Open(calls[d].fn, calls[d].at)
  BY <1>1, <1>2, TopFacts DEF ExcInv
<1>4. EnvsMatch'
  BY <1>2, <1>3 DEF ExcInv, EnvsMatch
<1> QED BY <1>2, <1>4 DEF ExcInv, ListOK

-----------------------------------------------------------------------------
(* Returns. *)

LEMMA Popping ==
  ASSUME CallsOK, calls # <<>>, Back
  PROVE  /\ CallsOK' /\ DOMAIN calls' = 1 .. Len(calls) - 1
         /\ \A d \in 1 .. Len(calls) - 1 :
              Open(calls'[d].fn, calls'[d].at) = Opened(d)
<1>1. /\ Len(calls) \in Nat \ {0} /\ DOMAIN calls = 1 .. Len(calls)
      /\ calls \in Seq(Act)
  BY TopFacts DEF CallsOK
<1>2. CASE Len(calls) = 1
  <2>1. calls' = <<>> /\ DOMAIN calls' = {}
    BY <1>2 DEF Back
  <2>2. calls' \in Seq(Act) /\ 1 .. Len(calls) - 1 = {}
    BY <2>1, <1>2, EmptySeq
  <2> QED BY <2>1, <2>2 DEF CallsOK
<1>3. CASE Len(calls) # 1
  <2> DEFINE n == Len(calls) - 1
             rest == SubSeq(calls, 1, n)
             caller == calls[n]
             r == [caller EXCEPT !.at = After(caller.fn, caller.at)]
  <2>1. n \in 1 .. n /\ n \in Nat /\ n \in DOMAIN calls /\ n < Len(calls)
    BY <1>1, <1>3
  <2>2. rest \in Seq(Act) /\ Len(rest) = n /\ \A d \in 1 .. n : rest[d] = calls[d]
    <3>1. \A d \in 1 .. n : calls[d] \in Act
      BY <1>1, <2>1, CallsFacts
    <3> QED BY <2>1, <3>1, SubSeqProperties
  <2>3. /\ caller \in Act /\ caller.fn \in DOMAIN Code
        /\ caller.at \in Lines(caller.fn)
        /\ Code[caller.fn][caller.at].op \in GoesOn
    BY <2>1, CallsFacts DEF CallsOK, Act, GoesOn
  <2>4. /\ After(caller.fn, caller.at) \in Lines(caller.fn)
        /\ Open(caller.fn, After(caller.fn, caller.at)) = Opened(n)
    BY <2>3, GoesOnOpen DEF Opened
  <2>5. r \in Act /\ r.fn = caller.fn /\ r.at = After(caller.fn, caller.at)
    <3>1. After(caller.fn, caller.at) \in Nat
      BY <2>3, <2>4, LinesAreNat
    <3> HIDE DEF caller
    <3> QED BY <3>1, <2>3 DEF Act
  <2>6. calls' = [rest EXCEPT ![n].at = After(caller.fn, caller.at)]
    BY <1>3, <2>1 DEF Back
  <2>7. rest[n] = caller
    BY <2>1, <2>2
  <2>8. calls' = [rest EXCEPT ![n] = r]
    BY <2>6, <2>7
  <2> HIDE DEF n, rest, caller, r
  <2>9. /\ calls' \in Seq(Act) /\ Len(calls') = n
        /\ \A d \in 1 .. n : calls'[d] = IF d = n THEN r ELSE rest[d]
    BY <2>1, <2>2, <2>5, <2>8, ExceptSeq
  <2>10. DOMAIN calls' = 1 .. n
    BY <2>9, LenProperties
  <2>11. \A d \in 1 .. n : d # n => calls'[d] = calls[d] /\ d < n
    BY <2>1, <2>2, <2>9
  <2>12. \A d \in 1 .. n : d \in DOMAIN calls /\ d < Len(calls)
    BY <1>1 DEF n
  <2>13. CallsOK'
    <3>1. \A d \in 1 .. n : calls'[d].at \in Lines(calls'[d].fn)
      BY <2>4, <2>5, <2>9, <2>11, <2>12 DEF CallsOK
    <3>2. \A d \in 1 .. n : d < n => Code[calls'[d].fn][calls'[d].at].op = "call"
      BY <2>1, <2>11, <2>12 DEF CallsOK
    <3> QED BY <2>9, <2>10, <3>1, <3>2 DEF CallsOK
  <2>14. \A d \in 1 .. n : Open(calls'[d].fn, calls'[d].at) = Opened(d)
    BY <2>1, <2>4, <2>5, <2>9, <2>11 DEF Opened
  <2> QED BY <2>10, <2>13, <2>14 DEF n
<1> QED BY <1>2, <1>3

\* A return that leaves exactly the environments of the other functions.
LEMMA PoppedMatch ==
  ASSUME ExcInv, calls # <<>>, Back, ListOK',
         \A i \in DOMAIN list' : /\ i \in DOMAIN list /\ list'[i] = list[i]
                                 /\ list[i].depth < Len(calls),
         \A i \in DOMAIN list : list[i].depth < Len(calls) => i \in DOMAIN list'
  PROVE  ExcInv'
<1>1. /\ CallsOK' /\ DOMAIN calls' = 1 .. Len(calls) - 1
      /\ \A d \in 1 .. Len(calls) - 1 :
           Open(calls'[d].fn, calls'[d].at) = Opened(d)
  BY Popping DEF ExcInv
<1>2. Len(calls) \in Nat /\ DOMAIN calls = 1 .. Len(calls)
  BY CallsFacts DEF ExcInv
<1>3. \A d : d \in 1 .. Len(calls) - 1 <=> d \in DOMAIN calls /\ d < Len(calls)
  BY <1>2
<1>4. \A i \in DOMAIN list' :
        /\ list'[i].depth \in DOMAIN calls'
        /\ list'[i].at \in Open(calls'[list'[i].depth].fn, calls'[list'[i].depth].at)
  BY <1>1, <1>3 DEF ExcInv, EnvsMatch, Opened
<1>5. \A i, j \in DOMAIN list' : i < j => Before(list'[i], list'[j])
  BY DEF ExcInv, EnvsMatch
<1>6. \A d \in DOMAIN calls' : \A t \in Open(calls'[d].fn, calls'[d].at) :
        \E i \in DOMAIN list' : list'[i] = [depth |-> d, at |-> t]
  <2> SUFFICES ASSUME NEW d \in DOMAIN calls', NEW t \in Open(calls'[d].fn, calls'[d].at)
               PROVE  \E i \in DOMAIN list' : list'[i] = [depth |-> d, at |-> t]
    OBVIOUS
  <2>1. d \in DOMAIN calls /\ d < Len(calls) /\ t \in Opened(d)
    BY <1>1, <1>3
  <2>2. PICK i \in DOMAIN list : list[i] = [depth |-> d, at |-> t]
    BY <2>1 DEF ExcInv, EnvsMatch, Opened
  <2> QED BY <2>1, <2>2
<1> QED BY <1>1, <1>4, <1>5, <1>6 DEF ExcInv, EnvsMatch

-----------------------------------------------------------------------------
(* The list of environments. *)

\* The innermost open try of the innermost function has the newest environment.
LEMMA InnermostIsNewest ==
  ASSUME ExcInv, calls # <<>>, NEW t \in Opened(Len(calls)),
         \A u \in Opened(Len(calls)) : u <= t
  PROVE  list # <<>> /\ Env = [depth |-> Len(calls), at |-> t]
<1>1. Len(calls) \in DOMAIN calls /\ DOMAIN calls = 1 .. Len(calls)
      /\ Len(calls) \in Nat
  BY TopFacts DEF ExcInv
<1>2. list # <<>>
  <2>1. PICK i \in DOMAIN list : list[i] = [depth |-> Len(calls), at |-> t]
    BY <1>1 DEF ExcInv, EnvsMatch, Opened
  <2>2. DOMAIN list = 1 .. Len(list)
    BY ListFacts DEF ExcInv
  <2> QED BY <2>1, <2>2
<1>3. Env \in [depth : Nat, at : Nat]
  <2>1. Len(list) \in Nat \ {0}
    BY <1>2, EmptySeq DEF ExcInv, ListOK
  <2> QED BY <2>1, ListFacts DEF ExcInv, Env
<1>4. Env.depth = Len(calls)
  BY <1>1, <1>2, <1>3, NewestEnv
<1>5. Env.at \in Opened(Len(calls)) /\ t <= Env.at /\ Env.at <= t
  BY <1>2, <1>4, NewestEnv
<1>6. t \in Nat
  <2>1. Opened(Len(calls)) \subseteq Lines(Top.fn) /\ Lines(Top.fn) \subseteq Nat
    BY TopFacts, OpenLines, LinesAreNat DEF ExcInv, Opened
  <2> QED BY <2>1
<1>7. Env.at = t
  BY <1>3, <1>5, <1>6
<1> QED BY <1>2, <1>3, <1>4, <1>7

LEMMA DeleteEnv ==
  ASSUME ListOK, list # <<>>, delete_env
  PROVE  /\ ListOK' /\ DOMAIN list' = 1 .. Len(list) - 1
         /\ \A i \in 1 .. Len(list) - 1 : list'[i] = list[i]
         /\ DOMAIN list = 1 .. Len(list) /\ Len(list) \in Nat \ {0}
<1>1. Len(list) \in Nat \ {0} /\ DOMAIN list = 1 .. Len(list)
  BY EmptySeq, ListFacts DEF ListOK
<1>2. \A i \in 1 .. Len(list) - 1 : list[i] \in [depth : Nat, at : Nat]
  BY <1>1, ListFacts
<1>3. /\ list' \in Seq([depth : Nat, at : Nat]) /\ Len(list') = Len(list) - 1
      /\ \A i \in 1 .. Len(list) - 1 : list'[i] = list[i]
  BY <1>1, <1>2, SubSeqProperties DEF delete_env
<1> QED BY <1>1, <1>3, LenProperties DEF ListOK

-----------------------------------------------------------------------------
(* The actions. *)

LEMMA EnterInv ==
  ASSUME ExcInv, NEW f \in Roots, Enter(f)
  PROVE  ExcInv'
<1>1. f \in DOMAIN Code /\ First(f) \in Lines(f) /\ First(f) \in Nat
      /\ Open(f, First(f)) = {}
  BY CodeAssumption, LinesAreNat
<1>2. Activation(f) \in Act /\ Activation(f).fn = f /\ Activation(f).at = First(f)
  BY <1>1 DEF Activation, Act
<1>3. calls' = <<Activation(f)>> /\ list' = list /\ calls = <<>>
  BY DEF Enter
<1> HIDE DEF Activation
<1>4. calls' \in Seq(Act) /\ Len(calls') = 1 /\ calls'[1] = Activation(f)
      /\ DOMAIN calls' = {1}
  BY <1>2, <1>3
<1>5. CallsOK'
  BY <1>1, <1>2, <1>4 DEF CallsOK
<1>6. DOMAIN list = {}
  <2>1. DOMAIN calls = {}
    BY <1>3
  <2> QED BY <2>1 DEF ExcInv, EnvsMatch
<1>7. EnvsMatch'
  BY <1>1, <1>2, <1>3, <1>4, <1>6 DEF EnvsMatch
<1> QED BY <1>3, <1>5, <1>7 DEF ExcInv, ListOK

LEMMA InvokeInv ==
  ASSUME ExcInv, NEW f \in DOMAIN Code, Invoke(f)
  PROVE  ExcInv'
<1>1. CASE UNCHANGED calls
  BY <1>1 DEF Invoke, ExcInv, CallsOK, ListOK, EnvsMatch
<1>2. CASE calls' = Append(calls, Activation(f))
  <2>1. First(f) \in Lines(f) /\ First(f) \in Nat /\ Open(f, First(f)) = {}
    BY LinesAreNat
  <2>2. Activation(f) \in Act /\ Activation(f).fn = f /\ Activation(f).at = First(f)
    BY <2>1 DEF Activation, Act
  <2> HIDE DEF Activation
  <2>3. /\ Len(calls) \in Nat /\ DOMAIN calls = 1 .. Len(calls)
        /\ calls # <<>> /\ calls \in Seq(Act)
    BY CallsFacts DEF ExcInv, Invoke, Active, CallsOK
  <2>4. /\ calls' \in Seq(Act) /\ Len(calls') = Len(calls) + 1
        /\ calls'[Len(calls) + 1] = Activation(f)
        /\ \A d \in 1 .. Len(calls) : calls'[d] = calls[d]
    BY <1>2, <2>2, <2>3
  <2>5. DOMAIN calls' = 1 .. Len(calls) + 1
    BY <2>4, LenProperties
  <2>6. Code[Top.fn][Top.at].op = "call" /\ Top = calls[Len(calls)]
    BY DEF Invoke, Active, Here, Top
  <2>7. CallsOK'
    <3>1. \A d \in 1 .. Len(calls) + 1 : d # Len(calls) + 1 => d \in 1 .. Len(calls)
      BY <2>3
    <3>2. \A d \in DOMAIN calls' : calls'[d].at \in Lines(calls'[d].fn)
      BY <2>1, <2>2, <2>3, <2>4, <2>5, <3>1 DEF ExcInv, CallsOK
    <3>3. \A d \in DOMAIN calls' :
            d < Len(calls') => Code[calls'[d].fn][calls'[d].at].op = "call"
      BY <2>3, <2>4, <2>5, <2>6 DEF ExcInv, CallsOK
    <3> QED BY <2>4, <3>2, <3>3 DEF CallsOK
  <2>8. list' = list
    BY DEF Invoke
  <2>9. \A d \in DOMAIN calls' :
          \/ d \in DOMAIN calls /\ calls'[d] = calls[d]
          \/ d \notin DOMAIN calls /\ Open(calls'[d].fn, calls'[d].at) = {}
    BY <2>1, <2>2, <2>3, <2>4, <2>5
  <2>10. DOMAIN calls \subseteq DOMAIN calls'
    BY <2>3, <2>5
  <2>11. EnvsMatch'
    BY <2>8, <2>9, <2>10 DEF ExcInv, EnvsMatch
  <2> QED BY <2>7, <2>8, <2>11 DEF ExcInv, ListOK
<1> QED BY <1>1, <1>2 DEF Invoke

LEMMA ReturnsInv ==
  ASSUME ExcInv, Returns
  PROVE  ExcInv'
<1>1. /\ calls # <<>> /\ Code[Top.fn][Top.at].op \in {"return", "return_if"}
      /\ Back /\ list' = list
  BY DEF Returns, Active, Here
<1>2. Opened(Len(calls)) = {} /\ DOMAIN calls = 1 .. Len(calls) /\ Len(calls) \in Nat
  BY <1>1, TopFacts, ReturnOpen DEF ExcInv, Opened
<1>3. \A i \in DOMAIN list : list[i].depth < Len(calls)
  BY <1>2 DEF ExcInv, EnvsMatch, Opened
<1> QED BY <1>1, <1>3, PoppedMatch DEF ExcInv, ListOK

LEMMA LeavesInv ==
  ASSUME ExcInv, Leaves
  PROVE  ExcInv'
<1>1. calls # <<>> /\ Code[Top.fn][Top.at].op = "leave" /\ Back /\ delete_env
  BY DEF Leaves, Active, Here
<1>2. PICK t : Opened(Len(calls)) = {t}
  BY <1>1, TopFacts, ReturnOpen DEF ExcInv, Opened
<1>3. t \in Nat
  <2>1. Opened(Len(calls)) \subseteq Lines(Top.fn) /\ Lines(Top.fn) \subseteq Nat
    BY <1>1, TopFacts, OpenLines, LinesAreNat DEF ExcInv, Opened
  <2> QED BY <1>2, <2>1
<1>4. list # <<>> /\ Env = [depth |-> Len(calls), at |-> t]
  BY <1>1, <1>2, <1>3, InnermostIsNewest
<1>5. /\ ListOK' /\ DOMAIN list' = 1 .. Len(list) - 1
      /\ \A i \in 1 .. Len(list) - 1 : list'[i] = list[i]
      /\ DOMAIN list = 1 .. Len(list) /\ Len(list) \in Nat \ {0}
  BY <1>1, <1>4, DeleteEnv DEF ExcInv
<1>6. ASSUME NEW i \in 1 .. Len(list) - 1 PROVE list[i].depth < Len(calls)
  <2>1. i \in DOMAIN list /\ Len(list) \in DOMAIN list /\ i < Len(list)
    BY <1>5
  <2>2. Before(list[i], Env)
    BY <2>1 DEF ExcInv, EnvsMatch, Env
  <2>3. list[i].depth = Len(calls) => list[i].at = t
    BY <1>2, <2>1 DEF ExcInv, EnvsMatch, Opened
  <2>4. list[i].depth \in Nat /\ Len(calls) \in Nat
    BY <2>1, ListFacts, CallsFacts DEF ExcInv
  <2> QED BY <1>3, <1>4, <2>2, <2>3, <2>4 DEF Before
<1>7. list[Len(list)].depth = Len(calls) /\ Len(calls) \in Nat
  BY <1>4, CallsFacts DEF Env, ExcInv
<1>8. \A i \in DOMAIN list : list[i].depth < Len(calls) => i \in DOMAIN list'
  <2>1. \A i \in DOMAIN list : i # Len(list) => i \in 1 .. Len(list) - 1
    BY <1>5
  <2> QED BY <1>5, <1>7, <2>1
<1>9. \A i \in DOMAIN list' : /\ i \in DOMAIN list /\ list'[i] = list[i]
                              /\ list[i].depth < Len(calls)
  BY <1>5, <1>6
<1> QED BY <1>1, <1>5, <1>8, <1>9, PoppedMatch

LEMMA EtriesInv ==
  ASSUME ExcInv, Etries
  PROVE  ExcInv'
<1> DEFINE a == After(Top.fn, Top.at)
           t == Here.to
           r == [Top EXCEPT !.at = a]
           n == Len(calls)
<1>1. calls # <<>> /\ Here.op = "etry" /\ delete_env /\ Move(a)
  BY DEF Etries, Active, Next_line
<1>2. /\ t \in Opened(n) /\ \A u \in Opened(n) : u <= t
      /\ a \in Lines(Top.fn) /\ Open(Top.fn, a) = Opened(n) \ {t}
  BY <1>1, TopFacts, EtryOpen DEF ExcInv, Opened, Here
<1>3. list # <<>> /\ Env = [depth |-> n, at |-> t]
  BY <1>1, <1>2, InnermostIsNewest
<1>4. /\ ListOK' /\ DOMAIN list' = 1 .. Len(list) - 1
      /\ \A i \in 1 .. Len(list) - 1 : list'[i] = list[i]
      /\ DOMAIN list = 1 .. Len(list) /\ Len(list) \in Nat \ {0}
  BY <1>1, <1>3, DeleteEnv DEF ExcInv
<1>5. r \in Act /\ r.fn = Top.fn /\ r.at = a /\ calls' = [calls EXCEPT ![n] = r]
  BY <1>1, <1>2, MoveRecord DEF Move, ExcInv
<1>6. n \in DOMAIN calls /\ Opened(n) = Open(Top.fn, Top.at) /\ n \in Nat
  BY <1>1, TopFacts DEF ExcInv, Opened
<1> HIDE DEF r, a, t, n
<1>7. /\ CallsOK' /\ DOMAIN calls' = DOMAIN calls
      /\ \A d \in DOMAIN calls : calls'[d] = IF d = n THEN r ELSE calls[d]
  BY <1>1, <1>2, <1>5, Stepping DEF ExcInv, n
<1>8. \A d \in DOMAIN calls :
        Open(calls'[d].fn, calls'[d].at) = IF d = n THEN Opened(d) \ {t} ELSE Opened(d)
  BY <1>2, <1>5, <1>7 DEF Opened
<1>9. ASSUME NEW i \in DOMAIN list'
      PROVE  /\ i \in DOMAIN list /\ list'[i] = list[i]
             /\ list[i] # [depth |-> n, at |-> t]
             /\ list[i].depth = n => list[i].at # t
  <2>1. i \in DOMAIN list /\ list'[i] = list[i] /\ i < Len(list)
        /\ Len(list) \in DOMAIN list
    BY <1>4
  <2>2. Before(list[i], Env)
    BY <2>1 DEF ExcInv, EnvsMatch, Env
  <2>3. list[i].depth \in Nat /\ list[i].at \in Nat
    BY <2>1, ListFacts DEF ExcInv
  <2>4. ~(list[i].depth = n /\ list[i].at = t)
    BY <1>3, <2>2, <2>3 DEF Before
  <2> QED BY <2>1, <2>4
<1>10. EnvsMatch'
  <2>1. \A i \in DOMAIN list' :
          /\ list'[i].depth \in DOMAIN calls'
          /\ list'[i].at \in Open(calls'[list'[i].depth].fn, calls'[list'[i].depth].at)
    <3> SUFFICES ASSUME NEW i \in DOMAIN list'
                 PROVE  /\ list'[i].depth \in DOMAIN calls'
                        /\ list'[i].at \in Open(calls'[list'[i].depth].fn,
                                                calls'[list'[i].depth].at)
      OBVIOUS
    <3>1. i \in DOMAIN list /\ list'[i] = list[i]
          /\ (list[i].depth = n => list[i].at # t)
      BY <1>9
    <3>2. list[i].depth \in DOMAIN calls /\ list[i].at \in Opened(list[i].depth)
      BY <3>1 DEF ExcInv, EnvsMatch, Opened
    <3>3. list[i].at \in Open(calls'[list[i].depth].fn, calls'[list[i].depth].at)
      BY <1>8, <3>1, <3>2
    <3> QED BY <1>7, <3>1, <3>2, <3>3
  <2>2. \A i, j \in DOMAIN list' : i < j => Before(list'[i], list'[j])
    BY <1>9 DEF ExcInv, EnvsMatch
  <2>3. ASSUME NEW d \in DOMAIN calls', NEW u \in Open(calls'[d].fn, calls'[d].at)
        PROVE  \E i \in DOMAIN list' : list'[i] = [depth |-> d, at |-> u]
    <3>1. d \in DOMAIN calls /\ u \in Opened(d) /\ (d = n => u # t)
      BY <1>7, <1>8
    <3>2. PICK i \in DOMAIN list : list[i] = [depth |-> d, at |-> u]
      BY <3>1 DEF ExcInv, EnvsMatch, Opened
    <3>3. i # Len(list)
      <4>1. list[i].depth = d /\ list[i].at = u
        BY <3>2
      <4> QED BY <1>3, <3>1, <4>1 DEF Env
    <3>4. i \in DOMAIN list' /\ list'[i] = list[i]
      BY <1>4, <3>3
    <3> QED BY <3>2, <3>4
  <2> QED BY <2>1, <2>2, <2>3 DEF EnvsMatch
<1> QED BY <1>4, <1>7, <1>10 DEF ExcInv

LEMMA TriesInv ==
  ASSUME ExcInv, Tries
  PROVE  ExcInv'
<1> DEFINE a == After(Top.fn, Top.at)
           t == Top.at
           r == [Top EXCEPT !.at = a, !.ex = None]
           n == Len(calls)
           e == [depth |-> n, at |-> t]
<1>1. /\ calls # <<>> /\ Here.op = "try" /\ list' = Append(list, e)
      /\ calls' = [calls EXCEPT ![n].at = a, ![n].ex = None]
  BY DEF Tries, Active, Next_line
<1>2. /\ n \in DOMAIN calls /\ n \in Nat /\ DOMAIN calls = 1 .. n /\ Top = calls[n]
      /\ Top \in Act /\ Top.fn \in DOMAIN Code /\ t \in Lines(Top.fn)
      /\ t \in TryLines(Top.fn)
  BY <1>1, TopFacts DEF ExcInv, Here, TryLines
<1>3. a \in Lines(Top.fn) /\ Open(Top.fn, a) = Opened(n) \cup {t} /\ a \in Nat
      /\ t \in Nat
  BY <1>2, TryOpen, LinesAreNat DEF Opened
<1>4. \A u \in Opened(n) : u < t
  BY <1>2, OpenLines DEF Opened
<1>5. r \in Act /\ r.fn = Top.fn /\ r.at = a /\ calls' = [calls EXCEPT ![n] = r]
  <2> HIDE DEF a
  <2> QED BY <1>1, <1>2, <1>3 DEF Act
<1> HIDE DEF r, a, t, n
<1>6. /\ CallsOK' /\ DOMAIN calls' = DOMAIN calls
      /\ \A d \in DOMAIN calls : calls'[d] = IF d = n THEN r ELSE calls[d]
  BY <1>1, <1>3, <1>5, Stepping DEF ExcInv, n
<1>7. \A d \in DOMAIN calls :
        Open(calls'[d].fn, calls'[d].at) = IF d = n THEN Opened(d) \cup {t} ELSE Opened(d)
  BY <1>3, <1>5, <1>6 DEF Opened
<1>8. /\ ListOK' /\ DOMAIN list' = 1 .. Len(list) + 1 /\ Len(list) \in Nat
      /\ DOMAIN list = 1 .. Len(list)
      /\ list'[Len(list) + 1] = e
      /\ \A i \in 1 .. Len(list) : list'[i] = list[i]
  <2>1. list \in Seq([depth : Nat, at : Nat]) /\ e \in [depth : Nat, at : Nat]
    BY <1>2, <1>3 DEF ExcInv, ListOK
  <2> HIDE DEF e
  <2>2. /\ list' \in Seq([depth : Nat, at : Nat]) /\ Len(list') = Len(list) + 1
        /\ list'[Len(list) + 1] = e
        /\ \A i \in 1 .. Len(list) : list'[i] = list[i]
    BY <1>1, <2>1
  <2> QED BY <2>2, ListFacts, LenProperties DEF ExcInv, ListOK
<1>9. \A i \in DOMAIN list' :
        \/ i \in DOMAIN list /\ list'[i] = list[i]
        \/ i = Len(list) + 1 /\ list'[i] = e
  BY <1>8
<1>10. ASSUME NEW i \in DOMAIN list
       PROVE  /\ list[i].depth \in DOMAIN calls /\ list[i].at \in Opened(list[i].depth)
              /\ Before(list[i], e)
  <2>1. list[i].depth \in DOMAIN calls /\ list[i].at \in Opened(list[i].depth)
    BY DEF ExcInv, EnvsMatch, Opened
  <2>2. list[i].depth = n => list[i].at < t
    BY <1>4, <2>1
  <2> QED BY <1>2, <2>1, <2>2 DEF Before
<1>11. EnvsMatch'
  <2>1. ASSUME NEW i \in DOMAIN list'
        PROVE  /\ list'[i].depth \in DOMAIN calls'
               /\ list'[i].at \in Open(calls'[list'[i].depth].fn,
                                       calls'[list'[i].depth].at)
    <3>1. CASE i \in DOMAIN list /\ list'[i] = list[i]
      BY <1>6, <1>7, <1>10, <3>1
    <3>2. CASE list'[i] = e
      <4>1. list'[i].depth = n /\ list'[i].at = t
        BY <3>2
      <4> QED BY <1>2, <1>6, <1>7, <4>1
    <3> QED BY <1>9, <3>1, <3>2
  <2>2. ASSUME NEW i \in DOMAIN list', NEW j \in DOMAIN list', i < j
        PROVE  Before(list'[i], list'[j])
    <3>1. i \in DOMAIN list /\ list'[i] = list[i]
      BY <1>8, <2>2
    <3>2. CASE j \in DOMAIN list /\ list'[j] = list[j]
      BY <2>2, <3>1, <3>2 DEF ExcInv, EnvsMatch
    <3>3. CASE list'[j] = e
      BY <1>10, <3>1, <3>3
    <3> QED BY <1>9, <3>2, <3>3
  <2>3. ASSUME NEW d \in DOMAIN calls', NEW u \in Open(calls'[d].fn, calls'[d].at)
        PROVE  \E i \in DOMAIN list' : list'[i] = [depth |-> d, at |-> u]
    <3>1. CASE d = n /\ u = t
      BY <1>8, <3>1
    <3>2. CASE ~(d = n /\ u = t)
      <4>1. d \in DOMAIN calls /\ u \in Opened(d)
        BY <1>6, <1>7, <3>2
      <4>2. PICK i \in DOMAIN list : list[i] = [depth |-> d, at |-> u]
        BY <4>1 DEF ExcInv, EnvsMatch, Opened
      <4> QED BY <1>8, <4>2
    <3> QED BY <3>1, <3>2
  <2> QED BY <2>1, <2>2, <2>3 DEF EnvsMatch
<1> QED BY <1>6, <1>8, <1>11 DEF ExcInv

\* longjmp drops functions that are inside of no try, and goes to a line that
\* is inside of the same tries as the throw was in the function of the setjmp.
LEMMA ThrowInv ==
  ASSUME ExcInv, NEW ex \in Exceptions, throw_exception(ex)
  PROVE  ExcInv'
<1>1. CASE list = <<>>
  BY <1>1 DEF throw_exception, ExcInv, CallsOK, ListOK, EnvsMatch
<1>2. CASE list # <<>>
  <2> DEFINE d == Env.depth
             f == calls[d].fn
             t == Env.at
             h == Handler(f, t, ex)
             low == SubSeq(calls, 1, d)
             r == [calls[d] EXCEPT !.at = h, !.ex = ex]
  <2>1. /\ d \in DOMAIN calls /\ t \in Opened(d)
        /\ \A u \in Opened(d) : u <= t
        /\ \A k \in DOMAIN calls : k > d => Opened(k) = {}
    BY <1>2, NewestEnv
  <2>2. /\ DOMAIN calls = 1 .. Len(calls) /\ Len(calls) \in Nat
        /\ calls[d] \in Act /\ f \in DOMAIN Code /\ calls[d].at \in Lines(f)
        /\ d \in 1 .. d /\ d \in Nat
    BY <2>1, CallsFacts DEF ExcInv, CallsOK, Act
  <2>3. t \in TryLines(f)
    BY <2>1, <2>2, OpenLines DEF Opened
  <2>4. h \in Lines(f) /\ Open(f, h) = Opened(d)
    <3>1. h \in Lines(f) /\ Open(f, h) = Open(f, t) \cup {t}
      BY <2>2, <2>3, TryOpen
    <3>2. Open(f, t) \cup {t} = Open(f, calls[d].at)
      <4> HIDE DEF t, f
      <4> QED BY <2>1, <2>2, InnermostOpen DEF Opened, f
    <3> QED BY <3>1, <3>2 DEF Opened
  <2>5. low \in Seq(Act) /\ Len(low) = d /\ \A k \in 1 .. d : low[k] = calls[k]
    <3>1. \A k \in 1 .. d : calls[k] \in Act
      BY <2>1, <2>2, CallsFacts DEF ExcInv
    <3> HIDE DEF d
    <3> QED BY <2>2, <3>1, SubSeqProperties
  <2>6. h \in Nat
    BY <2>2, <2>4, LinesAreNat
  <2>7. calls' = [low EXCEPT ![d].at = h, ![d].ex = ex] /\ list' = list
    BY <1>2 DEF throw_exception
  <2> HIDE DEF h, low, d
  <2>8. r \in Act /\ r.fn = f /\ r.at = h
    BY <2>2, <2>6 DEF Act
  <2>9. calls' = [low EXCEPT ![d] = r]
    <3>1. low[d] = calls[d]
      BY <2>2, <2>5
    <3> QED BY <2>2, <2>5, <2>7, <3>1
  <2> HIDE DEF r, f, t
  <2>10. /\ calls' \in Seq(Act) /\ Len(calls') = d
         /\ \A k \in 1 .. d : calls'[k] = IF k = d THEN r ELSE low[k]
    BY <2>2, <2>5, <2>8, <2>9, ExceptSeq
  <2>11. DOMAIN calls' = 1 .. d
    BY <2>10, LenProperties
  <2>12. \A k \in 1 .. d : k # d => calls'[k] = calls[k] /\ k < d
    BY <2>2, <2>5, <2>10
  <2>13. \A k \in 1 .. d : k \in DOMAIN calls /\ (k < d => k < Len(calls))
    BY <2>1, <2>2
  <2>14. CallsOK'
    <3>1. \A k \in 1 .. d : calls'[k].at \in Lines(calls'[k].fn)
      BY <2>4, <2>8, <2>10, <2>12, <2>13 DEF ExcInv, CallsOK
    <3>2. \A k \in 1 .. d : k < d => Code[calls'[k].fn][calls'[k].at].op = "call"
      BY <2>2, <2>12, <2>13 DEF ExcInv, CallsOK
    <3> QED BY <2>10, <2>11, <3>1, <3>2 DEF CallsOK
  <2>15. \A k \in 1 .. d : Open(calls'[k].fn, calls'[k].at) = Opened(k)
    BY <2>2, <2>4, <2>8, <2>10, <2>12 DEF Opened
  <2>16. ASSUME NEW i \in DOMAIN list PROVE list[i].depth \in 1 .. d
    <3>1. list[i].depth \in DOMAIN calls /\ list[i].at \in Opened(list[i].depth)
      BY DEF ExcInv, EnvsMatch, Opened
    <3>2. ~(list[i].depth > d)
      BY <2>1, <3>1
    <3> QED BY <2>2, <3>1, <3>2
  <2>17. EnvsMatch'
    BY <2>7, <2>11, <2>13, <2>15, <2>16 DEF ExcInv, EnvsMatch, Opened
  <2> QED BY <2>7, <2>14, <2>17 DEF ExcInv, ListOK
<1> QED BY <1>1, <1>2

LEMMA SavesInv ==
  ASSUME ExcInv, Saves
  PROVE  ExcInv'
<1> DEFINE a == After(Top.fn, Top.at)
           m == IF Here.op = "save" \/ Top.my_ex = None THEN Top.ex ELSE Top.my_ex
           r == [Top EXCEPT !.at = a, !.my_ex = m]
           n == Len(calls)
<1>1. /\ calls # <<>> /\ Here.op \in GoesOn /\ list' = list
      /\ calls' = [calls EXCEPT
           ![n].at = a,
           ![n].my_ex = IF Here.op = "save" \/ @ = None THEN Top.ex ELSE @]
  BY DEF Saves, Active, Next_line, GoesOn
<1>2. /\ n \in DOMAIN calls /\ Top = calls[n] /\ Top \in Act
      /\ Top.fn \in DOMAIN Code /\ Top.at \in Lines(Top.fn)
  BY <1>1, TopFacts DEF ExcInv
<1>3. a \in Lines(Top.fn) /\ Open(Top.fn, a) = Opened(n) /\ a \in Nat
  BY <1>1, <1>2, GoesOnOpen, LinesAreNat DEF Opened, Here
<1>4. m \in Exceptions \cup {None}
  BY <1>2 DEF Act
<1>5. r \in Act /\ r.fn = Top.fn /\ r.at = a /\ calls' = [calls EXCEPT ![n] = r]
  <2> HIDE DEF a
  <2> QED BY <1>1, <1>2, <1>3, <1>4 DEF Act
<1> HIDE DEF r, a, n, m
<1>6. /\ CallsOK' /\ DOMAIN calls' = DOMAIN calls
      /\ \A d \in DOMAIN calls : calls'[d] = IF d = n THEN r ELSE calls[d]
  BY <1>1, <1>3, <1>5, Stepping DEF ExcInv, n
<1>7. \A d \in DOMAIN calls :
        Open(calls'[d].fn, calls'[d].at) = Open(calls[d].fn, calls[d].at)
  BY <1>3, <1>5, <1>6 DEF Opened
<1>8. list' = list /\ DOMAIN calls' = DOMAIN calls
  BY <1>1, <1>6
<1>9. EnvsMatch'
  BY <1>7, <1>8 DEF ExcInv, EnvsMatch
<1> QED BY <1>6, <1>8, <1>9 DEF ExcInv, ListOK

\* The steps of one function that change neither the list nor what is open.
LEMMA MovesInv ==
  ASSUME ExcInv,
         \/ \E op \in Effects \cup {"if", "return_if", "finally", "end_if"} : Passes(op)
         \/ NothingSaved \/ Jumps \/ Skips
  PROVE  ExcInv'
<1>1. ASSUME NEW op \in Effects \cup {"if", "return_if", "finally", "end_if"}, Passes(op)
      PROVE  ExcInv'
  <2>1. calls # <<>> /\ Here.op \in GoesOn /\ Move(Next_line) /\ UNCHANGED list
    BY <1>1 DEF Passes, Active, GoesOn
  <2> QED BY <2>1, TopFacts, GoesOnOpen, SameBlocks DEF ExcInv, Here, Next_line
<1>2. CASE NothingSaved
  <2>1. calls # <<>> /\ Here.op \in GoesOn /\ Move(Next_line) /\ UNCHANGED list
    BY <1>2 DEF NothingSaved, Active, GoesOn
  <2> QED BY <2>1, TopFacts, GoesOnOpen, SameBlocks DEF ExcInv, Here, Next_line
<1>3. CASE Jumps
  <2>1. /\ calls # <<>> /\ Move(Here.to) /\ UNCHANGED list
        /\ Here.op \in {"if", "goto"} \/ (Here.op = "get" /\ Here.to # 0)
    BY <1>3 DEF Jumps, Active
  <2> QED BY <2>1, TopFacts, JumpOpen, SameBlocks DEF ExcInv, Here
<1>4. CASE Skips
  <2>1. /\ calls # <<>> /\ Here.op = "catch" /\ UNCHANGED list
        /\ Move(Code[Top.fn][Here.to].to)
    BY <1>4 DEF Skips, Active
  <2>2. Here.to \in TryLines(Top.fn)
        /\ Open(Top.fn, Code[Top.fn][Here.to].to) = Open(Top.fn, Top.at)
    BY <2>1, TopFacts, CatchOpen DEF ExcInv, Here
  <2>3. Code[Top.fn][Here.to].to \in Lines(Top.fn)
    BY <2>1, <2>2, TopFacts, TryOpen DEF ExcInv
  <2> QED BY <2>1, <2>2, <2>3, SameBlocks
<1> QED BY <1>1, <1>2, <1>3, <1>4

LEMMA ExcInvInit == Init => ExcInv
<1> SUFFICES ASSUME Init PROVE ExcInv
  OBVIOUS
<1>1. calls = <<>> /\ list = <<>> /\ DOMAIN calls = {} /\ DOMAIN list = {}
  BY DEF Init
<1>2. CallsOK
  BY <1>1, EmptySeq DEF CallsOK
<1>3. ListOK
  BY <1>1, EmptySeq DEF ListOK
<1> QED BY <1>1, <1>2, <1>3 DEF ExcInv, EnvsMatch

LEMMA ExcInvNext == ExcInv /\ [Next]_excVars => ExcInv'
<1> SUFFICES ASSUME ExcInv, [Next]_excVars PROVE ExcInv'
  OBVIOUS
<1>1. ASSUME NEW f \in Roots, Enter(f) PROVE ExcInv'
  BY <1>1, EnterInv
<1>2. ASSUME NEW f \in DOMAIN Code, Invoke(f) PROVE ExcInv'
  BY <1>2, InvokeInv
<1>3. ASSUME NEW ex \in Exceptions, throw_exception(ex) PROVE ExcInv'
  BY <1>3, ThrowInv
<1>4. ASSUME NEW how \in Endings, ends(how) \/ crashes(how) PROVE ExcInv'
  BY <1>4 DEF ends, crashes, ExcInv, CallsOK, ListOK, EnvsMatch
<1>5. CASE UNCHANGED excVars
  BY <1>5 DEF excVars, ExcInv, CallsOK, ListOK, EnvsMatch
<1> QED
  BY <1>1, <1>2, <1>3, <1>4, <1>5, ReturnsInv, LeavesInv, MovesInv, TriesInv,
     EtriesInv, SavesInv DEF Next

\* In every program written with the macros, the list of environments holds one
\* for each open try block and no other, in the order the blocks were entered.
THEOREM EnvsCorrect == Spec => []EnvsMatch
<1>1. ExcInv => EnvsMatch
  BY DEF ExcInv
<1> QED BY <1>1, ExcInvInit, ExcInvNext, PTL DEF Spec

=============================================================================
