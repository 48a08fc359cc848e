------------------------------ MODULE LineProofs ------------------------------
(***************************************************************************)
(* What list and breakl may be relied on for, for every header and every   *)
(* program of instructions with operands of one byte or two.               *)
(***************************************************************************)
EXTENDS LineProperties, SequenceTheorems, WellFoundedInduction, TLAPS

-----------------------------------------------------------------------------
(* Least and greatest indices. *)

LEMMA LeastIndex ==
  ASSUME NEW S, S \subseteq Nat, S # {}
  PROVE  \E k \in S : \A j \in S : k <= j
<1>1. PICK k \in S : \A j \in S : ~(<<j, k>> \in OpToRel(<, Nat))
  BY WFMin, NatLessThanWellFounded
<1>2. \A j \in S : ~(j < k)
  BY <1>1 DEF OpToRel
<1> QED BY <1>2

LEMMA LeastElement ==
  ASSUME NEW S, S \subseteq Nat, S # {}
  PROVE  Min(S) \in S /\ \A j \in S : Min(S) <= j
BY LeastIndex DEF Min

LEMMA GreatestElement ==
  ASSUME NEW S, S # {}, NEW n \in Nat, S \subseteq 1 .. n
  PROVE  Max(S) \in S /\ \A j \in S : j <= Max(S)
<1> DEFINE M == {n - j : j \in S}
<1>1. M \subseteq Nat /\ M # {}
  <2>1. \A j \in S : n - j \in Nat
    OBVIOUS
  <2> QED BY <2>1
<1>2. PICK d \in M : \A e \in M : d <= e
  BY <1>1, LeastIndex
<1>3. PICK k \in S : d = n - k
  OBVIOUS
<1>4. \A j \in S : j <= k
  <2> SUFFICES ASSUME NEW j \in S PROVE j <= k
    OBVIOUS
  <2>1. d <= n - j
    BY <1>2
  <2> QED BY <2>1, <1>3
<1> QED BY <1>4 DEF Max

-----------------------------------------------------------------------------
(* The bytes of a program, instruction after instruction. *)

LEMMA CatFacts ==
  ASSUME NEW S, NEW s1 \in Seq(S), NEW s2 \in Seq(S)
  PROVE  /\ s1 \o s2 \in Seq(S) /\ Len(s1) \in Nat /\ Len(s2) \in Nat
         /\ Len(s1 \o s2) = Len(s1) + Len(s2)
         /\ \A j \in 1 .. Len(s1) : (s1 \o s2)[j] = s1[j]
         /\ \A j \in 1 .. Len(s2) : (s1 \o s2)[Len(s1) + j] = s2[j]
<1>1. /\ s1 \o s2 \in Seq(S) /\ Len(s1 \o s2) = Len(s1) + Len(s2)
      /\ \A j \in 1 .. Len(s1) + Len(s2) :
           (s1 \o s2)[j] = IF j <= Len(s1) THEN s1[j] ELSE s2[j - Len(s1)]
  BY ConcatProperties, Zenon
<1>2. Len(s1) \in Nat /\ Len(s2) \in Nat
  OBVIOUS
<1>3. \A x, y \in Nat :
        /\ \A j \in 1 .. x : j \in 1 .. x + y /\ j <= x
        /\ \A j \in 1 .. y : x + j \in 1 .. x + y /\ ~(x + j <= x) /\ (x + j) - x = j
  OBVIOUS
<1>4. \A j \in 1 .. Len(s1) : (s1 \o s2)[j] = s1[j]
  BY <1>1, <1>2, <1>3
<1>5. ASSUME NEW j \in 1 .. Len(s2) PROVE (s1 \o s2)[Len(s1) + j] = s2[j]
  <2> DEFINE k == Len(s1) + j
  <2>1. k \in 1 .. Len(s1) + Len(s2) /\ ~(k <= Len(s1)) /\ k - Len(s1) = j
    BY <1>2, <1>3
  <2> HIDE DEF k
  <2>2. (s1 \o s2)[k] = s2[k - Len(s1)]
    BY <1>1, <2>1
  <2> QED BY <2>1, <2>2 DEF k
<1> QED BY <1>1, <1>2, <1>4, <1>5

\* f joins the first m of the sequences e.
Joined(S, e, m, f) ==
  /\ f \in [0 .. m -> Seq(S)]
  /\ f[0] = <<>>
  /\ \A n \in 1 .. m : f[n] = f[n - 1] \o e[n]

LEMMA JoinedMore ==
  ASSUME NEW S, NEW m \in Nat \ {0}, NEW e, e[m] \in Seq(S), NEW f, Joined(S, e, m - 1, f)
  PROVE  \E g : Joined(S, e, m, g)
<1> DEFINE g == [n \in 0 .. m |-> IF n < m THEN f[n] ELSE f[m - 1] \o e[m]]
<1>1. f[m - 1] \in Seq(S)
  BY DEF Joined
<1>2. f[m - 1] \o e[m] \in Seq(S)
  BY <1>1, ConcatProperties
<1>3. \A n \in 0 .. m : n < m => n \in 0 .. m - 1
  OBVIOUS
<1>4. g \in [0 .. m -> Seq(S)]
  BY <1>2, <1>3 DEF Joined
<1>5. g[0] = <<>>
  BY DEF Joined
<1>6. ASSUME NEW n \in 1 .. m PROVE g[n] = g[n - 1] \o e[n]
  <2>1. n - 1 \in 0 .. m /\ n - 1 < m /\ g[n - 1] = f[n - 1]
    OBVIOUS
  <2>2. CASE n = m
    <3>1. m \in 0 .. m /\ ~(m < m)
      OBVIOUS
    <3>2. g[m] = f[m - 1] \o e[m]
      BY <3>1, Zenon
    <3> HIDE DEF g
    <3> QED BY <2>1, <2>2, <3>2
  <2>3. CASE n < m
    <3>1. g[n] = f[n] /\ n \in 1 .. m - 1
      BY <2>3
    <3>2. f[n] = f[n - 1] \o e[n]
      BY <3>1 DEF Joined
    <3> QED BY <3>1, <3>2, <2>1
  <2>4. n = m \/ n < m
    OBVIOUS
  <2> HIDE DEF g
  <2> QED BY <2>2, <2>3, <2>4
<1>7. Joined(S, e, m, g)
  BY <1>4, <1>5, <1>6 DEF Joined
<1> QED BY <1>7

\* The function BytesOf defines exists.
LEMMA JoinedExists ==
  ASSUME NEW S, NEW len \in Nat, NEW e \in [1 .. len -> Seq(S)]
  PROVE  \E f : Joined(S, e, len, f)
<1> DEFINE Missing == {m \in 0 .. len : ~ \E f : Joined(S, e, m, f)}
<1>1. SUFFICES ASSUME Missing # {} PROVE FALSE
  <2>1. len \in 0 .. len
    OBVIOUS
  <2> QED BY <2>1
<1>2. PICK m \in Missing : \A j \in Missing : m <= j
  <2>1. Missing \subseteq Nat
    OBVIOUS
  <2> HIDE DEF Missing
  <2> QED BY <1>1, <2>1, LeastIndex
<1>3. m \in 0 .. len /\ ~ \E f : Joined(S, e, m, f)
  OBVIOUS
<1>4. Joined(S, e, 0, [n \in 0 .. 0 |-> <<>>])
  BY DEF Joined
<1>5. m # 0
  BY <1>3, <1>4
<1>6. m - 1 \in 0 .. len /\ ~(m <= m - 1)
  BY <1>3, <1>5
<1>7. m - 1 \notin Missing
  <2> HIDE DEF Missing
  <2> QED BY <1>2, <1>6
<1>8. PICK f : Joined(S, e, m - 1, f)
  BY <1>6, <1>7
<1>9. m \in Nat \ {0} /\ e[m] \in Seq(S)
  BY <1>3, <1>5
<1>10. \E g : Joined(S, e, m, g)
  <2> HIDE DEF Missing
  <2> QED BY <1>8, <1>9, JoinedMore
<1> QED BY <1>3, <1>10

\* There is only one.
Joins(e, m, f) == f[0] = <<>> /\ \A n \in 1 .. m : f[n] = f[n - 1] \o e[n]

LEMMA JoinedUnique ==
  ASSUME NEW len \in Nat, NEW e, NEW f, NEW g, Joins(e, len, f), Joins(e, len, g)
  PROVE  \A n \in 0 .. len : g[n] = f[n]
<1> DEFINE Not == {n \in 0 .. len : g[n] # f[n]}
<1>1. SUFFICES ASSUME Not # {} PROVE FALSE
  OBVIOUS
<1>2. PICK n \in Not : \A j \in Not : n <= j
  <2>1. Not \subseteq Nat
    OBVIOUS
  <2> HIDE DEF Not
  <2> QED BY <1>1, <2>1, LeastIndex
<1>3. n \in 0 .. len /\ g[n] # f[n]
  <2>1. f[0] = g[0]
    BY DEF Joins
  <2> QED OBVIOUS
<1>4. n \in 1 .. len /\ n - 1 \in 0 .. len /\ ~(n <= n - 1)
  <2>1. n # 0
    BY <1>3 DEF Joins
  <2> QED BY <1>3, <2>1
<1>5. n - 1 \notin Not
  <2> HIDE DEF Not
  <2> QED BY <1>2, <1>4
<1>6. g[n - 1] = f[n - 1]
  BY <1>4, <1>5
<1>7. g[n] = g[n - 1] \o e[n] /\ f[n] = f[n - 1] \o e[n]
  BY <1>4 DEF Joins
<1> HIDE DEF Not
<1> QED BY <1>3, <1>6, <1>7

\* The first sequences joined begin any longer join.
Growing(f, len) ==
  \A a \in 0 .. len : /\ Len(f[a]) \in Nat /\ Len(f[a]) <= Len(f[len])
                      /\ \A j \in 1 .. Len(f[a]) : f[len][j] = f[a][j]

LEMMA JoinedGrows ==
  ASSUME NEW S, NEW len \in Nat, NEW e \in [1 .. len -> Seq(S)],
         NEW f, Joined(S, e, len, f)
  PROVE  Growing(f, len)
<1> SUFFICES ASSUME NEW a \in 0 .. len
             PROVE  /\ Len(f[a]) \in Nat /\ Len(f[a]) <= Len(f[len])
                    /\ \A j \in 1 .. Len(f[a]) : f[len][j] = f[a][j]
  BY DEF Growing
<1> DEFINE Begins(b) == /\ Len(f[a]) <= Len(f[b])
                        /\ \A j \in 1 .. Len(f[a]) : f[b][j] = f[a][j]
           Not == {b \in a .. len : ~Begins(b)}
<1>1. \A b \in 0 .. len : f[b] \in Seq(S) /\ Len(f[b]) \in Nat
  BY DEF Joined
<1>2. SUFFICES ASSUME Not # {} PROVE FALSE
  <2>1. len \in a .. len
    OBVIOUS
  <2> QED BY <1>1, <2>1
<1>3. PICK b \in Not : \A j \in Not : b <= j
  <2>1. Not \subseteq Nat
    OBVIOUS
  <2> HIDE DEF Not
  <2> QED BY <1>2, <2>1, LeastIndex
<1>4. b \in a .. len /\ ~Begins(b)
  OBVIOUS
<1>5. b # a
  BY <1>1, <1>4
<1>6. b - 1 \in a .. len /\ ~(b <= b - 1)
  BY <1>4, <1>5
<1>7. b - 1 \notin Not
  <2> HIDE DEF Not
  <2> QED BY <1>3, <1>6
<1>8. Begins(b - 1)
  BY <1>6, <1>7
<1>9. b \in 1 .. len /\ b - 1 \in 0 .. len
  BY <1>4, <1>5
<1> HIDE DEF Not
<1>10. f[b] = f[b - 1] \o e[b] /\ f[b - 1] \in Seq(S) /\ e[b] \in Seq(S)
  BY <1>9 DEF Joined
<1>11. /\ Len(f[b]) = Len(f[b - 1]) + Len(e[b]) /\ Len(e[b]) \in Nat
       /\ \A j \in 1 .. Len(f[b - 1]) : f[b][j] = f[b - 1][j]
  <2> DEFINE s1 == f[b - 1]
             s2 == e[b]
  <2> HIDE DEF s1, s2
  <2>1. s1 \in Seq(S) /\ s2 \in Seq(S)
    BY <1>10 DEF s1, s2
  <2>2. Len(s1 \o s2) = Len(s1) + Len(s2) /\ Len(s2) \in Nat
    BY <2>1, CatFacts
  <2>3. \A j \in 1 .. Len(s1) : (s1 \o s2)[j] = s1[j]
    BY <2>1, CatFacts
  <2> QED BY <1>10, <2>2, <2>3 DEF s1, s2
<1>12. Begins(b)
  <2>1. Len(f[a]) \in Nat /\ Len(f[b - 1]) \in Nat
    BY <1>1, <1>9
  <2>2. Len(f[a]) <= Len(f[b - 1]) /\ \A j \in 1 .. Len(f[a]) : f[b - 1][j] = f[a][j]
    BY <1>8
  <2>3. \A j \in 1 .. Len(f[a]) : j \in 1 .. Len(f[b - 1])
    BY <2>1, <2>2
  <2>4. Len(f[a]) <= Len(f[b])
    <3>1. \A x, y, z \in Nat : x <= y => x <= y + z
      OBVIOUS
    <3> QED BY <1>11, <2>1, <2>2, <3>1, Zenon
  <2> QED BY <1>11, <2>2, <2>3, <2>4
<1> QED BY <1>4, <1>12

-----------------------------------------------------------------------------
(* The encoding of one instruction. *)

Octets == 0 .. 255

LEMMA Prefixed ==
  ASSUME NEW b \in Octets, NEW s \in Seq(Octets)
  PROVE  /\ <<b>> \o s \in Seq(Octets) /\ Len(s) \in Nat
         /\ Len(<<b>> \o s) = 1 + Len(s) /\ (<<b>> \o s)[1] = b
         /\ \A j \in 1 .. Len(s) : (<<b>> \o s)[1 + j] = s[j]
<1>1. <<b>> \in Seq(Octets) /\ Len(<<b>>) = 1 /\ 1 \in 1 .. Len(<<b>>) /\ <<b>>[1] = b
  OBVIOUS
<1> DEFINE s1 == <<b>>
<1>2. s1 \in Seq(Octets) /\ Len(s1) = 1 /\ 1 \in 1 .. Len(s1) /\ s1[1] = b
  BY <1>1
<1> HIDE DEF s1
<1>3. /\ s1 \o s \in Seq(Octets) /\ Len(s) \in Nat
      /\ Len(s1 \o s) = 1 + Len(s) /\ (s1 \o s)[1] = b
      /\ \A j \in 1 .. Len(s) : (s1 \o s)[1 + j] = s[j]
  <2>1. /\ s1 \o s \in Seq(Octets) /\ Len(s1) \in Nat /\ Len(s) \in Nat
        /\ Len(s1 \o s) = Len(s1) + Len(s)
        /\ \A j \in 1 .. Len(s1) : (s1 \o s)[j] = s1[j]
        /\ \A j \in 1 .. Len(s) : (s1 \o s)[Len(s1) + j] = s[j]
    <3>1. s1 \in Seq(Octets) /\ s \in Seq(Octets)
      BY <1>2
    <3>2. s1 \o s \in Seq(Octets) /\ Len(s1) \in Nat /\ Len(s) \in Nat
      BY <3>1, CatFacts
    <3>3. /\ Len(s1 \o s) = Len(s1) + Len(s)
          /\ \A j \in 1 .. Len(s1) : (s1 \o s)[j] = s1[j]
          /\ \A j \in 1 .. Len(s) : (s1 \o s)[Len(s1) + j] = s[j]
      BY <3>1, CatFacts
    <3> QED BY <3>2, <3>3
  <2> QED BY <1>2, <2>1
<1> QED BY <1>3 DEF s1

LEMMA Pair ==
  ASSUME NEW x \in 0 .. 255, NEW y \in 0 .. 255
  PROVE  /\ <<x, y>> \in Seq(Octets) /\ Len(<<x, y>>) = 2
         /\ <<x, y>>[1] = x /\ <<x, y>>[2] = y
BY DEF Octets

LEMMA Single ==
  ASSUME NEW x \in 0 .. 255
  PROVE  <<x>> \in Seq(Octets) /\ Len(<<x>>) = 1 /\ <<x>>[1] = x
BY DEF Octets

LEMMA By128 ==
  ASSUME NEW x \in Int
  PROVE  /\ x % 128 \in 0 .. 127 /\ x \div 128 \in Int
         /\ x = 128 * (x \div 128) + (x % 128)
<1>1. x % 128 \in 0 .. 127
  OBVIOUS
<1>2. x \div 128 \in Int
  OBVIOUS
<1>3. x = 128 * (x \div 128) + (x % 128)
  OBVIOUS
<1> QED BY <1>1, <1>2, <1>3

LEMMA Quotient ==
  ASSUME NEW x \in 0 .. MaxOperand
  PROVE  x \div 128 \in 0 .. 63
<1>1. x \in Int /\ 0 <= x /\ x <= 8191
  BY DEF MaxOperand
<1>2. x \div 128 <= 63
  BY <1>1
<1>3. x \div 128 >= 0
  BY <1>1
<1> QED BY <1>1, <1>2, <1>3, By128

LEMMA ULEBShape ==
  ASSUME NEW x \in 0 .. MaxOperand
  PROVE  /\ ULEB(x) \in Seq(Octets)
         /\ x < 128 => Len(ULEB(x)) = 1 /\ ULEB(x)[1] = x
         /\ x >= 128 => /\ Len(ULEB(x)) = 2 /\ ULEB(x)[1] = 128 + (x % 128)
                        /\ ULEB(x)[2] = x \div 128
<1>1. x \in Int /\ 0 <= x /\ x % 128 \in 0 .. 127 /\ x \div 128 \in 0 .. 63
  BY By128, Quotient DEF MaxOperand
<1>2. CASE x < 128
  <2>1. x \in 0 .. 255 /\ ULEB(x) = <<x>>
    BY <1>1, <1>2 DEF ULEB
  <2> QED BY <1>2, <2>1, Single
<1>3. CASE x >= 128
  <2> DEFINE low == 128 + (x % 128)
             high == x \div 128
  <2>1. low \in 0 .. 255 /\ high \in 0 .. 255 /\ ULEB(x) = <<low, high>> /\ ~(x < 128)
    BY <1>1, <1>3 DEF ULEB
  <2> HIDE DEF low, high
  <2>2. /\ ULEB(x) \in Seq(Octets) /\ Len(ULEB(x)) = 2
        /\ ULEB(x)[1] = low /\ ULEB(x)[2] = high
    <3>1. /\ <<low, high>> \in Seq(Octets) /\ Len(<<low, high>>) = 2
          /\ <<low, high>>[1] = low /\ <<low, high>>[2] = high
      BY <2>1, Pair
    <3> QED BY <2>1, <3>1
  <2> QED BY <2>1, <2>2 DEF low, high
<1> QED BY <1>1, <1>2, <1>3

LEMMA SLEBShape ==
  ASSUME NEW x \in -MaxOperand .. MaxOperand
  PROVE  /\ SLEB(x) \in Seq(Octets)
         /\ x \in -64 .. 63 => Len(SLEB(x)) = 1 /\ SLEB(x)[1] = x % 128 /\ x % 128 \in 0 .. 127
         /\ x \notin -64 .. 63 =>
              /\ Len(SLEB(x)) = 2 /\ SLEB(x)[1] = 128 + (x % 128)
              /\ SLEB(x)[2] = (x \div 128) % 128
              /\ x % 128 \in 0 .. 127 /\ (x \div 128) % 128 \in 0 .. 127
<1> DEFINE low == x % 128
           high == (x \div 128) % 128
<1>1. low \in 0 .. 127 /\ high \in 0 .. 127
  BY By128 DEF MaxOperand
<1>2. CASE x \in -64 .. 63
  <2>1. SLEB(x) = <<low>>
    BY <1>2 DEF SLEB
  <2>2. low \in 0 .. 255
    BY <1>1
  <2> HIDE DEF low, high
  <2>3. SLEB(x) \in Seq(Octets) /\ Len(SLEB(x)) = 1 /\ SLEB(x)[1] = low
    BY <2>1, <2>2, Single
  <2> QED BY <1>1, <1>2, <2>3 DEF low, high
<1>3. CASE x \notin -64 .. 63
  <2>1. SLEB(x) = <<128 + low, high>>
    BY <1>3 DEF SLEB
  <2>2. 128 + low \in 0 .. 255 /\ high \in 0 .. 255
    <3> HIDE DEF low, high
    <3> QED BY <1>1
  <2> HIDE DEF low, high
  <2>3. /\ SLEB(x) \in Seq(Octets) /\ Len(SLEB(x)) = 2
        /\ SLEB(x)[1] = 128 + low /\ SLEB(x)[2] = high
    <3> DEFINE first == 128 + low
    <3>1. first \in 0 .. 255 /\ high \in 0 .. 255 /\ SLEB(x) = <<first, high>>
      BY <2>1, <2>2
    <3> HIDE DEF first
    <3>2. /\ <<first, high>> \in Seq(Octets) /\ Len(<<first, high>>) = 2
          /\ <<first, high>>[1] = first /\ <<first, high>>[2] = high
      BY <3>1, Pair
    <3> QED BY <3>1, <3>2 DEF first
  <2> QED BY <1>1, <1>3, <2>3 DEF low, high
<1> QED BY <1>2, <1>3

LEMMA FixedShape ==
  ASSUME NEW x \in 0 .. MaxFixed, NEW size \in 2 .. 8
  PROVE  /\ Fixed(x, size) \in Seq(Octets) /\ Len(Fixed(x, size)) = size
         /\ Fixed(x, size)[1] = x % 256 /\ Fixed(x, size)[2] = x \div 256
<1>1. x % 256 \in Octets /\ x \div 256 \in Octets /\ (x \div 256) % 256 = x \div 256
      /\ (x \div 1) % 256 = x % 256
  <2>1. x \in Int /\ 0 <= x /\ x <= 65535
    BY DEF MaxFixed
  <2>2. x \div 256 <= 255
    BY <2>1
  <2>3. x \div 256 >= 0 /\ x \div 256 \in Int
    BY <2>1
  <2>4. (x \div 256) % 256 = x \div 256
    BY <2>2, <2>3
  <2>5. x \div 1 = x /\ x % 256 \in 0 .. 255
    BY <2>1
  <2> QED BY <2>2, <2>3, <2>4, <2>5 DEF Octets
<1> DEFINE Octet(k) == IF k <= 2 THEN (x \div (IF k = 1 THEN 1 ELSE 256)) % 256 ELSE 0
<1>2. ASSUME NEW k \in 1 .. size PROVE Octet(k) \in Octets
  <2>1. CASE k = 1
    BY <1>1, <2>1
  <2>2. CASE k = 2
    BY <1>1, <2>2
  <2>3. CASE k > 2
    BY <2>3 DEF Octets
  <2> QED BY <2>1, <2>2, <2>3
<1>3. Fixed(x, size) \in Seq(Octets)
  <2> HIDE DEF Octet
  <2>1. [k \in 1 .. size |-> Octet(k)] \in Seq(Octets)
    BY <1>2
  <2> QED BY <2>1 DEF Fixed, Octet
<1>4. Len(Fixed(x, size)) = size
  BY DEF Fixed
<1>5. Fixed(x, size)[1] = x % 256 /\ Fixed(x, size)[2] = x \div 256
  BY <1>1 DEF Fixed
<1> QED BY <1>3, <1>4, <1>5

LEMMA Kinds ==
  /\ DOMAIN Plain \cap DOMAIN Unsigned = {} /\ DOMAIN Plain \cap DOMAIN Extended = {}
  /\ DOMAIN Unsigned \cap DOMAIN Extended = {}
  /\ \A op \in {"advance_line", "fixed_advance_pc", "special", "unknown"} :
       op \notin DOMAIN Plain /\ op \notin DOMAIN Unsigned /\ op \notin DOMAIN Extended
BY DEF Plain, Unsigned, Extended

LEMMA OperandsOf ==
  /\ \A op \in DOMAIN Unsigned : Operands(op) = 0 .. MaxOperand
  /\ Operands("set_discriminator") = 0 .. MaxOperand
  /\ Operands("advance_line") = -MaxOperand .. MaxOperand
  /\ Operands("fixed_advance_pc") = 0 .. MaxFixed /\ Operands("set_address") = 0 .. MaxFixed
  /\ Operands("special") = 0 .. 254
<1>1. \A op \in {"advance_line", "fixed_advance_pc", "set_address", "special", "set_discriminator"} :
        op \notin DOMAIN Unsigned
  BY DEF Unsigned
<1>2. \A op \in DOMAIN Unsigned : op \in {"advance_pc", "set_file", "set_column", "set_isa"}
  BY DEF Unsigned
<1>3. \A op \in DOMAIN Unsigned : Operands(op) = 0 .. MaxOperand
  <2> SUFFICES ASSUME NEW op \in DOMAIN Unsigned PROVE Operands(op) = 0 .. MaxOperand
    OBVIOUS
  <2>1. /\ op # "advance_line" /\ op # "fixed_advance_pc" /\ op # "set_address"
        /\ op # "special" /\ op \in DOMAIN Unsigned \cup {"set_discriminator"}
    BY <1>2
  <2> QED BY <2>1 DEF Operands
<1>4. Operands("set_discriminator") = 0 .. MaxOperand
  BY <1>1 DEF Operands
<1>5. Operands("advance_line") = -MaxOperand .. MaxOperand
  BY <1>1 DEF Operands
<1>6. Operands("fixed_advance_pc") = 0 .. MaxFixed
  BY <1>1 DEF Operands
<1>7. Operands("set_address") = 0 .. MaxFixed
  BY <1>1 DEF Operands
<1>8. Operands("special") = 0 .. 254
  BY <1>1 DEF Operands
<1> QED BY <1>3, <1>4, <1>5, <1>6, <1>7, <1>8

LEMMA OperandFits ==
  ASSUME NEW n \in Instructions
  PROVE  n.op \in Names /\ n.arg \in Int /\ n.arg \in Operands(n.op)
BY DEF Instructions

LEMMA PlainShape ==
  ASSUME NEW h \in HeaderType, NEW n \in Instructions, Encodable(h, n),
         n.op \in DOMAIN Plain
  PROVE  /\ EncodedOne(h, n) \in Seq(Octets) /\ Len(EncodedOne(h, n)) = 1
         /\ EncodedOne(h, n)[1] = Plain[n.op] /\ Plain[n.op] < h.opcode_base
<1>1. Plain[n.op] \in 0 .. 255
  BY DEF Plain
<1>2. /\ n.op \notin DOMAIN Unsigned /\ n.op \notin DOMAIN Extended
      /\ n.op # "advance_line" /\ n.op # "fixed_advance_pc"
      /\ n.op # "special" /\ n.op # "unknown"
  BY Kinds
<1>3. EncodedOne(h, n) = <<Plain[n.op]>> /\ Plain[n.op] < h.opcode_base
  BY <1>2 DEF EncodedOne, Encodable
<1> QED BY <1>1, <1>3, Single

LEMMA UnsignedShape ==
  ASSUME NEW h \in HeaderType, NEW n \in Instructions, Encodable(h, n),
         n.op \in DOMAIN Unsigned
  PROVE  /\ n.arg \in 0 .. MaxOperand /\ Unsigned[n.op] < h.opcode_base
         /\ EncodedOne(h, n) \in Seq(Octets) /\ Len(EncodedOne(h, n)) = 1 + Len(ULEB(n.arg))
         /\ EncodedOne(h, n)[1] = Unsigned[n.op]
         /\ \A j \in 1 .. Len(ULEB(n.arg)) : EncodedOne(h, n)[1 + j] = ULEB(n.arg)[j]
<1>1. Unsigned[n.op] \in Octets
  BY DEF Unsigned, Octets
<1>2. /\ n.op \notin DOMAIN Plain /\ n.op \notin DOMAIN Extended
      /\ n.op # "advance_line" /\ n.op # "fixed_advance_pc"
      /\ n.op # "special" /\ n.op # "unknown"
  BY Kinds
<1>3. /\ EncodedOne(h, n) = <<Unsigned[n.op]>> \o ULEB(n.arg)
      /\ Unsigned[n.op] < h.opcode_base
  BY <1>2 DEF EncodedOne, Encodable
<1>4. n.arg \in 0 .. MaxOperand
  BY OperandFits, OperandsOf
<1>5. ULEB(n.arg) \in Seq(Octets)
  BY <1>4, ULEBShape
<1> QED BY <1>1, <1>3, <1>4, <1>5, Prefixed

LEMMA AdvanceLineShape ==
  ASSUME NEW h \in HeaderType, NEW n \in Instructions, Encodable(h, n),
         n.op = "advance_line"
  PROVE  /\ n.arg \in -MaxOperand .. MaxOperand /\ 3 < h.opcode_base
         /\ EncodedOne(h, n) \in Seq(Octets) /\ Len(EncodedOne(h, n)) = 1 + Len(SLEB(n.arg))
         /\ EncodedOne(h, n)[1] = 3
         /\ \A j \in 1 .. Len(SLEB(n.arg)) : EncodedOne(h, n)[1 + j] = SLEB(n.arg)[j]
<1>1. /\ n.op \notin DOMAIN Plain /\ n.op \notin DOMAIN Unsigned
      /\ n.op \notin DOMAIN Extended /\ n.op # "fixed_advance_pc" /\ n.op # "special"
      /\ n.op # "unknown"
  BY Kinds
<1>2. EncodedOne(h, n) = <<3>> \o SLEB(n.arg) /\ 3 \in Octets
  BY <1>1 DEF EncodedOne, Octets
<1>3. 3 < h.opcode_base
  BY <1>1 DEF Encodable
<1>4. n.arg \in -MaxOperand .. MaxOperand
  BY OperandFits, OperandsOf
<1>5. SLEB(n.arg) \in Seq(Octets)
  BY <1>4, SLEBShape
<1> QED BY <1>1, <1>2, <1>3, <1>4, <1>5, Prefixed

LEMMA FixedAdvanceShape ==
  ASSUME NEW h \in HeaderType, NEW n \in Instructions, Encodable(h, n),
         n.op = "fixed_advance_pc"
  PROVE  /\ n.arg \in 0 .. MaxFixed /\ 9 < h.opcode_base
         /\ EncodedOne(h, n) \in Seq(Octets) /\ Len(EncodedOne(h, n)) = 3
         /\ EncodedOne(h, n)[1] = 9
         /\ EncodedOne(h, n)[2] = n.arg % 256 /\ EncodedOne(h, n)[3] = n.arg \div 256
<1>1. /\ n.op \notin DOMAIN Plain /\ n.op \notin DOMAIN Unsigned
      /\ n.op \notin DOMAIN Extended /\ n.op # "advance_line" /\ n.op # "special"
      /\ n.op # "unknown"
  BY Kinds
<1>2. EncodedOne(h, n) = <<9>> \o Fixed(n.arg, 2) /\ 9 \in Octets
  BY <1>1 DEF EncodedOne, Octets
<1>3. 9 < h.opcode_base
  BY <1>1 DEF Encodable
<1>4. n.arg \in 0 .. MaxFixed
  BY OperandFits, OperandsOf
<1> DEFINE s == Fixed(n.arg, 2)
<1>5. s \in Seq(Octets) /\ Len(s) = 2 /\ s[1] = n.arg % 256 /\ s[2] = n.arg \div 256
  <2> DEFINE x == n.arg
  <2>1. 2 \in 2 .. 8 /\ x \in 0 .. MaxFixed
    BY <1>4
  <2> HIDE DEF x
  <2>2. /\ Fixed(x, 2) \in Seq(Octets) /\ Len(Fixed(x, 2)) = 2
        /\ Fixed(x, 2)[1] = x % 256 /\ Fixed(x, 2)[2] = x \div 256
    BY <2>1, FixedShape
  <2> QED BY <2>2 DEF x
<1> HIDE DEF s
<1>6. /\ <<9>> \o s \in Seq(Octets) /\ Len(<<9>> \o s) = 1 + Len(s) /\ (<<9>> \o s)[1] = 9
      /\ \A j \in 1 .. Len(s) : (<<9>> \o s)[1 + j] = s[j]
  <2>1. 9 \in Octets
    BY <1>2
  <2>2. s \in Seq(Octets)
    BY <1>5
  <2> QED BY <2>1, <2>2, Prefixed
<1>7. (<<9>> \o s)[1 + 1] = s[1] /\ (<<9>> \o s)[1 + 2] = s[2]
  BY <1>5, <1>6
<1>8. (<<9>> \o s)[2] = s[1] /\ (<<9>> \o s)[3] = s[2]
  <2>1. 1 + 1 = 2 /\ 1 + 2 = 3
    OBVIOUS
  <2> QED BY <1>7, <2>1
<1>9. EncodedOne(h, n) = <<9>> \o s
  BY <1>2 DEF s
<1>10. Len(<<9>> \o s) = 3
  BY <1>5, <1>6
<1> QED BY <1>3, <1>4, <1>5, <1>6, <1>8, <1>9, <1>10

LEMMA SpecialShape ==
  ASSUME NEW h \in HeaderType, NEW n \in Instructions, Encodable(h, n), n.op = "special"
  PROVE  /\ EncodedOne(h, n) \in Seq(Octets) /\ Len(EncodedOne(h, n)) = 1
         /\ EncodedOne(h, n)[1] = h.opcode_base + n.arg /\ n.arg \in Nat
         /\ h.opcode_base + n.arg \in h.opcode_base .. 255
<1>1. /\ n.op \notin DOMAIN Plain /\ n.op \notin DOMAIN Unsigned
      /\ n.op \notin DOMAIN Extended /\ n.op # "advance_line" /\ n.op # "unknown"
      /\ n.op # "fixed_advance_pc"
  BY Kinds
<1>2. n.arg \in Nat
  <2>1. n.arg \in 0 .. 254
    BY OperandFits, OperandsOf
  <2> QED BY <2>1
<1>3. h.opcode_base + n.arg <= 255
  BY <1>1 DEF Encodable
<1>4. h.opcode_base \in 1 .. 255
  BY DEF HeaderType
<1>5. EncodedOne(h, n) = <<h.opcode_base + n.arg>>
  BY <1>1 DEF EncodedOne
<1>6. h.opcode_base + n.arg \in 0 .. 255 /\ h.opcode_base + n.arg \in h.opcode_base .. 255
  <2> DEFINE b == h.opcode_base
             x == n.arg
  <2>1. b \in 1 .. 255 /\ x \in Nat /\ b + x <= 255
    BY <1>2, <1>3, <1>4
  <2> HIDE DEF b, x
  <2>2. b + x \in 0 .. 255 /\ b + x \in b .. 255
    BY <2>1
  <2> QED BY <2>2 DEF b, x
<1> QED BY <1>2, <1>5, <1>6, Single

LEMMA UnknownShape ==
  ASSUME NEW h \in HeaderType, NEW n \in Instructions, Encodable(h, n), n.op = "unknown"
  PROVE  /\ EncodedOne(h, n) \in Seq(Octets) /\ Len(EncodedOne(h, n)) = 1
         /\ EncodedOne(h, n)[1] = 13 /\ 13 < h.opcode_base
<1>1. /\ n.op \notin DOMAIN Plain /\ n.op \notin DOMAIN Unsigned
      /\ n.op \notin DOMAIN Extended /\ n.op # "advance_line" /\ n.op # "special"
      /\ n.op # "fixed_advance_pc"
  BY Kinds
<1>2. EncodedOne(h, n) = <<13>> /\ 13 \in 0 .. 255
  BY <1>1 DEF EncodedOne
<1>3. h.opcode_base > 13
  BY <1>1 DEF Encodable
<1>4. h.opcode_base \in 1 .. 255
  BY DEF HeaderType
<1> QED BY <1>2, <1>3, <1>4, Single

LEMMA ExtendedOperandShape ==
  ASSUME NEW n \in Instructions, n.op \in DOMAIN Extended
  PROVE  /\ ExtendedOperand(n) \in Seq(Octets) /\ Len(ExtendedOperand(n)) \in 0 .. 8
         /\ n.op = "end_sequence" => Len(ExtendedOperand(n)) = 0
         /\ n.op = "set_address" =>
              /\ n.arg \in 0 .. MaxFixed /\ Len(ExtendedOperand(n)) = 8
              /\ ExtendedOperand(n)[1] = n.arg % 256 /\ ExtendedOperand(n)[2] = n.arg \div 256
         /\ n.op = "set_discriminator" =>
              n.arg \in 0 .. MaxOperand /\ ExtendedOperand(n) = ULEB(n.arg)
<1>1. n.op \in {"end_sequence", "set_address", "define_file", "set_discriminator", "vendor"}
  BY DEF Extended
<1>2. CASE n.op = "set_address"
  <2>1. n.arg \in 0 .. MaxFixed /\ ExtendedOperand(n) = Fixed(n.arg, 8)
    BY <1>2, OperandFits, OperandsOf DEF ExtendedOperand
  <2> DEFINE x == n.arg
  <2>2. 8 \in 2 .. 8 /\ x \in 0 .. MaxFixed
    BY <2>1
  <2> HIDE DEF x
  <2>3. /\ Fixed(x, 8) \in Seq(Octets) /\ Len(Fixed(x, 8)) = 8
        /\ Fixed(x, 8)[1] = x % 256 /\ Fixed(x, 8)[2] = x \div 256
    BY <2>2, FixedShape
  <2>4. 8 \in 0 .. 8
    OBVIOUS
  <2> QED BY <1>2, <2>1, <2>2, <2>3, <2>4 DEF x
<1>3. CASE n.op = "set_discriminator"
  <2>1. n.arg \in 0 .. MaxOperand /\ ExtendedOperand(n) = ULEB(n.arg)
    BY <1>3, OperandFits, OperandsOf DEF ExtendedOperand
  <2>2. n.arg < 128 \/ n.arg >= 128
    <3> DEFINE x == n.arg
    <3>1. x \in Int
      BY OperandFits
    <3> HIDE DEF x
    <3>2. x < 128 \/ x >= 128
      BY <3>1
    <3> QED BY <3>2 DEF x
  <2> QED BY <1>3, <2>1, <2>2, ULEBShape
<1>4. CASE n.op = "define_file"
  <2>1. ExtendedOperand(n) = <<97, 0, 0, 0, 0>>
    BY <1>4 DEF ExtendedOperand
  <2> QED BY <1>4, <2>1 DEF Octets
<1>5. CASE n.op \in {"end_sequence", "vendor"}
  <2>1. ExtendedOperand(n) = <<>>
    BY <1>5 DEF ExtendedOperand
  <2> QED BY <1>5, <2>1
<1> QED BY <1>1, <1>2, <1>3, <1>4, <1>5

LEMMA ExtendedShape ==
  ASSUME NEW h \in HeaderType, NEW n \in Instructions, n.op \in DOMAIN Extended
  PROVE  /\ EncodedOne(h, n) \in Seq(Octets)
         /\ Len(EncodedOne(h, n)) = 3 + Len(ExtendedOperand(n))
         /\ EncodedOne(h, n)[1] = 0 /\ EncodedOne(h, n)[2] \in 1 .. 127
         /\ EncodedOne(h, n)[3] = Extended[n.op]
         /\ \A j \in 1 .. Len(ExtendedOperand(n)) :
              EncodedOne(h, n)[3 + j] = ExtendedOperand(n)[j]
<1> DEFINE x == ExtendedOperand(n)
           size == 1 + Len(x)
           op == Extended[n.op]
<1>1. x \in Seq(Octets) /\ Len(x) \in 0 .. 8
  BY ExtendedOperandShape
<1>2. op \in Octets /\ 0 \in Octets
  BY DEF Extended, Octets
<1>3. /\ n.op \notin DOMAIN Plain /\ n.op \notin DOMAIN Unsigned
      /\ n.op \notin {"advance_line", "fixed_advance_pc", "special", "unknown"}
  BY DEF Plain, Unsigned, Extended
<1>4. ULEB(size) = <<size>> /\ size \in 1 .. 127 /\ size \in Octets
  <2>1. size < 128 /\ size \in 1 .. 127
    <3> DEFINE l == Len(x)
    <3>1. l \in 0 .. 8
      BY <1>1
    <3> HIDE DEF l
    <3>2. 1 + l < 128 /\ 1 + l \in 1 .. 127
      BY <3>1
    <3> QED BY <3>2 DEF l
  <2> HIDE DEF size
  <2> QED BY <2>1 DEF ULEB, Octets
<1>5. EncodedOne(h, n) = <<0>> \o <<size>> \o <<op>> \o x
  BY <1>3, <1>4 DEF EncodedOne
<1> HIDE DEF x, size, op
<1> DEFINE a == <<0>>
           b == <<size>>
           c == <<op>>
           t == c \o x
           u == b \o t
           w == a \o u
<1>6. a \in Seq(Octets) /\ b \in Seq(Octets) /\ c \in Seq(Octets)
  BY <1>2, <1>4
<1>7. /\ t \in Seq(Octets) /\ Len(t) = 1 + Len(x) /\ t[1] = op
      /\ \A j \in 1 .. Len(x) : t[1 + j] = x[j]
  BY <1>1, <1>2, Prefixed
<1> HIDE DEF t
<1>8. /\ u \in Seq(Octets) /\ Len(u) = 1 + Len(t) /\ u[1] = size
      /\ \A j \in 1 .. Len(t) : u[1 + j] = t[j]
  BY <1>4, <1>7, Prefixed
<1> HIDE DEF u
<1>9. /\ w \in Seq(Octets) /\ Len(w) = 1 + Len(u) /\ w[1] = 0
      /\ \A j \in 1 .. Len(u) : w[1 + j] = u[j]
  BY <1>2, <1>8, Prefixed
<1>10. EncodedOne(h, n) = w
  <2> HIDE DEF a, b, c
  <2>1. a \o b \in Seq(Octets) /\ c \o x \in Seq(Octets)
    BY <1>1, <1>6, ConcatProperties
  <2>2. ((a \o b) \o c) \o x = (a \o b) \o (c \o x)
    BY <1>1, <1>6, <2>1, ConcatAssociative
  <2>3. (a \o b) \o (c \o x) = a \o (b \o (c \o x))
    BY <1>6, <2>1, ConcatAssociative
  <2> QED BY <1>5, <2>2, <2>3 DEF a, b, c, t, u
<1> HIDE DEF w
<1>11. Len(x) \in 0 .. 8 /\ Len(t) \in Nat /\ Len(u) \in Nat
  BY <1>1, <1>7, <1>8
<1>12. w[2] = size /\ w[3] = op
  <2>1. w[1 + 1] = u[1] /\ w[1 + 2] = u[2] /\ u[1 + 1] = t[1]
    BY <1>7, <1>8, <1>9, <1>11
  <2>2. 1 + 1 = 2 /\ 1 + 2 = 3
    OBVIOUS
  <2> QED BY <1>7, <1>8, <2>1, <2>2
<1>13. ASSUME NEW j \in 1 .. Len(x) PROVE w[3 + j] = x[j]
  <2>1. 1 + j \in 1 .. Len(t) /\ 1 + (1 + j) \in 1 .. Len(u)
    BY <1>7, <1>8, <1>11
  <2>2. t[1 + j] = x[j] /\ u[1 + (1 + j)] = t[1 + j] /\ w[1 + (1 + (1 + j))] = u[1 + (1 + j)]
    BY <1>7, <1>8, <1>9, <2>1
  <2>3. 1 + (1 + (1 + j)) = 3 + j
    BY <1>11
  <2> QED BY <2>2, <2>3
<1>14. Len(w) = 3 + Len(x)
  BY <1>7, <1>8, <1>9, <1>11
<1> QED BY <1>4, <1>9, <1>10, <1>12, <1>13, <1>14 DEF x, op

\* Every instruction has bytes.
LEMMA EncodedType ==
  ASSUME NEW h \in HeaderType, NEW n \in Instructions, Encodable(h, n)
  PROVE  EncodedOne(h, n) \in Seq(Octets) /\ Len(EncodedOne(h, n)) \in Nat \ {0}
<1> DEFINE e == EncodedOne(h, n)
<1>1. \/ n.op \in DOMAIN Plain \/ n.op \in DOMAIN Unsigned \/ n.op \in DOMAIN Extended
      \/ n.op = "advance_line" \/ n.op = "fixed_advance_pc"
      \/ n.op = "special" \/ n.op = "unknown"
  BY OperandFits DEF Names
<1>2. e \in Seq(Octets) => Len(e) \in Nat
  <2> HIDE DEF e
  <2> QED OBVIOUS
<1>3. e \in Seq(Octets) /\ Len(e) # 0
  <2>1. CASE n.op \in DOMAIN Plain
    BY <2>1, PlainShape
  <2>2. CASE n.op \in DOMAIN Unsigned
    <3>1. e \in Seq(Octets) /\ Len(e) = 1 + Len(ULEB(n.arg)) /\ n.arg \in 0 .. MaxOperand
      BY <2>2, UnsignedShape
    <3>2. ULEB(n.arg) \in Seq(Octets)
      BY <3>1, ULEBShape
    <3>3. Len(ULEB(n.arg)) \in Nat
      BY <3>2
    <3> HIDE DEF e
    <3> QED BY <3>1, <3>3
  <2>3. CASE n.op \in DOMAIN Extended
    <3>1. e \in Seq(Octets) /\ Len(e) = 3 + Len(ExtendedOperand(n))
      BY <2>3, ExtendedShape
    <3>2. Len(ExtendedOperand(n)) \in 0 .. 8
      BY <2>3, ExtendedOperandShape
    <3> HIDE DEF e
    <3> QED BY <3>1, <3>2
  <2>4. CASE n.op = "advance_line"
    <3>1. e \in Seq(Octets) /\ Len(e) = 1 + Len(SLEB(n.arg))
          /\ n.arg \in -MaxOperand .. MaxOperand
      BY <2>4, AdvanceLineShape
    <3>2. SLEB(n.arg) \in Seq(Octets)
      BY <3>1, SLEBShape
    <3>3. Len(SLEB(n.arg)) \in Nat
      BY <3>2
    <3> HIDE DEF e
    <3> QED BY <3>1, <3>3
  <2>5. CASE n.op = "fixed_advance_pc"
    BY <2>5, FixedAdvanceShape
  <2>6. CASE n.op = "special"
    BY <2>6, SpecialShape
  <2>7. CASE n.op = "unknown"
    BY <2>7, UnknownShape
  <2> QED BY <1>1, <2>1, <2>2, <2>3, <2>4, <2>5, <2>6, <2>7
<1> QED BY <1>2, <1>3

-----------------------------------------------------------------------------
(* The instruction at a position. *)

LEMMA BytesJoined ==
  ASSUME NEW h \in HeaderType, NEW p \in Seq(Instructions),
         \A k \in DOMAIN p : Encodable(h, p[k])
  PROVE  Joined(Octets, [k \in 1 .. Len(p) |-> EncodedOne(h, p[k])], Len(p), BytesOf(h, p))
<1> DEFINE len == Len(p)
           e == [k \in 1 .. len |-> EncodedOne(h, p[k])]
           Bytes(f) == [n \in 0 .. len |->
                          IF n = 0 THEN <<>> ELSE f[n - 1] \o EncodedOne(h, p[n])]
<1>1. len \in Nat /\ DOMAIN p = 1 .. len /\ \A k \in 1 .. len : p[k] \in Instructions
  OBVIOUS
<1>2. e \in [1 .. len -> Seq(Octets)]
  BY <1>1, EncodedType
<1>3. PICK f : Joined(Octets, e, len, f)
  <2> HIDE DEF e, len
  <2> QED BY <1>1, <1>2, JoinedExists
<1>4. f = Bytes(f)
  <2>1. f \in [0 .. len -> Seq(Octets)] /\ f[0] = <<>>
    BY <1>3 DEF Joined
  <2>2. \A n \in 1 .. len : f[n] = f[n - 1] \o e[n]
    BY <1>3 DEF Joined
  <2>3. \A n \in 1 .. len : e[n] = EncodedOne(h, p[n])
    OBVIOUS
  <2> HIDE DEF e, len
  <2>4. ASSUME NEW n \in 0 .. len
        PROVE  f[n] = IF n = 0 THEN <<>> ELSE f[n - 1] \o EncodedOne(h, p[n])
    <3>1. n = 0 \/ (n # 0 /\ n \in 1 .. len)
      BY <1>1
    <3> QED BY <2>1, <2>2, <2>3, <3>1
  <2>5. f = [n \in 0 .. len |-> f[n]]
    BY <2>1
  <2> QED BY <2>4, <2>5
<1>5. BytesOf(h, p) = Bytes(BytesOf(h, p))
  <2>1. BytesOf(h, p) = CHOOSE g : g = Bytes(g)
    BY DEF BytesOf
  <2> HIDE DEF Bytes
  <2> QED BY <1>4, <2>1
<1> DEFINE g == BytesOf(h, p)
<1>6. g[0] = <<>> /\ \A n \in 1 .. len : g[n] = g[n - 1] \o e[n]
  <2> HIDE DEF g, len
  <2>1. g = [n \in 0 .. len |-> IF n = 0 THEN <<>> ELSE g[n - 1] \o EncodedOne(h, p[n])]
    BY <1>5 DEF g
  <2>2. \A n \in 0 .. len : g[n] = IF n = 0 THEN <<>> ELSE g[n - 1] \o EncodedOne(h, p[n])
    BY <2>1
  <2>3. \A n \in 1 .. len : e[n] = EncodedOne(h, p[n])
    OBVIOUS
  <2> HIDE DEF e
  <2>4. 0 \in 0 .. len /\ \A n \in 1 .. len : n \in 0 .. len /\ n # 0
    BY <1>1
  <2> QED BY <2>2, <2>3, <2>4
<1>7. \A n \in 0 .. len : g[n] = f[n]
  <2>1. f[0] = <<>> /\ \A n \in 1 .. len : f[n] = f[n - 1] \o e[n]
    BY <1>3 DEF Joined
  <2> HIDE DEF g, len, e
  <2>2. Joins(e, len, f) /\ Joins(e, len, g) /\ len \in Nat
    BY <1>1, <1>6, <2>1 DEF Joins
  <2> QED BY <2>2, JoinedUnique
<1>8. g = [n \in 0 .. len |-> g[n]] /\ f = [n \in 0 .. len |-> f[n]]
  <2>1. f \in [0 .. len -> Seq(Octets)]
    BY <1>3 DEF Joined
  <2>2. DOMAIN g = 0 .. len
    <3> HIDE DEF g, len
    <3> QED BY <1>5 DEF g
  <2>3. g = [n \in DOMAIN g |-> g[n]]
    <3> HIDE DEF g
    <3>1. g = [n \in 0 .. len |-> IF n = 0 THEN <<>> ELSE g[n - 1] \o EncodedOne(h, p[n])]
      BY <1>5 DEF g
    <3> QED BY <3>1
  <2> HIDE DEF g, len
  <2> QED BY <2>1, <2>2, <2>3
<1>9. g = f
  <2> HIDE DEF g, len
  <2> QED BY <1>7, <1>8
<1> QED BY <1>3, <1>9

\* An instruction is where those before it end.
LEMMA Window ==
  ASSUME NEW h \in HeaderType, NEW p \in Seq(Instructions),
         \A k \in DOMAIN p : Encodable(h, p[k]), NEW d \in 0 .. Len(p)
  PROVE  /\ Encoded(h, p) \in Seq(Octets) /\ BytesOf(h, p)[0] = <<>>
         /\ Len(BytesOf(h, p)[d]) \in Nat /\ Len(BytesOf(h, p)[d]) <= Len(Encoded(h, p))
         /\ d = Len(p) => Len(BytesOf(h, p)[d]) = Len(Encoded(h, p))
         /\ d < Len(p) =>
              LET at == Len(BytesOf(h, p)[d])
                  e == EncodedOne(h, p[d + 1])
              IN /\ e \in Seq(Octets) /\ Len(e) \in Nat \ {0}
                 /\ Len(BytesOf(h, p)[d + 1]) = at + Len(e)
                 /\ at + Len(e) <= Len(Encoded(h, p))
                 /\ \A j \in 1 .. Len(e) : Encoded(h, p)[at + j] = e[j]
<1> DEFINE len == Len(p)
           es == [k \in 1 .. len |-> EncodedOne(h, p[k])]
           g == BytesOf(h, p)
<1>1. len \in Nat /\ DOMAIN p = 1 .. len /\ \A k \in 1 .. len : p[k] \in Instructions
  OBVIOUS
<1>2. es \in [1 .. len -> Seq(Octets)] /\ \A k \in 1 .. len : es[k] = EncodedOne(h, p[k])
  BY <1>1, EncodedType
<1>3. Joined(Octets, es, len, g)
  BY BytesJoined
<1>4. Encoded(h, p) = g[len]
  BY DEF Encoded
<1> HIDE DEF len, es, g
<1>5. \A a \in 0 .. len : /\ Len(g[a]) \in Nat /\ Len(g[a]) <= Len(g[len])
                         /\ \A j \in 1 .. Len(g[a]) : g[len][j] = g[a][j]
  <2>1. len \in Nat /\ es \in [1 .. len -> Seq(Octets)]
    BY <1>1, <1>2
  <2>2. Growing(g, len)
    BY <1>3, <2>1, JoinedGrows
  <2> QED BY <2>2 DEF Growing
<1>6. g[0] = <<>> /\ \A n \in 0 .. len : g[n] \in Seq(Octets)
  BY <1>1, <1>3 DEF Joined
<1>7. ASSUME d < len
      PROVE  LET at == Len(g[d])
                 e == EncodedOne(h, p[d + 1])
             IN /\ e \in Seq(Octets) /\ Len(e) \in Nat \ {0}
                /\ Len(g[d + 1]) = at + Len(e)
                /\ at + Len(e) <= Len(g[len])
                /\ \A j \in 1 .. Len(e) : g[len][at + j] = e[j]
  <2> DEFINE at == Len(g[d])
             e == EncodedOne(h, p[d + 1])
  <2>1. d + 1 \in 1 .. len /\ d + 1 \in 0 .. len /\ (d + 1) - 1 = d /\ d \in 0 .. len
    BY <1>1, <1>7 DEF len
  <2>2. e \in Seq(Octets) /\ Len(e) \in Nat \ {0} /\ e = es[d + 1]
    BY <1>1, <1>2, <2>1, EncodedType
  <2> HIDE DEF e
  <2>3. g[d + 1] = g[d] \o e
    BY <1>3, <2>1, <2>2 DEF Joined
  <2>4. /\ Len(g[d] \o e) = Len(g[d]) + Len(e) /\ Len(g[d]) \in Nat
        /\ \A j \in 1 .. Len(e) : (g[d] \o e)[Len(g[d]) + j] = e[j]
    <3> DEFINE s == g[d]
    <3>1. s \in Seq(Octets)
      BY <1>6, <2>1
    <3> HIDE DEF s
    <3>2. /\ Len(s \o e) = Len(s) + Len(e) /\ Len(s) \in Nat
          /\ \A j \in 1 .. Len(e) : (s \o e)[Len(s) + j] = e[j]
      BY <2>2, <3>1, CatFacts
    <3> QED BY <3>2 DEF s
  <2>5. /\ Len(g[d + 1]) <= Len(g[len])
        /\ \A j \in 1 .. Len(g[d + 1]) : g[len][j] = g[d + 1][j]
    BY <1>5, <2>1
  <2>6. ASSUME NEW j \in 1 .. Len(e) PROVE g[len][at + j] = e[j]
    <3>1. at + j \in 1 .. Len(g[d + 1])
      <4>1. \A x, y \in Nat : \A k \in 1 .. y : x + k \in 1 .. x + y
        OBVIOUS
      <4> QED BY <2>2, <2>3, <2>4, <4>1
    <3> QED BY <2>3, <2>4, <2>5, <3>1
  <2>7. Len(g[d + 1]) = at + Len(e) /\ at + Len(e) <= Len(g[len])
    BY <2>3, <2>4, <2>5
  <2> QED BY <2>2, <2>6, <2>7 DEF e
<1>8. len \in 0 .. len /\ d \in 0 .. len
  BY <1>1 DEF len
<1> QED BY <1>4, <1>5, <1>6, <1>7, <1>8 DEF len, g

-----------------------------------------------------------------------------
(* What run_machine reads at a position. *)

LEMMA ByteType ==
  ASSUME program \in Seq(0 .. 255), NEW p \in Nat
  PROVE  Byte(p) \in 0 .. 255
<1>1. CASE p < Len(program)
  <2>1. p + 1 \in 1 .. Len(program)
    BY <1>1
  <2>2. program[p + 1] \in 0 .. 255
    BY <2>1, ElementOfSeq
  <2> QED BY <1>1, <2>2 DEF Byte
<1>2. CASE ~(p < Len(program))
  BY <1>2 DEF Byte
<1> QED BY <1>1, <1>2

LEMMA OneByte ==
  ASSUME NEW p \in Nat, Byte(p) \in 0 .. 127
  PROVE  after_leb128(p) = p + 1 /\ read_leb128(p) = Byte(p)
<1> DEFINE Final(q) == Byte(q) < 128 /\ \A r \in p .. q - 1 : Byte(r) >= 128
<1>1. p \in p .. p + 3 /\ Final(p)
  OBVIOUS
<1>2. ASSUME NEW q \in p .. p + 3, Final(q) PROVE q = p
  <2>1. SUFFICES ASSUME q # p PROVE FALSE
    OBVIOUS
  <2>2. p \in p .. q - 1
    BY <2>1
  <2>3. Byte(p) >= 128
    BY <1>2, <2>2
  <2> QED BY <2>3
<1> HIDE DEF Final
<1>3. (CHOOSE q \in p .. p + 3 : Final(q)) = p
  BY <1>1, <1>2
<1>4. LastByte(p) = p
  BY <1>3 DEF LastByte, Final
<1>5. ~(p + 1 <= p) /\ ~(p + 2 <= p) /\ ~(p + 3 <= p)
  OBVIOUS
<1>6. \A k \in 1 .. 3 : \A weight : Ored(p, k, weight) = 0
  BY <1>4 DEF Ored
<1>7. read_leb128(p) = Byte(p) + 0 + 0 + 0
  BY <1>6 DEF read_leb128
<1> QED BY <1>4, <1>7 DEF after_leb128

LEMMA TwoBytes ==
  ASSUME NEW p \in Nat, Byte(p) \in 128 .. 255, Byte(p + 1) \in 0 .. 127
  PROVE  /\ after_leb128(p) = p + 2
         /\ read_leb128(p) = Byte(p) + (Byte(p + 1) - (Byte(p + 1) % 2)) * 128
<1> DEFINE Final(q) == Byte(q) < 128 /\ \A r \in p .. q - 1 : Byte(r) >= 128
<1>1. p + 1 \in p .. p + 3 /\ Final(p + 1)
  <2>1. \A r \in p .. (p + 1) - 1 : r = p
    OBVIOUS
  <2> QED BY <2>1
<1>2. ASSUME NEW q \in p .. p + 3, Final(q) PROVE q = p + 1
  <2>1. q # p
    BY <1>2
  <2>2. SUFFICES ASSUME q # p + 1 PROVE FALSE
    OBVIOUS
  <2>3. p + 1 \in p .. q - 1
    BY <2>1, <2>2
  <2>4. Byte(p + 1) >= 128
    BY <1>2, <2>3
  <2> QED BY <2>4
<1> HIDE DEF Final
<1>3. (CHOOSE q \in p .. p + 3 : Final(q)) = p + 1
  BY <1>1, <1>2
<1>4. LastByte(p) = p + 1
  BY <1>3 DEF LastByte, Final
<1>5. p + 1 <= p + 1 /\ ~(p + 2 <= p + 1) /\ ~(p + 3 <= p + 1)
  OBVIOUS
<1>6. /\ Ored(p, 1, 128) = (Byte(p + 1) - (Byte(p + 1) % 2)) * 128
      /\ Ored(p, 2, 16384) = 0 /\ Ored(p, 3, 2097152) = 0
  BY <1>4, <1>5 DEF Ored
<1> DEFINE high == (Byte(p + 1) - (Byte(p + 1) % 2)) * 128
<1>7. high \in Nat
  <2> DEFINE b == Byte(p + 1)
  <2>1. b \in Nat
    OBVIOUS
  <2> HIDE DEF b
  <2>2. b % 2 \in 0 .. 1 /\ b % 2 <= b
    BY <2>1
  <2>3. b - (b % 2) \in Nat
    BY <2>1, <2>2
  <2> QED BY <2>3 DEF b
<1> HIDE DEF high
<1>8. read_leb128(p) = Byte(p) + high + 0 + 0
  BY <1>6 DEF read_leb128, high
<1>9. read_leb128(p) = Byte(p) + high
  BY <1>7, <1>8
<1>10. after_leb128(p) = (p + 1) + 1
  BY <1>4 DEF after_leb128
<1> QED BY <1>9, <1>10 DEF high

\* The bytes s at p.
Stands(p, s) == \A j \in 1 .. Len(s) : Byte(p + j - 1) = s[j]

LEMMA ReadULEB ==
  ASSUME NEW p \in Nat, NEW x \in 0 .. MaxOperand, Stands(p, ULEB(x))
  PROVE  /\ after_leb128(p) = p + Len(ULEB(x)) /\ read_leb128(p) \in Nat
         /\ x < 128 \/ (x \div 128) % 2 = 1 => read_leb128(p) = x
<1>1. x \in Int /\ 0 <= x
  OBVIOUS
<1>2. CASE x < 128
  <2>1. Len(ULEB(x)) = 1 /\ ULEB(x)[1] = x
    BY <1>2, ULEBShape
  <2>2. Byte(p + 1 - 1) = x
    BY <2>1 DEF Stands
  <2>3. Byte(p) = x /\ x \in 0 .. 127
    <3>1. p + 1 - 1 = p
      OBVIOUS
    <3> QED BY <1>1, <1>2, <2>2, <3>1
  <2> QED BY <1>1, <2>1, <2>3, OneByte
<1>3. CASE x >= 128
  <2> DEFINE low == x % 128
             high == x \div 128
  <2>1. /\ low \in 0 .. 127 /\ high \in 0 .. 63 /\ x = 128 * high + low
        /\ Len(ULEB(x)) = 2 /\ ULEB(x)[1] = 128 + low /\ ULEB(x)[2] = high
    BY <1>1, <1>3, ULEBShape, By128, Quotient
  <2> HIDE DEF low, high
  <2>2. Byte(p + 1 - 1) = 128 + low /\ Byte(p + 2 - 1) = high
    BY <2>1 DEF Stands
  <2>3. Byte(p) = 128 + low /\ Byte(p + 1) = high
    <3>1. p + 1 - 1 = p /\ p + 2 - 1 = p + 1
      OBVIOUS
    <3> QED BY <2>2, <3>1
  <2>4. 128 + low \in 128 .. 255 /\ high \in 0 .. 127
    BY <2>1
  <2>5. /\ after_leb128(p) = p + 2
        /\ read_leb128(p) = (128 + low) + (high - (high % 2)) * 128
    BY <2>3, <2>4, TwoBytes
  <2>6. high % 2 \in 0 .. 1 /\ high % 2 <= high
    BY <2>1
  <2>7. read_leb128(p) \in Nat
    <3>1. high - (high % 2) \in Nat
      BY <2>1, <2>6
    <3> QED BY <2>1, <2>5, <3>1
  <2>8. high % 2 = 1 => read_leb128(p) = x
    BY <2>1, <2>5
  <2>9. ~(x < 128)
    BY <1>1, <1>3
  <2> QED BY <2>1, <2>5, <2>7, <2>8, <2>9 DEF high
<1> QED BY <1>1, <1>2, <1>3

LEMMA ReadSLEB ==
  ASSUME NEW p \in Nat, NEW x \in -MaxOperand .. MaxOperand, Stands(p, SLEB(x))
  PROVE  /\ after_leb128(p) = p + Len(SLEB(x)) /\ read_leb128(p) \in Nat
         /\ x >= 0 /\ (x < 64 \/ (x \div 128) % 2 = 1) => read_leb128(p) = x
<1> DEFINE low == x % 128
           high == x \div 128
<1>1. /\ x \in Int /\ low \in 0 .. 127 /\ high \in Int /\ x = 128 * high + low
      /\ x >= 0 => high \in 0 .. 63
  <2>1. x \in Int /\ (x >= 0 => x \in 0 .. MaxOperand)
    <3>1. MaxOperand \in Nat
      BY DEF MaxOperand
    <3> QED BY <3>1
  <2> QED BY <2>1, By128, Quotient
<1>2. CASE x \in -64 .. 63
  <2>1. Len(SLEB(x)) = 1 /\ SLEB(x)[1] = low
    BY <1>2, SLEBShape
  <2> HIDE DEF low, high
  <2>2. Byte(p + 1 - 1) = low
    BY <2>1 DEF Stands
  <2>3. Byte(p) = low
    <3>1. p + 1 - 1 = p
      OBVIOUS
    <3> QED BY <2>2, <3>1
  <2>4. after_leb128(p) = p + 1 /\ read_leb128(p) = low
    BY <1>1, <2>3, OneByte
  <2>5. x >= 0 => low = x
    BY <1>1, <1>2
  <2>6. low \in Nat
    BY <1>1
  <2> QED BY <2>1, <2>4, <2>5, <2>6
<1>3. CASE x \notin -64 .. 63
  <2> DEFINE byte == high % 128
  <2>1. /\ Len(SLEB(x)) = 2 /\ SLEB(x)[1] = 128 + low /\ SLEB(x)[2] = byte
        /\ byte \in 0 .. 127
    BY <1>3, SLEBShape
  <2>2. x >= 0 => byte = high /\ ~(x < 64)
    <3> HIDE DEF high
    <3>1. high \in 0 .. 63 => high % 128 = high
      OBVIOUS
    <3> QED BY <1>1, <1>3, <3>1
  <2>3. high % 2 = 1 /\ x >= 0 => byte % 2 = 1
    BY <2>2
  <2> HIDE DEF low, high, byte
  <2>4. Byte(p + 1 - 1) = 128 + low /\ Byte(p + 2 - 1) = byte
    BY <2>1 DEF Stands
  <2>5. Byte(p) = 128 + low /\ Byte(p + 1) = byte
    <3>1. p + 1 - 1 = p /\ p + 2 - 1 = p + 1
      OBVIOUS
    <3> QED BY <2>4, <3>1
  <2>6. 128 + low \in 128 .. 255
    BY <1>1
  <2>7. /\ after_leb128(p) = p + 2
        /\ read_leb128(p) = (128 + low) + (byte - (byte % 2)) * 128
    <3>1. Byte(p) \in 128 .. 255 /\ Byte(p + 1) \in 0 .. 127
      BY <2>1, <2>5, <2>6
    <3>2. /\ after_leb128(p) = p + 2
          /\ read_leb128(p) = Byte(p) + (Byte(p + 1) - (Byte(p + 1) % 2)) * 128
      BY <3>1, TwoBytes
    <3> QED BY <2>5, <3>2
  <2>8. byte % 2 \in 0 .. 1 /\ byte % 2 <= byte
    BY <2>1
  <2>9. read_leb128(p) \in Nat
    <3>1. byte - (byte % 2) \in Nat
      BY <2>1, <2>8
    <3> QED BY <1>1, <2>7, <3>1
  <2>10. x >= 0 /\ high % 2 = 1 => read_leb128(p) = x
    BY <1>1, <2>1, <2>2, <2>3, <2>7
  <2> QED BY <2>1, <2>2, <2>7, <2>9, <2>10 DEF high
<1> QED BY <1>2, <1>3

-----------------------------------------------------------------------------
(* What the machine does with an instruction, by its first byte. *)

LEMMA StandardBranches ==
  ASSUME standard_instruction
  PROVE  /\ Byte(i) # 0 /\ Byte(i) < VAL("opcode_base")
         /\ UNCHANGED <<lconf, instrs, program>>
         /\ Byte(i) = 1 => clone_state(sm) /\ Read(i + 1) /\ UNCHANGED <<sm, outcome>>
         /\ Byte(i) = 2 => /\ sm' = advance_addr_and_op_index(sm, read_leb128(i + 1))
                           /\ Read(after_leb128(i + 1)) /\ UNCHANGED <<states, outcome>>
         /\ Byte(i) = 3 => /\ sm' = [sm EXCEPT !.line = (@ + read_leb128(i + 1)) % Width]
                           /\ Read(after_leb128(i + 1)) /\ UNCHANGED <<states, outcome>>
         /\ Byte(i) = 4 => /\ sm' = [sm EXCEPT !.file = read_leb128(i + 1) % Width]
                           /\ Read(after_leb128(i + 1)) /\ UNCHANGED <<states, outcome>>
         /\ Byte(i) \in {5, 12} => /\ Read(after_leb128(i + 1))
                                   /\ UNCHANGED <<sm, states, outcome>>
         /\ Byte(i) \in {6, 7, 10, 11} => Read(i + 1) /\ UNCHANGED <<sm, states, outcome>>
         /\ Byte(i) = 8 => /\ sm' = advance_addr_and_op_index(
                                      sm, (255 - VAL("opcode_base")) \div VAL("line_range"))
                           /\ Read(i + 1) /\ UNCHANGED <<states, outcome>>
         /\ Byte(i) = 9 => /\ sm' = [sm EXCEPT !.address = @ + Number(i + 1, 2), !.op_index = 0]
                           /\ Read(i + 1 + 2) /\ UNCHANGED <<states, outcome>>
         /\ Byte(i) = 13 => DWARFException
<1>1. Byte(i) # 0 /\ Byte(i) < VAL("opcode_base") /\ UNCHANGED <<lconf, instrs, program>>
  BY Zenon DEF standard_instruction
<1> DEFINE opcode == Byte(i)
           value == read_leb128(i + 1)
           after == after_leb128(i + 1)
           const == (255 - VAL("opcode_base")) \div VAL("line_range")
           number == Number(i + 1, 2)
<1>2. \/ opcode = 1 /\ clone_state(sm) /\ Read(i + 1) /\ UNCHANGED <<sm, outcome>>
      \/ /\ opcode = 2 /\ sm' = advance_addr_and_op_index(sm, value)
         /\ Read(after) /\ UNCHANGED <<states, outcome>>
      \/ /\ opcode = 3 /\ sm' = [sm EXCEPT !.line = (@ + value) % Width]
         /\ Read(after) /\ UNCHANGED <<states, outcome>>
      \/ /\ opcode = 4 /\ sm' = [sm EXCEPT !.file = value % Width]
         /\ Read(after) /\ UNCHANGED <<states, outcome>>
      \/ opcode \in {5, 12} /\ Read(after) /\ UNCHANGED <<sm, states, outcome>>
      \/ opcode \in {6, 7, 10, 11} /\ Read(i + 1) /\ UNCHANGED <<sm, states, outcome>>
      \/ /\ opcode = 8 /\ sm' = advance_addr_and_op_index(sm, const)
         /\ Read(i + 1) /\ UNCHANGED <<states, outcome>>
      \/ /\ opcode = 9 /\ sm' = [sm EXCEPT !.address = @ + number, !.op_index = 0]
         /\ Read(i + 1 + 2) /\ UNCHANGED <<states, outcome>>
      \/ /\ \A k \in 1 .. 12 : opcode # k
         /\ DWARFException
  <2> HIDE DEF opcode, value, after, const, number
  <2> QED BY DEF standard_instruction, DW_LNS, Marks, Notes, opcode, value, after, const, number
<1> HIDE DEF opcode, value, after, const, number
<1> QED BY <1>1, <1>2 DEF opcode, value, after, const, number

LEMMA ExtendedBranches ==
  ASSUME extended_instruction, NEW p, p = after_leb128(i + 1) + 1, NEW opcode,
         opcode = Byte(p - 1)
  PROVE  /\ Byte(i) = 0 /\ UNCHANGED <<lconf, instrs, program>>
         /\ opcode = 1 => /\ clone_state([sm EXCEPT !.end_sequence = TRUE])
                          /\ sm' = reset_machine /\ Read(p) /\ UNCHANGED outcome
         /\ opcode = 2 => /\ sm' = [sm EXCEPT !.address = Number(p, 8), !.op_index = 0]
                          /\ Read(p + 8) /\ UNCHANGED <<states, outcome>>
         /\ opcode = 4 => Read(after_leb128(p)) /\ UNCHANGED <<sm, states, outcome>>
         /\ opcode \in {3, 128} => DWARFException
<1>1. Byte(i) = 0 /\ UNCHANGED <<lconf, instrs, program>>
  BY Zenon DEF extended_instruction
<1> DEFINE number == Number(p, 8)
           after == after_leb128(p)
<1>2. \/ /\ opcode = 1 /\ clone_state([sm EXCEPT !.end_sequence = TRUE])
         /\ sm' = reset_machine /\ Read(p) /\ UNCHANGED outcome
      \/ /\ opcode = 2 /\ sm' = [sm EXCEPT !.address = number, !.op_index = 0]
         /\ Read(p + 8) /\ UNCHANGED <<states, outcome>>
      \/ opcode = 4 /\ Read(after) /\ UNCHANGED <<sm, states, outcome>>
      \/ opcode \notin {1, 2, 4} /\ DWARFException
  BY DEF extended_instruction, DW_LNE
<1> HIDE DEF number, after
<1> QED BY <1>1, <1>2 DEF number, after

LEMMA SpecialBranch ==
  ASSUME special_instruction
  PROVE  LET adjusted == Byte(i) - VAL("opcode_base")
             moved == [sm EXCEPT !.line = (@ + VAL("line_base")
                                             + (adjusted % VAL("line_range"))) % Width]
         IN /\ Byte(i) >= VAL("opcode_base") /\ UNCHANGED <<lconf, instrs, program, outcome>>
            /\ sm' = advance_addr_and_op_index(moved, adjusted \div VAL("line_range"))
            /\ states' = Append(states, sm') /\ Read(i + 1)
BY DEF special_instruction, clone_state

LEMMA Fields ==
  /\ VAL("opcode_base") = lconf.opcode_base /\ VAL("line_range") = lconf.line_range
  /\ VAL("line_base") = lconf.line_base
  /\ VAL("minimum_instruction_length") = lconf.minimum_instruction_length
BY DEF VAL

LEMMA NumberRead ==
  ASSUME NEW p \in Nat, NEW x \in 0 .. MaxFixed, NEW size, size \in {2, 8},
         Byte(p) = x % 256, Byte(p + 1) = x \div 256
  PROVE  Number(p, size) = x
<1>1. Number(p, size) = (x % 256) + 256 * (x \div 256)
  BY DEF Number
<1>2. x \in Int
  OBVIOUS
<1>3. x = 256 * (x \div 256) + (x % 256) /\ x % 256 \in Int /\ x \div 256 \in Int
  BY <1>2
<1> QED BY <1>1, <1>3

-----------------------------------------------------------------------------
(* The inductive invariant, and where it puts the machine. *)

LineInv ==
  /\ LineTypeOK /\ Aligned
  /\ lconf \in Headers /\ instrs \in Programs
  /\ \A k \in DOMAIN instrs : Encodable(lconf, instrs[k])

Current == instrs[done + 1]
Code == EncodedOne(lconf, Current)

LEMMA Here ==
  ASSUME LineInv, Running
  PROVE  /\ i \in Nat /\ done \in Nat /\ done < Len(instrs)
         /\ lconf \in HeaderType /\ Current \in Instructions /\ Encodable(lconf, Current)
         /\ Code \in Seq(Octets) /\ Len(Code) \in Nat \ {0} /\ Stands(i, Code)
         /\ i + Len(Code) = Len(BytesOf(lconf, instrs)[done + 1])
         /\ i + Len(Code) \in 0 .. Len(program) /\ done + 1 \in 0 .. Len(instrs)
<1>1. /\ lconf \in HeaderType /\ instrs \in Seq(Instructions)
      /\ done \in 0 .. Len(instrs) /\ Len(instrs) \in Nat
      /\ \A k \in DOMAIN instrs : Encodable(lconf, instrs[k])
  BY DEF LineInv, LineTypeOK
<1>2. program = Encoded(lconf, instrs) /\ i = Len(BytesOf(lconf, instrs)[done])
  BY DEF LineInv, Aligned
<1>3. i < Len(program)
  BY DEF Running
<1>4. /\ program \in Seq(Octets) /\ i \in Nat
      /\ done = Len(instrs) => i = Len(program)
      /\ done < Len(instrs) =>
           /\ Code \in Seq(Octets) /\ Len(Code) \in Nat \ {0}
           /\ Len(BytesOf(lconf, instrs)[done + 1]) = i + Len(Code)
           /\ i + Len(Code) <= Len(program)
           /\ \A j \in 1 .. Len(Code) : program[i + j] = Code[j]
  BY <1>1, <1>2, Window, Zenon DEF Code, Current
<1>5. done < Len(instrs) /\ done \in Nat /\ done + 1 \in 1 .. Len(instrs)
  BY <1>1, <1>3, <1>4
<1>6. Current \in Instructions /\ Encodable(lconf, Current)
  <2>1. DOMAIN instrs = 1 .. Len(instrs)
    BY <1>1
  <2> QED BY <1>1, <1>5, <2>1 DEF Current
<1>7. Len(program) \in Nat
  BY <1>4
<1>8. ASSUME NEW j \in 1 .. Len(Code) PROVE Byte(i + j - 1) = Code[j]
  <2>1. i + j - 1 < Len(program) /\ (i + j - 1) + 1 = i + j
    BY <1>4, <1>5, <1>7
  <2> QED BY <1>4, <1>5, <2>1 DEF Byte
<1>9. i + Len(Code) \in 0 .. Len(program)
  BY <1>4, <1>5, <1>7
<1> QED BY <1>1, <1>4, <1>5, <1>6, <1>8, <1>9 DEF Stands

\* What follows the first k bytes.
LEMMA Rest ==
  ASSUME NEW p \in Nat, NEW k \in Nat, NEW e, NEW u, Len(u) \in Nat, Len(e) = k + Len(u),
         \A j \in 1 .. Len(u) : e[k + j] = u[j], Stands(p, e)
  PROVE  Stands(p + k, u)
<1> SUFFICES ASSUME NEW j \in 1 .. Len(u) PROVE Byte((p + k) + j - 1) = u[j]
  BY DEF Stands
<1>1. k + j \in 1 .. Len(e) /\ p + (k + j) - 1 = (p + k) + j - 1
  OBVIOUS
<1>2. Byte(p + (k + j) - 1) = e[k + j]
  BY <1>1 DEF Stands
<1> QED BY <1>1, <1>2

\* The first byte, and the next two.
LEMMA FirstBytes ==
  ASSUME NEW p \in Nat, NEW e, Len(e) \in Nat, Stands(p, e)
  PROVE  /\ Len(e) >= 1 => Byte(p) = e[1]
         /\ Len(e) >= 2 => Byte(p + 1) = e[2]
         /\ Len(e) >= 3 => Byte(p + 2) = e[3]
<1>1. p + 1 - 1 = p /\ p + 2 - 1 = p + 1 /\ p + 3 - 1 = p + 2
  OBVIOUS
<1>2. /\ Len(e) >= 1 => 1 \in 1 .. Len(e)
      /\ Len(e) >= 2 => 2 \in 1 .. Len(e)
      /\ Len(e) >= 3 => 3 \in 1 .. Len(e)
  OBVIOUS
<1> QED BY <1>1, <1>2 DEF Stands

-----------------------------------------------------------------------------
(* What a round of run_machine does to the registers and to the rows. *)

Adding(m, n) ==
  [m EXCEPT !.line = (@ + lconf.line_base + (n.arg % lconf.line_range)) % Width]

Made(n) ==
  CASE n.op = "special" ->
         advance_addr_and_op_index(Adding(sm, n), n.arg \div lconf.line_range)
    [] n.op = "advance_pc" -> advance_addr_and_op_index(sm, read_leb128(i + 1))
    [] n.op = "const_add_pc" ->
         advance_addr_and_op_index(sm, (255 - lconf.opcode_base) \div lconf.line_range)
    [] n.op = "fixed_advance_pc" -> [sm EXCEPT !.address = @ + n.arg, !.op_index = 0]
    [] n.op = "set_address" -> [sm EXCEPT !.address = n.arg, !.op_index = 0]
    [] n.op = "advance_line" -> [sm EXCEPT !.line = (@ + read_leb128(i + 1)) % Width]
    [] n.op = "set_file" -> [sm EXCEPT !.file = read_leb128(i + 1) % Width]
    [] n.op = "end_sequence" -> [sm EXCEPT !.end_sequence = TRUE]
    [] OTHER -> sm

LEMMA MadeOf ==
  ASSUME NEW n
  PROVE  /\ n.op = "special" =>
              Made(n) = advance_addr_and_op_index(Adding(sm, n), n.arg \div lconf.line_range)
         /\ n.op = "advance_pc" =>
              Made(n) = advance_addr_and_op_index(sm, read_leb128(i + 1))
         /\ n.op = "const_add_pc" =>
              Made(n) = advance_addr_and_op_index(
                          sm, (255 - lconf.opcode_base) \div lconf.line_range)
         /\ n.op = "fixed_advance_pc" =>
              Made(n) = [sm EXCEPT !.address = @ + n.arg, !.op_index = 0]
         /\ n.op = "set_address" => Made(n) = [sm EXCEPT !.address = n.arg, !.op_index = 0]
         /\ n.op = "advance_line" =>
              Made(n) = [sm EXCEPT !.line = (@ + read_leb128(i + 1)) % Width]
         /\ n.op = "set_file" => Made(n) = [sm EXCEPT !.file = read_leb128(i + 1) % Width]
         /\ n.op = "end_sequence" => Made(n) = [sm EXCEPT !.end_sequence = TRUE]
         /\ n.op \notin {"special", "advance_pc", "const_add_pc", "fixed_advance_pc",
                         "set_address", "advance_line", "set_file", "end_sequence"} =>
              Made(n) = sm
<1> DEFINE a == advance_addr_and_op_index(Adding(sm, n), n.arg \div lconf.line_range)
           b == advance_addr_and_op_index(sm, read_leb128(i + 1))
           c == advance_addr_and_op_index(sm, (255 - lconf.opcode_base) \div lconf.line_range)
           d == [sm EXCEPT !.address = @ + n.arg, !.op_index = 0]
           e == [sm EXCEPT !.address = n.arg, !.op_index = 0]
           f == [sm EXCEPT !.line = (@ + read_leb128(i + 1)) % Width]
           g == [sm EXCEPT !.file = read_leb128(i + 1) % Width]
           h == [sm EXCEPT !.end_sequence = TRUE]
<1>1. Made(n) = CASE n.op = "special" -> a [] n.op = "advance_pc" -> b
                  [] n.op = "const_add_pc" -> c [] n.op = "fixed_advance_pc" -> d
                  [] n.op = "set_address" -> e [] n.op = "advance_line" -> f
                  [] n.op = "set_file" -> g [] n.op = "end_sequence" -> h
                  [] OTHER -> sm
  BY DEF Made
<1> HIDE DEF a, b, c, d, e, f, g, h
<1>2. n.op = "special" => Made(n) = a
  BY <1>1
<1>3. n.op = "advance_pc" => Made(n) = b
  BY <1>1
<1>4. n.op = "const_add_pc" => Made(n) = c
  BY <1>1
<1>5. n.op = "fixed_advance_pc" => Made(n) = d
  BY <1>1
<1>6. n.op = "set_address" => Made(n) = e
  BY <1>1
<1>7. n.op = "advance_line" => Made(n) = f
  BY <1>1
<1>8. n.op = "set_file" => Made(n) = g
  BY <1>1
<1>9. n.op = "end_sequence" => Made(n) = h
  BY <1>1
<1>10. n.op \notin {"special", "advance_pc", "const_add_pc", "fixed_advance_pc",
                    "set_address", "advance_line", "set_file", "end_sequence"} =>
         Made(n) = sm
  BY <1>1
<1> QED BY <1>2, <1>3, <1>4, <1>5, <1>6, <1>7, <1>8, <1>9, <1>10 DEF a, b, c, d, e, f, g, h

\* The round of an instruction n: it is refused, or all of its bytes are read.
Round(n) ==
  IF n.op \in Table!Unsupported
  THEN outcome' = "DWARFException" /\ UNCHANGED <<i, sm, states, done>>
  ELSE /\ Read(i + Len(EncodedOne(lconf, n))) /\ UNCHANGED outcome
       /\ states' = IF n.op \in {"copy", "special", "end_sequence"}
                    THEN Append(states, Made(n)) ELSE states
       /\ sm' = IF n.op = "end_sequence" THEN reset_machine ELSE Made(n)
Fixture == UNCHANGED <<lconf, instrs, program>>

LEMMA Unsupporteds == Table!Unsupported = {"define_file", "vendor", "unknown"}
BY DEF Table!Unsupported

LEMMA RoundDone ==
  ASSUME NEW n, n.op \notin {"define_file", "vendor", "unknown"},
         Read(i + Len(EncodedOne(lconf, n))), UNCHANGED outcome,
         n.op \in {"copy", "special", "end_sequence"} => states' = Append(states, Made(n)),
         n.op \notin {"copy", "special", "end_sequence"} => UNCHANGED states,
         n.op = "end_sequence" => sm' = reset_machine,
         n.op # "end_sequence" => sm' = Made(n)
  PROVE  Round(n)
<1>1. n.op \notin Table!Unsupported
  BY Unsupporteds
<1>2. states' = IF n.op \in {"copy", "special", "end_sequence"}
                THEN Append(states, Made(n)) ELSE states
  OBVIOUS
<1>3. sm' = IF n.op = "end_sequence" THEN reset_machine ELSE Made(n)
  OBVIOUS
<1> QED BY <1>1, <1>2, <1>3 DEF Round

LEMMA RoundRefused ==
  ASSUME NEW n, n.op \in {"define_file", "vendor", "unknown"}, DWARFException
  PROVE  Round(n)
<1>1. n.op \in Table!Unsupported
  BY Unsupporteds
<1> QED BY <1>1 DEF Round, DWARFException

Instructed == extended_instruction \/ standard_instruction \/ special_instruction

LEMMA Opcode ==
  ASSUME LineInv, Running
  PROVE  /\ lconf.opcode_base \in 1 .. 255 /\ Byte(i) \in 0 .. 255
         /\ Byte(i) = Code[1] /\ i \in Nat /\ Len(Code) \in Nat \ {0}
         /\ Code = EncodedOne(lconf, Current)
<1>1. /\ lconf \in HeaderType /\ Stands(i, Code) /\ Len(Code) \in Nat \ {0} /\ i \in Nat
  BY Here
<1>2. lconf.opcode_base \in 1 .. 255
  BY <1>1 DEF HeaderType
<1>3. program \in Seq(0 .. 255)
  BY DEF LineInv, LineTypeOK
<1>4. Len(Code) >= 1 /\ Len(Code) \in Nat
  BY <1>1
<1> QED BY <1>1, <1>2, <1>3, <1>4, ByteType, FirstBytes DEF Code

\* The first byte tells which of the three it is.
LEMMA Which ==
  ASSUME LineInv, Running, Instructed
  PROVE  /\ Byte(i) = 0 => extended_instruction
         /\ Byte(i) # 0 /\ Byte(i) < lconf.opcode_base => standard_instruction
         /\ Byte(i) >= lconf.opcode_base => special_instruction
<1>1. extended_instruction => Byte(i) = 0
  BY Zenon DEF extended_instruction
<1>2. standard_instruction => Byte(i) # 0 /\ Byte(i) < lconf.opcode_base
  BY StandardBranches, Fields
<1>3. special_instruction => Byte(i) >= lconf.opcode_base
  <2>1. special_instruction => Byte(i) >= VAL("opcode_base")
    BY Zenon DEF special_instruction
  <2> QED BY <2>1, Fields
<1>4. extended_instruction \/ standard_instruction \/ special_instruction
  BY DEF Instructed
<1> DEFINE b == Byte(i)
           o == lconf.opcode_base
<1>5. o \in 1 .. 255 /\ b \in 0 .. 255
  BY Opcode
<1>6. /\ b = 0 => ~(b # 0 /\ b < o) /\ ~(b >= o)
      /\ b # 0 /\ b < o => ~(b >= o)
      /\ b >= o => b # 0 /\ ~(b < o)
  <2> HIDE DEF b, o
  <2> QED BY <1>5
<1> HIDE DEF b, o
<1>7. extended_instruction => b = 0
  BY <1>1 DEF b
<1>8. standard_instruction => b # 0 /\ b < o
  BY <1>2 DEF b, o
<1>9. special_instruction => b >= o
  BY <1>3 DEF b, o
<1>10. /\ b = 0 => extended_instruction
       /\ b # 0 /\ b < o => standard_instruction
       /\ b >= o => special_instruction
  BY <1>4, <1>6, <1>7, <1>8, <1>9
<1> QED BY <1>10 DEF b, o

LEMMA PlainRound ==
  ASSUME LineInv, Running, Instructed, Current.op \in DOMAIN Plain
  PROVE  Round(Current) /\ Fixture
<1> DEFINE n == Current
<1>1. lconf \in HeaderType /\ n \in Instructions /\ Encodable(lconf, n)
  BY Here
<1>2. Len(EncodedOne(lconf, n)) = 1 /\ EncodedOne(lconf, n)[1] = Plain[n.op]
      /\ Plain[n.op] < lconf.opcode_base
  BY <1>1, PlainShape
<1>3. Byte(i) = Plain[n.op]
  BY <1>2, Opcode
<1>4. i + Len(EncodedOne(lconf, n)) = i + 1
  BY <1>2
<1> HIDE DEF n
<1>5. n.op \in {"copy", "negate_stmt", "set_basic_block", "const_add_pc",
                "set_prologue_end", "set_epilogue_begin"}
  BY DEF Plain, n
<1>6. /\ n.op = "copy" => Byte(i) = 1
      /\ n.op = "const_add_pc" => Byte(i) = 8
      /\ n.op \in {"negate_stmt", "set_basic_block", "set_prologue_end",
                   "set_epilogue_begin"} => Byte(i) \in {6, 7, 10, 11}
      /\ Byte(i) # 0
  BY <1>3, <1>5 DEF Plain
<1>7. standard_instruction
  <2>1. Byte(i) # 0 /\ Byte(i) < lconf.opcode_base
    BY <1>2, <1>3, <1>6
  <2> QED BY <2>1, Which
<1>8. Fixture
  BY <1>7, StandardBranches DEF Fixture
<1>9. CASE n.op = "copy"
  <2>1. clone_state(sm) /\ Read(i + 1) /\ UNCHANGED <<sm, outcome>>
    BY <1>6, <1>7, <1>9, StandardBranches
  <2>2. Made(n) = sm
    BY <1>9, MadeOf
  <2>3. states' = Append(states, Made(n)) /\ sm' = Made(n) /\ UNCHANGED outcome
        /\ Read(i + Len(EncodedOne(lconf, n)))
    BY <1>4, <2>1, <2>2 DEF clone_state
  <2>4. Round(n)
    BY <1>9, <2>3, RoundDone
  <2> QED BY <1>8, <2>4 DEF n
<1>10. CASE n.op = "const_add_pc"
  <2>1. /\ sm' = advance_addr_and_op_index(
                   sm, (255 - VAL("opcode_base")) \div VAL("line_range"))
        /\ Read(i + 1) /\ UNCHANGED <<states, outcome>>
    BY <1>6, <1>7, <1>10, StandardBranches
  <2>2. Made(n) = advance_addr_and_op_index(
                    sm, (255 - VAL("opcode_base")) \div VAL("line_range"))
    BY <1>10, MadeOf, Fields
  <2>3. sm' = Made(n) /\ UNCHANGED states /\ UNCHANGED outcome
        /\ Read(i + Len(EncodedOne(lconf, n)))
    BY <1>4, <2>1, <2>2
  <2>4. Round(n)
    BY <1>10, <2>3, RoundDone
  <2> QED BY <1>8, <2>4 DEF n
<1>11. CASE n.op \in {"negate_stmt", "set_basic_block", "set_prologue_end",
                      "set_epilogue_begin"}
  <2>1. Read(i + 1) /\ UNCHANGED <<sm, states, outcome>>
    BY <1>6, <1>7, <1>11, StandardBranches
  <2>2. Made(n) = sm
    BY <1>11, MadeOf
  <2>3. sm' = Made(n) /\ UNCHANGED states /\ UNCHANGED outcome
        /\ Read(i + Len(EncodedOne(lconf, n)))
    BY <1>4, <2>1, <2>2
  <2>4. Round(n)
    BY <1>11, <2>3, RoundDone
  <2> QED BY <1>8, <2>4 DEF n
<1> QED BY <1>5, <1>9, <1>10, <1>11

LEMMA UnsignedOperand ==
  ASSUME LineInv, Running, Current.op \in DOMAIN Unsigned
  PROVE  /\ Byte(i) = Unsigned[Current.op] /\ Unsigned[Current.op] < lconf.opcode_base
         /\ after_leb128(i + 1) = i + Len(EncodedOne(lconf, Current))
         /\ Current.arg \in Nat /\ read_leb128(i + 1) \in Nat
         /\ Current.arg < 128 \/ (Current.arg \div 128) % 2 = 1 =>
              read_leb128(i + 1) = Current.arg
<1> DEFINE n == Current
           u == ULEB(n.arg)
<1>1. lconf \in HeaderType /\ n \in Instructions /\ Encodable(lconf, n)
  BY Here
<1>2. /\ n.arg \in 0 .. MaxOperand /\ Unsigned[n.op] < lconf.opcode_base
      /\ Len(EncodedOne(lconf, n)) = 1 + Len(u) /\ EncodedOne(lconf, n)[1] = Unsigned[n.op]
      /\ \A j \in 1 .. Len(u) : EncodedOne(lconf, n)[1 + j] = u[j]
  BY <1>1, UnsignedShape
<1>3. Byte(i) = Unsigned[n.op] /\ i \in Nat /\ Stands(i, EncodedOne(lconf, n))
  BY <1>2, Opcode, Here
<1>4. u \in Seq(Octets) /\ Len(u) \in Nat
  BY <1>2, ULEBShape
<1> HIDE DEF n, u
<1>5. Stands(i + 1, u)
  BY <1>2, <1>3, <1>4, Rest
<1>6. /\ after_leb128(i + 1) = i + 1 + Len(u) /\ read_leb128(i + 1) \in Nat
      /\ n.arg < 128 \/ (n.arg \div 128) % 2 = 1 => read_leb128(i + 1) = n.arg
  <2>1. i + 1 \in Nat /\ Stands(i + 1, ULEB(n.arg))
    BY <1>3, <1>5 DEF u
  <2>2. n.arg \in 0 .. MaxOperand
    BY <1>2
  <2> QED BY <2>1, <2>2, ReadULEB DEF u
<1>7. after_leb128(i + 1) = i + Len(EncodedOne(lconf, n))
  BY <1>2, <1>3, <1>4, <1>6
<1>8. n.arg \in Nat
  BY <1>2
<1> QED BY <1>2, <1>3, <1>6, <1>7, <1>8 DEF n

LEMMA UnsignedRound ==
  ASSUME LineInv, Running, Instructed, Current.op \in DOMAIN Unsigned
  PROVE  Round(Current) /\ Fixture
<1> DEFINE n == Current
<1>1. /\ Byte(i) = Unsigned[n.op] /\ Unsigned[n.op] < lconf.opcode_base
      /\ after_leb128(i + 1) = i + Len(EncodedOne(lconf, n))
  BY UnsignedOperand
<1>2. Byte(i) = Unsigned[n.op]
  BY <1>1
<1>3. after_leb128(i + 1) = i + Len(EncodedOne(lconf, n))
  BY <1>1
<1> HIDE DEF n
<1>4. n.op \in {"advance_pc", "set_file", "set_column", "set_isa"}
  BY DEF Unsigned, n
<1>5. /\ n.op = "advance_pc" => Byte(i) = 2
      /\ n.op = "set_file" => Byte(i) = 4
      /\ n.op \in {"set_column", "set_isa"} => Byte(i) \in {5, 12}
      /\ Byte(i) # 0
  BY <1>2, <1>4 DEF Unsigned
<1>6. standard_instruction
  <2>1. Byte(i) # 0 /\ Byte(i) < lconf.opcode_base
    BY <1>1, <1>2, <1>5
  <2> QED BY <2>1, Which
<1>7. Fixture
  BY <1>6, StandardBranches DEF Fixture
<1>8. CASE n.op = "advance_pc"
  <2>1. /\ sm' = advance_addr_and_op_index(sm, read_leb128(i + 1))
        /\ Read(after_leb128(i + 1)) /\ UNCHANGED <<states, outcome>>
    BY <1>5, <1>6, <1>8, StandardBranches
  <2>2. Made(n) = advance_addr_and_op_index(sm, read_leb128(i + 1))
    BY <1>8, MadeOf
  <2>3. sm' = Made(n) /\ UNCHANGED states /\ UNCHANGED outcome
        /\ Read(i + Len(EncodedOne(lconf, n)))
    BY <1>3, <2>1, <2>2
  <2>4. Round(n)
    BY <1>8, <2>3, RoundDone
  <2> QED BY <1>7, <2>4 DEF n
<1>9. CASE n.op = "set_file"
  <2>1. /\ sm' = [sm EXCEPT !.file = read_leb128(i + 1) % Width]
        /\ Read(after_leb128(i + 1)) /\ UNCHANGED <<states, outcome>>
    BY <1>5, <1>6, <1>9, StandardBranches
  <2>2. Made(n) = [sm EXCEPT !.file = read_leb128(i + 1) % Width]
    BY <1>9, MadeOf
  <2>3. sm' = Made(n) /\ UNCHANGED states /\ UNCHANGED outcome
        /\ Read(i + Len(EncodedOne(lconf, n)))
    BY <1>3, <2>1, <2>2
  <2>4. Round(n)
    BY <1>9, <2>3, RoundDone
  <2> QED BY <1>7, <2>4 DEF n
<1>10. CASE n.op \in {"set_column", "set_isa"}
  <2>1. Read(after_leb128(i + 1)) /\ UNCHANGED <<sm, states, outcome>>
    BY <1>5, <1>6, <1>10, StandardBranches
  <2>2. Made(n) = sm
    BY <1>10, MadeOf
  <2>3. sm' = Made(n) /\ UNCHANGED states /\ UNCHANGED outcome
        /\ Read(i + Len(EncodedOne(lconf, n)))
    BY <1>3, <2>1, <2>2
  <2>4. Round(n)
    BY <1>10, <2>3, RoundDone
  <2> QED BY <1>7, <2>4 DEF n
<1> QED BY <1>4, <1>8, <1>9, <1>10

LEMMA AdvanceLineOperand ==
  ASSUME LineInv, Running, Current.op = "advance_line"
  PROVE  /\ Byte(i) = 3 /\ 3 < lconf.opcode_base
         /\ after_leb128(i + 1) = i + Len(EncodedOne(lconf, Current))
         /\ Current.arg \in Int /\ read_leb128(i + 1) \in Nat
         /\ Current.arg >= 0 /\ (Current.arg < 64 \/ (Current.arg \div 128) % 2 = 1) =>
              read_leb128(i + 1) = Current.arg
<1> DEFINE n == Current
           u == SLEB(n.arg)
<1>1. lconf \in HeaderType /\ n \in Instructions /\ Encodable(lconf, n)
  BY Here
<1>2. /\ n.arg \in -MaxOperand .. MaxOperand /\ 3 < lconf.opcode_base
      /\ Len(EncodedOne(lconf, n)) = 1 + Len(u) /\ EncodedOne(lconf, n)[1] = 3
      /\ \A j \in 1 .. Len(u) : EncodedOne(lconf, n)[1 + j] = u[j]
  BY <1>1, AdvanceLineShape
<1>3. Byte(i) = 3 /\ i \in Nat /\ Stands(i, EncodedOne(lconf, n))
  BY <1>2, Opcode, Here
<1>4. u \in Seq(Octets) /\ Len(u) \in Nat
  BY <1>2, SLEBShape
<1> HIDE DEF n, u
<1>5. Stands(i + 1, u)
  BY <1>2, <1>3, <1>4, Rest
<1>6. /\ after_leb128(i + 1) = i + 1 + Len(u) /\ read_leb128(i + 1) \in Nat
      /\ n.arg >= 0 /\ (n.arg < 64 \/ (n.arg \div 128) % 2 = 1) =>
           read_leb128(i + 1) = n.arg
  <2>1. i + 1 \in Nat /\ Stands(i + 1, SLEB(n.arg))
    BY <1>3, <1>5 DEF u
  <2>2. n.arg \in -MaxOperand .. MaxOperand
    BY <1>2
  <2> QED BY <2>1, <2>2, ReadSLEB DEF u
<1>7. after_leb128(i + 1) = i + Len(EncodedOne(lconf, n))
  BY <1>2, <1>3, <1>4, <1>6
<1>8. n.arg \in Int
  BY <1>1, OperandFits
<1> QED BY <1>2, <1>3, <1>6, <1>7, <1>8 DEF n

LEMMA AdvanceLineRound ==
  ASSUME LineInv, Running, Instructed, Current.op = "advance_line"
  PROVE  Round(Current) /\ Fixture
<1> DEFINE n == Current
<1>1. /\ Byte(i) = 3 /\ 3 < lconf.opcode_base
      /\ after_leb128(i + 1) = i + Len(EncodedOne(lconf, n))
  BY AdvanceLineOperand
<1>2. Byte(i) = 3
  BY <1>1
<1>3. after_leb128(i + 1) = i + Len(EncodedOne(lconf, n))
  BY <1>1
<1> HIDE DEF n
<1>4. standard_instruction
  <2>1. Byte(i) # 0 /\ Byte(i) < lconf.opcode_base
    BY <1>1, <1>2
  <2> QED BY <2>1, Which
<1>5. Fixture
  BY <1>4, StandardBranches DEF Fixture
<1>6. /\ sm' = [sm EXCEPT !.line = (@ + read_leb128(i + 1)) % Width]
       /\ Read(after_leb128(i + 1)) /\ UNCHANGED <<states, outcome>>
  BY <1>2, <1>4, StandardBranches
<1>7. n.op = "advance_line"
  BY DEF n
<1>8. Made(n) = [sm EXCEPT !.line = (@ + read_leb128(i + 1)) % Width]
  BY <1>7, MadeOf
<1>9. sm' = Made(n) /\ UNCHANGED states /\ UNCHANGED outcome
       /\ Read(i + Len(EncodedOne(lconf, n)))
  BY <1>3, <1>6, <1>8
<1>10. Round(n)
  BY <1>7, <1>9, RoundDone
<1> QED BY <1>5, <1>10 DEF n

LEMMA FixedRound ==
  ASSUME LineInv, Running, Instructed, Current.op = "fixed_advance_pc"
  PROVE  Round(Current) /\ Fixture
<1> DEFINE n == Current
           e == EncodedOne(lconf, n)
<1>1. lconf \in HeaderType /\ n \in Instructions /\ Encodable(lconf, n)
  BY Here
<1>2. /\ n.arg \in 0 .. MaxFixed /\ 9 < lconf.opcode_base
      /\ Len(e) = 3 /\ e[1] = 9 /\ e[2] = n.arg % 256 /\ e[3] = n.arg \div 256
  BY <1>1, FixedAdvanceShape
<1>3. i \in Nat /\ Stands(i, e)
  BY Here DEF Code
<1> HIDE DEF n, e
<1>4. Byte(i) = 9 /\ Byte(i + 1) = n.arg % 256 /\ Byte(i + 2) = n.arg \div 256
  <2>1. Len(e) \in Nat /\ Len(e) >= 1 /\ Len(e) >= 2 /\ Len(e) >= 3
    BY <1>2
  <2> QED BY <1>2, <1>3, <2>1, FirstBytes
<1>5. i + 1 \in Nat /\ i + 1 + 1 = i + 2 /\ i + 1 + 2 = i + Len(e)
  BY <1>2, <1>3
<1>6. Number(i + 1, 2) = n.arg
  BY <1>2, <1>4, <1>5, NumberRead
<1>7. standard_instruction
  <2>1. Byte(i) # 0 /\ Byte(i) < lconf.opcode_base
    BY <1>2, <1>4
  <2> QED BY <2>1, Which
<1>8. Fixture
  BY <1>7, StandardBranches DEF Fixture
<1>9. /\ sm' = [sm EXCEPT !.address = @ + Number(i + 1, 2), !.op_index = 0]
      /\ Read(i + 1 + 2) /\ UNCHANGED <<states, outcome>>
  BY <1>4, <1>7, StandardBranches
<1>10. n.op = "fixed_advance_pc"
  BY DEF n
<1>11. Made(n) = [sm EXCEPT !.address = @ + n.arg, !.op_index = 0]
  BY <1>10, MadeOf
<1>12. sm' = Made(n) /\ UNCHANGED states /\ UNCHANGED outcome /\ Read(i + Len(e))
  BY <1>5, <1>6, <1>9, <1>11
<1>13. Round(n)
  BY <1>10, <1>12, RoundDone DEF e
<1> QED BY <1>8, <1>13 DEF n

LEMMA SpecialRound ==
  ASSUME LineInv, Running, Instructed, Current.op = "special"
  PROVE  Round(Current) /\ Fixture
<1> DEFINE n == Current
           e == EncodedOne(lconf, n)
<1>1. lconf \in HeaderType /\ n \in Instructions /\ Encodable(lconf, n)
  BY Here
<1>2. /\ Len(e) = 1 /\ e[1] = lconf.opcode_base + n.arg /\ n.arg \in Nat
  BY <1>1, SpecialShape
<1>3. i \in Nat /\ Byte(i) = lconf.opcode_base + n.arg /\ lconf.opcode_base \in 1 .. 255
  BY <1>2, Opcode
<1> HIDE DEF n, e
<1>4. Byte(i) >= lconf.opcode_base /\ Byte(i) - lconf.opcode_base = n.arg
  BY <1>2, <1>3
<1>5. special_instruction
  BY <1>4, Which
<1> DEFINE adjusted == Byte(i) - VAL("opcode_base")
           moved == [sm EXCEPT !.line = (@ + VAL("line_base")
                                           + (adjusted % VAL("line_range"))) % Width]
<1>6. /\ UNCHANGED <<lconf, instrs, program, outcome>>
      /\ sm' = advance_addr_and_op_index(moved, adjusted \div VAL("line_range"))
      /\ states' = Append(states, sm') /\ Read(i + 1)
  BY <1>5, SpecialBranch
<1>7. adjusted = n.arg
  BY <1>4, Fields
<1> HIDE DEF adjusted
<1>8. moved = Adding(sm, n)
  BY <1>7, Fields DEF Adding
<1>9. n.op = "special"
  BY DEF n
<1>10. Made(n) = advance_addr_and_op_index(Adding(sm, n), n.arg \div lconf.line_range)
  BY <1>9, MadeOf
<1> HIDE DEF moved
<1>11. sm' = Made(n)
  BY <1>6, <1>7, <1>8, <1>10, Fields
<1>12. states' = Append(states, Made(n)) /\ UNCHANGED outcome /\ Read(i + Len(e))
  BY <1>2, <1>6, <1>11
<1>13. Round(n)
  BY <1>9, <1>11, <1>12, RoundDone DEF e
<1> QED BY <1>6, <1>13 DEF n, Fixture

LEMMA UnknownRound ==
  ASSUME LineInv, Running, Instructed, Current.op = "unknown"
  PROVE  Round(Current) /\ Fixture
<1>1. lconf \in HeaderType /\ Current \in Instructions /\ Encodable(lconf, Current)
  BY Here
<1>2. EncodedOne(lconf, Current)[1] = 13 /\ 13 < lconf.opcode_base
  BY <1>1, UnknownShape
<1>3. Byte(i) = 13
  BY <1>2, Opcode
<1>4. standard_instruction
  <2>1. Byte(i) # 0 /\ Byte(i) < lconf.opcode_base
    BY <1>2, <1>3
  <2> QED BY <2>1, Which
<1>5. DWARFException /\ Fixture
  BY <1>3, <1>4, StandardBranches DEF Fixture
<1> QED BY <1>5, RoundRefused

LEMMA ExtendedRound ==
  ASSUME LineInv, Running, Instructed, Current.op \in DOMAIN Extended
  PROVE  Round(Current) /\ Fixture
<1> DEFINE n == Current
           e == EncodedOne(lconf, n)
           u == ExtendedOperand(n)
<1>1. lconf \in HeaderType /\ n \in Instructions
  BY Here
<1>2. /\ Len(e) = 3 + Len(u) /\ e[1] = 0 /\ e[2] \in 1 .. 127 /\ e[3] = Extended[n.op]
      /\ \A j \in 1 .. Len(u) : e[3 + j] = u[j]
  BY <1>1, ExtendedShape
<1>3. /\ Len(u) \in 0 .. 8
      /\ n.op = "end_sequence" => Len(u) = 0
      /\ n.op = "set_address" => /\ n.arg \in 0 .. MaxFixed /\ Len(u) = 8
                                 /\ u[1] = n.arg % 256 /\ u[2] = n.arg \div 256
      /\ n.op = "set_discriminator" => n.arg \in 0 .. MaxOperand /\ u = ULEB(n.arg)
  BY <1>1, ExtendedOperandShape
<1>4. i \in Nat /\ Stands(i, e)
  BY Here DEF Code
<1>5. n.op \in {"end_sequence", "set_address", "define_file", "set_discriminator", "vendor"}
  BY DEF Extended
<1> HIDE DEF n, e, u
<1>6. Byte(i) = 0 /\ Byte(i + 1) \in 0 .. 127 /\ Byte(i + 2) = Extended[n.op]
  <2>1. Len(e) \in Nat /\ Len(e) >= 1 /\ Len(e) >= 2 /\ Len(e) >= 3
    BY <1>2, <1>3
  <2>2. Byte(i) = e[1] /\ Byte(i + 1) = e[2] /\ Byte(i + 2) = e[3]
    BY <1>4, <2>1, FirstBytes
  <2>3. e[2] \in 0 .. 127
    BY <1>2
  <2> QED BY <1>2, <2>2, <2>3
<1>7. Stands(i + 3, u)
  <2>1. Len(u) \in Nat /\ 3 \in Nat
    BY <1>3
  <2>2. Len(e) = 3 + Len(u) /\ \A j \in 1 .. Len(u) : e[3 + j] = u[j]
    BY <1>2
  <2> QED BY <1>4, <2>1, <2>2, Rest
<1>8. after_leb128(i + 1) = i + 2
  <2>1. after_leb128(i + 1) = (i + 1) + 1
    BY <1>4, <1>6, OneByte
  <2> QED BY <1>4, <2>1
<1>9. extended_instruction
  BY <1>6, Which
<1> DEFINE p == i + 3
           opcode == Byte(i + 2)
<1>10. p = after_leb128(i + 1) + 1 /\ p - 1 = i + 2 /\ p \in Nat
       /\ p + Len(u) = i + Len(e)
  BY <1>2, <1>3, <1>4, <1>8
<1>11. opcode = Byte(p - 1)
  BY <1>10
<1> HIDE DEF p, opcode
<1>12. /\ Byte(i) = 0 /\ UNCHANGED <<lconf, instrs, program>>
       /\ opcode = 1 => /\ clone_state([sm EXCEPT !.end_sequence = TRUE])
                        /\ sm' = reset_machine /\ Read(p) /\ UNCHANGED outcome
       /\ opcode = 2 => /\ sm' = [sm EXCEPT !.address = Number(p, 8), !.op_index = 0]
                        /\ Read(p + 8) /\ UNCHANGED <<states, outcome>>
       /\ opcode = 4 => Read(after_leb128(p)) /\ UNCHANGED <<sm, states, outcome>>
       /\ opcode \in {3, 128} => DWARFException
  BY <1>9, <1>10, <1>11, ExtendedBranches
<1>13. Fixture
  BY <1>12 DEF Fixture
<1>14. /\ n.op = "end_sequence" => opcode = 1
       /\ n.op = "set_address" => opcode = 2
       /\ n.op = "set_discriminator" => opcode = 4
       /\ n.op \in {"define_file", "vendor"} => opcode \in {3, 128}
  BY <1>5, <1>6 DEF Extended, opcode
<1>15. CASE n.op = "end_sequence"
  <2>1. Made(n) = [sm EXCEPT !.end_sequence = TRUE]
    BY <1>15, MadeOf
  <2>2. p = i + Len(e)
    BY <1>3, <1>10, <1>15
  <2>3. states' = Append(states, Made(n)) /\ sm' = reset_machine /\ UNCHANGED outcome
        /\ Read(i + Len(e))
    BY <1>12, <1>14, <1>15, <2>1, <2>2 DEF clone_state
  <2>4. Round(n)
    BY <1>15, <2>3, RoundDone DEF e
  <2> QED BY <1>13, <2>4 DEF n
<1>16. CASE n.op = "set_address"
  <2>1. Made(n) = [sm EXCEPT !.address = n.arg, !.op_index = 0]
    BY <1>16, MadeOf
  <2>2. p + 8 = i + Len(e)
    BY <1>3, <1>10, <1>16
  <2>3. Byte(p) = n.arg % 256 /\ Byte(p + 1) = n.arg \div 256
    <3>1. Stands(p, u)
      BY <1>7 DEF p
    <3>2. Len(u) = 8
      BY <1>3, <1>16
    <3>3. Len(u) \in Nat /\ Len(u) >= 1 /\ Len(u) >= 2
      BY <3>2
    <3> QED BY <1>3, <1>10, <1>16, <3>1, <3>3, FirstBytes
  <2>4. Number(p, 8) = n.arg
    BY <1>3, <1>10, <1>16, <2>3, NumberRead
  <2>5. sm' = Made(n) /\ UNCHANGED states /\ UNCHANGED outcome /\ Read(i + Len(e))
    BY <1>12, <1>14, <1>16, <2>1, <2>2, <2>4
  <2>6. Round(n)
    BY <1>16, <2>5, RoundDone DEF e
  <2> QED BY <1>13, <2>6 DEF n
<1>17. CASE n.op = "set_discriminator"
  <2>1. Made(n) = sm
    BY <1>17, MadeOf
  <2>2. Stands(p, ULEB(n.arg)) /\ n.arg \in 0 .. MaxOperand /\ u = ULEB(n.arg)
    BY <1>3, <1>7, <1>17 DEF p
  <2>3. after_leb128(p) = p + Len(ULEB(n.arg))
    BY <1>10, <2>2, ReadULEB
  <2>4. after_leb128(p) = i + Len(e)
    BY <1>10, <2>2, <2>3
  <2>5. sm' = Made(n) /\ UNCHANGED states /\ UNCHANGED outcome /\ Read(i + Len(e))
    BY <1>12, <1>14, <1>17, <2>1, <2>4
  <2>6. Round(n)
    BY <1>17, <2>5, RoundDone DEF e
  <2> QED BY <1>13, <2>6 DEF n
<1>18. CASE n.op \in {"define_file", "vendor"}
  <2>1. DWARFException
    BY <1>12, <1>14, <1>18
  <2>2. Round(n)
    BY <1>18, <2>1, RoundRefused
  <2> QED BY <1>13, <2>2 DEF n
<1> QED BY <1>5, <1>15, <1>16, <1>17, <1>18

LEMMA InstructedRound ==
  ASSUME LineInv, Running, Instructed
  PROVE  Round(Current) /\ Fixture
<1>1. Current \in Instructions
  BY Here
<1>2. Current.op \in Names
  BY <1>1, OperandFits
<1>3. \/ Current.op \in DOMAIN Plain \/ Current.op \in DOMAIN Unsigned
      \/ Current.op \in DOMAIN Extended
      \/ Current.op = "advance_line" \/ Current.op = "fixed_advance_pc"
      \/ Current.op = "special" \/ Current.op = "unknown"
  BY <1>2 DEF Names
<1> QED BY <1>3, PlainRound, UnsignedRound, ExtendedRound, AdvanceLineRound, FixedRound,
           SpecialRound, UnknownRound

-----------------------------------------------------------------------------
(* What the registers may hold, and that the machine keeps its place. *)

LEMMA Advanced ==
  ASSUME LineInv, NEW m \in Row, NEW k \in Nat
  PROVE  /\ advance_addr_and_op_index(m, k) \in Row
         /\ advance_addr_and_op_index(m, k).line = m.line
         /\ advance_addr_and_op_index(m, k).file = m.file
<1> DEFINE q == VAL("maximum_operations_per_instruction")
           l == VAL("minimum_instruction_length")
           a == (m.op_index + k) \div q
           b == (m.op_index + k) % q
<1>1. lconf \in HeaderType /\ lconf \in Headers
  BY DEF LineInv, LineTypeOK
<1>2. q \in Nat \ {0}
  <2>1. /\ lconf.version \in Nat /\ lconf.maximum_operations_per_instruction \in Nat
        /\ lconf.version >= 4 => lconf.maximum_operations_per_instruction > 0
    BY <1>1, LineAssumption DEF HeaderType
  <2>2. CASE lconf.version < 4
    BY <2>2 DEF VAL
  <2>3. CASE lconf.version >= 4
    <3>1. ~(lconf.version < 4)
      BY <2>1, <2>3
    <3>2. q = lconf.maximum_operations_per_instruction
      BY <3>1 DEF VAL
    <3> QED BY <2>1, <2>3, <3>2
  <2> QED BY <2>1, <2>2, <2>3
<1>3. l \in Nat
  BY <1>1, Fields DEF HeaderType
<1>4. m.address \in Nat /\ m.op_index \in Nat
  BY DEF Row
<1>5. a \in Nat /\ b \in Nat
  <2> HIDE DEF q
  <2>1. m.op_index + k \in Nat
    BY <1>4
  <2>2. \A x \in Nat, y \in Nat \ {0} : x \div y \in Nat /\ x % y \in Nat
    OBVIOUS
  <2> QED BY <1>2, <2>1, <2>2
<1>6. advance_addr_and_op_index(m, k) =
        [m EXCEPT !.address = @ + l * a, !.op_index = b]
  BY DEF advance_addr_and_op_index, Row
<1> HIDE DEF q, l, a, b
<1>7. m.address + l * a \in Nat
  BY <1>3, <1>4, <1>5
<1> QED BY <1>5, <1>6, <1>7 DEF Row

LEMMA Wraps ==
  ASSUME NEW x \in Int
  PROVE  x % Width \in 0 .. Width - 1
<1>1. Width \in Nat \ {0}
  BY LineAssumption
<1> QED BY <1>1

LEMMA OperandRead ==
  ASSUME LineInv, Running
  PROVE  /\ Current.op \in {"advance_pc", "set_file", "advance_line"} =>
              read_leb128(i + 1) \in Nat
         /\ Current.op \in {"advance_pc", "set_file"} => Current.arg \in Nat
         /\ Current.op \in {"advance_pc", "set_file", "advance_line"} /\ ReadRight(Current) =>
              read_leb128(i + 1) = Current.arg
<1> DEFINE n == Current
           value == read_leb128(i + 1)
           odd == (n.arg \div 128) % 2 = 1
<1>1. CASE n.op \in {"advance_pc", "set_file"}
  <2>1. n.op \in DOMAIN Unsigned
    BY <1>1 DEF Unsigned
  <2>2. value \in Nat /\ n.arg \in Nat /\ (n.arg < 128 \/ odd => value = n.arg)
    BY <2>1, UnsignedOperand
  <2>3. n.op # "advance_line"
    BY <1>1
  <2> HIDE DEF n, value, odd
  <2>4. ReadRight(n) => n.arg < 128 \/ odd
    BY <1>1, <2>3 DEF ReadRight, odd
  <2> QED BY <1>1, <2>2, <2>3, <2>4 DEF n, value
<1>2. CASE n.op = "advance_line"
  <2>1. value \in Nat /\ (n.arg >= 0 /\ (n.arg < 64 \/ odd) => value = n.arg)
    BY <1>2, AdvanceLineOperand
  <2> HIDE DEF n, value, odd
  <2>2. n.op \notin {"advance_pc", "set_file"}
    BY <1>2
  <2>3. ReadRight(n) => n.arg >= 0 /\ (n.arg < 64 \/ odd)
    BY <1>2, <2>2 DEF ReadRight, odd
  <2> QED BY <1>2, <2>1, <2>2, <2>3 DEF n, value
<1> QED BY <1>1, <1>2

LEMMA Placed ==
  ASSUME NEW m \in Row, NEW a \in Nat, NEW k \in Nat
  PROVE  [m EXCEPT !.address = a, !.op_index = k] \in Row
BY DEF Row

LEMMA AddingType ==
  ASSUME LineInv, NEW n \in Instructions
  PROVE  Adding(sm, n) \in Row
<1>1. sm \in Row /\ lconf \in HeaderType
  BY DEF LineInv, LineTypeOK
<1>2. Width \in Nat \ {0} /\ n.arg \in Int
  BY LineAssumption, OperandFits
<1>3. sm.line \in Int /\ lconf.line_base \in Int /\ lconf.line_range \in Nat \ {0}
  BY <1>1, <1>2 DEF Row, HeaderType
<1>4. n.arg % lconf.line_range \in Int
  BY <1>2, <1>3
<1> DEFINE x == sm.line + lconf.line_base + (n.arg % lconf.line_range)
<1>5. x \in Int
  BY <1>3, <1>4
<1> HIDE DEF x
<1>6. x % Width \in 0 .. Width - 1
  BY <1>5, Wraps
<1>7. Adding(sm, n) = [sm EXCEPT !.line = x % Width]
  BY <1>1 DEF Adding, x, Row
<1> QED BY <1>1, <1>6, <1>7 DEF Row

LEMMA MadeType ==
  ASSUME LineInv, Running
  PROVE  Made(Current) \in Row
<1> DEFINE n == Current
           value == read_leb128(i + 1)
<1>1. sm \in Row /\ lconf \in HeaderType /\ n \in Instructions
  BY Here DEF LineInv, LineTypeOK
<1>2. n.arg \in Int /\ n.arg \in Operands(n.op)
  BY <1>1, OperandFits
<1>3. n.op \in {"advance_pc", "set_file", "advance_line"} => value \in Nat
  BY OperandRead
<1>4. /\ sm.address \in Nat /\ sm.line \in Int
      /\ lconf.line_range \in Nat \ {0} /\ lconf.opcode_base \in 1 .. 255
  BY <1>1 DEF Row, HeaderType
<1> HIDE DEF n, value
<1>5. CASE n.op = "special"
  <2>1. n.arg \in Nat
    <3>1. n.arg \in 0 .. 254
      BY <1>2, <1>5, OperandsOf
    <3> QED BY <3>1
  <2>2. n.arg \div lconf.line_range \in Nat
    BY <1>4, <2>1
  <2>3. Adding(sm, n) \in Row
    BY <1>1, AddingType
  <2>4. Made(n) = advance_addr_and_op_index(Adding(sm, n), n.arg \div lconf.line_range)
    BY <1>5, MadeOf
  <2> HIDE DEF n
  <2> QED BY <2>2, <2>3, <2>4, Advanced DEF n
<1>6. CASE n.op = "advance_pc"
  <2>1. Made(n) = advance_addr_and_op_index(sm, value)
    BY <1>6, MadeOf DEF value
  <2> QED BY <1>1, <1>3, <1>6, <2>1, Advanced DEF n
<1>7. CASE n.op = "const_add_pc"
  <2>1. (255 - lconf.opcode_base) \div lconf.line_range \in Nat
    <3>1. 255 - lconf.opcode_base \in Nat
      BY <1>4
    <3> QED BY <1>4, <3>1
  <2>2. Made(n) = advance_addr_and_op_index(
                    sm, (255 - lconf.opcode_base) \div lconf.line_range)
    BY <1>7, MadeOf
  <2> QED BY <1>1, <2>1, <2>2, Advanced DEF n
<1>8. CASE n.op \in {"fixed_advance_pc", "set_address"}
  <2>1. n.arg \in Nat
    <3>1. n.arg \in 0 .. MaxFixed
      BY <1>2, <1>8, OperandsOf, Zenon
    <3> QED BY <3>1
  <2>2. sm.address + n.arg \in Nat
    BY <1>4, <2>1
  <2>3. \/ Made(n) = [sm EXCEPT !.address = @ + n.arg, !.op_index = 0]
        \/ Made(n) = [sm EXCEPT !.address = n.arg, !.op_index = 0]
    BY <1>8, MadeOf
  <2>4. CASE Made(n) = [sm EXCEPT !.address = @ + n.arg, !.op_index = 0]
    <3> DEFINE a == sm.address + n.arg
    <3>1. Made(n) = [sm EXCEPT !.address = a, !.op_index = 0] /\ a \in Nat /\ 0 \in Nat
      BY <1>1, <2>2, <2>4 DEF Row
    <3> HIDE DEF a
    <3>2. [sm EXCEPT !.address = a, !.op_index = 0] \in Row
      BY <1>1, <3>1, Placed
    <3> QED BY <3>1, <3>2 DEF n
  <2>5. CASE Made(n) = [sm EXCEPT !.address = n.arg, !.op_index = 0]
    <3>1. [sm EXCEPT !.address = n.arg, !.op_index = 0] \in Row
      BY <1>1, <2>1, Placed
    <3> QED BY <2>5, <3>1 DEF n
  <2> QED BY <2>3, <2>4, <2>5
<1>9. CASE n.op = "advance_line"
  <2>1. Made(n) = [sm EXCEPT !.line = (@ + value) % Width]
    BY <1>9, MadeOf DEF value
  <2>2. sm.line + value \in Int
    BY <1>3, <1>4, <1>9
  <2>3. (sm.line + value) % Width \in 0 .. Width - 1
    BY <2>2, Wraps
  <2> QED BY <1>1, <2>1, <2>3 DEF Row, n
<1>10. CASE n.op = "set_file"
  <2>1. Made(n) = [sm EXCEPT !.file = value % Width]
    BY <1>10, MadeOf DEF value
  <2>2. value % Width \in 0 .. Width - 1
    BY <1>3, <1>10, Wraps
  <2> QED BY <1>1, <2>1, <2>2 DEF Row, n
<1>11. CASE n.op = "end_sequence"
  <2>1. Made(n) = [sm EXCEPT !.end_sequence = TRUE]
    BY <1>11, MadeOf
  <2>2. Made(n) \in Row
    BY <1>1, <2>1 DEF Row
  <2> QED BY <2>2 DEF n
<1>12. CASE n.op \notin {"special", "advance_pc", "const_add_pc", "fixed_advance_pc",
                         "set_address", "advance_line", "set_file", "end_sequence"}
  BY <1>1, <1>12, MadeOf DEF n
<1> QED BY <1>5, <1>6, <1>7, <1>8, <1>9, <1>10, <1>11, <1>12 DEF n

-----------------------------------------------------------------------------

LEMMA LineInvInit == Init => LineInv
<1> SUFFICES ASSUME Init PROVE LineInv
  OBVIOUS
<1>1. /\ lconf \in Headers /\ instrs \in Programs /\ program = Encoded(lconf, instrs)
      /\ \A k \in DOMAIN instrs : Encodable(lconf, instrs[k])
      /\ i = 0 /\ sm = reset_machine /\ states = <<>> /\ outcome = "running" /\ done = 0
  BY DEF Init
<1>2. lconf \in HeaderType /\ instrs \in Seq(Instructions)
  BY <1>1, LineAssumption
<1>3. Len(instrs) \in Nat /\ done \in 0 .. Len(instrs)
  BY <1>1, <1>2
<1>4. program \in Seq(Octets) /\ BytesOf(lconf, instrs)[0] = <<>>
  BY <1>1, <1>2, <1>3, Window
<1>5. program \in Seq(0 .. 255) /\ Len(program) \in Nat
  BY <1>4 DEF Octets
<1>6. sm \in Row
  <2>1. Width \in Nat \ {0, 1}
    BY LineAssumption
  <2>2. 1 \in 0 .. Width - 1
    BY <2>1
  <2> QED BY <1>1, <2>2 DEF reset_machine, Row
<1>7. states \in Seq(Row) /\ outcome \in DOMAIN Status
  BY <1>1 DEF Status
<1>8. LineTypeOK
  BY <1>1, <1>2, <1>3, <1>5, <1>6, <1>7 DEF LineTypeOK
<1>9. Aligned
  BY <1>1, <1>4 DEF Aligned
<1> QED BY <1>1, <1>8, <1>9 DEF LineInv

LEMMA Rounds ==
  ASSUME LineInv, run_machine
  PROVE  (Running /\ Round(Current) /\ Fixture) \/ run_machine_end
<1>1. Instructed => Running
  BY Zenon DEF Instructed, extended_instruction, standard_instruction, special_instruction
<1>2. Instructed \/ run_machine_end
  BY DEF run_machine, Instructed
<1> QED BY <1>1, <1>2, InstructedRound

LEMMA Refusal ==
  ASSUME NEW n, Round(n), n.op \in Table!Unsupported
  PROVE  outcome' = "DWARFException" /\ UNCHANGED <<i, sm, states, done>>
BY DEF Round

LEMMA Doing ==
  ASSUME NEW n, Round(n), n.op \notin Table!Unsupported
  PROVE  /\ i' = i + Len(EncodedOne(lconf, n)) /\ done' = done + 1 /\ UNCHANGED outcome
         /\ states' = IF n.op \in {"copy", "special", "end_sequence"}
                      THEN Append(states, Made(n)) ELSE states
         /\ sm' = IF n.op = "end_sequence" THEN reset_machine ELSE Made(n)
BY DEF Round, Read

LEMMA ResetType == reset_machine \in Row
<1>1. Width \in Nat \ {0, 1}
  BY LineAssumption
<1>2. 1 \in 0 .. Width - 1
  BY <1>1
<1> QED BY <1>2 DEF reset_machine, Row

LEMMA RunningOutcome == Running => outcome = "running"
BY DEF Running

LEMMA LineInvRound ==
  ASSUME LineInv, Running, Round(Current), Fixture
  PROVE  LineInv'
<1>1. UNCHANGED <<lconf, instrs, program>>
  BY DEF Fixture
<1>2. /\ lconf' \in Headers /\ instrs' \in Programs
      /\ \A k \in DOMAIN instrs' : Encodable(lconf', instrs'[k])
  BY <1>1 DEF LineInv
<1>3. /\ lconf' \in HeaderType /\ instrs' \in Seq(Instructions) /\ program' \in Seq(0 .. 255)
      /\ program' = Encoded(lconf', instrs')
  BY <1>1 DEF LineInv, LineTypeOK, Aligned
<1>4. /\ i \in 0 .. Len(program) /\ done \in 0 .. Len(instrs) /\ sm \in Row
      /\ states \in Seq(Row) /\ i = Len(BytesOf(lconf, instrs)[done])
  BY DEF LineInv, LineTypeOK, Aligned
<1>5. CASE Current.op \in Table!Unsupported
  <2>1. outcome' = "DWARFException" /\ UNCHANGED <<i, sm, states, done>>
    BY <1>5, Refusal
  <2>2. LineTypeOK'
    BY <1>1, <1>3, <1>4, <2>1 DEF LineTypeOK, Status
  <2>3. Aligned'
    BY <1>1, <1>3, <1>4, <2>1 DEF Aligned
  <2> QED BY <1>2, <2>2, <2>3 DEF LineInv
<1>6. CASE Current.op \notin Table!Unsupported
  <2>1. /\ i' = i + Len(Code) /\ done' = done + 1 /\ UNCHANGED outcome
        /\ states' \in {states, Append(states, Made(Current))}
        /\ sm' \in {reset_machine, Made(Current)}
    BY <1>6, Doing DEF Code
  <2>2. Made(Current) \in Row /\ reset_machine \in Row
    BY MadeType, ResetType
  <2>3. sm' \in Row /\ states' \in Seq(Row)
    <3> DEFINE m == Made(Current)
    <3>1. m \in Row /\ states \in Seq(Row)
      BY <1>4, <2>2
    <3>2. states' = states \/ states' = Append(states, m)
      BY <2>1
    <3> HIDE DEF m
    <3>3. states' \in Seq(Row)
      BY <3>1, <3>2
    <3> QED BY <2>1, <2>2, <3>3
  <2>4. /\ i' = Len(BytesOf(lconf, instrs)[done + 1])
        /\ i' \in 0 .. Len(program) /\ done' \in 0 .. Len(instrs)
    BY <2>1, Here
  <2>5. outcome' = "running"
    BY <2>1, RunningOutcome
  <2>6. LineTypeOK'
    BY <1>1, <1>3, <2>3, <2>4, <2>5 DEF LineTypeOK, Status
  <2>7. Aligned'
    BY <1>1, <1>3, <2>1, <2>4, <2>5 DEF Aligned
  <2> QED BY <1>2, <2>6, <2>7 DEF LineInv
<1> QED BY <1>5, <1>6

LEMMA Finished ==
  ASSUME LineInv, run_machine_end
  PROVE  done = Len(instrs)
<1>1. i >= Len(program)
  BY DEF run_machine_end
<1>2. /\ lconf \in HeaderType /\ instrs \in Seq(Instructions)
      /\ done \in 0 .. Len(instrs) /\ Len(instrs) \in Nat
      /\ \A k \in DOMAIN instrs : Encodable(lconf, instrs[k])
      /\ program = Encoded(lconf, instrs) /\ i = Len(BytesOf(lconf, instrs)[done])
  BY DEF LineInv, LineTypeOK, Aligned
<1>3. SUFFICES ASSUME done # Len(instrs) PROVE FALSE
  OBVIOUS
<1>4. done < Len(instrs)
  BY <1>2, <1>3
<1>5. /\ i \in Nat /\ program \in Seq(Octets)
      /\ Len(Code) \in Nat \ {0} /\ i + Len(Code) <= Len(program)
  BY <1>2, <1>4, Window DEF Code, Current
<1>6. Len(program) \in Nat
  BY <1>5
<1> QED BY <1>1, <1>5, <1>6

LEMMA LineInvEnd ==
  ASSUME LineInv, run_machine_end
  PROVE  LineInv'
<1>1. outcome' = "states" /\ UNCHANGED <<lconf, instrs, program, i, sm, states, done>>
  BY DEF run_machine_end
<1>2. done = Len(instrs)
  BY Finished
<1>3. LineTypeOK'
  BY <1>1 DEF LineInv, LineTypeOK, Status
<1>4. Aligned'
  BY <1>1, <1>2 DEF LineInv, Aligned
<1> QED BY <1>1, <1>3, <1>4 DEF LineInv

LEMMA LineInvStep == LineInv /\ [Next]_lineVars => LineInv'
<1> SUFFICES ASSUME LineInv, [Next]_lineVars PROVE LineInv'
  OBVIOUS
<1>1. CASE run_machine
  BY <1>1, Rounds, LineInvRound, LineInvEnd
<1>2. CASE UNCHANGED lineVars
  BY <1>2 DEF LineInv, LineTypeOK, Aligned, lineVars
<1> QED BY <1>1, <1>2 DEF Next, LineTerminated

THEOREM LineInvariant == Spec => []LineInv
BY LineInvInit, LineInvStep, PTL DEF Spec

\* The registers, the rows and what was read are of their types: the division
\* of a version before 4 by an operation count it has not got included
\* (dwarf_state_machine.c:30-42).
THEOREM LineTypes == Spec => []LineTypeOK
<1>1. LineInv => LineTypeOK
  BY DEF LineInv
<1> QED BY <1>1, LineInvariant, PTL

\* Whatever the operands come out as, the machine reads the next instruction
\* where it begins: it never takes the middle of one for an opcode.
THEOREM LineAligned == Spec => []Aligned
<1>1. LineInv => Aligned
  BY DEF LineInv
<1> QED BY <1>1, LineInvariant, PTL

-----------------------------------------------------------------------------
(* Each round is a step of the table the standard describes. *)

LEMMA SameAdvance ==
  ASSUME NEW m, NEW k
  PROVE  Table!Advance(m, k) = advance_addr_and_op_index(m, k)
<1>1. Table!Operations = VAL("maximum_operations_per_instruction")
  BY DEF Table!Operations, VAL
<1>2. lconf.minimum_instruction_length = VAL("minimum_instruction_length")
  BY Fields
<1> QED BY <1>1, <1>2 DEF Table!Advance, advance_addr_and_op_index

LEMMA ChangedOf ==
  ASSUME NEW n
  PROVE  /\ n.op = "special" =>
              Table!Changed(n) =
                [Table!Advance(sm, n.arg \div lconf.line_range) EXCEPT
                   !.line = @ + lconf.line_base + (n.arg % lconf.line_range)]
         /\ n.op = "advance_pc" => Table!Changed(n) = Table!Advance(sm, n.arg)
         /\ n.op = "const_add_pc" =>
              Table!Changed(n) =
                Table!Advance(sm, (255 - lconf.opcode_base) \div lconf.line_range)
         /\ n.op = "fixed_advance_pc" =>
              Table!Changed(n) = [sm EXCEPT !.address = @ + n.arg, !.op_index = 0]
         /\ n.op = "set_address" =>
              Table!Changed(n) = [sm EXCEPT !.address = n.arg, !.op_index = 0]
         /\ n.op = "advance_line" => Table!Changed(n) = [sm EXCEPT !.line = @ + n.arg]
         /\ n.op = "set_file" => Table!Changed(n) = [sm EXCEPT !.file = n.arg]
         /\ n.op = "end_sequence" => Table!Changed(n) = [sm EXCEPT !.end_sequence = TRUE]
         /\ n.op \notin {"special", "advance_pc", "const_add_pc", "fixed_advance_pc",
                         "set_address", "advance_line", "set_file", "end_sequence"} =>
              Table!Changed(n) = sm
<1> DEFINE a == [Table!Advance(sm, n.arg \div lconf.line_range) EXCEPT
                   !.line = @ + lconf.line_base + (n.arg % lconf.line_range)]
           b == Table!Advance(sm, n.arg)
           c == Table!Advance(sm, (255 - lconf.opcode_base) \div lconf.line_range)
           d == [sm EXCEPT !.address = @ + n.arg, !.op_index = 0]
           e == [sm EXCEPT !.address = n.arg, !.op_index = 0]
           f == [sm EXCEPT !.line = @ + n.arg]
           g == [sm EXCEPT !.file = n.arg]
           h == [sm EXCEPT !.end_sequence = TRUE]
<1>1. Table!Changed(n) =
        CASE n.op = "special" -> a [] n.op = "advance_pc" -> b
          [] n.op = "const_add_pc" -> c [] n.op = "fixed_advance_pc" -> d
          [] n.op = "set_address" -> e [] n.op = "advance_line" -> f
          [] n.op = "set_file" -> g [] n.op = "end_sequence" -> h
          [] OTHER -> sm
  BY DEF Table!Changed, Table!AfterSpecial
<1> HIDE DEF a, b, c, d, e, f, g, h
<1>2. n.op = "special" => Table!Changed(n) = a
  BY <1>1
<1>3. n.op = "advance_pc" => Table!Changed(n) = b
  BY <1>1
<1>4. n.op = "const_add_pc" => Table!Changed(n) = c
  BY <1>1
<1>5. n.op = "fixed_advance_pc" => Table!Changed(n) = d
  BY <1>1
<1>6. n.op = "set_address" => Table!Changed(n) = e
  BY <1>1
<1>7. n.op = "advance_line" => Table!Changed(n) = f
  BY <1>1
<1>8. n.op = "set_file" => Table!Changed(n) = g
  BY <1>1
<1>9. n.op = "end_sequence" => Table!Changed(n) = h
  BY <1>1
<1>10. n.op \notin {"special", "advance_pc", "const_add_pc", "fixed_advance_pc",
                    "set_address", "advance_line", "set_file", "end_sequence"} =>
         Table!Changed(n) = sm
  BY <1>1
<1> QED BY <1>2, <1>3, <1>4, <1>5, <1>6, <1>7, <1>8, <1>9, <1>10 DEF a, b, c, d, e, f, g, h

\* A number that fits is what it wraps to.
LEMMA Fits ==
  ASSUME NEW x \in 0 .. Width - 1
  PROVE  x % Width = x
<1>1. Width \in Nat \ {0, 1}
  BY LineAssumption
<1>2. \A w \in Nat \ {0} : \A y \in 0 .. w - 1 : y % w = y
  OBVIOUS
<1> QED BY <1>1, <1>2

LEMMA SpecialSame ==
  ASSUME LineInv, Running, Regular, Current.op = "special"
  PROVE  Made(Current) = Table!Changed(Current)
<1> DEFINE n == Current
           adv == n.arg \div lconf.line_range
           x == sm.line + lconf.line_base + (n.arg % lconf.line_range)
           q == VAL("maximum_operations_per_instruction")
           l == VAL("minimum_instruction_length")
<1>1. sm \in Row
  BY DEF LineInv, LineTypeOK
<1>2. done < Len(instrs) /\ Current = instrs[done + 1]
  BY Here DEF Current
<1>3. Table!Changed(n).line \in 0 .. Width - 1
  BY <1>2 DEF Regular
<1>4. Table!Changed(n) = [advance_addr_and_op_index(sm, adv) EXCEPT
                            !.line = @ + lconf.line_base + (n.arg % lconf.line_range)]
  BY ChangedOf, SameAdvance
<1>5. advance_addr_and_op_index(sm, adv) =
        [sm EXCEPT !.address = @ + l * ((sm.op_index + adv) \div q),
                   !.op_index = (@ + adv) % q]
  BY DEF advance_addr_and_op_index
<1> DEFINE a == sm.address + l * ((sm.op_index + adv) \div q)
           o == (sm.op_index + adv) % q
<1>6. advance_addr_and_op_index(sm, adv) = [sm EXCEPT !.address = a, !.op_index = o]
  BY <1>1, <1>5 DEF Row
<1>7. /\ Made(n) = advance_addr_and_op_index([sm EXCEPT !.line = x % Width], adv)
  BY <1>1, MadeOf DEF Adding, Row
<1>8. advance_addr_and_op_index([sm EXCEPT !.line = x % Width], adv) =
        [[sm EXCEPT !.line = x % Width] EXCEPT !.address = a, !.op_index = o]
  <2> DEFINE y == x % Width
             m == [sm EXCEPT !.line = y]
  <2> HIDE DEF y, l, q, adv
  <2>1. m.address = sm.address /\ m.op_index = sm.op_index
    BY <1>1 DEF Row
  <2>2. advance_addr_and_op_index(m, adv) =
          [m EXCEPT !.address = @ + l * ((m.op_index + adv) \div q), !.op_index = (@ + adv) % q]
    BY DEF advance_addr_and_op_index, l, q
  <2>3. advance_addr_and_op_index(m, adv) = [m EXCEPT !.address = a, !.op_index = o]
    BY <1>1, <2>1, <2>2 DEF Row
  <2> QED BY <2>3 DEF y, l, q, adv
<1> HIDE DEF a, o
<1>9. Table!Changed(n) = [sm EXCEPT !.address = a, !.op_index = o, !.line = x]
  BY <1>1, <1>4, <1>6 DEF Row
<1> HIDE DEF x, n, adv
<1>10. Table!Changed(n).line = x
  BY <1>1, <1>9 DEF Row
<1>11. x % Width = x
  BY <1>3, <1>10, Fits
<1>12. Made(n) = [[sm EXCEPT !.line = x] EXCEPT !.address = a, !.op_index = o]
  BY <1>7, <1>8, <1>11
<1>13. [[sm EXCEPT !.line = x] EXCEPT !.address = a, !.op_index = o] =
         [sm EXCEPT !.address = a, !.op_index = o, !.line = x]
  BY <1>1 DEF Row
<1> QED BY <1>9, <1>12, <1>13 DEF n

LEMMA MadeSame ==
  ASSUME LineInv, Running, Regular
  PROVE  Made(Current) = Table!Changed(Current)
<1> DEFINE n == Current
           value == read_leb128(i + 1)
<1>1. sm \in Row
  BY DEF LineInv, LineTypeOK
<1>2. done < Len(instrs) /\ Current = instrs[done + 1]
  BY Here DEF Current
<1>3. /\ ReadRight(n)
      /\ Table!Changed(n).line \in 0 .. Width - 1 /\ Table!Changed(n).file \in 0 .. Width - 1
  BY <1>2 DEF Regular
<1>4. n.op \in {"advance_pc", "set_file", "advance_line"} => value = n.arg
  BY <1>3, OperandRead
<1> HIDE DEF n, value
<1>5. CASE n.op = "special"
  BY <1>5, SpecialSame DEF n
<1>6. CASE n.op = "advance_pc"
  <2>1. Made(n) = advance_addr_and_op_index(sm, value)
    BY <1>6, MadeOf DEF value
  <2>2. Table!Changed(n) = Table!Advance(sm, n.arg)
    BY <1>6, ChangedOf
  <2> QED BY <1>4, <1>6, <2>1, <2>2, SameAdvance DEF n
<1>7. CASE n.op = "const_add_pc"
  <2> DEFINE k == (255 - lconf.opcode_base) \div lconf.line_range
  <2>1. Made(n) = advance_addr_and_op_index(sm, k)
    BY <1>7, MadeOf
  <2>2. Table!Changed(n) = Table!Advance(sm, k)
    BY <1>7, ChangedOf
  <2> QED BY <2>1, <2>2, SameAdvance DEF n
<1>8. CASE n.op = "fixed_advance_pc"
  <2>1. Made(n) = [sm EXCEPT !.address = @ + n.arg, !.op_index = 0]
    BY <1>8, MadeOf
  <2>2. Table!Changed(n) = [sm EXCEPT !.address = @ + n.arg, !.op_index = 0]
    BY <1>8, ChangedOf
  <2> QED BY <2>1, <2>2 DEF n
<1>9. CASE n.op = "set_address"
  <2>1. Made(n) = [sm EXCEPT !.address = n.arg, !.op_index = 0]
    BY <1>9, MadeOf
  <2>2. Table!Changed(n) = [sm EXCEPT !.address = n.arg, !.op_index = 0]
    BY <1>9, ChangedOf
  <2> QED BY <2>1, <2>2 DEF n
<1>10. CASE n.op = "advance_line"
  <2>1. Made(n) = [sm EXCEPT !.line = (@ + value) % Width]
    BY <1>10, MadeOf DEF value
  <2>2. Table!Changed(n) = [sm EXCEPT !.line = @ + value]
    BY <1>4, <1>10, ChangedOf
  <2>3. Table!Changed(n).line = sm.line + value
    BY <1>1, <2>2 DEF Row
  <2> DEFINE x == sm.line + value
  <2>4. x % Width = x
    BY <1>3, <2>3, Fits
  <2>5. Made(n) = [sm EXCEPT !.line = x % Width] /\ Table!Changed(n) = [sm EXCEPT !.line = x]
    BY <1>1, <2>1, <2>2 DEF Row
  <2> HIDE DEF x
  <2> QED BY <2>4, <2>5 DEF n
<1>11. CASE n.op = "set_file"
  <2>1. Made(n) = [sm EXCEPT !.file = value % Width]
    BY <1>11, MadeOf DEF value
  <2>2. Table!Changed(n) = [sm EXCEPT !.file = value]
    BY <1>4, <1>11, ChangedOf
  <2>3. Table!Changed(n).file = value
    BY <1>1, <2>2 DEF Row
  <2>4. value % Width = value
    BY <1>3, <2>3, Fits
  <2> QED BY <2>1, <2>2, <2>4 DEF n
<1>12. CASE n.op = "end_sequence"
  BY <1>12, MadeOf, ChangedOf DEF n
<1>13. CASE n.op \notin {"special", "advance_pc", "const_add_pc", "fixed_advance_pc",
                         "set_address", "advance_line", "set_file", "end_sequence"}
  BY <1>13, MadeOf, ChangedOf DEF n
<1> QED BY <1>5, <1>6, <1>7, <1>8, <1>9, <1>10, <1>11, <1>12, <1>13 DEF n

LEMMA StatusOf ==
  /\ Status["running"] = "running" /\ Status["states"] = "complete"
  /\ Status["DWARFException"] = "refused"
BY DEF Status

LEMMA TableStep ==
  ASSUME LineInv, [Next]_lineVars, Regular
  PROVE  [Table!Next]_(Table!vars)
<1>1. CASE Running /\ Round(Current) /\ Fixture /\ Current.op \in Table!Unsupported
  <2>1. outcome = "running" /\ done < Len(instrs)
    BY <1>1, RunningOutcome, Here
  <2>2. /\ outcome' = "DWARFException" /\ UNCHANGED <<i, sm, states, done>>
        /\ UNCHANGED <<lconf, instrs>>
    BY <1>1, Refusal DEF Fixture
  <2>3. Table!Refuse
    BY <1>1, <2>1, <2>2, StatusOf DEF Table!Refuse, Current
  <2> QED BY <2>3 DEF Table!Next
<1>2. CASE Running /\ Round(Current) /\ Fixture /\ Current.op \notin Table!Unsupported
  <2>1. outcome = "running" /\ done < Len(instrs)
    BY <1>2, RunningOutcome, Here
  <2>2. /\ done' = done + 1 /\ UNCHANGED outcome
        /\ states' = IF Current.op \in {"copy", "special", "end_sequence"}
                     THEN Append(states, Made(Current)) ELSE states
        /\ sm' = IF Current.op = "end_sequence" THEN reset_machine ELSE Made(Current)
        /\ UNCHANGED <<lconf, instrs>>
    BY <1>2, Doing DEF Fixture
  <2>3. Made(Current) = Table!Changed(Current)
    BY <1>2, MadeSame
  <2>4. reset_machine = Table!Initial
    BY DEF reset_machine, Table!Initial
  <2>5. Table!Execute
    BY <1>2, <2>1, <2>2, <2>3, <2>4, StatusOf DEF Table!Execute, Current
  <2> QED BY <2>5 DEF Table!Next
<1>3. CASE run_machine_end
  <2>1. /\ outcome = "running" /\ outcome' = "states"
        /\ UNCHANGED <<lconf, instrs, program, i, sm, states, done>>
    BY <1>3 DEF run_machine_end
  <2>2. done = Len(instrs)
    BY <1>3, Finished
  <2>3. Table!Complete
    BY <2>1, <2>2, StatusOf DEF Table!Complete
  <2> QED BY <2>3 DEF Table!Next
<1>4. CASE UNCHANGED lineVars
  BY <1>4 DEF lineVars, Table!vars
<1>5. run_machine \/ UNCHANGED lineVars
  BY DEF Next, LineTerminated
<1> QED BY <1>1, <1>2, <1>3, <1>4, <1>5, Rounds

\* Every round of run_machine (dwarf_state_machine.c:228-257) does what the
\* standard says of the instruction it is at, as long as that one's operand is
\* one read_leb128 reads right and the registers hold what comes of it.
THEOREM LineInStep == Spec => InStep
<1>1. LineInv /\ [Next]_lineVars => [Regular => Table!Next]_(Table!vars)
  BY TableStep
<1> QED BY <1>1, LineInvariant, PTL DEF Spec, InStep

\* A program whose operands are all read right is executed as the standard
\* says from its first instruction to the end or the refusal: safety; that
\* the end comes is left to model checking.
THEOREM LineTableSafe ==
  Spec /\ []Regular => Table!Init /\ [][Table!Next]_(Table!vars)
<1>1. Init => Table!Init
  BY StatusOf DEF Init, Table!Init, reset_machine, Table!Initial
<1>2. LineInv /\ [Next]_lineVars /\ Regular => [Table!Next]_(Table!vars)
  BY TableStep
<1> QED BY <1>1, <1>2, LineInvariant, PTL DEF Spec

-----------------------------------------------------------------------------
(* What list looks an address up as. *)

LEMMA ApartWithin ==
  ASSUME Table!Apart, NEW j \in DOMAIN states, NEW k \in DOMAIN states,
         Table!SequenceOf(j) = Table!SequenceOf(k), j < k
  PROVE  states[j].address <= states[k].address
BY DEF Table!Apart

LEMMA ApartAcross ==
  ASSUME Table!Apart, NEW j \in DOMAIN states, NEW k \in DOMAIN states,
         NEW l \in DOMAIN states, NEW m \in DOMAIN states,
         Table!SequenceOf(j) # Table!SequenceOf(k), states[j].address < states[k].address,
         Table!SequenceOf(l) = Table!SequenceOf(j), Table!SequenceOf(m) = Table!SequenceOf(k)
  PROVE  states[l].address <= states[m].address
BY DEF Table!Apart

\* No row from j on to before k ends a sequence: k is in that of j.
LEMMA SameSequence ==
  ASSUME NEW j \in Nat, NEW k \in Nat, j <= k,
         \A m \in j .. k - 1 : ~states[m].end_sequence
  PROVE  Table!SequenceOf(j) = Table!SequenceOf(k)
<1>1. {m \in 1 .. j - 1 : states[m].end_sequence} = {m \in 1 .. k - 1 : states[m].end_sequence}
  <2>1. ASSUME NEW m \in 1 .. k - 1, states[m].end_sequence PROVE m \in 1 .. j - 1
    BY <2>1
  <2>2. \A m \in 1 .. j - 1 : m \in 1 .. k - 1
    OBVIOUS
  <2> QED BY <2>1, <2>2
<1> QED BY <1>1 DEF Table!SequenceOf

LEMMA RowsTyped ==
  ASSUME LineTypeOK
  PROVE  /\ Len(states) \in Nat /\ DOMAIN states = 1 .. Len(states) /\ Base \in Nat
         /\ \A j \in DOMAIN states : states[j].address \in Nat
<1>1. states \in Seq(Row)
  BY DEF LineTypeOK
<1>2. Len(states) \in Nat /\ DOMAIN states = 1 .. Len(states)
  BY <1>1
<1>3. \A j \in DOMAIN states : states[j] \in Row
  BY <1>1, <1>2
<1> QED BY <1>2, <1>3, LineAssumption DEF Row

\* An address a row is not above: the row found is the last of those at the
\* greatest address that is not above it.
LEMMA NearestFound ==
  ASSUME LineTypeOK, NEW a \in Int, NEW k \in DOMAIN states, Base + states[k].address <= a
  PROVE  LET n == get_nearest_state(a) IN
         /\ n \in DOMAIN states /\ n # 0 /\ Base + states[n].address <= a
         /\ states[k].address <= states[n].address
         /\ states[k].address = states[n].address => k <= n
<1> DEFINE n == get_nearest_state(a)
           D == {addr_dist(j, a) : j \in Reached(a)}
<1>1. /\ Len(states) \in Nat /\ DOMAIN states = 1 .. Len(states) /\ Base \in Nat
      /\ \A j \in DOMAIN states : states[j].address \in Nat
  BY RowsTyped
<1>2. k \in Reached(a) /\ Reached(a) \subseteq DOMAIN states
  BY DEF Reached
<1>3. \A j \in Reached(a) : addr_dist(j, a) \in Nat /\ addr_dist(j, a) = a - (Base + states[j].address)
  BY <1>1, <1>2 DEF Reached, addr_dist
<1>4. D \subseteq Nat /\ D # {}
  BY <1>2, <1>3
<1>5. Min(D) \in D /\ \A d \in D : Min(D) <= d
  <2> HIDE DEF D
  <2> QED BY <1>4, LeastElement
<1>6. PICK least \in Reached(a) : addr_dist(least, a) = Min(D)
  BY <1>5
<1>7. \A j \in Reached(a) : addr_dist(least, a) <= addr_dist(j, a)
  BY <1>5, <1>6
<1> HIDE DEF D
<1>8. least \in Nearest(a) /\ Nearest(a) # {} /\ Nearest(a) \subseteq 1 .. Len(states)
  BY <1>1, <1>2, <1>7 DEF Nearest
<1>9. n = Max(Nearest(a))
  BY <1>8 DEF get_nearest_state
<1>10. Max(Nearest(a)) \in Nearest(a) /\ \A j \in Nearest(a) : j <= Max(Nearest(a))
  BY <1>1, <1>8, GreatestElement
<1> HIDE DEF n
<1>11. /\ n \in Reached(a) /\ \A j \in Reached(a) : addr_dist(n, a) <= addr_dist(j, a)
       /\ \A j \in Nearest(a) : j <= n
  BY <1>9, <1>10 DEF Nearest
<1>12. n \in DOMAIN states /\ Base + states[n].address <= a
  BY <1>11 DEF Reached
<1>13. states[k].address <= states[n].address
  <2>1. a - (Base + states[n].address) <= a - (Base + states[k].address)
    BY <1>2, <1>3, <1>11
  <2> QED BY <1>1, <1>12, <2>1
<1>14. states[k].address = states[n].address => k <= n
  <2> SUFFICES ASSUME states[k].address = states[n].address PROVE k <= n
    OBVIOUS
  <2>1. addr_dist(k, a) = addr_dist(n, a)
    BY DEF addr_dist
  <2>2. k \in Nearest(a)
    BY <1>2, <1>11, <2>1 DEF Nearest
  <2> QED BY <1>11, <2>2
<1>15. n # 0
  BY <1>1, <1>12
<1> QED BY <1>12, <1>13, <1>14, <1>15 DEF n

LEMMA AddressesWhole == LineTypeOK => Addresses \subseteq Int
<1> SUFFICES ASSUME LineTypeOK, NEW a \in Addresses PROVE a \in Int
  OBVIOUS
<1>1. /\ Base \in Nat /\ \A j \in DOMAIN states : states[j].address \in Nat
  BY RowsTyped
<1>2. PICK x \in {0} \cup UNION {{m.address - 1, m.address, m.address + 1} :
                                 m \in {states[k] : k \in DOMAIN states}} : a = Base + x
  BY DEF Addresses
<1>3. x \in Int
  <2>1. CASE x = 0
    BY <2>1
  <2>2. CASE x # 0
    <3>1. PICK k \in DOMAIN states :
            x \in {states[k].address - 1, states[k].address, states[k].address + 1}
      BY <1>2, <2>2
    <3> QED BY <1>1, <3>1
  <2> QED BY <2>1, <2>2
<1> QED BY <1>1, <1>2, <1>3

\* The first end of a sequence from n on.
LEMMA FirstEnd ==
  ASSUME LineTypeOK, Table!Ended, NEW n \in DOMAIN states
  PROVE  \E e \in DOMAIN states :
           n <= e /\ states[e].end_sequence /\ Table!SequenceOf(e) = Table!SequenceOf(n)
<1> DEFINE E == {e \in n .. Len(states) : states[e].end_sequence}
<1>1. Len(states) \in Nat /\ DOMAIN states = 1 .. Len(states) /\ n \in Nat
  BY RowsTyped
<1>2. states[Len(states)].end_sequence
  <2>1. states # <<>>
    BY <1>1
  <2> QED BY <2>1 DEF Table!Ended
<1>3. E \subseteq Nat /\ Len(states) \in E
  BY <1>1, <1>2
<1>4. Min(E) \in E /\ \A e \in E : Min(E) <= e
  <2>1. E # {}
    BY <1>3
  <2> HIDE DEF E
  <2> QED BY <1>3, <2>1, LeastElement
<1> DEFINE e == Min(E)
<1>5. e \in n .. Len(states) /\ states[e].end_sequence
  BY <1>4
<1>6. ASSUME NEW m \in n .. e - 1 PROVE ~states[m].end_sequence
  <2>1. m \notin E
    <3> HIDE DEF E
    <3>1. e \in Nat /\ m < e /\ m \in Nat
      <4>1. e \in Nat
        BY <1>3, <1>4
      <4> HIDE DEF e
      <4> QED BY <1>1, <4>1
    <3>2. ~(e <= m)
      <4> HIDE DEF e
      <4> QED BY <3>1
    <3> QED BY <1>4, <3>2
  <2>2. m \in n .. Len(states)
    <3> HIDE DEF e, E
    <3> QED BY <1>1, <1>5
  <2> QED BY <2>1, <2>2
<1> HIDE DEF e, E
<1>7. e \in Nat /\ n <= e /\ e \in DOMAIN states
  BY <1>1, <1>5
<1>8. Table!SequenceOf(n) = Table!SequenceOf(e)
  BY <1>1, <1>6, <1>7, SameSequence
<1> QED BY <1>5, <1>7, <1>8

LEMMA CoveringShown ==
  ASSUME LineTypeOK, Table!Ended, Table!Apart, NEW a \in Int, NEW k \in DOMAIN states,
         Table!Covers(k, a - Base)
  PROVE  LET n == get_nearest_state(a) IN
         \/ n # 0 /\ n = k
         \/ \E j \in k + 1 .. Len(states) :
              states[j].end_sequence /\ states[j].address = states[k].address
<1> DEFINE n == get_nearest_state(a)
           at(j) == states[j].address
           S(j) == Table!SequenceOf(j)
<1>1. /\ Len(states) \in Nat /\ DOMAIN states = 1 .. Len(states) /\ Base \in Nat
      /\ \A j \in DOMAIN states : at(j) \in Nat
  BY RowsTyped
<1>2. /\ ~states[k].end_sequence /\ k + 1 \in DOMAIN states
      /\ at(k) <= a - Base /\ a - Base < at(k + 1)
  BY DEF Table!Covers
<1>3. Base + at(k) <= a /\ k \in Nat
  BY <1>1, <1>2
<1>4. /\ n \in DOMAIN states /\ n # 0 /\ Base + at(n) <= a
      /\ at(k) <= at(n) /\ (at(k) = at(n) => k <= n)
  BY <1>3, NearestFound
<1>5. S(k) = S(k + 1)
  <2>1. \A m \in k .. (k + 1) - 1 : m = k
    BY <1>3
  <2>2. k + 1 \in Nat /\ k <= k + 1
    BY <1>3
  <2> QED BY <1>2, <1>3, <2>1, <2>2, SameSequence
<1> HIDE DEF n
<1>6. at(n) \in Nat /\ at(k) \in Nat /\ at(k + 1) \in Nat /\ n \in Nat
  BY <1>1, <1>2, <1>4
<1>7. at(n) < at(k + 1) /\ at(k) < at(k + 1)
  BY <1>1, <1>2, <1>4, <1>6
<1>8. CASE S(n) = S(k)
  <2>1. ~(k + 1 < n)
    <3>1. k + 1 < n => at(k + 1) <= at(n)
      BY <1>2, <1>4, <1>5, <1>8, ApartWithin
    <3> QED BY <1>6, <1>7, <3>1
  <2>2. n # k + 1
    BY <1>6, <1>7
  <2>3. ~(n < k)
    <3>1. n < k => at(n) <= at(k)
      BY <1>4, <1>8, ApartWithin
    <3>2. n < k => at(n) = at(k)
      BY <1>4, <1>6, <3>1
    <3> QED BY <1>3, <1>4, <1>6, <3>2
  <2>4. n = k
    BY <1>3, <1>6, <2>1, <2>2, <2>3
  <2> QED BY <1>4, <2>4 DEF n
<1>9. CASE S(n) # S(k)
  <2>1. at(n) = at(k)
    <3>1. at(k) < at(n) => at(k + 1) <= at(n)
      BY <1>2, <1>4, <1>5, <1>9, ApartAcross
    <3> QED BY <1>4, <1>6, <1>7, <3>1
  <2>2. k < n
    <3>1. n # k
      BY <1>9
    <3> QED BY <1>3, <1>4, <1>6, <2>1, <3>1
  <2>3. PICK e \in DOMAIN states : n <= e /\ states[e].end_sequence /\ S(e) = S(n)
    BY <1>4, FirstEnd
  <2>4. at(e) <= at(k)
    BY <1>2, <1>4, <1>5, <1>7, <1>9, <2>3, ApartAcross
  <2>5. e \in Nat /\ at(e) \in Nat
    BY <1>1, <2>3
  <2>6. at(n) <= at(e)
    <3>1. n < e => at(n) <= at(e)
      BY <1>4, <2>3, ApartWithin
    <3>2. n = e => at(n) <= at(e)
      BY <1>6
    <3> QED BY <1>6, <2>3, <2>5, <3>1, <3>2
  <2>7. at(e) = at(k)
    BY <1>6, <2>1, <2>4, <2>5, <2>6
  <2>8. e \in k + 1 .. Len(states)
    BY <1>1, <1>3, <1>6, <2>2, <2>3, <2>5
  <2> QED BY <2>3, <2>7, <2>8
<1> QED BY <1>8, <1>9

\* The line `list' prints is that of the row that stands for rip: the two
\* sequences of the exception are the only case where the nearest row is not it.
THEOREM ListCovers == Spec => []ListShowsCovering
<1>1. LineTypeOK => ListShowsCovering
  <2> SUFFICES ASSUME LineTypeOK, Table!Ended, Table!Apart, NEW a \in Addresses,
                      NEW k \in DOMAIN states, Table!Covers(k, a - Base)
               PROVE  \/ LET n == get_nearest_state(a) IN n # 0 /\ states[n] = states[k]
                      \/ \E j \in k + 1 .. Len(states) :
                           states[j].end_sequence /\ states[j].address = states[k].address
    BY DEF ListShowsCovering
  <2>1. a \in Int
    BY AddressesWhole
  <2> QED BY <2>1, CoveringShown
<1> QED BY <1>1, LineTypes, PTL

-----------------------------------------------------------------------------
(* The files and the directories list looks up. *)

FilesDeclared ==
  /\ sm.file \in 0 .. Len(Files)
  /\ \A k \in DOMAIN states : states[k].file \in 0 .. Len(Files)

LEMMA FilesCount ==
  ASSUME Declared
  PROVE  /\ Len(Files) \in Nat /\ 1 <= Len(Files) /\ Len(Files) <= 255
         /\ 1 \in 0 .. Len(Files)
<1> DEFINE count == Len(Files)
<1>1. count \in 1 .. 255
  BY DEF Declared
<1> HIDE DEF count
<1>2. count \in Nat /\ 1 <= count /\ count <= 255 /\ 1 \in 0 .. count
  BY <1>1
<1> QED BY <1>2 DEF count

LEMMA FilesInit ==
  ASSUME Declared, Init
  PROVE  FilesDeclared
<1>1. sm.file = 1 /\ DOMAIN states = {}
  BY DEF Init, reset_machine
<1> QED BY <1>1, FilesCount DEF FilesDeclared

\* What an instruction makes of the file register: only set_file writes it.
LEMMA MadeFile ==
  ASSUME Declared, LineInv, Running, FilesDeclared
  PROVE  Made(Current).file \in 0 .. Len(Files)
<1> DEFINE n == Current
           value == read_leb128(i + 1)
<1>1. sm \in Row /\ lconf \in HeaderType /\ n \in Instructions
  BY Here DEF LineInv, LineTypeOK
<1>2. sm.file \in 0 .. Len(Files)
  BY DEF FilesDeclared
<1>3. n.op \in {"advance_pc", "set_file", "advance_line"} => value \in Nat
  BY OperandRead
<1> HIDE DEF value
<1>4. CASE n.op = "set_file"
  <2>1. n.arg \in 0 .. Len(Files) /\ Len(Files) \in 1 .. 255 /\ Len(Files) < Width
    <3>1. instrs \in Programs /\ instrs \in Seq(Instructions)
      BY DEF LineInv, LineTypeOK
    <3>2. done + 1 \in DOMAIN instrs
      <4>1. done \in Nat /\ done < Len(instrs) /\ Len(instrs) \in Nat
        BY <3>1, Here
      <4> QED BY <3>1, <4>1
    <3> QED BY <1>4, <3>1, <3>2 DEF Declared, Current
  <2>2. n.arg < 128 \/ (n.arg \div 128) % 2 = 1
    <3> DEFINE x == n.arg
               count == Len(Files)
    <3>1. x \in 0 .. count /\ count \in Nat /\ count <= 255
      BY <2>1, FilesCount
    <3> HIDE DEF x, count
    <3>2. x >= 128 => x \div 128 = 1
      BY <3>1
    <3>3. x < 128 \/ (x \div 128) % 2 = 1
      BY <3>1, <3>2
    <3> QED BY <3>3 DEF x
  <2>3. ReadRight(n)
    BY <1>4, <2>2 DEF ReadRight
  <2>4. value = n.arg
    BY <1>4, <2>3, OperandRead DEF value
  <2>5. value \in 0 .. Width - 1
    <3>1. Width \in Nat
      BY LineAssumption
    <3>2. value \in 0 .. Len(Files) /\ Len(Files) \in 1 .. 255 /\ Len(Files) < Width
      BY <2>1, <2>4
    <3> QED BY <3>1, <3>2
  <2>6. value % Width = value
    BY <2>5, Fits
  <2>7. Made(n) = [sm EXCEPT !.file = value % Width]
    BY <1>4, MadeOf DEF value
  <2>8. Made(n).file = value
    BY <1>1, <2>6, <2>7 DEF Row
  <2> QED BY <2>1, <2>4, <2>8
<1>5. CASE n.op = "special"
  <2> DEFINE x == n.arg
             range == lconf.line_range
  <2>1. range \in Nat \ {0}
    BY <1>1 DEF HeaderType
  <2>2. x \div range \in Nat
    <3>1. x \in 0 .. 254
      BY <1>1, <1>5, OperandFits, OperandsOf, Zenon
    <3> HIDE DEF x, range
    <3>2. x \in Nat
      BY <3>1
    <3> QED BY <2>1, <3>2
  <2>3. Adding(sm, n) \in Row /\ Adding(sm, n).file = sm.file
    <3>1. Adding(sm, n) \in Row
      BY <1>1, AddingType
    <3>2. Adding(sm, n).file = sm.file
      BY <1>1 DEF Adding, Row
    <3> QED BY <3>1, <3>2
  <2>4. Made(n) = advance_addr_and_op_index(Adding(sm, n), n.arg \div lconf.line_range)
    BY <1>5, MadeOf
  <2>5. Made(n).file = sm.file
    BY <2>2, <2>3, <2>4, Advanced
  <2> QED BY <1>2, <2>5
<1>6. CASE n.op = "advance_pc"
  <2>1. Made(n) = advance_addr_and_op_index(sm, value)
    BY <1>6, MadeOf DEF value
  <2>2. Made(n).file = sm.file
    BY <1>1, <1>3, <1>6, <2>1, Advanced
  <2> QED BY <1>2, <2>2
<1>7. CASE n.op = "const_add_pc"
  <2> DEFINE k == (255 - lconf.opcode_base) \div lconf.line_range
  <2>1. k \in Nat
    <3>1. lconf.line_range \in Nat \ {0} /\ 255 - lconf.opcode_base \in Nat
      BY <1>1 DEF HeaderType
    <3> QED BY <3>1
  <2>2. Made(n) = advance_addr_and_op_index(sm, k)
    BY <1>7, MadeOf
  <2> HIDE DEF k
  <2>3. Made(n).file = sm.file
    BY <1>1, <2>1, <2>2, Advanced
  <2> QED BY <1>2, <2>3
<1>8. CASE n.op \in {"fixed_advance_pc", "set_address", "advance_line", "end_sequence"}
  <2>1. \/ Made(n) = [sm EXCEPT !.address = @ + n.arg, !.op_index = 0]
        \/ Made(n) = [sm EXCEPT !.address = n.arg, !.op_index = 0]
        \/ Made(n) = [sm EXCEPT !.line = (@ + value) % Width]
        \/ Made(n) = [sm EXCEPT !.end_sequence = TRUE]
    BY <1>8, MadeOf DEF value
  <2>2. Made(n).file = sm.file
    BY <1>1, <2>1 DEF Row
  <2> QED BY <1>2, <2>2
<1>9. CASE n.op \notin {"special", "advance_pc", "const_add_pc", "fixed_advance_pc",
                        "set_address", "advance_line", "set_file", "end_sequence"}
  BY <1>2, <1>9, MadeOf
<1> QED BY <1>4, <1>5, <1>6, <1>7, <1>8, <1>9

LEMMA FilesStep ==
  ASSUME Declared, LineInv, FilesDeclared, [Next]_lineVars
  PROVE  FilesDeclared'
<1>1. CASE Running /\ Round(Current) /\ Current.op \notin Table!Unsupported
  <2> DEFINE m == Made(Current)
  <2>1. m.file \in 0 .. Len(Files)
    BY <1>1, MadeFile
  <2>2. /\ states' = states \/ states' = Append(states, m)
        /\ sm' = reset_machine \/ sm' = m
    BY <1>1, Doing
  <2>3. states \in Seq(Row) /\ m \in Row
    BY <1>1, MadeType DEF LineInv, LineTypeOK
  <2>4. reset_machine.file \in 0 .. Len(Files)
    BY FilesCount DEF reset_machine
  <2> HIDE DEF m
  <2>5. ASSUME NEW k \in DOMAIN states' PROVE states'[k].file \in 0 .. Len(Files)
    <3>1. CASE states' = states
      BY <2>5, <3>1 DEF FilesDeclared
    <3>2. CASE states' = Append(states, m)
      <4>1. /\ Len(states) \in Nat /\ DOMAIN states = 1 .. Len(states)
            /\ DOMAIN states' = 1 .. Len(states) + 1
            /\ states'[Len(states) + 1] = m
            /\ \A j \in 1 .. Len(states) : states'[j] = states[j]
        BY <2>3, <3>2
      <4>2. k = Len(states) + 1 \/ k \in DOMAIN states
        BY <2>5, <4>1
      <4> QED BY <2>1, <4>1, <4>2 DEF FilesDeclared
    <3> QED BY <2>2, <3>1, <3>2
  <2>6. sm'.file \in 0 .. Len(Files)
    BY <2>1, <2>2, <2>4
  <2> QED BY <2>5, <2>6 DEF FilesDeclared
<1>2. CASE Running /\ Round(Current) /\ Current.op \in Table!Unsupported
  <2>1. UNCHANGED <<sm, states>>
    BY <1>2, Refusal
  <2> QED BY <2>1 DEF FilesDeclared
<1>3. CASE run_machine_end \/ UNCHANGED lineVars
  <2>1. UNCHANGED <<sm, states>>
    BY <1>3 DEF run_machine_end, lineVars
  <2> QED BY <2>1 DEF FilesDeclared
<1>4. run_machine \/ UNCHANGED lineVars
  BY DEF Next, LineTerminated
<1> QED BY <1>1, <1>2, <1>3, <1>4, Rounds

\* What list prints of the row it found.
LEMMA Printed ==
  ASSUME NEW a, get_nearest_state(a) # 0
  PROVE  LET file == states[get_nearest_state(a)].file IN
         /\ file = 0 => print_line_at_addr(a).why = "DWARFException"
         /\ file \in 1 .. Len(Files) /\ ~(file > Len(Files)) /\ ~(Files[file] > Directories + 1) =>
              /\ print_line_at_addr(a).why = ""
              /\ print_line_at_addr(a).line = states[get_nearest_state(a)].line
<1> DEFINE near == get_nearest_state(a)
           file == states[near].file
           outside == file > Len(Files) \/ Files[file] > Directories + 1
           none == Nothing("DWARFException")
           found == [why |-> "", file |-> file, dir |-> Files[file], line |-> states[near].line]
<1>1. print_line_at_addr(a) =
        IF near = 0 THEN Nothing("No line found")
        ELSE IF file = 0 THEN none
        ELSE IF outside THEN Nothing("segv")
        ELSE found
  BY DEF print_line_at_addr
<1>2. none.why = "DWARFException" /\ found.why = "" /\ found.line = states[near].line
  BY DEF Nothing
<1>3. file \in 1 .. Len(Files) => file # 0
  OBVIOUS
<1>4. near # 0
  OBVIOUS
<1>5. ~(file > Len(Files)) /\ ~(Files[file] > Directories + 1) => ~outside
  OBVIOUS
<1> HIDE DEF near, outside, none, found
<1>6. file = 0 => print_line_at_addr(a) = none
  BY <1>1, <1>4
<1>7. file # 0 /\ ~outside => print_line_at_addr(a) = found
  BY <1>1, <1>4
<1> QED BY <1>2, <1>3, <1>5, <1>6, <1>7 DEF near

LEMMA FoundFile ==
  ASSUME Declared, LineTypeOK, FilesDeclared, NEW a, get_nearest_state(a) \in DOMAIN states,
         get_nearest_state(a) # 0
  PROVE  \/ states[get_nearest_state(a)].file = 0 /\ print_line_at_addr(a).why = "DWARFException"
         \/ /\ print_line_at_addr(a).why = ""
            /\ print_line_at_addr(a).line = states[get_nearest_state(a)].line
<1> DEFINE file == states[get_nearest_state(a)].file
           count == Len(Files)
<1>1. file \in 0 .. count /\ count \in Nat
  BY FilesCount DEF FilesDeclared
<1>2. Files \in Seq(0 .. Directories) /\ Directories \in Nat
  BY LineAssumption DEF Declared
<1>3. CASE file = 0
  BY <1>3, Printed
<1>4. CASE file # 0
  <2> HIDE DEF file
  <2>1. file \in 1 .. count /\ ~(file > count)
    <3> HIDE DEF count
    <3> QED BY <1>1, <1>4
  <2>2. Files[file] \in 0 .. Directories
    BY <1>2, <2>1
  <2>3. ~(Files[file] > Directories + 1)
    <3> DEFINE d == Files[file]
    <3>1. d \in 0 .. Directories
      BY <2>2
    <3> HIDE DEF d
    <3>2. ~(d > Directories + 1)
      BY <1>2, <3>1
    <3> QED BY <3>2 DEF d
  <2>4. file \in 1 .. Len(Files) /\ ~(file > Len(Files))
    BY <2>1 DEF count
  <2> QED BY <2>3, <2>4, Printed DEF file
<1> QED BY <1>3, <1>4

\* No row at all below the address.
LEMMA NothingFound ==
  ASSUME NEW a, get_nearest_state(a) = 0
  PROVE  print_line_at_addr(a).why = "No line found"
BY DEF print_line_at_addr, Nothing

LEMMA FoundRow ==
  ASSUME LineTypeOK, NEW a \in Int
  PROVE  get_nearest_state(a) = 0 \/ get_nearest_state(a) \in DOMAIN states
<1>1. CASE Reached(a) = {}
  BY <1>1 DEF Nearest, get_nearest_state
<1>2. CASE Reached(a) # {}
  <2>1. PICK k \in DOMAIN states : Base + states[k].address <= a
    BY <1>2 DEF Reached
  <2> QED BY <2>1, NearestFound
<1> QED BY <1>1, <1>2

\* A program that keeps to the tables its header declares, read by a reader
\* that takes no operand wrong below 256, never makes list read past them.
THEOREM ListFiles ==
  ASSUME Declared
  PROVE  Spec => []FilesInside
<1>1. Init => FilesDeclared
  BY FilesInit
<1>2. LineInv /\ FilesDeclared /\ [Next]_lineVars => FilesDeclared'
  BY FilesStep
<1>3. LineInv /\ FilesDeclared => FilesInside
  <2> SUFFICES ASSUME LineTypeOK, FilesDeclared, NEW a \in Addresses
               PROVE  print_line_at_addr(a).why # "segv"
    BY DEF FilesInside, LineInv
  <2>1. a \in Int
    BY AddressesWhole
  <2>2. CASE get_nearest_state(a) = 0
    BY <2>2, NothingFound
  <2>3. CASE get_nearest_state(a) # 0
    <3>1. get_nearest_state(a) \in DOMAIN states
      BY <2>1, <2>3, FoundRow
    <3> QED BY <2>3, <3>1, FoundFile
  <2> QED BY <2>2, <2>3
<1> QED BY <1>1, <1>2, <1>3, LineInvariant, PTL DEF Spec

\* The first row of a line.
LEMMA LineFound ==
  ASSUME LineTypeOK, NEW l, NEW r \in DOMAIN states, states[r].line = l
  PROVE  \E k \in DOMAIN states :
           states[k].line = l /\ get_line_address_internal(l) = Base + states[k].address
<1> DEFINE I == {j \in 1 .. Len(states) : states[j].line = l}
           k == SelectInSeq(states, LAMBDA m : m.line = l)
<1>1. DOMAIN states = 1 .. Len(states) /\ Len(states) \in Nat
  BY RowsTyped
<1>2. k = IF I # {} THEN Min(I) ELSE 0
  BY DEF SelectInSeq
<1>3. I \subseteq Nat /\ I # {}
  BY <1>1
<1>4. Min(I) \in I
  <2> HIDE DEF I
  <2> QED BY <1>3, LeastElement
<1>5. k \in I
  <2> HIDE DEF I, k
  <2> QED BY <1>2, <1>3, <1>4
<1>6. get_line_address_internal(l) =
        IF k = 0 THEN "DWARFException" ELSE Base + states[k].address
  BY DEF get_line_address_internal
<1> HIDE DEF k
<1>7. k \in DOMAIN states /\ states[k].line = l /\ k # 0
  BY <1>1, <1>5
<1> QED BY <1>6, <1>7

\* breakl stops where list shows the line that was asked for: list finds the
\* row breakl took its address from, or a later one at that address.
THEOREM BreaklLists ==
  ASSUME Declared
  PROVE  Spec => []BreaklThenList
<1>1. Init => FilesDeclared
  BY FilesInit
<1>2. LineInv /\ FilesDeclared /\ [Next]_lineVars => FilesDeclared'
  BY FilesStep
<1>3. LineInv /\ FilesDeclared => BreaklThenList
  <2> SUFFICES ASSUME LineTypeOK, FilesDeclared, NEW r \in DOMAIN states
               PROVE  LET l == states[r].line
                          shown == print_line_at_addr(get_line_address_internal(l))
                      IN \/ shown.line = l
                         \/ /\ shown.why = "DWARFException"
                            /\ \E k \in DOMAIN states : states[k].file = 0
                         \/ \E j, k \in DOMAIN states :
                              /\ j < k /\ states[j].line = l /\ states[k].line # l
                              /\ states[j].address = states[k].address
    BY DEF BreaklThenList, LineInv
  <2> DEFINE l == states[r].line
             a == get_line_address_internal(l)
             n == get_nearest_state(a)
  <2>1. PICK k \in DOMAIN states : states[k].line = l /\ a = Base + states[k].address
    BY LineFound
  <2>2. /\ Base \in Nat /\ \A j \in DOMAIN states : states[j].address \in Nat
        /\ DOMAIN states = 1 .. Len(states) /\ Len(states) \in Nat
    BY RowsTyped
  <2>3. a \in Int /\ Base + states[k].address <= a
    BY <2>1, <2>2
  <2> HIDE DEF a
  <2>4. /\ n \in DOMAIN states /\ n # 0 /\ Base + states[n].address <= a
        /\ states[k].address <= states[n].address
        /\ states[k].address = states[n].address => k <= n
    BY <2>3, NearestFound
  <2> HIDE DEF n
  <2>5. states[k].address = states[n].address
    BY <2>1, <2>2, <2>4
  <2>6. k <= n /\ k \in Nat /\ n \in Nat
    BY <2>2, <2>4, <2>5
  <2>7. \/ states[n].file = 0 /\ print_line_at_addr(a).why = "DWARFException"
        \/ print_line_at_addr(a).line = states[n].line
    BY <2>4, FoundFile DEF n
  <2>8. CASE states[n].line = l
    BY <2>4, <2>7, <2>8 DEF a
  <2>9. CASE states[n].line # l
    <3>1. k < n
      BY <2>1, <2>6, <2>9
    <3> QED BY <2>1, <2>4, <2>5, <2>9, <3>1
  <2> QED BY <2>8, <2>9
<1> QED BY <1>1, <1>2, <1>3, LineInvariant, PTL DEF Spec

====
