----------------------------- MODULE SymbolProofs -----------------------------
(***************************************************************************)
(* What breakf may be relied on for, for every program, every name and any *)
(* number of libraries.                                                    *)
(***************************************************************************)
EXTENDS SymbolProperties, WellFoundedInduction, TLAPS

(* Searches: the first index, in the sets they look through. *)

LEMMA LeastIndex ==
  ASSUME NEW S, S \subseteq Nat, S # {}
  PROVE  \E i \in S : \A j \in S : i <= j
<1>1. PICK i \in S : \A j \in S : ~(<<j, i>> \in OpToRel(<, Nat))
  BY WFMin, NatLessThanWellFounded
<1>2. \A j \in S : ~(j < i)
  BY <1>1 DEF OpToRel
<1> QED BY <1>2

LEMMA FirstIndex ==
  ASSUME NEW S, S \subseteq Nat, S # {}
  PROVE  FirstOf(S) \in S /\ \A j \in S : FirstOf(S) <= j
BY LeastIndex DEF FirstOf

LEMMA LeastElement ==
  ASSUME NEW S, S \subseteq Nat, S # {}
  PROVE  Min(S) \in S /\ \A j \in S : Min(S) <= j
<1> QED BY LeastIndex DEF Min

IsFunction(s) == s.kind = "FUNC" /\ s.name = function

LEMMA Table ==
  ASSUME NEW seq \in Seq(Symbols)
  PROVE  DOMAIN seq \subseteq Nat /\ \A j \in DOMAIN seq : seq[j].value \in Nat
<1>1. DOMAIN seq = 1 .. Len(seq) /\ \A j \in DOMAIN seq : seq[j] \in Symbols
  OBVIOUS
<1>2. \A s \in Symbols : s.value \in Nat
  BY DEF Symbols
<1> QED BY <1>1, <1>2

LEMMA Selected ==
  ASSUME NEW seq \in Seq(Symbols)
  PROVE  LET k == SelectInSeq(seq, LAMBDA s : s.kind = "FUNC" /\ s.name = function) IN
         \/ k = 0 /\ \A j \in DOMAIN seq : ~IsFunction(seq[j])
         \/ /\ k # 0 /\ k \in DOMAIN seq /\ IsFunction(seq[k])
            /\ \A j \in DOMAIN seq : IsFunction(seq[j]) => k <= j
<1> DEFINE I == {j \in 1 .. Len(seq) : seq[j].kind = "FUNC" /\ seq[j].name = function}
<1>1. DOMAIN seq = 1 .. Len(seq) /\ Len(seq) \in Nat
  OBVIOUS
<1>2. SelectInSeq(seq, LAMBDA s : s.kind = "FUNC" /\ s.name = function)
        = IF I # {} THEN Min(I) ELSE 0
  BY DEF SelectInSeq
<1>3. CASE I = {}
  BY <1>1, <1>2, <1>3 DEF IsFunction
<1>4. CASE I # {}
  <2>1. I \subseteq Nat /\ 0 \notin I
    OBVIOUS
  <2>2. Min(I) \in I /\ \A j \in I : Min(I) <= j
    BY <1>4, <2>1, LeastElement
  <2> HIDE DEF I
  <2>3. \A j \in DOMAIN seq : IsFunction(seq[j]) <=> j \in I
    BY <1>1 DEF I, IsFunction
  <2>4. I \subseteq DOMAIN seq
    BY <1>1 DEF I
  <2> QED BY <1>2, <1>4, <2>1, <2>2, <2>3, <2>4
<1> QED BY <1>3, <1>4

-----------------------------------------------------------------------------
(* What each search finds, and that it finds what is there. *)

LEMMA ImageFacts ==
  ASSUME image \in Images
  PROVE  /\ FileSymbols(image) \in Seq(Symbols) /\ ImportsFirst(FileSymbols(image))
         /\ \A m \in Objects : IsLinked(image.maps[m]) /\ image.maps[m].l_addr \in Nat
         /\ IsLoaded(image)
BY ImageAssumption DEF Objects

LEMMA MapFacts ==
  ASSUME image \in Images
  PROVE  /\ Objects = 1 .. Len(image.maps) /\ Len(image.maps) \in Nat
         /\ 1 \in Objects /\ Objects \subseteq Nat
<1> DEFINE maps == image.maps
<1>1. maps \in Seq(ToSet(maps)) /\ maps # <<>>
  BY ImageFacts DEF IsLoaded
<1>2. DOMAIN maps = 1 .. Len(maps) /\ Len(maps) \in Nat /\ Len(maps) # 0
  <2> HIDE DEF maps
  <2> QED BY <1>1
<1> QED BY <1>2 DEF Objects

\* The file: nothing is found where no function is, or where an import comes first.
LEMMA FileSearch ==
  ASSUME image \in Images
  PROVE  /\ get_address_exec \in Nat
         /\ get_address_exec = 0 => OfFile = {}
         /\ get_address_exec # 0 => \E s \in OfFile : get_address_exec = s.value
<1> DEFINE tables == FileSymbols(image)
           k == SelectInSeq(tables, LAMBDA s : s.kind = "FUNC" /\ s.name = function)
<1>1. tables \in Seq(Symbols) /\ ImportsFirst(tables)
  BY ImageFacts
<1>2. get_address_exec = IF k = 0 THEN 0 ELSE tables[k].value
  BY DEF get_address_exec
<1>3. \/ k = 0 /\ \A j \in DOMAIN tables : ~IsFunction(tables[j])
      \/ /\ k # 0 /\ k \in DOMAIN tables /\ IsFunction(tables[k])
         /\ \A j \in DOMAIN tables : IsFunction(tables[j]) => k <= j
  BY <1>1, Selected
<1>4. /\ \A s \in Functions(InFile) : \E j \in DOMAIN tables :
           tables[j] = s /\ IsFunction(s) /\ s.value # 0
      /\ Imported => \E j \in DOMAIN tables : IsFunction(tables[j]) /\ tables[j].value = 0
  BY DEF InFile, Functions, Imported, ToSet, IsFunction
<1>5. \A j \in DOMAIN tables : IsFunction(tables[j]) /\ tables[j].value # 0 =>
        tables[j] \in Functions(InFile)
  BY DEF InFile, Functions, ToSet, IsFunction
<1>6. \A j \in DOMAIN tables : IsFunction(tables[j]) /\ tables[j].value = 0 => Imported
  BY DEF Imported, ToSet, IsFunction
<1>7. DOMAIN tables \subseteq Nat /\ \A j \in DOMAIN tables : tables[j].value \in Nat
  BY <1>1, Table
<1> HIDE DEF tables, k
<1>8. CASE k = 0
  BY <1>2, <1>3, <1>4, <1>8 DEF OfFile
<1>9. CASE k # 0 /\ tables[k].value = 0
  BY <1>2, <1>3, <1>6, <1>9 DEF OfFile
<1>10. CASE k # 0 /\ tables[k].value # 0
  <2>1. ~Imported
    <3> SUFFICES ASSUME NEW j \in DOMAIN tables, IsFunction(tables[j]), tables[j].value = 0
                 PROVE  FALSE
      BY <1>4
    <3>1. j < k /\ k <= j
      BY <1>1, <1>3, <1>10 DEF ImportsFirst, IsFunction
    <3> QED BY <1>3, <1>7, <1>10, <3>1
  <2> QED BY <1>2, <1>3, <1>5, <1>7, <1>10, <2>1 DEF OfFile
<1> QED BY <1>8, <1>9, <1>10

\* The symbols of an object, by index.
LEMMA SymtabElements ==
  ASSUME NEW o, IsLinked(o)
  PROVE  /\ Symtab(o) \in Seq(Symbols)
         /\ \A k \in DOMAIN Symtab(o) :
              \/ Symtab(o)[k] = NullSymbol
              \/ \E j \in DOMAIN o.imports : Symtab(o)[k] = o.imports[j]
              \/ \E j \in DOMAIN o.exports : Symtab(o)[k] = o.exports[j]
         /\ \A j \in DOMAIN o.exports :
              /\ Len(o.imports) + 1 + j \in DOMAIN Symtab(o)
              /\ Symtab(o)[Len(o.imports) + 1 + j] = o.exports[j]
<1>1. o.imports \in Seq(Symbols) /\ o.exports \in Seq(Symbols)
  BY DEF IsLinked
<1>2. NullSymbol \in Symbols
  <2>1. NullSymbol = [name |-> "", kind |-> "NOTYPE", value |-> 0]
    BY DEF NullSymbol, Symbol
  <2>2. [name |-> "", kind |-> "NOTYPE", value |-> 0] \in Symbols
    BY DEF Symbols
  <2> QED BY <2>1, <2>2
<1> DEFINE I == o.imports  E == o.exports
<1> HIDE DEF I, E
<1>3. Symtab(o) = <<NullSymbol>> \o I \o E
  BY DEF Symtab, I, E
<1>4. I \in Seq(Symbols) /\ E \in Seq(Symbols)
  BY <1>1 DEF I, E
<1>5. Symtab(o) \in Seq(Symbols) /\ Len(Symtab(o)) = 1 + Len(I) + Len(E)
  BY <1>2, <1>3, <1>4
<1>6. \A k \in DOMAIN Symtab(o) :
        Symtab(o)[k] = IF k = 1 THEN NullSymbol
                       ELSE IF k <= 1 + Len(I) THEN I[k - 1] ELSE E[k - 1 - Len(I)]
  BY <1>2, <1>3, <1>4, <1>5
<1>7. ASSUME NEW k \in DOMAIN Symtab(o)
      PROVE  \/ Symtab(o)[k] = NullSymbol
             \/ \E j \in DOMAIN I : Symtab(o)[k] = I[j]
             \/ \E j \in DOMAIN E : Symtab(o)[k] = E[j]
  <2>1. k \in 1 .. 1 + Len(I) + Len(E) /\ Len(I) \in Nat /\ Len(E) \in Nat
    BY <1>4, <1>5
  <2>2. CASE k = 1
    BY <1>6, <2>2
  <2>3. CASE k # 1 /\ k <= 1 + Len(I)
    <3>1. k - 1 \in DOMAIN I
      BY <1>4, <2>1, <2>3
    <3> QED BY <1>6, <2>3, <3>1
  <2>4. CASE k > 1 + Len(I)
    <3>1. k - 1 - Len(I) \in DOMAIN E /\ k # 1 /\ ~(k <= 1 + Len(I))
      BY <1>4, <2>1, <2>4
    <3> QED BY <1>6, <3>1
  <2> QED BY <2>1, <2>2, <2>3, <2>4
<1>8. ASSUME NEW j \in DOMAIN E
      PROVE  Len(I) + 1 + j \in DOMAIN Symtab(o) /\ Symtab(o)[Len(I) + 1 + j] = E[j]
  <2>1. j \in 1 .. Len(E) /\ Len(I) \in Nat /\ Len(E) \in Nat
    BY <1>4
  <2>2. Len(I) + 1 + j \in DOMAIN Symtab(o)
    BY <1>5, <2>1
  <2>3. Len(I) + 1 + j # 1 /\ ~(Len(I) + 1 + j <= 1 + Len(I))
        /\ (Len(I) + 1 + j) - 1 - Len(I) = j
    BY <2>1
  <2> QED BY <1>6, <2>2, <2>3
<1> QED BY <1>5, <1>7, <1>8 DEF I, E

\* All symbols of an object: an import has no value, and hides no export.
LEMMA DynSearch ==
  ASSUME NEW o, IsLinked(o)
  PROVE  /\ get_address_dyn(function, o) \in Nat
         /\ get_address_dyn(function, o) = 0 => Functions(Exported(o)) = {}
         /\ get_address_dyn(function, o) # 0 =>
              \E s \in Functions(Exported(o)) : get_address_dyn(function, o) = s.value
<1> DEFINE table == Symtab(o)
           k == SelectInSeq(table, LAMBDA s : s.kind = "FUNC" /\ s.name = function)
<1>1. table \in Seq(Symbols)
  BY SymtabElements
<1>2. get_address_dyn(function, o) = IF k = 0 THEN 0 ELSE table[k].value
  BY DEF get_address_dyn
<1>3. \/ k = 0 /\ \A j \in DOMAIN table : ~IsFunction(table[j])
      \/ /\ k # 0 /\ k \in DOMAIN table /\ IsFunction(table[k])
         /\ \A j \in DOMAIN table : IsFunction(table[j]) => k <= j
  BY <1>1, Selected
<1>4. DOMAIN table \subseteq Nat /\ \A j \in DOMAIN table : table[j].value \in Nat
  BY <1>1, Table
<1>5. \A j \in DOMAIN o.exports : \E i \in DOMAIN table : table[i] = o.exports[j]
  BY SymtabElements
<1>6. \A i \in DOMAIN table : IsFunction(table[i]) =>
        \/ \E j \in DOMAIN o.imports : table[i] = o.imports[j]
        \/ \E j \in DOMAIN o.exports : table[i] = o.exports[j]
  <2>1. ~IsFunction(NullSymbol)
    BY DEF IsFunction, NullSymbol, Symbol
  <2> QED BY <2>1, SymtabElements
<1>7. \A s \in Functions(Exported(o)) : \E j \in DOMAIN o.exports :
        o.exports[j] = s /\ IsFunction(s) /\ s.value # 0
  BY DEF Functions, Exported, ToSet, IsFunction
<1>8. \A j \in DOMAIN o.exports : IsFunction(o.exports[j]) =>
        o.exports[j].value # 0 /\ o.exports[j] \in Functions(Exported(o))
  BY DEF IsLinked, Functions, Exported, ToSet, IsFunction
<1>9. ASSUME NEW j \in DOMAIN o.imports, IsFunction(o.imports[j])
      PROVE  o.imports[j].value = 0 /\ Functions(Exported(o)) = {}
  <2>1. o.imports[j].value = 0
    BY DEF IsLinked
  <2>2. \A i \in DOMAIN o.exports : o.imports[j].name # o.exports[i].name
    BY DEF IsLinked
  <2>3. \A i \in DOMAIN o.exports : ~IsFunction(o.exports[i])
    BY <1>9, <2>2 DEF IsFunction
  <2> QED BY <1>7, <2>1, <2>3
<1> HIDE DEF table, k
<1>10. CASE k = 0
  <2>1. Functions(Exported(o)) = {}
    BY <1>3, <1>5, <1>7, <1>10
  <2> QED BY <1>2, <1>10, <2>1
<1>11. CASE k # 0
  <2>1. k \in DOMAIN table /\ IsFunction(table[k])
    BY <1>3, <1>11
  <2>2. CASE \E j \in DOMAIN o.imports : table[k] = o.imports[j]
    BY <1>2, <1>9, <1>11, <2>1, <2>2
  <2>3. CASE \E j \in DOMAIN o.exports : table[k] = o.exports[j]
    <3>1. table[k].value # 0 /\ table[k] \in Functions(Exported(o))
      BY <1>8, <2>1, <2>3
    <3> QED BY <1>2, <1>4, <1>11, <2>1, <3>1
  <2> QED BY <1>6, <2>1, <2>2, <2>3
<1> QED BY <1>10, <1>11

\* The hash table: the loop ends inside the bucket, at an exported symbol.
LEMMA LoopStops ==
  ASSUME NEW o, IsLinked(o), o.table # NoTable, function \in DOMAIN Hash,
         Bucket(function, o.table) >= o.table.symndx
  PROVE  \E j \in DOMAIN o.exports : Sym(o, LoopStop(function, o)) = o.exports[j]
<1> DEFINE start == Bucket(function, o.table)
           n == Len(o.imports)
           m == Len(o.exports)
           symhash == o.table.symhash
           Stops == {i \in start .. n + m :
                       Matches(function, o, i) \/ Stored(o.table, i) % 2 = 1}
           stop == LoopStop(function, o)
<1>1. o.exports \in Seq(Symbols) /\ o.imports \in Seq(Symbols) /\ HasHashTable(o)
  BY DEF IsLinked
<1>2. n \in Nat /\ m \in Nat /\ DOMAIN o.exports = 1 .. m
  BY <1>1
<1>3. o.table.symndx = n + 1 /\ Len(symhash) = m /\ DOMAIN symhash = 1 .. m
  BY <1>1 DEF HasHashTable
<1>4. start \in Nat /\ \E k \in 1 .. m : n + k >= start /\ symhash[k] % 2 = 1
  <2> DEFINE ht == o.table  b == (Hash[function] % ht.nbuckets) + 1
  <2>1. /\ ht.nbuckets \in Nat \ {0} /\ ht.buckets \in Seq(Nat)
        /\ Len(ht.buckets) = ht.nbuckets
    BY <1>1 DEF HasHashTable
  <2>2. Hash[function] \in Nat
    BY HashAssumption
  <2>3. b \in 1 .. ht.nbuckets
    BY <2>1, <2>2
  <2>4. b \in DOMAIN ht.buckets /\ ht.buckets[b] \in Nat
    BY <2>1, <2>3
  <2>5. start = ht.buckets[b]
    BY DEF Bucket
  <2>6. \E k \in DOMAIN symhash : ht.symndx + k - 1 >= ht.buckets[b] /\ symhash[k] % 2 = 1
    BY <1>1, <2>4, <2>5 DEF HasHashTable
  <2> HIDE DEF start, symhash, n, m, b
  <2>7. \A k \in 1 .. m : ht.symndx + k - 1 = n + k
    BY <1>2, <1>3
  <2> QED BY <1>3, <2>4, <2>5, <2>6, <2>7
<1>5. stop = FirstOf(Stops)
  <2>1. o.table.symndx + Len(symhash) - 1 = n + m
    <3> HIDE DEF n, m, symhash
    <3> QED BY <1>2, <1>3
  <2> QED BY <2>1, Zenon DEF LoopStop
<1>6. PICK k \in 1 .. m : n + k >= start /\ symhash[k] % 2 = 1
  BY <1>4
<1> HIDE DEF start, n, m
<1>7. n + k \in Stops
  <2>1. (n + k) - o.table.symndx + 1 = k
    BY <1>2, <1>3
  <2>2. Stored(o.table, n + k) = symhash[k]
    BY <2>1 DEF Stored
  <2>3. n + k \in start .. n + m
    BY <1>2, <1>4, <1>6
  <2> QED BY <1>6, <2>2, <2>3
<1>8. Stops \subseteq start .. n + m
  OBVIOUS
<1> HIDE DEF Stops, stop
<1>9. stop \in start .. n + m
  <2>1. Stops \subseteq Nat
    BY <1>2, <1>4, <1>8
  <2> QED BY <1>5, <1>7, <1>8, <2>1, FirstIndex
<1>10. start >= n + 1
  BY <1>3 DEF start
<1>11. stop - n \in 1 .. m /\ n + 1 + (stop - n) = stop + 1
  BY <1>2, <1>4, <1>9, <1>10
<1>12. Symtab(o)[n + 1 + (stop - n)] = o.exports[stop - n]
  BY <1>2, <1>11, SymtabElements DEF n
<1>13. Sym(o, stop) = o.exports[stop - n]
  BY <1>11, <1>12 DEF Sym
<1> QED BY <1>2, <1>11, <1>13 DEF stop

LEMMA HashSearch ==
  ASSUME NEW o, IsLinked(o), o.table # NoTable, function \in DOMAIN Hash
  PROVE  /\ get_address_gnu_hash(function, o) \in Nat
         /\ get_address_gnu_hash(function, o) # 0 =>
              \E s \in Exported(o) : get_address_gnu_hash(function, o) = s.value
<1> DEFINE stop == LoopStop(function, o)
           found == /\ InBloom(o.table, Hash[function])
                    /\ Bucket(function, o.table) >= o.table.symndx
                    /\ Matches(function, o, stop)
<1>1. get_address_gnu_hash(function, o) = IF found THEN Sym(o, stop).value ELSE 0
  BY Zenon DEF get_address_gnu_hash
<1>2. CASE found
  <2>1. PICK j \in DOMAIN o.exports : Sym(o, stop) = o.exports[j]
    BY <1>2, LoopStops
  <2>2. o.exports[j].name = function
    BY <1>2, <2>1 DEF Matches
  <2>3. o.exports[j].value \in Nat
    BY Table DEF IsLinked
  <2>4. o.exports[j].value # 0 => o.exports[j] \in Exported(o)
    BY <2>2 DEF Exported, ToSet
  <2> HIDE DEF found, stop
  <2> QED BY <1>1, <1>2, <2>1, <2>3, <2>4
<1>3. CASE ~found
  BY <1>1, <1>3
<1> QED BY <1>2, <1>3

-----------------------------------------------------------------------------
(* The lookup. *)

SearchInv ==
  /\ image \in Images /\ function \in Wanted /\ map \in Nat \ {0}
  /\ at \notin {"e_type", "done"} => image.e_type \in {"ET_EXEC", "ET_DYN"}
  /\ at \in {"map hash", "map dyn"} => image.loaded
  /\ at = "map dyn" => map \in Objects
  /\ NothingMissed
  /\ FirstDefinition /\ FunctionsFound /\ GivesUpLate

LEMMA Unmoved ==
  ASSUME UNCHANGED <<image, function>>
  PROVE  /\ UNCHANGED Objects
         /\ UNCHANGED OfFile
         /\ UNCHANGED Definers
         /\ UNCHANGED FirstDefiner
         /\ OnlyFunctions' <=> OnlyFunctions
         /\ \A o : Exported(o)' = Exported(o)
<1>1. UNCHANGED <<InFile, Objects>> /\ (Imported' <=> Imported)
  BY DEF InFile, Imported, Objects
<1>2. UNCHANGED OfFile
  BY <1>1 DEF OfFile
<1>3. \A o : Exported(o)' = Exported(o)
  BY DEF Exported
<1>4. UNCHANGED Definers
  BY <1>1, <1>3 DEF Definers
<1>5. UNCHANGED FirstDefiner
  BY <1>4 DEF FirstDefiner
<1>6. OnlyFunctions' <=> OnlyFunctions
  BY <1>1, <1>3 DEF OnlyFunctions
<1> QED BY <1>1, <1>2, <1>3, <1>4, <1>5, <1>6

\* The lookup goes on: what it has searched by now is not where the name is.
LEMMA GoesOn ==
  ASSUME SearchInv, UNCHANGED <<image, function>>, ~Done', map' \in Nat \ {0},
         at' # "e_type" => image.e_type \in {"ET_EXEC", "ET_DYN"},
         at' \in {"map hash", "map dyn"} => image.loaded,
         at' = "map dyn" => map' \in Objects,
         FileSearched' => OfFile = {},
         \A m \in Objects : m < map' => m \notin Definers
  PROVE  SearchInv'
<1>1. NothingMissed'
  BY Unmoved DEF NothingMissed
<1>2. FirstDefinition' /\ FunctionsFound' /\ GivesUpLate'
  BY DEF FirstDefinition, FunctionsFound, GivesUpLate, Found
<1>3. at' = "map dyn" => map' \in Objects'
  BY Unmoved
<1> QED BY <1>1, <1>2, <1>3 DEF SearchInv

\* The lookup ends.
LEMMA EndsWell ==
  ASSUME SearchInv, UNCHANGED <<image, function, map>>, at' = "done",
         FirstDefinition', FunctionsFound', GivesUpLate'
  PROVE  SearchInv'
<1>1. NothingMissed'
  BY DEF NothingMissed, Done
<1> QED BY <1>1 DEF SearchInv

LEMMA FoundInFile ==
  ASSUME SearchInv, NEW s \in OfFile, Finds(image.base + s.value)
  PROVE  SearchInv'
<1>1. at' = "done" /\ outcome' = "found" /\ address' = image.base + s.value
      /\ UNCHANGED <<image, function, map>>
  BY DEF Finds
<1>2. FunctionsFound' /\ GivesUpLate'
  BY <1>1 DEF FunctionsFound, GivesUpLate
<1>3. s \in OfFile' /\ address' = image'.base + s.value
  BY <1>1, Unmoved
<1>4. FirstDefinition'
  BY <1>3 DEF FirstDefinition
<1> QED BY <1>1, <1>2, <1>4, EndsWell

LEMMA FoundInObject ==
  ASSUME SearchInv, OfFile = {}, NEW m \in Objects,
         \A n \in Objects : n < m => n \notin Definers,
         NEW s \in Exported(image.maps[m]), Finds(image.maps[m].l_addr + s.value)
  PROVE  SearchInv'
<1>1. at' = "done" /\ outcome' = "found" /\ address' = image.maps[m].l_addr + s.value
      /\ UNCHANGED <<image, function, map>>
  BY DEF Finds
<1>2. FunctionsFound' /\ GivesUpLate'
  BY <1>1 DEF FunctionsFound, GivesUpLate
<1>3. ASSUME OnlyFunctions
      PROVE  s \in Functions(Exported(image.maps[FirstDefiner])) /\ FirstDefiner = m
  <2>1. s \in Functions(Exported(image.maps[m]))
    BY <1>3 DEF OnlyFunctions
  <2>2. m \in Definers
    BY <2>1 DEF Definers
  <2>3. Definers \subseteq Nat
    <3>1. Objects \subseteq Nat
      BY MapFacts DEF SearchInv
    <3> QED BY <3>1 DEF Definers
  <2>4. \A n \in Definers : m <= n
    BY <2>2, <2>3 DEF Definers
  <2>5. \A n \in Definers : (\A k \in Definers : n <= k) => n = m
    BY <2>2, <2>3, <2>4
  <2>6. FirstDefiner = m
    BY <2>2, <2>4, <2>5 DEF FirstDefiner
  <2> QED BY <2>1, <2>6
<1>4. FirstDefinition'
  <2> SUFFICES ASSUME OnlyFunctions
               PROVE  /\ OfFile' = {}
                      /\ s \in Functions(Exported(image.maps[FirstDefiner]))'
                      /\ address' = image'.maps[FirstDefiner'].l_addr + s.value
    BY <1>1, Unmoved DEF FirstDefinition
  <2>1. OfFile' = {} /\ FirstDefiner' = FirstDefiner
    BY <1>1, Unmoved
  <2>2. \A o : Functions(Exported(o))' = Functions(Exported(o))
    BY <1>1, Unmoved DEF Functions
  <2> QED BY <1>1, <1>3, <2>1, <2>2
<1> QED BY <1>1, <1>2, <1>4, EndsWell

\* A function of the file, or of its dynamic symbols, is moved as the program is.
LEMMA Moved ==
  ASSUME image \in Images,
         NEW s \in ToSet(FileSymbols(image)) \cup ToSet(image.maps[1].exports),
         s.value \in Nat
  PROVE  calc_address(s.value) = image.base + s.value
<1>1. image.base \in Nat /\ (image.base = 0 \/ s.value < image.base)
  BY ImageFacts DEF IsLoaded
<1> QED BY <1>1 DEF calc_address

\* One step of get_address_internal.
LEMMA SearchStep ==
  ASSUME SearchInv, get_address_internal
  PROVE  SearchInv'
<1> DEFINE found == \E s \in OfFile : get_address_exec = s.value
<1>1. /\ image \in Images /\ function \in DOMAIN Hash /\ map \in Nat \ {0}
      /\ Objects = 1 .. Len(image.maps) /\ Len(image.maps) \in Nat /\ 1 \in Objects
      /\ Objects \subseteq Nat
  BY ImageAssumption, MapFacts DEF SearchInv
<1>2. /\ get_address_exec \in Nat
      /\ get_address_exec = 0 => OfFile = {}
      /\ get_address_exec # 0 => \E s \in OfFile : get_address_exec = s.value
  BY <1>1, FileSearch
<1>3. \A m \in Objects : IsLinked(image.maps[m]) /\ image.maps[m].l_addr \in Nat
  BY <1>1, ImageFacts
<1>4. ~Done /\ \A m \in Objects : m < map => m \notin Definers
  BY DEF SearchInv, NothingMissed, get_address_internal, check_type, find_base,
       search_file, find_dynamic, search_dynamic, find_debug, search_hash, search_map,
       not_found, Done
<1>5. \A s \in OfFile : s \in ToSet(FileSymbols(image))
  BY DEF OfFile, Functions, InFile
<1>6. CASE check_type
  <2>1. CASE image.e_type = "ET_EXEC" /\ get_address_exec # 0 /\ Finds(get_address_exec)
    <3>1. PICK s \in OfFile : get_address_exec = s.value
      BY <1>2, <2>1
    <3>2. image.base = 0
      BY <1>1, <2>1, ImageFacts DEF IsLoaded
    <3>3. Finds(image.base + s.value)
      BY <1>2, <2>1, <3>1, <3>2
    <3> QED BY <3>3, FoundInFile
  <2>2. CASE image.e_type \in {"ET_EXEC", "ET_DYN"} /\ Goto("base")
             /\ (image.e_type = "ET_EXEC" => get_address_exec = 0)
    BY <1>1, <1>2, <1>4, <2>2, GoesOn DEF Goto, Done, FileSearched
  <2>3. CASE image.e_type \notin {"ET_EXEC", "ET_DYN"} /\ throw
    <3>1. GivesUpLate' /\ FirstDefinition' /\ FunctionsFound'
      BY <2>3 DEF throw, Ends, GivesUpLate, FirstDefinition, FunctionsFound, Found
    <3> QED BY <2>3, <3>1, EndsWell DEF throw, Ends
  <2> QED BY <1>6, <2>1, <2>2, <2>3 DEF check_type
<1>7. CASE find_base
  <2>1. image.e_type \in {"ET_EXEC", "ET_DYN"}
        /\ (image.e_type = "ET_EXEC" => OfFile = {})
    BY <1>4, <1>7 DEF find_base, SearchInv, NothingMissed, FileSearched
  <2>2. CASE image.phdr /\ Goto("exec")
    BY <1>1, <1>4, <2>1, <2>2, GoesOn DEF Goto, Done, FileSearched
  <2>3. CASE ~image.phdr /\ throw
    <3>1. at' = "done" /\ outcome' = "ELFException" /\ UNCHANGED <<image, function, map>>
      BY <2>3 DEF throw, Ends
    <3>2. GivesUpLate'
      BY <2>1, <2>3, <3>1, Unmoved DEF GivesUpLate
    <3>3. FirstDefinition' /\ FunctionsFound'
      BY <3>1 DEF FirstDefinition, FunctionsFound, Found
    <3> QED BY <3>1, <3>2, <3>3, EndsWell
  <2> QED BY <1>7, <2>2, <2>3 DEF find_base
<1>8. CASE search_file
  <2>1. image.e_type \in {"ET_EXEC", "ET_DYN"}
    BY <1>8 DEF search_file, SearchInv
  <2>2. CASE get_address_exec # 0 /\ Finds(calc_address(get_address_exec))
    <3>1. PICK s \in OfFile : get_address_exec = s.value
      BY <1>2, <2>2
    <3>2. calc_address(s.value) = image.base + s.value
      BY <1>1, <1>2, <1>5, <3>1, Moved
    <3>3. Finds(image.base + s.value)
      BY <2>2, <3>1, <3>2
    <3> QED BY <3>3, FoundInFile
  <2>3. CASE get_address_exec = 0 /\ Goto("dynamic")
    BY <1>1, <1>2, <1>4, <2>1, <2>3, GoesOn DEF Goto, Done
  <2> QED BY <1>8, <2>2, <2>3 DEF search_file
<1>9. CASE find_dynamic
  <2>1. image.e_type \in {"ET_EXEC", "ET_DYN"} /\ OfFile = {}
    BY <1>4, <1>9 DEF find_dynamic, SearchInv, NothingMissed, FileSearched
  <2>2. CASE Goto("dyn") \/ Goto("debug")
    BY <1>1, <1>4, <2>1, <2>2, GoesOn DEF Goto, Done
  <2>3. CASE ~image.dynamic /\ throw
    <3>1. at' = "done" /\ outcome' = "ELFException" /\ UNCHANGED <<image, function, map>>
      BY <2>3 DEF throw, Ends
    <3>2. GivesUpLate'
      BY <2>1, <2>3, <3>1, Unmoved DEF GivesUpLate
    <3>3. FirstDefinition' /\ FunctionsFound'
      BY <3>1 DEF FirstDefinition, FunctionsFound, Found
    <3> QED BY <3>1, <3>2, <3>3, EndsWell
  <2> QED BY <1>9, <2>2, <2>3 DEF find_dynamic
<1> DEFINE First == image.maps[1]  addr == get_address_dyn(function, First)
<1>10. CASE search_dynamic
  <2>1. image.e_type \in {"ET_EXEC", "ET_DYN"} /\ OfFile = {}
    BY <1>4, <1>10 DEF search_dynamic, SearchInv, NothingMissed, FileSearched
  <2>2. CASE addr # 0 /\ Finds(calc_address(addr))
    <3>1. IsLinked(First)
      BY <1>1, <1>3
    <3>2. PICK s \in Functions(Exported(First)) : addr = s.value
      BY <2>2, <3>1, DynSearch
    <3>3. s \in Exported(First) /\ s \in ToSet(First.exports) /\ s.value \in Nat
      BY <3>1, <3>2, DynSearch DEF Functions, Exported
    <3>4. calc_address(s.value) = image.base + s.value
      BY <1>1, <3>3, Moved
    <3>5. Finds(First.l_addr + s.value)
      BY <1>1, <2>2, <3>2, <3>4, ImageFacts DEF IsLoaded
    <3>6. \A n \in Objects : ~(n < 1)
      BY <1>1
    <3> HIDE DEF addr
    <3> QED BY <1>1, <2>1, <3>3, <3>5, <3>6, FoundInObject
  <2>3. CASE addr = 0 /\ Goto("debug")
    BY <1>1, <1>4, <2>1, <2>3, GoesOn DEF Goto, Done
  <2> QED BY <1>10, <2>2, <2>3 DEF search_dynamic
<1> HIDE DEF addr, First
<1>11. CASE find_debug
  <2>1. image.e_type \in {"ET_EXEC", "ET_DYN"} /\ OfFile = {}
    BY <1>4, <1>11 DEF find_debug, SearchInv, NothingMissed, FileSearched
  <2>2. CASE image.loaded /\ Goto("map hash")
    BY <1>1, <1>4, <2>1, <2>2, GoesOn DEF Goto, Done
  <2>3. CASE ~image.loaded /\ Ends("NULL")
    <3>1. at' = "done" /\ outcome' = "NULL" /\ UNCHANGED <<image, function, map>>
      BY <2>3 DEF Ends
    <3>2. FunctionsFound'
      BY <2>1, <2>3, <3>1, Unmoved DEF FunctionsFound
    <3>3. FirstDefinition' /\ GivesUpLate'
      BY <3>1 DEF FirstDefinition, GivesUpLate, Found
    <3> QED BY <3>1, <3>2, <3>3, EndsWell
  <2> QED BY <1>11, <2>2, <2>3 DEF find_debug
<1>12. CASE search_hash \/ search_map \/ not_found
  <2>1. /\ at \in {"map hash", "map dyn"} /\ image.e_type \in {"ET_EXEC", "ET_DYN"}
        /\ OfFile = {} /\ image.loaded
    BY <1>4, <1>12 DEF search_hash, search_map, not_found, SearchInv, NothingMissed,
         FileSearched
  <2> DEFINE object == image.maps[map]
             hashed == get_address_gnu_hash(function, object)
             listed == get_address_dyn(function, object)
  <2>2. CASE search_hash
    <3>1. map \in Objects /\ IsLinked(object) /\ object.l_addr \in Nat
      <4>1. map \in Nat \ {0} /\ map <= Len(image.maps)
        BY <1>1, <2>2 DEF search_hash
      <4>2. map \in 1 .. Len(image.maps)
        BY <1>1, <4>1
      <4> QED BY <1>1, <1>3, <4>2
    <3>2. CASE object.table = NoTable /\ throw
      <4>1. at' = "done" /\ outcome' = "ELFException" /\ UNCHANGED <<image, function, map>>
        BY <3>2 DEF throw, Ends
      <4>2. \A n \in Definers : n >= map
        <5>1. map \in Nat /\ Objects \subseteq Nat
          BY <1>1
        <5>2. \A n \in Nat : ~(n < map) => n >= map
          BY <5>1
        <5> QED BY <1>4, <5>1, <5>2 DEF Definers
      <4>3. GivesUpLate'
        BY <2>1, <3>1, <3>2, <4>1, <4>2, Unmoved DEF GivesUpLate
      <4>4. FirstDefinition' /\ FunctionsFound'
        BY <4>1 DEF FirstDefinition, FunctionsFound, Found
      <4> QED BY <4>1, <4>3, <4>4, EndsWell
    <3>3. CASE object.table # NoTable /\ hashed # 0 /\ Finds(hashed + object.l_addr)
      <4>1. hashed \in Nat /\ \E s \in Exported(object) : hashed = s.value
        BY <1>1, <3>1, <3>3, HashSearch
      <4>2. PICK s \in Exported(object) : hashed = s.value
        BY <4>1
      <4>3. Finds(object.l_addr + s.value)
        <5>1. hashed + object.l_addr = object.l_addr + s.value
          BY <3>1, <4>1, <4>2
        <5> QED BY <3>3, <5>1
      <4> HIDE DEF hashed
      <4> QED BY <1>4, <2>1, <3>1, <4>3, FoundInObject
    <3>4. CASE hashed = 0 /\ Goto("map dyn")
      BY <1>1, <1>4, <2>1, <3>1, <3>4, GoesOn DEF Goto, Done
    <3> QED BY <2>2, <3>2, <3>3, <3>4 DEF search_hash
  <2>3. CASE search_map
    <3>1. map \in Objects
      BY <2>3 DEF search_map, SearchInv
    <3>2. IsLinked(object) /\ object.l_addr \in Nat
      BY <1>3, <3>1
    <3>3. CASE listed # 0 /\ Finds(listed + object.l_addr)
      <4>1. listed \in Nat /\ \E s \in Functions(Exported(object)) : listed = s.value
        BY <3>2, <3>3, DynSearch
      <4>2. PICK s \in Exported(object) : listed = s.value
        BY <4>1 DEF Functions
      <4>3. Finds(object.l_addr + s.value)
        <5>1. listed + object.l_addr = object.l_addr + s.value
          BY <3>2, <4>1, <4>2
        <5> QED BY <3>3, <5>1
      <4> HIDE DEF listed
      <4> QED BY <1>4, <2>1, <3>1, <4>3, FoundInObject
    <3>4. CASE listed = 0 /\ Next_map
      <4>1. map \notin Definers
        BY <3>2, <3>4, DynSearch DEF Definers
      <4>2. at' = "map hash" /\ map' = map + 1 /\ UNCHANGED <<image, function>>
        BY <3>4 DEF Next_map
      <4>3. \A m \in Objects : m < map' => m \notin Definers
        <5>1. \A m \in Nat : m < map + 1 => m < map \/ m = map
          BY <1>1
        <5> QED BY <1>1, <1>4, <4>1, <4>2, <5>1
      <4>4. map' \in Nat \ {0}
        <5>1. map \in Nat
          BY <1>1
        <5>2. map' = map + 1
          BY <4>2
        <5>3. map + 1 \in Nat \ {0}
          BY <5>1
        <5> QED BY <5>2, <5>3
      <4> QED BY <2>1, <4>2, <4>3, <4>4, GoesOn DEF Done
    <3> QED BY <2>3, <3>3, <3>4 DEF search_map
  <2>4. CASE not_found
    <3>1. at' = "done" /\ outcome' = "NULL" /\ UNCHANGED <<image, function, map>>
      BY <2>4 DEF not_found, Ends
    <3>2. Definers = {}
      <4>1. \A m \in Objects : m < map
        <5>1. map > Len(image.maps)
          BY <2>4 DEF not_found
        <5>2. \A m \in 1 .. Len(image.maps) : m < map
          BY <1>1, <5>1
        <5> QED BY <1>1, <5>2
      <4> QED BY <1>4, <4>1 DEF Definers
    <3>3. FunctionsFound'
      BY <2>1, <3>1, <3>2, Unmoved DEF FunctionsFound
    <3>4. FirstDefinition' /\ GivesUpLate'
      BY <3>1 DEF FirstDefinition, GivesUpLate, Found
    <3> QED BY <3>1, <3>3, <3>4, EndsWell
  <2> QED BY <1>12, <2>2, <2>3, <2>4
<1> QED
  BY <1>6, <1>7, <1>8, <1>9, <1>10, <1>11, <1>12 DEF get_address_internal

THEOREM SearchCorrect == Spec => []SearchInv
<1>1. Init => SearchInv
  <2> SUFFICES ASSUME Init
               PROVE  SearchInv
    OBVIOUS
  <2>1. image \in Images /\ function \in Wanted /\ at = "e_type" /\ map = 1
    BY DEF Init
  <2>2. \A m \in Objects : ~(m < map)
    BY <2>1, MapFacts
  <2>3. NothingMissed
    BY <2>1, <2>2 DEF NothingMissed, FileSearched
  <2>4. FirstDefinition /\ FunctionsFound /\ GivesUpLate
    BY <2>1 DEF FirstDefinition, FunctionsFound, GivesUpLate, Found, Done
  <2> QED BY <2>1, <2>3, <2>4 DEF SearchInv
<1>2. SearchInv /\ [Next]_symVars => SearchInv'
  <2> SUFFICES ASSUME SearchInv, [Next]_symVars
               PROVE  SearchInv'
    OBVIOUS
  <2>1. CASE get_address_internal
    BY <2>1, SearchStep
  <2>2. CASE UNCHANGED symVars
    <3>1. UNCHANGED <<image, function, at, map, outcome, address>>
      BY <2>2 DEF symVars
    <3>2. NothingMissed'
      BY <3>1, Unmoved DEF SearchInv, NothingMissed, FileSearched, Done
    <3>3. FirstDefinition'
      <4>1. \A o : Functions(Exported(o))' = Functions(Exported(o))
        BY <3>1, Unmoved DEF Functions
      <4> QED BY <3>1, <4>1, Unmoved DEF SearchInv, FirstDefinition, Found, Done
    <3>4. FunctionsFound' /\ GivesUpLate'
      BY <3>1, Unmoved DEF SearchInv, FunctionsFound, GivesUpLate, Done
    <3> QED BY <3>1, <3>2, <3>3, <3>4, Unmoved DEF SearchInv
  <2> QED BY <2>1, <2>2 DEF Next, SymTerminated
<1> QED BY <1>1, <1>2, PTL DEF Spec

\* What is searched before an object has not the name, whatever is searched
\* after it: every program and every number of libraries.
THEOREM NothingMissedCorrect == Spec => []NothingMissed
<1>1. SearchInv => NothingMissed
  BY DEF SearchInv
<1> QED BY <1>1, SearchCorrect, PTL

\* A breakpoint by name goes where a call by the program would go.
THEOREM FirstDefinitionCorrect == Spec => []FirstDefinition
<1>1. SearchInv => FirstDefinition
  BY DEF SearchInv
<1> QED BY <1>1, SearchCorrect, PTL

\* Half of the names are never found in a hash table, and no function is missed.
THEOREM FunctionsFoundCorrect == Spec => []FunctionsFound
<1>1. SearchInv => FunctionsFound
  BY DEF SearchInv
<1> QED BY <1>1, SearchCorrect, PTL

\* breakf is given up only when what it needs is missing before the name is met.
THEOREM GivesUpLateCorrect == Spec => []GivesUpLate
<1>1. SearchInv => GivesUpLate
  BY DEF SearchInv
<1> QED BY <1>1, SearchCorrect, PTL

=============================================================================
