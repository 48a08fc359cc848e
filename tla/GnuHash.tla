------------------------------- MODULE GnuHash -------------------------------
(***************************************************************************)
(* The dynamic symbols of a loaded object and its GNU hash table: how the  *)
(* linker lays it out (external), and how src/infos/gnu_hash_table.c and   *)
(* get_address_dyn of src/infos/my_elf.c search it.                        *)
(*                                                                         *)
(* An object is a record: imports and exports, two sequences of symbols    *)
(* [name, kind, value] that make up its table of symbols in this order,    *)
(* and table, the hash table or NoTable.  Symbol 0 is the null symbol.     *)
(***************************************************************************)
EXTENDS Integers, Sequences, FiniteSets, SequencesExt

CONSTANT Hash   \* dl_new_hash: [name -> number]

ASSUME HashAssumption == \A name \in DOMAIN Hash : Hash[name] \in Nat

Symbol(name, kind, value) == [name |-> name, kind |-> kind, value |-> value]
NullSymbol == Symbol("", "NOTYPE", 0)
NoTable == [nbuckets |-> 0, symndx |-> 0, bloom |-> <<>>, shift2 |-> 0,
            buckets |-> <<>>, symhash |-> <<>>]

Even(n) == n - (n % 2)
FirstOf(S) == CHOOSE i \in S : \A j \in S : i <= j

\* The linker sorts the exported symbols by bucket; the low bit of a stored
\* hash marks the last one of its bucket.  A word of the Bloom filter is the
\* set of its bits; a filter without bits is one word of zero.
BloomBits(h, shift2) == {h % 64, (h \div 2 ^ shift2) % 64}
Bloom(exports, words, shift2) ==
  [w \in 1 .. words |->
     UNION {BloomBits(Hash[exports[k].name], shift2) :
            k \in {e \in DOMAIN exports :
                     (Hash[exports[e].name] \div 64) % words = w - 1}}]

Linked(imports, exported, nbuckets, words, shift2) ==
  LET bucket(s) == Hash[s.name] % nbuckets
      exports == SortSeq(exported, LAMBDA s, t : bucket(s) < bucket(t))
      symndx == Len(imports) + 1
      last(k) == k = Len(exports) \/ bucket(exports[k]) # bucket(exports[k + 1])
      first(b) == SelectInSeq(exports, LAMBDA s : bucket(s) = b)
  IN [imports |-> imports, exports |-> exports,
      table |-> [nbuckets |-> nbuckets, symndx |-> symndx, shift2 |-> shift2,
                 bloom |-> IF words = 0 THEN <<{}>> ELSE Bloom(exports, words, shift2),
                 buckets |-> [b \in 1 .. nbuckets |->
                                IF first(b - 1) = 0 THEN 0
                                ELSE symndx + first(b - 1) - 1],
                 symhash |-> [k \in DOMAIN exports |->
                                Even(Hash[exports[k].name]) + (IF last(k) THEN 1 ELSE 0)]]]

\* The table of symbols, from index 0 on.
Symtab(object) == <<NullSymbol>> \o object.imports \o object.exports
Sym(object, index) == Symtab(object)[index + 1]

\* What the linker guarantees (external): an object does not export what it
\* imports, what it imports has no value and a function it exports has one; every
\* bucket is empty or begins at an exported symbol and ends at one.
Symbols == [name : {""} \cup DOMAIN Hash, kind : {"NOTYPE", "FUNC", "IFUNC", "OBJECT"},
            value : Nat]
HasHashTable(object) ==
  LET ht == object.table IN
  /\ ht.symndx = Len(object.imports) + 1
  /\ ht.symhash \in Seq(Nat) /\ Len(ht.symhash) = Len(object.exports)
  /\ ht.nbuckets \in Nat \ {0} /\ ht.buckets \in Seq(Nat) /\ Len(ht.buckets) = ht.nbuckets
  /\ \A b \in DOMAIN ht.buckets : ht.buckets[b] >= ht.symndx =>
       \E k \in DOMAIN ht.symhash :
         ht.symndx + k - 1 >= ht.buckets[b] /\ ht.symhash[k] % 2 = 1
IsLinked(object) ==
  /\ object.imports \in Seq(Symbols) /\ object.exports \in Seq(Symbols)
  /\ \A j \in DOMAIN object.imports : object.imports[j].value = 0
  /\ \A k \in DOMAIN object.exports :
       /\ object.exports[k].kind = "FUNC" => object.exports[k].value # 0
       /\ \A j \in DOMAIN object.imports : object.imports[j].name # object.exports[k].name
  /\ object.table = NoTable \/ HasHashTable(object)

-----------------------------------------------------------------------------

\* get_address_gnu_hash: the value of the symbol, or 0.
InBloom(table, h) ==
  \/ Len(table.bloom) = 1 /\ table.bloom[1] = {}
  \/ LET mask == table.bloom[((h \div 64) % Len(table.bloom)) + 1] IN
     h % 64 \in mask /\ (h \div 2 ^ table.shift2) % 64 \in mask

\* The bucket of a name begins at this symbol.
Bucket(function, ht) == ht.buckets[(Hash[function] % ht.nbuckets) + 1]
Stored(ht, i) == ht.symhash[i - ht.symndx + 1]

\* The stored hash loses its low bit before it is compared, the wanted one does
\* not.
Matches(function, object, i) ==
  Hash[function] = Even(Stored(object.table, i)) /\ Sym(object, i).name = function

\* The loop over one bucket stops at the name, or at the end of the bucket.
LoopStop(function, object) ==
  LET ht == object.table IN
  FirstOf({i \in Bucket(function, ht) .. ht.symndx + Len(ht.symhash) - 1 :
             Matches(function, object, i) \/ Stored(ht, i) % 2 = 1})

get_address_gnu_hash(function, object) ==
  LET ht == object.table
      stop == LoopStop(function, object)
  IN IF InBloom(ht, Hash[function]) /\ Bucket(function, ht) >= ht.symndx
        /\ Matches(function, object, stop)
     THEN Sym(object, stop).value ELSE 0

\* get_address_dyn: from the first symbol to the strings, which come next.
get_address_dyn(function, object) ==
  LET k == SelectInSeq(Symtab(object),
                       LAMBDA s : s.kind = "FUNC" /\ s.name = function)
  IN IF k = 0 THEN 0 ELSE Symtab(object)[k].value

=============================================================================
