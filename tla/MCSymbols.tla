------------------------------ MODULE MCSymbols ------------------------------
(***************************************************************************)
(* Programs with up to two libraries for TLC.  "even" and "odd" are names  *)
(* with such hashes, both in bucket 1 of three, "more" fills the buckets.  *)
(***************************************************************************)
EXTENDS SymbolProperties

Hashes == [even |-> 4, odd |-> 7, more |-> 5, other |-> 10]
Names == DOMAIN Hashes

Kinds == {"FUNC", "IFUNC", "OBJECT"}

\* What an object may export under one name, at a value of that name.
Value == [even |-> 8, odd |-> 16, more |-> 24, other |-> 32]
Exports(names, kind) ==
  LET seq == SetToSeq(names) IN
  [k \in DOMAIN seq |-> Symbol(seq[k], IF seq[k] = "more" THEN "FUNC" ELSE kind,
                               Value[seq[k]])]

At(object, l_addr) == object @@ [l_addr |-> l_addr]

Linkings == {<<1, 1, 0>>, <<3, 2, 2>>, <<3, 0, 0>>}
Library(imports, names, kind, l) == Linked(imports, Exports(names, kind), l[1], l[2], l[3])
Unhashed(object) == [object EXCEPT !.table = NoTable]

Libraries ==
  {Library(<<>>, n, k, l) :
   n \in {{"even"}, {"odd"}, {"even", "odd"}, Names}, k \in Kinds, l \in Linkings}
  \cup {Library(<<Symbol("even", "FUNC", 0)>>, {"odd"}, "FUNC", l) : l \in Linkings}
Lasts ==
  {Library(<<>>, n, "FUNC", <<3, 2, 2>>) : n \in {{"even", "odd"}, {"more"}}}
  \cup {Unhashed(Library(<<>>, {"odd"}, "FUNC", <<1, 1, 0>>))}

Imports == <<Symbol("even", "FUNC", 0), Symbol("odd", "FUNC", 0)>>
Mains == {Library(Imports, {}, "FUNC", <<1, 0, 0>>),
          Library(<<>>, {"odd", "more"}, "FUNC", <<3, 2, 2>>)}

\* The sections of a file hold its dynamic symbols and, unless it is stripped,
\* all others; or there are none at all.
Sections(m) ==
  LET dynsym == m.imports \o m.exports IN
  {<<>>, <<dynsym>>, <<dynsym, <<Symbol("other", "OBJECT", 40), Symbol("even", "FUNC", 48)>>>>}

Image(e_type, sections, base, phdr, dynamic, loaded, maps) ==
  [e_type |-> e_type, sections |-> sections, base |-> base, phdr |-> phdr,
   dynamic |-> dynamic, loaded |-> loaded, maps |-> maps]

\* Position independent programs are loaded at 1000, libraries at 3000, 2000.
Kind_of_program == {<<"ET_EXEC", 0>>, <<"ET_DYN", 1000>>}
Loads(m) ==
  {Image(t[1], s, t[2], TRUE, TRUE, TRUE, <<At(m, t[2]), At(p[1], 3000), At(p[2], 2000)>>) :
   t \in Kind_of_program, s \in Sections(m),
   p \in (Libraries \X Lasts) \cup (Lasts \X Libraries)}
Others(m) ==
  {Image(t[1], s, t[2], h, d, o, <<At(m, t[2])>>) :
   t \in Kind_of_program \cup {<<"ET_REL", 0>>}, s \in Sections(m),
   h \in BOOLEAN, d \in BOOLEAN, o \in BOOLEAN}
AllImages == UNION {Loads(m) \cup Others(m) : m \in Mains}

=============================================================================
