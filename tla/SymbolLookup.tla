----------------------------- MODULE SymbolLookup -----------------------------
(***************************************************************************)
(* breakf: get_address_internal of src/infos/my_elf.c looks a function up  *)
(* in the file of the program, in its dynamic symbols, and in the objects  *)
(* of the link map, one call after another.                                *)
(***************************************************************************)
EXTENDS GnuHash

CONSTANTS
  Images,  \* the programs: [e_type, sections, base, phdr, dynamic, loaded, maps]
  Wanted   \* the names the user may ask for

\* The symbols of all tables of the file: those of .dynsym come first, so that an
\* import precedes a static function of its name.
FileSymbols(img) == FlattenSeq(img.sections)
ImportsFirst(symbols) ==
  \A j, k \in DOMAIN symbols :
    /\ symbols[j].name = symbols[k].name
    /\ symbols[j].kind = "FUNC" /\ symbols[j].value = 0
    /\ symbols[k].kind = "FUNC" /\ symbols[k].value # 0
    => j < k

\* What loading guarantees (external): a program is not relocated, or lies above
\* all addresses of its file, and the link map starts with it.
IsLoaded(img) ==
  /\ img.base \in Nat /\ (img.e_type = "ET_EXEC" => img.base = 0)
  /\ img.maps \in Seq(ToSet(img.maps)) /\ img.maps # <<>> /\ img.maps[1].l_addr = img.base
  /\ \A s \in ToSet(FileSymbols(img)) \cup ToSet(img.maps[1].exports) :
       img.base = 0 \/ s.value < img.base

ASSUME ImageAssumption ==
  /\ Wanted \subseteq DOMAIN Hash
  /\ \A img \in Images :
       /\ FileSymbols(img) \in Seq(Symbols) /\ ImportsFirst(FileSymbols(img))
       /\ \A m \in DOMAIN img.maps : IsLinked(img.maps[m]) /\ img.maps[m].l_addr \in Nat
       /\ IsLoaded(img)

VARIABLES
  image,     \* the program being debugged
  function,  \* the argument of breakf
  at,        \* the call get_address_internal is at
  map,       \* which object of the link map
  outcome,   \* "none", "NULL", "ELFException" or "found"
  address    \* what was found

symVars == <<image, function, at, map, outcome, address>>

Init ==
  /\ image \in Images /\ function \in Wanted
  /\ at = "e_type" /\ map = 1 /\ outcome = "none" /\ address = 0

Goto(call) == at' = call /\ UNCHANGED <<image, function, map, outcome, address>>
Next_map == at' = "map hash" /\ map' = map + 1 /\ UNCHANGED <<image, function, outcome, address>>
Ends(how) ==
  at' = "done" /\ outcome' = how /\ UNCHANGED <<image, function, map, address>>
Finds(addr) ==
  at' = "done" /\ outcome' = "found" /\ address' = addr /\ UNCHANGED <<image, function, map>>
throw == Ends("ELFException")

\* The first symbol of that name in any table of the file; 0 for an import.
get_address_exec ==
  LET tables == FileSymbols(image)
      k == SelectInSeq(tables, LAMBDA s : s.kind = "FUNC" /\ s.name = function)
  IN IF k = 0 THEN 0 ELSE tables[k].value

calc_address(addr) == IF addr < image.base THEN image.base + addr ELSE addr

\* Mutant: a program that is not relocated is treated like any other.
check_type_NoShortcut ==
  /\ at = "e_type"
  /\ IF image.e_type \in {"ET_EXEC", "ET_DYN"} THEN Goto("base") ELSE throw

\* Line 345: a program that is not relocated has its addresses in the file.
check_type ==
  /\ at = "e_type"
  /\ \/ image.e_type = "ET_EXEC" /\ get_address_exec # 0 /\ Finds(get_address_exec)
     \/ image.e_type = "ET_EXEC" /\ get_address_exec = 0 /\ Goto("base")
     \/ image.e_type = "ET_DYN" /\ Goto("base")
     \/ image.e_type \notin {"ET_EXEC", "ET_DYN"} /\ throw

\* calc_base_address
find_base ==
  /\ at = "base"
  /\ IF image.phdr THEN Goto("exec") ELSE throw

search_file ==
  /\ at = "exec"
  /\ IF get_address_exec # 0 THEN Finds(calc_address(get_address_exec))
     ELSE Goto("dynamic")

\* get_dynamic_section
find_dynamic ==
  /\ at = "dynamic"
  /\ IF ~image.dynamic THEN throw
     ELSE Goto(IF image.e_type = "ET_DYN" THEN "dyn" ELSE "debug")

search_dynamic ==
  /\ at = "dyn"
  /\ LET addr == get_address_dyn(function, image.maps[1]) IN
     IF addr # 0 THEN Finds(calc_address(addr)) ELSE Goto("debug")

\* DT_DEBUG is 0 until the dynamic linker has run.
find_debug ==
  /\ at = "debug"
  /\ IF image.loaded THEN Goto("map hash") ELSE Ends("NULL")

\* Every object of the link map, the program first.
search_hash ==
  /\ at = "map hash" /\ map <= Len(image.maps)
  /\ LET object == image.maps[map] IN
     IF object.table = NoTable THEN throw
     ELSE LET addr == get_address_gnu_hash(function, object) IN
          IF addr # 0 THEN Finds(addr + object.l_addr) ELSE Goto("map dyn")

\* Mutant: the addresses of libraries go through calc_address.
search_map_BaseOfProgram ==
  /\ at = "map dyn"
  /\ LET addr == get_address_dyn(function, image.maps[map]) IN
     IF addr # 0 THEN Finds(calc_address(addr))
     ELSE Next_map

\* Mutant: what the hash table does not find is not searched for.
search_map_HashOnly ==
  /\ at = "map dyn"
  /\ Next_map

search_map ==
  /\ at = "map dyn"
  /\ LET object == image.maps[map]
         addr == get_address_dyn(function, object)
     IN IF addr # 0 THEN Finds(addr + object.l_addr)
        ELSE Next_map

not_found ==
  /\ at = "map hash" /\ map > Len(image.maps)
  /\ Ends("NULL")

SymTerminated == at = "done" /\ UNCHANGED symVars

get_address_internal ==
  \/ check_type \/ find_base \/ search_file \/ find_dynamic \/ search_dynamic
  \/ find_debug \/ search_hash \/ search_map \/ not_found

Next == get_address_internal \/ SymTerminated

Spec == Init /\ [][Next]_symVars

=============================================================================
