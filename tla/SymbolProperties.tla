--------------------------- MODULE SymbolProperties ---------------------------
(***************************************************************************)
(* What breakf may be relied on for.                                       *)
(***************************************************************************)
EXTENDS SymbolLookup

Done == at = "done"
Found == Done /\ outcome = "found"

\* Of the symbols of that name, those a lookup could answer with: the ones of
\* the file and the ones the objects of the link map export.
InFile == {s \in ToSet(FileSymbols(image)) : s.name = function /\ s.value # 0}
\* A file may import a name and have a static function of that name: the import
\* comes first in the file, get_address_exec stops at it and has no address.
Imported ==
  \E s \in ToSet(FileSymbols(image)) : s.name = function /\ s.kind = "FUNC" /\ s.value = 0
Exported(object) == {s \in ToSet(object.exports) : s.name = function /\ s.value # 0}
Functions(S) == {s \in S : s.kind = "FUNC"}
OfFile == IF Imported THEN {} ELSE Functions(InFile)
Objects == DOMAIN image.maps
Definers == {m \in Objects : Functions(Exported(image.maps[m])) # {}}
FirstDefiner == CHOOSE m \in Definers : \A n \in Definers : m <= n

\* Every symbol of that name is a function: nothing shadows one.
OnlyFunctions ==
  /\ InFile = Functions(InFile)
  /\ \A m \in Objects : Exported(image.maps[m]) = Functions(Exported(image.maps[m]))

\* A breakpoint by name goes where a call by the program would go: to the
\* function of the file if it is not imported, else to that of the first object that
\* exports it, moved to where that one object is loaded.
FirstDefinition ==
  Found /\ OnlyFunctions =>
    IF OfFile # {}
    THEN \E s \in OfFile : address = image.base + s.value
    ELSE \E s \in Functions(Exported(image.maps[FirstDefiner])) :
           address = image.maps[FirstDefiner].l_addr + s.value

\* A function an object exports is found although half of the names are never
\* found in the hash table (gnu_hash_table.c:124): the search of all symbols
\* that follows makes up for it.  Only a program that has not loaded its
\* libraries yet has functions that are not found.
FunctionsFound ==
  Done /\ outcome = "NULL" =>
    /\ OfFile = {}
    /\ image.loaded => Definers = {}

\* The lookup is given up only for a file that is no program, or when what it
\* needs is missing before the name is met: the program headers or the dynamic
\* section (a static program), or the hash table of an object.
GivesUpLate ==
  Done /\ outcome = "ELFException" =>
    \/ image.e_type \notin {"ET_EXEC", "ET_DYN"}
    \/ ~image.phdr /\ (image.e_type = "ET_EXEC" => OfFile = {})
    \/ ~image.dynamic /\ OfFile = {}
    \/ \E m \in Objects :
         /\ image.maps[m].table = NoTable
         /\ OfFile = {} /\ \A n \in Definers : n >= m

\* get_address_exec has been called, once or (line 345) the first of two times.
FileSearched ==
  \/ at \in {"dynamic", "dyn", "debug", "map hash", "map dyn"}
  \/ at \in {"base", "exec"} /\ image.e_type = "ET_EXEC"

\* A call of the lookup that finds nothing has missed nothing: whatever follows
\* it, no function of that name is in the file or in an object passed over.
NothingMissed ==
  ~Done => /\ FileSearched => OfFile = {}
           /\ \A m \in Objects : m < map => m \notin Definers

\* README:89, "Place a breakpoint on a function using it's name": a function
\* the libraries export is found whatever its kind, indirect functions (memcpy,
\* strlen) among them.
NamedIsFound ==
  Done /\ outcome = "NULL" /\ image.loaded =>
    \A m \in Objects : \A s \in Exported(image.maps[m]) : s.kind \notin {"FUNC", "IFUNC"}

=============================================================================
