----------------------------- MODULE TempMemory -----------------------------
(***************************************************************************)
(* Temporary memory, src/utils/temp_memory_utils.c: blocks that commands   *)
(* allocate and never free, because run_command frees them all at its end. *)
(* The list is the C list with its head last.  malloc returns any address  *)
(* that is not allocated, one that was just freed included.                *)
(***************************************************************************)
EXTENDS Naturals, Sequences, FiniteSets

CONSTANTS
  Ptrs,   \* bound: the addresses malloc can return
  NULL

ASSUME TempAssumption == NULL \notin Ptrs

VARIABLES
  blocks,       \* the static `list': the addresses to free
  heap,         \* what is allocated, as far as the list is concerned
  by_hand,      \* has this command called free on a block of the list?
  double_free   \* has free been called on an address that was not allocated?

tmpVars == <<blocks, heap, by_hand, double_free>>

Head_is(p) == blocks # <<>> /\ blocks[Len(blocks)] = p

TmpInit == blocks = <<>> /\ heap = {} /\ by_hand = FALSE /\ double_free = FALSE

\* tmp_malloc, tmp_calloc and tmp_strdup that return p.
tmp_malloc(p) ==
  /\ p \in Ptrs \ heap
  /\ heap' = heap \cup {p}
  /\ blocks' = Append(blocks, p)
  /\ UNCHANGED <<by_hand, double_free>>

\* Mutant: the moved block keeps its old address in the list.
tmp_realloc_StaleHead(old, p) ==
  IF Head_is(old)
  THEN /\ p \in Ptrs \ (heap \ {old})
       /\ heap' = (heap \ {old}) \cup {p}
       /\ UNCHANGED <<blocks, by_hand, double_free>>
  ELSE tmp_malloc(p)

\* The newest block is moved, any other is copied to a new one and stays.
tmp_realloc(old, p) ==
  IF Head_is(old)
  THEN /\ p \in Ptrs \ (heap \ {old})
       /\ heap' = (heap \ {old}) \cup {p}
       /\ blocks' = [blocks EXCEPT ![Len(blocks)] = p]
       /\ UNCHANGED <<by_hand, double_free>>
  ELSE tmp_malloc(p)

\* realloc returned NULL: the list forgets the block, which stays allocated.
tmp_realloc_fails(old) ==
  /\ blocks' = IF Head_is(old) THEN [blocks EXCEPT ![Len(blocks)] = NULL] ELSE blocks
  /\ UNCHANGED <<heap, by_hand, double_free>>

\* free(p) by a caller of tmp_realloc.
free_by_hand(p) ==
  /\ by_hand' = (by_hand \/ p # NULL)
  /\ double_free' = (double_free \/ (p # NULL /\ p \notin heap))
  /\ heap' = heap \ {p}
  /\ UNCHANGED blocks

Listed == {blocks[i] : i \in DOMAIN blocks}

\* An address that is freed twice by tmp_free_rec, or was free already.
BadFree ==
  \/ ~(Listed \subseteq heap \cup {NULL})
  \/ \E i, j \in DOMAIN blocks : i # j /\ blocks[i] = blocks[j] /\ blocks[i] # NULL

\* Mutant: the list is not reset.
tmp_free_all_NoReset ==
  /\ double_free' = (double_free \/ BadFree)
  /\ heap' = heap \ Listed
  /\ UNCHANGED <<blocks, by_hand>>

tmp_free_all ==
  /\ double_free' = (double_free \/ BadFree)
  /\ heap' = heap \ Listed
  /\ blocks' = <<>>
  /\ UNCHANGED by_hand

\* A new command.  What leaked stays allocated for ever; the command is looked
\* at with as many other addresses.
NextRound ==
  /\ blocks = <<>>
  /\ heap' = {} /\ by_hand' = FALSE /\ double_free' = FALSE
  /\ UNCHANGED blocks

TmpNext ==
  \/ NextRound
  \/ \E p \in Ptrs : tmp_malloc(p)
  \/ \E p \in Ptrs \cup {NULL} : free_by_hand(p)
  \/ \E old \in Ptrs \cup {NULL}, p \in Ptrs : tmp_realloc(old, p)
  \/ \E old \in Ptrs \cup {NULL} : tmp_realloc_fails(old)
  \/ tmp_free_all

TmpSpec == TmpInit /\ [][TmpNext]_tmpVars

-----------------------------------------------------------------------------

\* tmp_free_all never frees an address twice, unless somebody has freed a
\* block of the list by hand: tmp_realloc keeps the list and the heap in step
\* whether it moves the block, copies it or fails.  The one who frees by hand
\* is read_mem_string that failed in the middle of a string (memory.c:86).
FreedOnce == double_free => by_hand

\* Without such a call the blocks of the list are allocated and distinct.
BlocksAllocated ==
  ~by_hand =>
    /\ ~double_free
    /\ \A i \in DOMAIN blocks : blocks[i] \in heap \cup {NULL}
    /\ \A i, j \in DOMAIN blocks :
         i # j /\ blocks[i] = blocks[j] => blocks[i] = NULL

=============================================================================
