--------------------------- MODULE CommandProofs ---------------------------
(***************************************************************************)
(* What holds of every program made of the statements, with any functions, *)
(* any addresses and any depth of calls: the environments are those of the *)
(* open tries, and temporary blocks are freed once.                        *)
(***************************************************************************)
EXTENDS Commands, ExceptionProofs

-----------------------------------------------------------------------------
(* Temporary memory.  The blocks of the list are allocated and distinct as *)
(* long as nobody has freed one by hand.                                   *)

TempInv ==
  /\ blocks \in Seq(Ptrs \cup {NULL})
  /\ BlocksAllocated

LEMMA TempInvInit == TmpInit => TempInv
<1> SUFFICES ASSUME TmpInit PROVE TempInv
  OBVIOUS
<1>1. blocks = <<>> /\ DOMAIN blocks = {} /\ double_free = FALSE
  BY DEF TmpInit
<1> QED BY <1>1, EmptySeq DEF TempInv, BlocksAllocated

LEMMA MallocInv ==
  ASSUME TempInv, NEW p, tmp_malloc(p)
  PROVE  TempInv'
<1>1. /\ blocks \in Seq(Ptrs \cup {NULL}) /\ p \in Ptrs /\ p \notin heap /\ p # NULL
      /\ blocks' = Append(blocks, p) /\ heap' = heap \cup {p}
      /\ by_hand' = by_hand /\ double_free' = double_free
  BY TempAssumption DEF TempInv, tmp_malloc
<1>2. /\ Len(blocks) \in Nat /\ DOMAIN blocks = 1 .. Len(blocks)
  BY <1>1, LenProperties
<1>3. /\ blocks' \in Seq(Ptrs \cup {NULL}) /\ DOMAIN blocks' = 1 .. Len(blocks) + 1
      /\ blocks'[Len(blocks) + 1] = p
      /\ \A i \in 1 .. Len(blocks) : blocks'[i] = blocks[i]
  <2>1. blocks' \in Seq(Ptrs \cup {NULL}) /\ Len(blocks') = Len(blocks) + 1
    BY <1>1
  <2>2. DOMAIN blocks' = 1 .. Len(blocks) + 1
    BY <2>1, LenProperties
  <2> QED BY <1>1, <1>2, <2>1, <2>2
<1>4. \A i \in DOMAIN blocks' :
        \/ i \in DOMAIN blocks /\ blocks'[i] = blocks[i]
        \/ i = Len(blocks) + 1 /\ blocks'[i] = p
  BY <1>2, <1>3
<1>5. BlocksAllocated'
  BY <1>1, <1>4 DEF TempInv, BlocksAllocated
<1> QED BY <1>3, <1>5 DEF TempInv

LEMMA ReallocInv ==
  ASSUME TempInv, NEW old, NEW p, tmp_realloc(old, p)
  PROVE  TempInv'
<1>1. CASE ~Head_is(old)
  BY <1>1, MallocInv DEF tmp_realloc
<1>2. CASE Head_is(old)
  <2> DEFINE n == Len(blocks)
  <2>1. /\ blocks \in Seq(Ptrs \cup {NULL}) /\ blocks # <<>> /\ blocks[n] = old
        /\ p \in Ptrs /\ p \notin heap \ {old} /\ p # NULL
        /\ blocks' = [blocks EXCEPT ![n] = p] /\ heap' = (heap \ {old}) \cup {p}
        /\ by_hand' = by_hand /\ double_free' = double_free
    BY <1>2, TempAssumption DEF TempInv, tmp_realloc, Head_is
  <2>2. n \in Nat \ {0} /\ DOMAIN blocks = 1 .. n
    BY <2>1, EmptySeq, LenProperties
  <2>3. n \in DOMAIN blocks /\ n \in 1 .. n
    BY <2>2
  <2>4. /\ blocks' \in Seq(Ptrs \cup {NULL}) /\ DOMAIN blocks' = DOMAIN blocks
        /\ \A i \in DOMAIN blocks : blocks'[i] = IF i = n THEN p ELSE blocks[i]
    <3>1. /\ blocks' \in Seq(Ptrs \cup {NULL}) /\ Len(blocks') = n
          /\ \A i \in 1 .. n : blocks'[i] = IF i = n THEN p ELSE blocks[i]
      BY <2>1, <2>3, ExceptSeq
    <3> QED BY <2>2, <3>1, LenProperties
  <2> HIDE DEF n
  <2>5. ASSUME ~by_hand, NEW i \in DOMAIN blocks, i # n
        PROVE  /\ blocks[i] \in (heap \ {old}) \cup {NULL}
               /\ blocks[i] # p
    <3>1. blocks[i] \in heap \cup {NULL}
      BY <2>5 DEF TempInv, BlocksAllocated
    <3>2. blocks[i] = old => blocks[i] = NULL
      BY <2>1, <2>3, <2>5 DEF TempInv, BlocksAllocated
    <3> QED BY <2>1, <3>1, <3>2
  <2>6. BlocksAllocated'
    <3> SUFFICES ASSUME ~by_hand PROVE BlocksAllocated'
      BY <2>1 DEF BlocksAllocated
    <3>1. ~double_free'
      BY <2>1 DEF TempInv, BlocksAllocated
    <3>2. \A i \in DOMAIN blocks' : blocks'[i] \in heap' \cup {NULL}
      BY <2>1, <2>4, <2>5
    <3>3. ASSUME NEW i \in DOMAIN blocks', NEW j \in DOMAIN blocks', i # j,
                 blocks'[i] = blocks'[j]
          PROVE  blocks'[i] = NULL
      <4>1. i # n /\ j # n
        BY <2>4, <2>5, <3>3
      <4> QED BY <2>4, <3>3, <4>1 DEF TempInv, BlocksAllocated
    <3> QED BY <3>1, <3>2, <3>3 DEF BlocksAllocated
  <2> QED BY <2>4, <2>6 DEF TempInv
<1> QED BY <1>1, <1>2

LEMMA ReallocFailsInv ==
  ASSUME TempInv, NEW old, tmp_realloc_fails(old)
  PROVE  TempInv'
<1>1. CASE ~Head_is(old)
  BY <1>1 DEF tmp_realloc_fails, TempInv, BlocksAllocated
<1>2. CASE Head_is(old)
  <2> DEFINE n == Len(blocks)
  <2>1. /\ blocks \in Seq(Ptrs \cup {NULL}) /\ blocks # <<>>
        /\ blocks' = [blocks EXCEPT ![n] = NULL]
        /\ UNCHANGED <<heap, by_hand, double_free>>
    BY <1>2 DEF TempInv, tmp_realloc_fails, Head_is
  <2>2. n \in Nat \ {0} /\ n \in 1 .. n /\ DOMAIN blocks = 1 .. n
    BY <2>1, EmptySeq, LenProperties
  <2>3. /\ blocks' \in Seq(Ptrs \cup {NULL}) /\ DOMAIN blocks' = DOMAIN blocks
        /\ \A i \in DOMAIN blocks : blocks'[i] = IF i = n THEN NULL ELSE blocks[i]
    <3>1. /\ blocks' \in Seq(Ptrs \cup {NULL}) /\ Len(blocks') = n
          /\ \A i \in 1 .. n : blocks'[i] = IF i = n THEN NULL ELSE blocks[i]
      BY <2>1, <2>2, ExceptSeq
    <3> QED BY <2>2, <3>1, LenProperties
  <2> HIDE DEF n
  <2> QED BY <2>1, <2>3 DEF TempInv, BlocksAllocated
<1> QED BY <1>1, <1>2

LEMMA FreeByHandInv ==
  ASSUME TempInv, NEW p, free_by_hand(p)
  PROVE  TempInv'
<1>1. CASE p = NULL
  BY <1>1 DEF free_by_hand, TempInv, BlocksAllocated
<1>2. CASE p # NULL
  BY <1>2 DEF free_by_hand, TempInv, BlocksAllocated
<1> QED BY <1>1, <1>2

LEMMA FreeAllInv ==
  ASSUME TempInv, tmp_free_all
  PROVE  TempInv'
<1>1. blocks' = <<>> /\ DOMAIN blocks' = {} /\ by_hand' = by_hand
      /\ double_free' = (double_free \/ BadFree)
  BY DEF tmp_free_all
<1>2. ~by_hand => ~double_free /\ ~BadFree
  BY DEF TempInv, BlocksAllocated, BadFree, Listed
<1> QED BY <1>1, <1>2, EmptySeq DEF TempInv, BlocksAllocated

LEMMA NextRoundInv ==
  ASSUME TempInv, NextRound
  PROVE  TempInv'
<1>1. DOMAIN blocks = {}
  BY DEF NextRound
<1> QED BY <1>1 DEF NextRound, TempInv, BlocksAllocated

LEMMA TempStays == TempInv /\ UNCHANGED tmpVars => TempInv'
BY DEF tmpVars, TempInv, BlocksAllocated

\* Whoever calls the functions of temp_memory_utils.c in whatever order frees
\* every block once, unless a block was also freed by hand.
THEOREM TempCorrect == TmpSpec => []FreedOnce
<1>1. TempInv /\ [TmpNext]_tmpVars => TempInv'
  BY MallocInv, ReallocInv, ReallocFailsInv, FreeByHandInv, FreeAllInv,
     NextRoundInv, TempStays DEF TmpNext
<1>2. TempInv => FreedOnce
  BY DEF TempInv, BlocksAllocated, FreedOnce
<1> QED BY <1>1, <1>2, TempInvInit, PTL DEF TmpSpec

-----------------------------------------------------------------------------
(* The commands: every step is one of the exception mechanism and one of   *)
(* temporary memory, or leaves it alone.                                   *)


\* What the current statement names is of the right kind.
LEMMA HereFacts ==
  ASSUME ExcInv, calls # <<>>
  PROVE  /\ Here.fns \subseteq DOMAIN Code
         /\ Here.exs \subseteq Exceptions
         /\ Here.op \in {"end", "end_if"} => Here.arg \in Endings
         /\ Top.my_ex \in Exceptions \cup {None}
<1>1. Top \in Act /\ Top.fn \in DOMAIN Code /\ Top.at \in Lines(Top.fn)
  BY TopFacts DEF ExcInv
<1>2. WellNested(Top.fn)
  BY <1>1, CodeAssumption
<1>3. /\ Here.fns \subseteq DOMAIN Code
      /\ Here.exs \subseteq Exceptions
      /\ Here.op \in {"end", "end_if"} => Here.arg \in Endings
  BY <1>1, <1>2 DEF WellNested, Here
<1> QED BY <1>1, <1>3 DEF Act

LEMMA ThrowableFacts ==
  ASSUME ExcInv
  PROVE  Throwable \subseteq Exceptions
BY HereFacts DEF Throwable

LEMMA CmdIsExceptions == ExcInv /\ [CmdNext]_cmdVars => [Next]_excVars
<1> SUFFICES ASSUME ExcInv, [CmdNext]_cmdVars PROVE [Next]_excVars
  OBVIOUS
<1>1. CASE StartCommand
  BY <1>1 DEF StartCommand, Next
<1>2. CASE CallStep
  <2>1. calls # <<>> /\ \E f \in Here.fns : Invoke(f)
    BY <1>2 DEF CallStep, Active
  <2> QED BY <2>1, HereFacts DEF Next
<1>3. CASE ReturnStep
  BY <1>3 DEF ReturnStep, Next
<1>4. CASE PlainStep
  <2>1. \E op \in {"do", "return_if", "finally", "end_if"} : Passes(op)
    BY <1>4 DEF PlainStep
  <2> QED BY <2>1 DEF Next, Effects
<1>5. CASE BranchStep
  <2>1. Jumps \/ Passes("if")
    BY <1>5 DEF BranchStep
  <2> QED BY <2>1 DEF Next
<1>6. CASE TryStep
  BY <1>6 DEF TryStep, Next
<1>7. CASE EtryStep
  BY <1>7 DEF EtryStep, Next
<1>8. CASE GetStep
  BY <1>8 DEF GetStep, Next, Effects
<1>9. CASE PutStep
  BY <1>9 DEF PutStep, Next, Effects
<1>10. CASE TmpStep
  <2>1. Passes("tmp") \/ Passes("grow") \/ Passes("free")
    BY <1>10 DEF TmpStep
  <2> QED BY <2>1 DEF Next, Effects
<1>11. CASE FreeAllStep
  <2>1. Passes("free_all") \/ crashes("abort")
    BY <1>11 DEF FreeAllStep
  <2> QED BY <2>1 DEF Next, Effects, Endings
<1>12. CASE MappingsStep \/ PidStep
  <2>1. Passes("set")
    BY <1>12 DEF MappingsStep, PidStep
  <2> QED BY <2>1 DEF Next, Effects
<1>13. CASE free_mem_mappings
  <2>1. Passes("set") \/ crashes("segv")
    BY <1>13 DEF free_mem_mappings
  <2> QED BY <2>1 DEF Next, Effects, Endings
<1>14. CASE RaiseStep
  <2>1. \E e \in Throwable : throw_exception(e)
    BY <1>14 DEF RaiseStep
  <2> QED BY <2>1, ThrowableFacts DEF Next
<1>15. CASE EndStep
  <2>1. calls # <<>> /\ Here.op \in {"end", "end_if"} /\ ends(Here.arg)
    BY <1>15 DEF EndStep, ends, Active
  <2> QED BY <2>1, HereFacts DEF Next
<1>16. CASE CmdTerminated \/ UNCHANGED cmdVars
  BY <1>16 DEF CmdTerminated, cmdVars
<1> QED
  BY <1>1, <1>2, <1>3, <1>4, <1>5, <1>6, <1>7, <1>8, <1>9, <1>10, <1>11, <1>12,
     <1>13, <1>14, <1>15, <1>16 DEF CmdNext

LEMMA CmdTempInv == TempInv /\ [CmdNext]_cmdVars => TempInv'
<1> SUFFICES ASSUME TempInv, [CmdNext]_cmdVars PROVE TempInv'
  OBVIOUS
<1>1. CASE StartCommand
  BY <1>1, NextRoundInv DEF StartCommand
<1>2. CASE TmpStep
  <2>1. CASE \E p \in Candidates : tmp_malloc(p)
    BY <2>1, MallocInv
  <2>2. CASE \E p \in Moves(Mine.buf) : tmp_realloc(Mine.buf, p)
    BY <2>2, ReallocInv
  <2>3. CASE free_by_hand(Mine.buf)
    BY <2>3, FreeByHandInv
  <2> QED BY <1>2, <2>1, <2>2, <2>3 DEF TmpStep
<1>3. CASE FreeAllStep
  BY <1>3, FreeAllInv DEF FreeAllStep
<1>4. CASE RaiseStep
  <2>1. tmp_realloc_fails(Mine.buf) \/ UNCHANGED tmpVars
    BY <1>4 DEF RaiseStep
  <2> QED BY <2>1, ReallocFailsInv, TempStays
<1>5. CASE CallStep \/ ReturnStep \/ PlainStep \/ BranchStep \/ TryStep
  BY <1>5, TempStays DEF CallStep, ReturnStep, PlainStep, BranchStep, TryStep
<1>6. CASE EtryStep \/ GetStep \/ PutStep \/ MappingsStep \/ free_mem_mappings
  BY <1>6, TempStays DEF EtryStep, GetStep, PutStep, MappingsStep, free_mem_mappings
<1>7. CASE PidStep \/ EndStep \/ CmdTerminated \/ UNCHANGED cmdVars
  BY <1>7, TempStays DEF PidStep, EndStep, CmdTerminated, cmdVars
<1> QED BY <1>1, <1>2, <1>3, <1>4, <1>5, <1>6, <1>7 DEF CmdNext

\* Whatever the commands do and whatever fails in them, longjmp goes to the
\* innermost open try of a function that is still active.
THEOREM CommandEnvsCorrect == CmdSpec => []EnvsMatch
<1>1. CmdInit => ExcInv
  BY ExcInvInit DEF CmdInit
<1>2. ExcInv /\ [CmdNext]_cmdVars => ExcInv'
  BY CmdIsExceptions, ExcInvNext
<1>3. ExcInv => EnvsMatch
  BY DEF ExcInv
<1> QED BY <1>1, <1>2, <1>3, PTL DEF CmdSpec

\* A command frees every temporary block once, whatever fails in it, unless it
\* has freed one by hand.
THEOREM CommandFreedOnce == CmdSpec => []FreedOnce
<1>1. CmdInit => TempInv
  BY TempInvInit DEF CmdInit
<1>2. TempInv => FreedOnce
  BY DEF TempInv, BlocksAllocated, FreedOnce
<1> QED BY <1>1, <1>2, CmdTempInv, PTL DEF CmdSpec

=============================================================================
