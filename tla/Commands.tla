------------------------------ MODULE Commands ------------------------------
(***************************************************************************)
(* The commands of my-dbg as far as exceptions, resources and temporary    *)
(* memory go: the functions of Code run under the exception mechanism,     *)
(* each with the resources it holds, over the list of temporary blocks.    *)
(* A resource that is held by a function longjmp drops, or that returns    *)
(* without releasing it or giving it to its caller, is lost.               *)
(***************************************************************************)
EXTENDS Exceptions, TempMemory

CONSTANT NeedsProgram  \* the commands registered as PROGRAM_REQUIRED

VARIABLES
  locals,     \* of every active function: resources held, its tmp_realloc pointer
  ended,      \* has the array of memory mappings its end mark?
  g_pid,      \* does g_pid name a process?
  traced,     \* does the kernel have a process traced by my-dbg?
  g_quit,
  lost,       \* what this command lost, and in which function
  forgotten,  \* exceptions of this command that no case named, and where
  first,      \* the exception this command reports, or would
  pid_before, \* g_pid when this command started
  overread    \* has free_mem_mappings read past the end of the array?

dbgVars == <<locals, ended, g_pid, traced, g_quit>>
ghostVars == <<lost, forgotten, first, pid_before, overread>>
cmdVars == <<excVars, tmpVars, dbgVars, ghostVars>>

NewLocals(resources) == [held |-> resources, buf |-> NULL]

CmdInit ==
  /\ Init
  /\ TmpInit
  /\ locals = <<>> /\ ended = FALSE /\ g_quit = FALSE
  /\ g_pid \in BOOLEAN /\ traced = g_pid
  /\ lost = {} /\ forgotten = {} /\ first = None
  /\ pid_before = g_pid /\ overread = FALSE

Mine == locals[Len(locals)]
Owns(resources) == locals' = [locals EXCEPT ![Len(locals)].held = resources]
Stored(r) == {<<Top.fn, x>> : x \in r}

-----------------------------------------------------------------------------
(* Calls and returns. *)

\* main reads a line and calls run_command, the only root.
StartCommand ==
  /\ ~g_quit
  /\ \E f \in Roots : Enter(f)
  /\ locals' = <<NewLocals({})>>
  /\ lost' = {} /\ forgotten' = {} /\ first' = None /\ pid_before' = g_pid
  /\ overread' = FALSE
  /\ NextRound
  /\ UNCHANGED <<ended, g_pid, traced, g_quit>>

CallStep ==
  /\ Active("call")
  /\ \E f \in Here.fns :
       /\ f \in NeedsProgram => g_pid
       /\ Invoke(f)
  /\ LET handed == IF Here.arg = "hand" THEN Mine.held ELSE {} IN
     locals' = IF over' # "no" THEN locals
               ELSE Append([locals EXCEPT ![Len(locals)].held = @ \ handed],
                           NewLocals(handed))
  /\ UNCHANGED <<tmpVars, ended, g_pid, traced, g_quit, ghostVars>>

\* The resources go to the caller or nowhere.
ReturnStep ==
  /\ Returns \/ Leaves
  /\ LET given == IF Here.arg = "give" THEN Mine.held ELSE {} IN
     /\ locals' = IF Len(locals) = 1 THEN <<>>
                  ELSE [SubSeq(locals, 1, Len(locals) - 1) EXCEPT
                          ![Len(locals) - 1].held = @ \cup given]
     /\ lost' = lost \cup Stored(Mine.held \ given)
  /\ UNCHANGED <<tmpVars, ended, g_pid, traced, g_quit,
                 forgotten, first, pid_before, overread>>

-----------------------------------------------------------------------------
(* Statements. *)

PlainStep ==
  /\ \E op \in {"do", "return_if", "finally", "end_if"} : Passes(op)
  /\ UNCHANGED <<tmpVars, dbgVars, ghostVars>>

\* The conditions that depend on what the model follows.
Holds(cond) ==
  \/ cond = "null" /\ Mine.held = {}
  \/ cond = "attached" /\ g_pid
  \/ cond = "nothing saved" /\ Top.my_ex = None
  \/ cond = "quit" /\ g_quit

BranchStep ==
  /\ \/ Jumps /\ (Here.op = "if" /\ Here.arg # "" => Holds(Here.arg))
     \/ Passes("if") /\ (Here.arg # "" => ~Holds(Here.arg))
  /\ UNCHANGED <<tmpVars, dbgVars, ghostVars>>

TryStep ==
  /\ Tries \/ Skips \/ Saves \/ NothingSaved
  /\ UNCHANGED <<tmpVars, dbgVars, ghostVars>>

\* An exception a try below run_command has handled is not reported.
EtryStep ==
  /\ Etries
  /\ first' = IF Len(calls) > 1 /\ Top.ex # None /\ Top.my_ex = None
              THEN None ELSE first
  /\ UNCHANGED <<tmpVars, dbgVars, lost, forgotten, pid_before, overread>>

GetStep ==
  /\ Passes("get")
  /\ Owns(Mine.held \cup {Here.arg})
  /\ lost' = lost \cup Stored(Mine.held \cap {Here.arg})
  /\ UNCHANGED <<tmpVars, ended, g_pid, traced, g_quit,
                 forgotten, first, pid_before, overread>>

PutStep ==
  /\ Passes("put")
  /\ Owns(Mine.held \ {Here.arg})
  /\ UNCHANGED <<tmpVars, ended, g_pid, traced, g_quit, ghostVars>>

\* As addresses are alike, malloc returns the least of those that were freed
\* and are still listed, or the least of the others; realloc moves the
\* block to the address kept for that, if it is free.
Least(S) == {p \in S : \A q \in S : p <= q}
Spare == CHOOSE p \in Ptrs : \A q \in Ptrs : q <= p
Candidates ==
  LET free == Ptrs \ (heap \cup {Spare}) IN
  Least(free \cap Listed) \cup Least(free \ Listed)
Moves(old) ==
  IF old # NULL /\ Head_is(old) THEN {IF Spare \in heap THEN old ELSE Spare}
  ELSE Candidates

TmpStep ==
  /\ \/ Passes("tmp") /\ (\E p \in Candidates : tmp_malloc(p)) /\ UNCHANGED locals
     \/ /\ Passes("grow")
        /\ \E p \in Moves(Mine.buf) :
             /\ tmp_realloc(Mine.buf, p)
             /\ locals' = [locals EXCEPT ![Len(locals)].buf = p]
     \/ /\ Passes("free")
        /\ free_by_hand(Mine.buf)
        /\ locals' = [locals EXCEPT ![Len(locals)].buf = NULL]
  /\ UNCHANGED <<ended, g_pid, traced, g_quit, ghostVars>>

\* A double free may end my-dbg.
FreeAllStep ==
  /\ tmp_free_all
  /\ \/ Passes("free_all")
     \/ Active("free_all") /\ BadFree /\ crashes("abort")
  /\ UNCHANGED <<dbgVars, ghostVars>>

-----------------------------------------------------------------------------
(* Statements that change globals or the array of mappings. *)

Sets(what) == Active("set") /\ Here.arg = what

add_mem_mapping == Sets("add_mem_mapping")

MappingsStep ==
  /\ Passes("set")
  /\ \/ /\ add_mem_mapping
        /\ Owns(Mine.held \cup {"mappings"})
        /\ ended' = FALSE
     \/ /\ Sets("end_mark")
        /\ Owns(Mine.held \cup {"mappings"})
        /\ ended' = TRUE
  /\ UNCHANGED <<tmpVars, g_pid, traced, g_quit, ghostVars>>

\* Without its end mark the array is read past its last element.
FreesPastEnd == Sets("free_mem_mappings") /\ "mappings" \in Mine.held /\ ~ended

free_mem_mappings ==
  /\ Sets("free_mem_mappings")
  /\ Passes("set") \/ (FreesPastEnd /\ crashes("segv"))
  /\ Owns(Mine.held \ {"mappings"})
  /\ overread' = (overread \/ FreesPastEnd)
  /\ UNCHANGED <<tmpVars, ended, g_pid, traced, g_quit,
                 lost, forgotten, first, pid_before>>

PidStep ==
  /\ Passes("set")
  /\ \/ Sets("g_pid = pid") /\ g_pid' = TRUE /\ UNCHANGED <<traced, g_quit>>
     \/ Sets("g_pid = 0") /\ g_pid' = FALSE /\ UNCHANGED <<traced, g_quit>>
     \/ Sets("PTRACE_ATTACH") /\ traced' = TRUE /\ UNCHANGED <<g_pid, g_quit>>
     \/ Sets("g_quit") /\ g_quit' = TRUE /\ UNCHANGED <<g_pid, traced>>
     \/ Sets("add_syscall_break") /\ UNCHANGED <<g_pid, traced, g_quit>>
  /\ UNCHANGED <<tmpVars, locals, ended, ghostVars>>

-----------------------------------------------------------------------------
(* Exceptions and the end of my-dbg. *)

\* longjmp drops the functions above the environment with all they hold.  A
\* mapping that does not scan is in the array already; a block realloc could
\* not move is no longer in the list.
RaiseStep ==
  /\ \E e \in Throwable :
       /\ throw_exception(e)
       /\ first' = IF first = None THEN e ELSE first
       /\ forgotten' =
            IF list # <<>> /\ Handlers(calls[Env.depth].fn, Env.at, e) = {}
            THEN forgotten \cup {<<calls[Env.depth].fn, e>>} ELSE forgotten
  /\ LET keeps == IF list = <<>> THEN Len(calls) ELSE Env.depth
         before == IF add_mem_mapping
                   THEN [locals EXCEPT ![Len(locals)].held = @ \cup {"mappings"}]
                   ELSE locals
     IN /\ locals' = SubSeq(before, 1, keeps)
        /\ lost' = lost \cup UNION {{<<calls[d].fn, r>> : r \in before[d].held} :
                                    d \in (keeps + 1) .. Len(calls)}
  /\ ended' = (ended /\ ~add_mem_mapping)
  /\ IF Here.op = "grow" THEN tmp_realloc_fails(Mine.buf) ELSE UNCHANGED tmpVars
  /\ UNCHANGED <<g_pid, traced, g_quit, pid_before, overread>>

\* ptrace_error ends my-dbg when the process is gone and g_pid names it.
EndStep ==
  /\ ends(Here.arg)
  /\ Here.op = "end_if" => g_pid
  /\ UNCHANGED <<tmpVars, dbgVars, ghostVars>>

CmdTerminated ==
  /\ over # "no" \/ (calls = <<>> /\ g_quit)
  /\ UNCHANGED cmdVars

CmdNext ==
  \/ StartCommand \/ CallStep \/ ReturnStep \/ PlainStep \/ BranchStep
  \/ TryStep \/ EtryStep \/ GetStep \/ PutStep \/ TmpStep \/ FreeAllStep
  \/ MappingsStep \/ free_mem_mappings \/ PidStep \/ RaiseStep \/ EndStep
  \/ CmdTerminated

CmdSpec == CmdInit /\ [][CmdNext]_cmdVars

=============================================================================
