# A verification project for my-dbg

my-dbg is a small interactive debugger for Linux on x86-64, written in C. It
forks a program under `ptrace` (or attaches to a process), places `0xCC` traps
and lists of system calls in it, and moves it with `continue`, `step_instr`,
`next_instr` and `finish`. This directory holds TLA+ modules that model it,
configurations that TLC checks, and proofs that TLAPS checks.

All paths below are relative to the root of the repository; `README:101` is line
101 of its README.

## 1. Inventory

my-dbg is one thread. What runs beside it is the program it debugs, other
processes that send signals to that program, and the kernel, which stops the
program and reports the stop to `waitpid`. Most of what is hard in the code
comes from that: the debugger changes the text and the registers of a program
between two of its instructions and has to undo it at the right moment, and
every request fails once the program is gone.

| Component | Sources (under `src/`) | State | Operations | Interacts with |
|---|---|---|---|---|
| Breakpoint table | `breakpoints.c`, `commands/cmd_break.c`, `cmd_tbreak.c`, `cmd_breakl.c`, `cmd_break_del.c` | `g_breakpoints`, `g_bp_len`; the bytes of the program | `place_breakpoint`, `toggle_breakpoint`, `get_breakpoint`, deletion | the text of the program (PEEK/POKE), `g_syscalls` |
| Caught system calls | `syscalls.c`, `commands/cmd_breaks.c` | `g_syscalls`, `g_syscalls_nb` | `add_syscall_break`, `in_syscalls` | the breakpoint table, `wait_program` |
| Execution core | `binary.c`, `wrappers/my_syscalls.c` | `g_pid`, `g_signum`, `g_syscall_entry`, the C stack | `wait_program`, `single_step`, `continue_execution`, `setup_binary` | everything above, the kernel |
| Moving commands | `commands/cmd_continue.c`, `cmd_step_instr.c`, `cmd_next_instr.c`, `cmd_finish.c`, `cmd_quit.c` | none of their own | one function each | execution core, decoding, unwinding |
| Main loop and dispatch | `my-dbg.c`, `commands.c`, `prompt.c`, `errors.c` | `g_quit`, the registered commands | `run_command`, `get_command`, `ptrace_error` | all commands, exceptions |
| Attaching | `commands/cmd_attach.c` | `g_pid` | `attach_process` | kernel, unwinding |
| Registers | `registers.c`, `commands/cmd_info_regs.c` | none | get, set, by name | kernel |
| Memory, mappings | `memory.c`, `mem_mappings.c`, `commands/cmd_examine.c`, `cmd_info_memory.c` | descriptors | `read_memory`, `read_mem_string`, `get_mem_mappings` | `/proc/<pid>`, temporary memory |
| Decoding, unwinding | `wrappers/capstone_wrapper.c`, `wrappers/libunwind_wrapper.c`, `commands/cmd_disassemble.c`, `cmd_backtrace.c` | libunwind's address space | `get_instruction`, `get_finish_address` | memory |
| Symbols, lines | `infos/my_elf.c`, `infos/gnu_hash_table.c`, `infos/my_dwarf.c`, `infos/dwarf_state_machine.c`, `commands/cmd_breakf.c`, `cmd_list.c` | a mapped file per lookup | `get_address`, `get_address_gnu_hash`, `run_machine`, `get_line_address` | memory, temporary memory |
| Exceptions | `utils/exceptions.c`, `include/utils/exceptions.h` | a stack of environments | `try`, `catch`, `throw` | all code that can fail |
| Temporary memory | `utils/temp_memory_utils.c` | a list of blocks | `tmp_malloc`, `tmp_realloc`, `tmp_free_all` | `run_command`, readers |
| Conversions | `utils/format_utils.c`, `string_utils.c`, `array_utils.c`, `file_utils.c` | none | `read_size`, `read_address` | commands |

What makes them correct, and what is hard about it:

* *Table and text.* A trap is in the text exactly where one record is enabled;
  the byte put back is the one the compiler wrote. Hard because a step over a
  breakpoint is two toggles with a run of the program, its death, its signals
  and its system calls between them, and because the "original" byte is whatever
  was there when the record was made.
* *Transparency.* The program executes the instructions it would execute alone.
  Hard because rip has to be moved back after a trap and after nothing else.
* *Signals.* A signal that stops the program reaches it once, however many
  commands come between; the SIGTRAPs the debugger causes do not.
* *System calls.* Only entries of caught calls are reported. The kernel does not
  say whether a syscall stop is an entry, so a flag counts them.
* *Death.* The program may die at any instruction and be killed in any state;
  the command must end.
* *Lifetime.* Environments, blocks, descriptors and mapped files are released on
  every path, the throwing ones included.
* *Algorithms.* LEB128, the line-number machine and the GNU hash table compute
  what their formats define.

## 2. Plan

The execution core came first: it is what the program is for, and nearly every
other component only feeds it an address. Then what every command relies on
(exceptions, temporary memory, released resources), then the two algorithms that
turn a line or a name into an address.

| Step | Module | What |
|---|---|---|
| 1 | `Tracee` | program and kernel (external) |
| 2 | `Breakpoints` | the two tables over the text |
| 3 | `Debugger` | execution core, commands and main loop, composed with 1 and 2 |
| 4 | `NativeExecution` | abstract specification: the program alone |
| 5 | `DebuggerProperties`, `DocumentedClaims`, `MCDebugger` | properties, documented claims, instances |
| 6 | `DebuggerProofs` | types, text and table |
| | `CoreProofs`, `TransparentProofs` | stops, system calls, signals; the refinement of 4 |
| 7 | `Statements`, `Exceptions` | `try`, `catch`, `finally`, `etry`, `throw`, for any program |
| 8 | `TempMemory` | the list of blocks that are freed at the end of a command |
| 9 | `CommandCode`, `Commands` | the functions of my-dbg under 7 and 8, with resources, `g_pid` and the array of mappings |
| 10 | `CommandProperties`, `MCCommands` | their properties, instances |
| 11 | `ExceptionProofs`, `CommandProofs` | the list of environments, the list of blocks |
| | `FlowRules`, `CommandFlow`, `MCFlow` | what is known at each line of a function, whoever calls it |
| | `FlowProofs` | the properties of 10 for any depth of calls and any number of blocks |
| 12 | `LineProgram`, `LineTable`, `DwarfLine` | what compilers write (external), what the standard promises (external, abstract specification), how my-dbg reads it |
| 13 | `LineProperties`, `MCLines` | refinement and searches, instances |
| | `LineProofs` | the machine, the refinement and the searches for every program |
| 14 | `GnuHash`, `SymbolLookup` | symbols of one object, the lookup over all of them |
| 15 | `SymbolProperties`, `MCSymbols` | properties, instances |
| 16 | `SymbolProofs` | the properties of 15 for every program and library |

3 composes 1 and 2; 9 composes 7 and 8. 12 to 16 stand alone: they share no
changing state with the rest, they only deliver the address that
`cmd_breakf` and `cmd_breakl` hand to `place_breakpoint`. Modules with proofs
use no recursive operators (`MCFlow`, which has one, is for TLC only).

Nothing of the plan is left; section 6 says what is only model-checked, section 7
what is not modelled.

## 3. Modules

### Tracee (external)

The program and the kernel as the code relies on them. `Insn` maps the address
of an instruction to its kind (`plain`, `call`, `ret`, `syscall`), size,
successors and system call; `text` says for every byte whether it is the
compiler's or a trap. `run` is "stopped", "dead" or the request that resumed the
program; `stop` is the status `waitpid` has not fetched yet. One action per kind
of instruction, one for the trap, one for the return from a system call, one for
bytes that are no instruction (`Derail`: anything may happen except silence
about it), and `TakeSignal`, `Signal`, `Kill`. A system call stops at its entry
and its return only under PTRACE_SYSCALL; a step requested at the entry ends in
a plain SIGTRAP, as Linux does it. A signal the debugger passes on is ignored by
the program or kills it.

### Breakpoints

`bps` is `g_breakpoints`, indexed by ID from 1; `syscalls` is `g_syscalls`. The
field `word` of a record is the low byte that was saved; its second use as an
index is the field `slot`. `toggle_breakpoint`, `place_breakpoint`,
`get_breakpoint` (the first match), `add_syscall_break` and `in_syscalls` are the
functions of the same names. The stray write of `break_del` (an index made of
eight bytes of code) ends my-dbg, or lands in writable memory: on nothing that
matters or on an entry of the table. As long as no system call was ever caught
`g_syscalls` is NULL and only the first is left. That it might hit other memory of
my-dbg, `g_breakpoints` included, is left out.

### Debugger

`pc` is the position of the thread. The C stack needs no stack in the model:
`single_step` is called by a command or by `continue_execution` (`nested`), it is
never active twice (`wait_program(1)` does not recurse, since a step reports no
syscall stop), and `continue_execution` has nothing left to do after
`wait_program(0)`, so all its activations return at once; `depth` counts them.

| `pc` | Code |
|---|---|
| `prompt` | `main` in `prompt()`, `src/my-dbg.c:43` |
| `continue` | entry of `continue_execution`, `src/binary.c:178` |
| `single_step` | entry of `single_step`, `src/binary.c:153` |
| `wait` | in `waitpid`, `src/wrappers/my_syscalls.c:28` |
| `handle` | after `my_wait`, `src/binary.c:65` |
| `stepped` | `wait_program(1)` returned, `src/binary.c:172` |
| `resume` | second half of `continue_execution`, `src/binary.c:185` |
| `epilogue` | the command after its last call, e.g. `src/commands/cmd_step_instr.c:16` |
| `exited`, `fatal`, `segv`, `overflow` | my-dbg has ended: normally, by `ptrace_error`, by an invalid write, by its stack |

Each `cmd_*` is the function of that name; each `wait_*` is one branch of
`wait_program`, with everything that branch changes. `FatalAt` is a request that
fails with ESRCH: the exception reaches `run_command` and `ptrace_error` ends
my-dbg, after which the kernel kills the program (`Exit`).

Requests with no `waitpid` between them are one step. The program is stopped
then, and a kill in the middle makes the next request fail as it would have made
the first; nothing reads the half-made changes of a dead program.

`breakf` is `break` with an address from the symbol table; `break` stands for
both. `examine`, `info_regs`, `info_memory`, `backtrace`, `disassemble`, `list`,
`break_list` and `help` change none of this state.

### NativeExecution

What a debugger promises: the program executes its own instructions, in order,
as it would alone, and dies only of its own exit, of a signal, or of somebody
who kills it. `DebuggerProperties` maps the debugger to it: `Position` is the
instruction about to be executed (a trap that has not been handled is not
executed, a system call is executed when it returns). The promise is suspended in
two named kinds of states only, which the defects of section 4 lead to: a
record that saved a trap, was deleted or lies inside an instruction
(`TableDamaged`), and a signal taken for a hit (`SignalTakenForHit`).

### DebuggerProperties, DocumentedClaims, MCDebugger

The properties; the statements of the README, of messages and of comments that
the code does not live up to; and the program TLC executes: a loop around a call
to a function with a one-byte instruction, a system call and a return, and an
exit.

```
0 call 8   2 mov   4 jcc 0   6 syscall(exit)   8 nop   9 syscall(write)   11 ret
```

### Statements, Exceptions

A C function is a map from the line numbers of its file to statements: calls,
branches, the macros of `include/utils/exceptions.h`, throws, and effects that
may fail. `Exceptions` runs any such program: `calls` is the C stack, `list` the
static list of environments (`src/utils/exceptions.c:9`), `over` how my-dbg
ended. `Tries` is `new_env`, `Etries` and `Leaves` call `delete_env`, and
`throw_exception` cuts the stack at the newest environment and continues at the
case label of the `switch` that names the exception, at `finally`, or behind the
`switch` when none does. An environment stays in the list until `etry`, so a
throw in a handler comes back to the same `try`. `WellNested` says what the macros
need of a function; TLC evaluates it on the code of my-dbg.

### TempMemory

The list of `src/utils/temp_memory_utils.c` over a heap of addresses:
`tmp_malloc`, both ways of `tmp_realloc` and its failure, `tmp_free_all`, and
`free` of a block by somebody else. `malloc` may return any address that is not
allocated, one that has just been freed included.

### CommandCode, Commands

`CommandCode` holds the functions of my-dbg that throw, catch, take a resource, use
temporary memory or call one that does, each as a line-numbered map that can be
read beside its C function. `Commands` runs them: every function holds the
resources it has taken (`held`) until it releases them, hands them to its
caller, or is dropped by `longjmp`, and what is dropped is `lost`. `ended` says
whether the array of mappings has its end mark; `g_pid`, `traced` and `g_quit`
are the globals of the session and what the kernel knows of it. Conditions of
the code that do not depend on these go both ways, and every call that can fail
does.

| Statement | In the code |
|---|---|
| `Get`, `Put`, `GetOr` | `open`, `fopen`, `mmap`, `cs_open`, `cs_disasm`, `getline`, `asprintf` and what releases them |
| `Tmp`, `Grow`, `FreeByHand`, `FreeAll` | `tmp_malloc` and its kin, `tmp_realloc`, `free`, `tmp_free_all` |
| `Try`, `Catch`, `Finally`, `Etry`, `Throw`, `Leave` | the macros; `delete_env(); return` |
| `Save`, `Keep`, `Rethrow` | `my_ex = ex`, the same if it is `None`, `throw(my_ex)` if it is not |
| `Call`, `Hand`, `Give` | a call; a call that takes the resources; a return that gives them |
| `May` | something outside that succeeds or throws |

### FlowRules, CommandFlow, MCFlow

An analysis of the functions, not a model of another part. A *fact* at a line of
a function relates the globals it was entered with (`from`) to the globals now
(`now`: the end mark, `g_pid`, the first exception of the command, whether a
block is listed), the resources it holds, `ex` and `my_ex`. There is no stack in a
fact, and no address. `FlowRules` says what each kind of statement makes of a
fact; `CommandFlow` asks of a set `Flow` of facts that it is closed under these
rules: a call places a fact at the first line of the callee, a fact at a `return`
with the same `from` comes back behind the call, and an exception goes to the
handler of the innermost open try or becomes an escape of the function, which its
callers raise in turn. Every set of functions has such a set (`FlowAssumption`
restricts none); `MCFlow` computes the least one for the functions of
`CommandCode`, about which `Verdicts` is then a finite question.

### LineProgram, LineTable, DwarfLine

`LineProgram` encodes instructions as an assembler does (`BytesOf`: where each one
begins) and `LineTable` is the matrix DWARF 4 defines for them, one instruction after
another; neither is code of my-dbg. `DwarfLine` is: it is given the *bytes* and runs `run_machine` over them,
one action per kind of instruction, with `read_leb128` as it is written. On the
rows it has the two searches, `get_nearest_state` with `print_line_at_addr`
(`list`) and `get_line_address_internal` (`breakl`). The loop of `get_nearest_state`
keeps the last of the rows at the least distance from rip; it is modelled by what
it leaves, the greatest index of `Nearest`, 0 for NULL.

### GnuHash, SymbolLookup

`GnuHash` lays out a table as the linker does (external) and searches it as
`get_address_gnu_hash` does, Bloom filter, bucket and chain; `get_address_dyn`
is the search through all symbols. `SymbolLookup` is `get_address_internal`: one
action per call it makes, over the file, the dynamic symbols of the program, and
the objects of the link map in their order. What the linker and the loader
guarantee is named and external: `IsLinked` (a hash table that ends each of its
buckets, imports without a value, no name both imported and exported), `ImportsFirst`
(`.dynsym` precedes `.symtab`) and `IsLoaded` (an executable that is not
relocated, or lies above all addresses of its file; a link map that begins with
it). An import with the address of its PLT entry, as old executables that are not
position independent have, is outside of it.

## 4. Runs

Deadlock is checked in all of them.

| Run | Module | Checks | Inputs and bounds |
|---|---|---|---|
| `breakpoints` | `MCDebugger` | `TypeOK`, `TrapsMatchTable`, `NoLostBreakpoint`, `TableInv`, `OnInstructions`, `SignalForwarded`, `Transparent` | all placing and moving commands, 5 addresses (one unmapped), 2 records, two signals (one is SIGTRAP) before any instruction, SIGKILL at any moment |
| `syscalls` | `MCDebugger` | `CatchListed`, `CoreInv`, `PhaseKept`, `CatchExact`, `BreakpointsStop` | a caught, a not caught and an exiting call; `break_del`; a breakpoint at the return of a call; a signal; SIGKILL; 3 records |
| `liveness` | `MCDebugger` | `DeathEndsCommand`, `LoopBreakpointReached` | all moving commands, SIGKILL, a signal, one record |
| `commands` | `MCCommands` | `EnvsMatch`, `ResourcesReleased`, `NoBlockAtPrompt`, `FreedOnce`, `NothingForgotten`, `FirstReported`, `FailureKeepsPid`, `OverreadOnlyOnFailure`, `FlowCovers`, `FactsSuffice` | every command after every other, every failure; 17 addresses |
| `lines` | `MCLines` | `LineTypeOK`, `Aligned`, `ListShowsCovering`, `BreaklThenList`, `FilesInside`, `InStep`, `Ends` | 3 headers; programs of two sequences with any two of 25 instructions, operands that are read wrong among them |
| `symbols` | `MCSymbols` | `FirstDefinition`, `FunctionsFound`, `GivesUpLate`, `NothingMissed` | 3 types of file, stripped or not; up to two libraries, three layouts of their hash tables; three names |

The execution core:

* `TrapsMatchTable`: as long as every record saved an original byte, the text
  holds a trap exactly where one record is enabled, and only one is.
* `NoLostBreakpoint`: a breakpoint that is not temporary is found disabled only
  during the step over it, or when my-dbg ended in that step.
* `TableInv`: both, with what makes them inductive (section 6).
* `Transparent`: the refinement of `NativeExecution`.
* `OnInstructions`: what the refinement rests on (section 6).
* `SignalForwarded`: a resumption delivers the signal of the last stop, and no
  SIGTRAP my-dbg caused itself. A SIGTRAP sent by somebody else cannot be told
  from those and is excluded by name.
* `CatchListed`: `g_syscalls` and the records agree through additions and
  deletions.
* `PhaseKept`: `g_syscall_entry` follows the program through any order of stops,
  signals, breakpoints and deaths, except for a single step out of a system call.
* `CatchExact`: while it is in phase, a syscall stop is reported exactly when it
  is the entry of a caught call.
* `BreakpointsStop`: the breakpoint the program is stepped over when it goes on by
  itself after a syscall stop is never one that nobody has seen.
* `DeathEndsCommand`: a command whose program dies comes back or my-dbg ends.
* `LoopBreakpointReached`: a program that keeps passing an armed breakpoint is
  stopped.
* `CoreInv`: what makes the properties of signals and system calls inductive
  (section 6).

What a command leaves behind:

* `EnvsMatch`: the list of environments is exactly the open tries of the active
  functions, so that `longjmp` never jumps into one that has returned.
* `ResourcesReleased`: nothing is lost but in the 13 windows that the definition
  lists by function; in particular a lookup always unmaps and closes its file.
* `NoBlockAtPrompt`, `FreedOnce`: temporary blocks are freed at the end of a
  command, once. The exception is `read_mem_string` that fails in the middle of a
  string: it frees a block that stays on the list.
* `NothingForgotten`: every exception meets a case that names it, with two
  exceptions: `breaks %reg` that cannot read the registers goes on with system
  call 0, and `SyscallException` has no case in `run_command`.
* `FirstReported`: cleaning up never replaces the exception that is reported.
* `FailureKeepsPid`: a command that failed has not changed `g_pid`.
* `OverreadOnlyOnFailure`: an array of mappings without its end mark is freed only
  where a line could not be read or parsed.
* `FlowCovers`: what a running function knows is one of the facts of its line. This
  compares the rules of `FlowRules` with the steps of `Commands` in every state.
* `FactsSuffice`: the facts about the functions of my-dbg decide `ResourcesReleased`,
  `NoBlockAtPrompt`, `NothingForgotten`, `FirstReported`, `FailureKeepsPid` and
  `OverreadOnlyOnFailure` before any command runs: none of them has a loss outside
  the windows, a `return` of `run_command` with a block listed, and so on
  (`Verdicts`). The theorems of `FlowProofs` turn it into these properties.

Lines and symbols:

* `LineTypeOK`: the header, the program, the registers and the rows are of their
  types; what was read stays inside the program.
* `Aligned`: `run_machine` is always at the first byte of the instruction after those
  it executed, and executed all when it ends with rows.
* `InStep`: each round is the step of `LineTable` for that instruction (or its
  refusal, or the end) when its operand is one `read_leb128` reads right and the
  registers hold the result, after rounds whose operands were read wrong too. What
  such an operand does to a register is over when that register is set again, or
  the sequence ends. The implementation of `LineTable` as a whole (`TableRefined`)
  is what `line_operands` refutes; for programs without such operands its safety is
  the theorem `LineTableSafe`.
* `Ends`: `run_machine` returns or throws, whatever the program is.
* `ListShowsCovering`: `list` shows the row the standard gives for rip whenever it
  gives one, except where one sequence ends at the first address of another that
  comes earlier. It is about tables whose last row ends its sequence (`Ended`) and
  whose sequences do not overlap (`Apart`), as compilers write them.
* `BreaklThenList`: the line that was given to `breakl` is the one `list` shows at
  the stop, unless a later row of the same address says otherwise.
* `FilesInside`: files and directories are read inside their arrays, for a program
  that keeps to the tables of its header (`Declared`, which the programs of the run
  do).
* `FirstDefinition`: the address is that of the function of the file, or of the
  first object that exports it, moved to where that object is loaded.
* `FunctionsFound`: no function is missed, although half of the names are never
  found in a hash table.
* `GivesUpLate`: the lookup throws only when what it needs is missing before the
  name is met.
* `NothingMissed`: whenever the lookup goes on, the function is not in what it has
  searched so far.

The bounds of the execution core: a defect of the table needs two records (two on
one address, one temporary and one not, one lifted while another is hit) and
`breakpoints` has all pairs; a third record in `syscalls` lets a caught call,
another and a breakpoint coexist. Two signals let one arrive while another is
pending. `MaxFrames` is 1: the core does not look at frames, `finish` only at the
innermost. `MaxDepth` is 2, enough for a stop after a call that was passed over
at its entry and return; beyond it my-dbg "overflows", which ends the behaviour.

The bounds of `commands`: `MaxNested` is 2, since only `continue_execution` and
`wait_program` call themselves again. `LoopBound` ends the loops over tables of the program
once `MaxLooped` + 1 blocks are listed, and `OneFailedString` allows one string of
a command to fail in the middle: a second one does what the first did. 17
addresses are more than the blocks such a command can list. `malloc` returns one representative address of each kind (listed and
freed, or never listed), as addresses are alike; the theorem `TempCorrect` has
no such restriction.

The bounds of `lines`: operands are below `MaxOperand` (two bytes of LEB128; from
the fifth byte on the shift in `read_leb128` is undefined), addresses and fixed
operands below `MaxFixed`; `Width` stands for 2^32. Two instructions between the ends of a sequence
make every pair of them adjacent, a second sequence before, behind or at the end
of the first gives the searches their ties. `advance_pc 300`, `advance_line -1`
and `advance_line 64` are read wrong; each comes before, after and next to every
other instruction.

The bounds of `symbols`: the hashes of the names are small numbers with the
parities and bucket collisions that matter; a library before and one behind the
one that exports the name is enough for the order of the link map.

Some claims of the README, of messages and of comments do not hold; each of these runs
has a counterexample that TLC prints.

| Run | Claim | What the code does |
|---|---|---|
| `delete_orphan` | `TrapNotDelivered` | `break_del` leaves the trap in the text; the program stops at it and the next `continue` sends it the SIGTRAP |
| `signal_rewind` | `RewindOnlyAfterTrap` | a signal one byte after a live breakpoint moves rip back |
| `catch_on_exit` | `CatchOnlyAtEntry` | a step out of a system call inverts the entry flag; a `continue` over a breakpoint right after a system call has such a step in it |
| `attach_fails` | `AttachedIsDebugged` | every `attach` stops the process and then fails, leaving it traced |
| `line_operands` | `TableRefined` | negative operands, and some of two bytes, are read as other numbers |
| `odd_hash` | `NamedIsFound` | a name with an odd hash is never found in a hash table; an indirect function of that name is not found at all |

`delete_orphan` catches a system call first and lets the write of `break_del` land in
writable memory, as it does when the bytes saved are a small number (an instruction
before padding of zeros). The common case is worse: the write goes to an address
that is not mapped, always so while `g_syscalls` is NULL, and my-dbg dies by SIGSEGV
(`segv`) with the program, which PTRACE_O_EXITKILL kills.

The models also reach behaviours no run is spent on: of two records
on one address the second saves the trap of the first; leaving the address of a
new `tbreak` disables it; `next_instr` on a breakpoint decodes the trap and steps
into the call; every system call that is not reported adds two C frames
(`overflow`); `finish` over a trap at the return address breaks one byte after it;
a death in the step over a breakpoint ends my-dbg by a ptrace error
(`src/binary.c:173`); `list` at an address behind all rows shows the end of the
last sequence (`src/infos/my_dwarf.c:181`).

## 5. Fairness

`FairSpec` is weakly fair on `Progress` (my-dbg is a single thread that is
scheduled whenever it is not blocked on the user or in `waitpid`), on
`TraceeRuns` (the kernel schedules a resumed program) and on `Exit` (the kernel
kills the traced program when the debugger is gone). There is none on the user's
commands, on `Signal` or on `Kill`, and none on a branch of the program: a loop
may go round for ever. `DwarfLine` is weakly fair on `run_machine`, a loop of that one
thread.

## 6. Proofs

TLAPS proves, for every program, every set of addresses, signals and system
calls and all bounds that satisfy the named assumptions (`ProgramAssumption`,
`SignalAssumption`, `DebuggerAssumption`: instructions do not overlap and lead to
instructions, -1 is no system call):

* `TypeCorrect`: `Spec => []TypeOK` (`DebuggerProofs`).
* `TableCorrect`: `Spec => []TableInv` (`DebuggerProofs`), and from it
  `TrapsMatchCorrect` and `NoLostCorrect`.

`TrapsMatchTable` is not inductive: arming a record again keeps it only if the
record's place is still free, and nothing in it says so. `TableInv` adds

* `SteppedOver`: while `single_step` remembers a record, my-dbg is between its
  two toggles, the record is disabled, it is about code, and no other record is
  enabled at its address. That is preserved because no command runs there and
  `wait_program(1)` disables at most a temporary record.
* `SyscallStopsTrap`: a syscall stop comes with SIGTRAP, so during a step it is
  taken for the end of the step and never leads into another
  `continue_execution`.
* `CodeMapped`: records about code are at addresses of the program, so that every
  toggle writes a byte.

The proof has one lemma per way a step can touch the table (`TablePlace`,
`TableOff`, `TableStepOver`, `TableTempHit`, `TableReArm`, `TableDelete`,
`TableCatch`, and `TableFrame` for all the others) and one per group of actions
that assigns the actions to them.

* `CoreCorrect`: `Spec => []CoreInv` (`CoreProofs`), and from it
  `CatchListedCorrect`, `SignalForwardedCorrect`, `PhaseKeptCorrect`,
  `CatchExactCorrect` and `BreakpointsStopCorrect`.

`CoreInv` adds to `TableInv`

* `RunsInWait`: the program runs only while my-dbg is in `waitpid`, under the
  request that `step` names, so a stop can be traced to the request before it.
* `Requests`: PTRACE_SYSCALL is used from the first `breaks` on; a program inside
  a system call is never resumed by PTRACE_CONT, which would lose the return.
* `SlotsMatch`: the slots of `g_syscalls` and the records of system calls are one
  to one. Without it `break_del` could clear the slot of another record.
* `StandsInCall`: a nested activation of `continue_execution` stands at an armed
  breakpoint only inside a system call, and a step never stops inside one. It is
  why stepping over that breakpoint executes nothing unseen.
* `SignalKept`: `g_signum` is what the last stop left to deliver, in every phase
  between the end of `wait_program` and the next request.

The action properties follow from `CoreInv` by one case per action that can take
the step they speak of.

* `TransparentCorrect`: `Spec => Transparent` (`TransparentProofs`): `Debugger`
  implements `NativeExecution` under the mapping of `DebuggerProperties`.

Its invariant is `TransparentInv`, which is `CoreInv` with `OnInstructions`: while
the table is not damaged the program is at one of its own instructions, a system
call it is in is the instruction before rip, and a step never meets a trap. The
proof first shows that damage is never repaired (`TableDamageStays`), so that a
sound table after a step was sound before it; then that a sound table leaves
every instruction as the compiler wrote it but for its armed trap (`SoundTable`,
`InsnIntact`); then maps each action to a step of the program alone
(`InstructionMapped`, `SyscallMapped`) or to a stutter (`CommandMapped`,
`WaitMapped`, `ProgressMapped`), and a death to `End` (`SignalMapped`,
`KillMapped`).

For every set of functions that satisfies `CodeAssumption` (blocks are nested, no
jump enters or leaves one, no return inside one):

* `EnvsCorrect`: `Spec => []EnvsMatch` (`ExceptionProofs`). The list is sorted by
  activation and line and holds each open try once; a throw to its last
  element therefore drops exactly the environments of the functions it drops. The
  proof has a lemma per statement on how it changes `Open`, the tries around a
  line.

For every set of addresses and every code:

* `TempCorrect`: `TmpSpec => []FreedOnce` (`CommandProofs`), from
  `BlocksAllocated`: without a free by hand the listed blocks are allocated and
  distinct.
* `CommandEnvsCorrect`, `CommandFreedOnce`: both hold of `Commands`, because each of
  its steps is a step of `Exceptions` and one of `TempMemory` or leaves their state
  alone.

For every code, every closed set of facts, every number of addresses and of nested
activations (`MaxNested`), without the bounds `LoopBound` and `OneFailedString`
of the run (`FlowProofs`):

* `CommandFlowCovers`: `CmdSpec => []FlowCovers`, under no further assumption.
* `CommandReleases`, `CommandFreesBlocks`, `CommandForgetsNothing`,
  `CommandReportsFirst`, `CommandKeepsPid`, `CommandOverread`: each of the
  properties `ResourcesReleased`, `NoBlockAtPrompt`, `NothingForgotten`,
  `FirstReported`, `FailureKeepsPid`, `OverreadOnlyOnFailure` follows from the one
  conjunct of `Verdicts` it names as its assumption. That conjunct is about the
  code, not about runs of it, and TLC evaluates it for the functions of my-dbg
  (`FactsSuffice` in the run `commands`): together they say of my-dbg what
  neither says alone.

`FlowCovers` is not inductive: when a function returns, or an exception drops several,
the facts of the function that goes on have to match those of the one that ends.
`FlowInv` (with `ExcInv` and `TempInv`) says that there is a sequence `ent` of the
globals each active function was entered with, such that the newest function is
at a fact that starts with its `ent`; each of the others `Waits` at a fact of its
call that leads to the next one's `ent`, with the resources that the call leaves
it; and (`Falls`) an escape of a function is also one of each function below it,
down to the next open try, so that a `longjmp` over many activations ends in a fact of
the handler. The proof has a lemma per rule on what closure gives, one per group
of actions on what it changes, and one per way the stack changes (a move, a
call, a return, a longjmp). TLC does not enumerate `ent`; it checks `FlowCovers`,
which is what the other theorems use.

For all programs, libraries, names and hashes that satisfy `ImageAssumption`
(`SymbolProofs`):

* `SearchCorrect`: `Spec => []SearchInv`, and from it `NothingMissedCorrect`,
  `FirstDefinitionCorrect`, `FunctionsFoundCorrect` and `GivesUpLateCorrect`.

`SearchInv` is `NothingMissed` with the kind of program, the object the lookup is at,
and the three properties. It rests on a lemma per search: `FileSearch` and
`DynSearch` (the first match; nothing found means no function is there, since what
has no value is an import) and `HashSearch` (`LoopStops`: the loop over a bucket
ends inside the table, at an exported symbol, so that what it returns is one of
that name). That the hash table finds a name is neither needed nor true.

For all headers of versions 2 to 4, all sequences of encodable instructions with
operands up to `MaxOperand` and `MaxFixed`, and every `Width` above 1 and `Base` that
`LineAssumption` allows (`LineProofs`):

* `LineTypes`: `Spec => []LineTypeOK`, and `LineAligned`: `Spec => []Aligned`.
* `LineInStep`: `Spec => InStep`.
* `LineTableSafe`: `Spec /\ []Regular => Table!Init /\ [][Table!Next]_(Table!vars)`, the
  safety of `TableRefined`.
* `ListCovers`: `Spec => []ListShowsCovering`.
* `ListFiles`, `BreaklLists`: `Spec => []FilesInside` and `Spec => []BreaklThenList` under
  `Declared` (at least one file and at most 255, since `read_leb128` takes 256 for
  384; `MCLines` assumes it, so TLC evaluates it for the programs of the runs).

`Aligned` is inductive only with the types and the fact that the header can encode
each instruction (`LineInv`): an opcode above `opcode_base` would be taken for a
special one. The proof has three layers. The first is about bytes: concatenations
have their parts at the sums of the lengths (`BytesJoined`, `Window`), an encoding of
each kind has its opcode and operand at known places (`UnsignedShape` ...
`ExtendedShape`). The second is about reading: `ReadULEB` and `ReadSLEB` say that
`read_leb128` always stops where the operand ends and which operands it gets right. The
third joins them: `InstructedRound` says that `run_machine` at the bytes of an
instruction makes the `Round` of it, one lemma per kind. Types and `Aligned` follow
(`MadeType`, `LineInvRound`), and `MadeSame` compares `Made`, what the code makes of
the registers, with `Table!Changed`, what the standard does. The searches need no
history: `NearestFound` says which row is found, and `CoveringShown` derives from
`Apart` that a row above the covering one can only be in a sequence that begins and
ends at its address. For the files, `FilesDeclared` says that the register and the
rows hold numbers of the table; `set_file` keeps it because its operand is read
right.

TLC checks `TableInv`, `CoreInv` and `OnInstructions` as invariants of the runs
`breakpoints` and `syscalls`, `FlowCovers` in `commands`, `NothingMissed` in
`symbols`, `LineTypeOK` and `Aligned` in `lines`. `OnInstructionsCorrect` (`TransparentProofs`) states `Spec => []OnInstructions` by itself.

Only model-checked: the verdicts on the particular functions of `CommandCode`; that
`run_machine` ends (`Ends`); that the tables `Linked` builds satisfy `IsLinked`
(evaluated in the run `symbols`); and liveness.

## 7. Not modelled

* Several threads, `fork`, `vfork` and `exec` in the program: my-dbg sets no
  option for them and follows none.
* Registers other than rip, memory other than the code, and all output: the
  formats of `examine`, the lines of `backtrace`, `disassemble`, `info_regs`,
  `break_list` and `help`.
* ptrace errors other than ESRCH and the EIO of an unmapped address, and a failure
  of `malloc` outside temporary memory (`memory_exhausted` ends my-dbg).
* Which command a word stands for (`get_command`), the tables of system call names,
  `dl_new_hash` over characters, the layout of ELF and DWARF headers.
* Units of `.debug_line` behind the first: the code reads the first only.
* Unwinding and disassembling, which are libunwind's and capstone's.
