------------------------- MODULE CommandProperties -------------------------
(***************************************************************************)
(* What a command of my-dbg leaves behind, whatever fails in it.           *)
(***************************************************************************)
EXTENDS Commands

Prompt == calls = <<>>

\* The windows in which a throw, or a return, loses a resource: between the
\* call that takes it and the one that releases it something throws and no
\* try block is around.
Windows ==
  {<<"read_memory", "fd">>,           \* memory.c:24 tmp_calloc throws
   <<"read_mem_string", "fd">>,       \* memory.c:82 add_char throws
   <<"open_elf_exe", "fd">>,          \* my_elf.c:47 mmap fails
   <<"open_elf", "fd">>, <<"open_elf", "map">>,   \* my_elf.c:97, no ELF
   <<"get_auxiliary_vector", "FILE">>,            \* my_elf.c:214, :217
   <<"get_mem_mappings", "FILE">>,                \* mem_mappings.c:116
   <<"get_mem_mappings", "mappings">>,            \* mem_mappings.c:140
   <<"print_instructions", "csh">>,               \* capstone_wrapper.c:33
   <<"get_instruction", "csh">>, <<"get_instruction", "insn">>,
   <<"get_instruction", "str">>,                  \* capstone_wrapper.c:81, :100
   <<"print_file_line", "FILE">>, <<"print_file_line", "str">>}

\* Every resource a command takes is released before the prompt is back,
\* except in the listed windows.  In particular the file open_elf has mapped
\* is unmapped and closed whatever is thrown during a lookup.
ResourcesReleased == lost \subseteq Windows

\* Temporary blocks do not outlive the command, whatever it throws.
NoBlockAtPrompt == Prompt => blocks = <<>>

\* `breaks %reg' goes on with system call 0 when the registers cannot be read,
\* and SyscallException was reported by cmd_breaks.
Unreported ==
  {<<"cmd_breaks", PtraceException>>, <<"run_command", SyscallException>>}

\* No exception disappears: whichever is thrown is caught by a case that names
\* it, except the two of Unreported.
NothingForgotten == forgotten \subseteq Unreported

\* The user is told about the exception that was thrown first, not about one
\* that cleaning up after it caused.
FirstReported ==
  (over = "no" /\ Len(calls) = 1 /\ calls[1].ex # None) =>
    calls[1].ex = first \/ calls[1].ex = SyscallException

\* A command that failed has not changed which process is debugged.
FailureKeepsPid == Prompt /\ first # None => g_pid = pid_before

\* free_mem_mappings (mem_mappings.c:52-65) reads past the array of mappings
\* only when get_mem_mappings_file failed: the callers never free an array that
\* has no end mark.
OverreadOnlyOnFailure == overread => first \in {ScanfException, IOException}

\* README:46, "Attach a running process": a process that my-dbg has made its
\* tracee is the one it debugs when the prompt is back.
AttachedIsDebugged == Prompt /\ traced => g_pid

=============================================================================
