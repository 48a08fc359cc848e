---------------------------- MODULE CommandCode ----------------------------
(***************************************************************************)
(* The functions of my-dbg that throw, catch, take a resource, use         *)
(* temporary memory, or call one that does, as maps from the line numbers  *)
(* of their files to statements.  Functions that only compute or print are *)
(* not listed, and neither are the calls to them; get_register and its     *)
(* kin are the statement "may throw PtraceException".                      *)
(*                                                                         *)
(* Resources: "fd" and "FILE" are open files, "map" a mapped file, "csh"   *)
(* a capstone handle, "insn" what cs_disasm allocated, "str" a string of   *)
(* getline or asprintf, "mappings" the array of get_mem_mappings.          *)
(***************************************************************************)
EXTENDS Statements, TLC

-----------------------------------------------------------------------------
(* format_utils.c, registers.c, file_utils.c *)

get_proc_path == (68 :> May({PrintfException})) @@ (71 :> Return)

\* A register that does not exist, or that PTRACE_GETREGS does not deliver.
get_register_from_name ==
  (60 :> If(64)) @@ (61 :> May({PtraceException})) @@ (62 :> Return)
  @@ (64 :> Throw(Exception))

read_address ==
  (15 :> If(24)) @@ (16 :> Call("get_register_from_name")) @@ (17 :> Return)
  @@ (24 :> ReturnIf) @@ (33 :> Throw(Exception))

read_size ==
  (40 :> If(49)) @@ (41 :> Call("read_address")) @@ (42 :> Return)
  @@ (49 :> ReturnIf) @@ (59 :> Throw(Exception))

file_size == (16 :> May({IOException})) @@ (19 :> Return)

real_path == (26 :> May({IOException})) @@ (31 :> Return)

\* Neither the file nor the line that getline allocates is ever released.
print_file_line ==
  (40 :> May({PrintfException})) @@ (43 :> Get("FILE", {IOException}))
  @@ (48 :> May({IOException})) @@ (57 :> Get("str", {})) @@ (58 :> May({IOException}))
  @@ (60 :> May({IOException})) @@ (62 :> Return)

-----------------------------------------------------------------------------
(* memory.c *)

read_memory ==
  (17 :> Call("get_proc_path")) @@ (19 :> Get("fd", {MemoryException}))
  @@ (24 :> Tmp) @@ (37 :> If(44)) @@ (39 :> Put("fd")) @@ (41 :> Return)
  @@ (44 :> Put("fd")) @@ (46 :> Throw(MemoryException))

\* Its callers hand the NULL of line 70 to strcmp.
read_mem_string ==
  (62 :> Call("get_proc_path")) @@ (64 :> GetOr("fd", 70)) @@ (66 :> Goto(81))
  @@ (70 :> Ends("segv")) @@ (81 :> If(84)) @@ (82 :> Grow) @@ (83 :> Goto(81))
  @@ (84 :> If(91)) @@ (86 :> FreeByHand) @@ (91 :> Grow) @@ (93 :> Put("fd"))
  @@ (95 :> Return)

-----------------------------------------------------------------------------
(* mem_mappings.c *)

\* Mutant: a read error is not caught.
get_mem_mappings_file_ScanfOnly ==
  (77 :> Try(114)) @@ (85 :> Get("str", {})) @@ (87 :> May({IOException}))
  @@ (89 :> If(95)) @@ (90 :> Put("str")) @@ (92 :> Goto(100))
  @@ (95 :> SetOr("add_mem_mapping", {ScanfException})) @@ (97 :> Put("str"))
  @@ (98 :> Goto(85)) @@ (100 :> Set("end_mark")) @@ (102 :> Leave)
  @@ (106 :> Catch(77, {ScanfException})) @@ (108 :> Put("str"))
  @@ (110 :> Set("free_mem_mappings")) @@ (112 :> Save) @@ (114 :> Etry(77))
  @@ (116 :> Rethrow) @@ (118 :> Return)

\* Mutant: the array gets no end mark.
get_mem_mappings_file_NoEndMark ==
  (77 :> Try(114)) @@ (85 :> Get("str", {})) @@ (87 :> May({IOException}))
  @@ (89 :> If(95)) @@ (90 :> Put("str")) @@ (92 :> Goto(102))
  @@ (95 :> SetOr("add_mem_mapping", {ScanfException})) @@ (97 :> Put("str"))
  @@ (98 :> Goto(85)) @@ (102 :> Leave)
  @@ (106 :> Catch(77, {ScanfException, IOException})) @@ (108 :> Put("str"))
  @@ (110 :> Set("free_mem_mappings")) @@ (112 :> Save) @@ (114 :> Etry(77))
  @@ (116 :> Rethrow) @@ (118 :> Return)

get_mem_mappings_file ==
  (77 :> Try(114)) @@ (85 :> Get("str", {})) @@ (87 :> May({IOException}))
  @@ (89 :> If(95)) @@ (90 :> Put("str")) @@ (92 :> Goto(100))
  @@ (95 :> SetOr("add_mem_mapping", {ScanfException})) @@ (97 :> Put("str"))
  @@ (98 :> Goto(85)) @@ (100 :> Set("end_mark")) @@ (102 :> Leave)
  @@ (106 :> Catch(77, {ScanfException, IOException})) @@ (108 :> Put("str"))
  @@ (110 :> Set("free_mem_mappings")) @@ (112 :> Save) @@ (114 :> Etry(77))
  @@ (116 :> Rethrow) @@ (118 :> Return)

get_mem_mappings ==
  (123 :> Call("get_proc_path")) @@ (125 :> Get("FILE", {IOException}))
  @@ (134 :> Call("get_mem_mappings_file")) @@ (136 :> Put("FILE"))
  @@ (140 :> May({IOException})) @@ (143 :> Give)

cmd_info_memory ==
  (14 :> Call("get_mem_mappings")) @@ (42 :> Set("free_mem_mappings")) @@ (43 :> Return)

-----------------------------------------------------------------------------
(* libunwind_wrapper.c: every error of the loop frees the mappings as its end *)

print_backtrace ==
  (151 :> ReturnIf) @@ (154 :> Call("get_mem_mappings")) @@ (160 :> If(203))
  @@ (168 :> If(203)) @@ (173 :> If(203)) @@ (195 :> Goto(168))
  @@ (203 :> Set("free_mem_mappings")) @@ (204 :> Return)

get_finish_address ==
  (209 :> May({UnwindException})) @@ (219 :> May({UnwindException}))
  @@ (232 :> May({UnwindException})) @@ (243 :> May({UnwindException}))
  @@ (246 :> Call("get_instruction")) @@ (248 :> Return)

cmd_backtrace == (12 :> Call("print_backtrace")) @@ (13 :> Return)

-----------------------------------------------------------------------------
(* capstone_wrapper.c *)

print_instructions ==
  (19 :> ReturnIf) @@ (21 :> Get("csh", {})) @@ (23 :> If(56)) @@ (26 :> If(33))
  @@ (28 :> Put("csh")) @@ (30 :> Throw(DisasmException)) @@ (33 :> Call("read_memory"))
  @@ (37 :> If(26)) @@ (53 :> Goto(23)) @@ (56 :> Put("csh")) @@ (57 :> Return)

get_instruction ==
  (61 :> Call("read_memory")) @@ (67 :> Get("csh", {DisasmException}))
  @@ (74 :> If(79)) @@ (76 :> Put("csh")) @@ (78 :> Throw(DisasmException))
  @@ (79 :> Get("insn", {})) @@ (81 :> Tmp) @@ (85 :> If(92)) @@ (87 :> Put("insn"))
  @@ (89 :> Put("csh")) @@ (91 :> Throw(DisasmException)) @@ (92 :> Get("str", {}))
  @@ (94 :> Put("insn")) @@ (96 :> Put("csh")) @@ (100 :> Tmp) @@ (102 :> Put("str"))
  @@ (104 :> Return)

get_current_instruction ==
  (109 :> May({PtraceException})) @@ (111 :> Call("get_instruction")) @@ (112 :> Return)

cmd_disassemble ==
  (10 :> ReturnIf) @@ (17 :> Call("read_address")) @@ (19 :> Call("read_size"))
  @@ (21 :> ReturnIf) @@ (22 :> Call("print_instructions")) @@ (26 :> Return)

-----------------------------------------------------------------------------
(* cmd_examine.c *)

examine_instructions ==
  (99 :> ReturnIf) @@ (102 :> Get("csh", {})) @@ (104 :> If(118))
  @@ (106 :> Get("insn", {})) @@ (112 :> Put("insn")) @@ (118 :> Put("csh"))
  @@ (119 :> Return)

examine_memory ==
  (123 :> Call("read_memory")) @@ (134 :> ReturnIf)
  @@ (135 :> Call("examine_instructions")) @@ (136 :> Return)

cmd_examine ==
  (140 :> ReturnIf) @@ (147 :> ReturnIf) @@ (154 :> Call("read_size"))
  @@ (156 :> Call("read_address")) @@ (158 :> If(163)) @@ (159 :> Call("examine_memory"))
  @@ (163 :> Return)

-----------------------------------------------------------------------------
(* my_elf.c *)

elf_size ==
  (24 :> Call("get_proc_path")) @@ (26 :> Call("file_size"))
  @@ (28 :> May({ELFException})) @@ (31 :> Return)

open_elf_exe ==
  (36 :> Call("get_proc_path")) @@ (38 :> Get("fd", {IOException}))
  @@ (47 :> Get("map", {IOException})) @@ (56 :> Give)

open_elf ==
  (91 :> Tmp) @@ (93 :> Call("elf_size")) @@ (95 :> Call("open_elf_exe"))
  @@ (97 :> May({ELFException})) @@ (101 :> Give)

close_elf ==
  (106 :> IfCond("null", 115)) @@ (109 :> Put("map")) @@ (111 :> Put("fd"))
  @@ (113 :> May({IOException})) @@ (115 :> Return)

elf_section ==
  (148 :> If(168)) @@ (158 :> Tmp) @@ (164 :> Return) @@ (168 :> Throw(ELFException))

get_auxiliary_vector ==
  (204 :> Call("get_proc_path")) @@ (205 :> Get("FILE", {IOException})) @@ (214 :> Grow)
  @@ (217 :> May({IOException})) @@ (220 :> If(214)) @@ (224 :> Put("FILE"))
  @@ (225 :> May({IOException})) @@ (227 :> Return)

get_program_header ==
  (245 :> If(253)) @@ (247 :> Call("read_memory")) @@ (249 :> ReturnIf)
  @@ (251 :> Goto(245)) @@ (253 :> Throw(ELFException))

get_base_address == (260 :> Call("get_program_header")) @@ (262 :> Return)

get_dynamic_section == (279 :> Call("get_program_header")) @@ (281 :> Return)

calc_base_address ==
  (330 :> Call("get_auxiliary_vector")) @@ (332 :> May({ELFException}))
  @@ (337 :> Call("get_base_address")) @@ (338 :> Return)

get_dynamic_entry ==
  (289 :> Call("read_memory")) @@ (291 :> ReturnIf) @@ (294 :> If(289))
  @@ (298 :> Throw(ELFException))

get_address_dyn ==
  (306 :> Call("get_dynamic_entry")) @@ (308 :> Call("get_dynamic_entry"))
  @@ (312 :> ReturnIf) @@ (314 :> Call("read_memory")) @@ (316 :> If(312))
  @@ (319 :> Call("read_mem_string")) @@ (321 :> If(312)) @@ (325 :> Return)

get_gnu_hash ==
  (62 :> Call("get_dynamic_entry")) @@ (66 :> Call("read_memory"))
  @@ (72 :> Call("read_memory")) @@ (75 :> Call("read_memory")) @@ (85 :> Return)

get_address_gnu_hash ==
  (93 :> Call("get_dynamic_entry")) @@ (95 :> Call("get_dynamic_entry"))
  @@ (97 :> Call("get_gnu_hash")) @@ (107 :> ReturnIf) @@ (113 :> ReturnIf)
  @@ (118 :> Call("read_memory")) @@ (122 :> Call("read_memory")) @@ (124 :> If(128))
  @@ (125 :> Call("read_mem_string")) @@ (126 :> ReturnIf) @@ (128 :> If(118))
  @@ (132 :> Return)

get_address_internal ==
  (345 :> If(354)) @@ (349 :> ReturnIf) @@ (350 :> Goto(359)) @@ (354 :> May({ELFException}))
  @@ (359 :> Call("calc_base_address")) @@ (363 :> ReturnIf)
  @@ (366 :> Call("get_dynamic_section")) @@ (368 :> If(376))
  @@ (370 :> Call("get_address_dyn")) @@ (372 :> ReturnIf)
  @@ (376 :> Call("get_dynamic_entry")) @@ (379 :> ReturnIf)
  @@ (386 :> Call("read_memory")) @@ (390 :> ReturnIf) @@ (392 :> Call("read_memory"))
  @@ (394 :> Call("get_address_gnu_hash")) @@ (396 :> ReturnIf)
  @@ (399 :> Call("get_address_dyn")) @@ (401 :> If(390)) @@ (405 :> Return)

\* Mutant: the file is closed at the end of the first try block, not after it.
get_address_CloseInTry ==
  (420 :> Try(433)) @@ (422 :> Call("open_elf")) @@ (424 :> Call("get_address_internal"))
  @@ (428 :> Hand("close_elf")) @@ (429 :> Finally(420)) @@ (431 :> Save)
  @@ (433 :> Etry(420)) @@ (446 :> Rethrow) @@ (449 :> Return)

\* Mutant: the exception of close_elf replaces the first one.
get_address_LastWins ==
  (420 :> Try(433)) @@ (422 :> Call("open_elf")) @@ (424 :> Call("get_address_internal"))
  @@ (429 :> Finally(420)) @@ (431 :> Save) @@ (433 :> Etry(420)) @@ (435 :> Try(444))
  @@ (437 :> Hand("close_elf")) @@ (439 :> Catch(435, {IOException})) @@ (441 :> Save)
  @@ (444 :> Etry(435)) @@ (446 :> Rethrow) @@ (449 :> Return)

get_address ==
  (420 :> Try(433)) @@ (422 :> Call("open_elf")) @@ (424 :> Call("get_address_internal"))
  @@ (429 :> Finally(420)) @@ (431 :> Save) @@ (433 :> Etry(420)) @@ (435 :> Try(444))
  @@ (437 :> Hand("close_elf")) @@ (439 :> Catch(435, {IOException})) @@ (441 :> Keep)
  @@ (444 :> Etry(435)) @@ (446 :> Rethrow) @@ (449 :> Return)

-----------------------------------------------------------------------------
(* my_dwarf.c, dwarf_state_machine.c *)

store_files ==
  (53 :> Grow) @@ (57 :> If(79)) @@ (59 :> Grow) @@ (62 :> Tmp) @@ (75 :> Goto(57))
  @@ (79 :> Return)

dwarf_lines_config ==
  (85 :> Tmp) @@ (104 :> If(109)) @@ (105 :> Grow) @@ (106 :> Goto(104)) @@ (109 :> Grow)
  @@ (111 :> Call("store_files")) @@ (113 :> Return)

\* clone_state (lines 35 and 38) is called by every kind of instruction.
run_machine ==
  (229 :> If(261)) @@ (234 :> May({DWARFException})) @@ (242 :> If(229)) @@ (251 :> Grow)
  @@ (252 :> Tmp) @@ (258 :> Goto(229)) @@ (261 :> Grow) @@ (266 :> Return)

dwarf_lines ==
  (145 :> Tmp) @@ (147 :> Call("dwarf_lines_config")) @@ (149 :> Tmp)
  @@ (151 :> Call("run_machine")) @@ (153 :> Return)

print_line_at_addr ==
  (198 :> Call("calc_base_address")) @@ (200 :> Call("elf_section"))
  @@ (202 :> Call("dwarf_lines")) @@ (206 :> ReturnIf) @@ (213 :> May({DWARFException}))
  @@ (220 :> May({DWARFException})) @@ (226 :> If(233)) @@ (227 :> Call("get_proc_path"))
  @@ (228 :> Call("real_path")) @@ (233 :> Call("print_file_line")) @@ (234 :> Return)

get_line_address_internal ==
  (239 :> Call("calc_base_address")) @@ (241 :> Call("elf_section"))
  @@ (243 :> Call("dwarf_lines")) @@ (247 :> If(257)) @@ (251 :> ReturnIf)
  @@ (257 :> Throw(DWARFException))

\* The macro, as a function of its own: its block with the code it is given.
SAFE_DWARF(code) ==
  (267 :> Try(277)) @@ (269 :> Call("open_elf")) @@ (271 :> Call(code))
  @@ (273 :> Finally(267)) @@ (275 :> Save) @@ (277 :> Etry(267)) @@ (279 :> Try(288))
  @@ (281 :> Hand("close_elf")) @@ (283 :> Catch(279, {IOException})) @@ (285 :> Keep)
  @@ (288 :> Etry(279)) @@ (290 :> Rethrow) @@ (291 :> Return)

print_line ==
  (295 :> May({PtraceException})) @@ (297 :> Call("print_line_safe")) @@ (298 :> Return)

get_line_address == (304 :> Call("get_line_address_safe")) @@ (306 :> Return)

cmd_list == (12 :> Call("print_line")) @@ (13 :> Return)

-----------------------------------------------------------------------------
(* breakpoints.c, syscalls.c, binary.c and the commands that use them *)

place_breakpoint ==
  (62 :> If(74)) @@ (64 :> May({PtraceException})) @@ (68 :> May({PtraceException}))
  @@ (74 :> Return)

\* cmd_break and cmd_tbreak differ in their flags.
cmd_break ==
  (11 :> ReturnIf) @@ (18 :> Call("read_address")) @@ (20 :> Call("place_breakpoint"))
  @@ (23 :> Return)

cmd_breakf ==
  (11 :> ReturnIf) @@ (18 :> Call("get_address")) @@ (20 :> ReturnIf)
  @@ (27 :> Call("place_breakpoint")) @@ (30 :> Return)

cmd_breakl ==
  (12 :> ReturnIf) @@ (19 :> Call("read_size")) @@ (21 :> Call("get_line_address"))
  @@ (23 :> Call("place_breakpoint")) @@ (26 :> Return)

cmd_break_del ==
  (12 :> ReturnIf) @@ (19 :> Call("read_size")) @@ (21 :> ReturnIf) @@ (30 :> ReturnIf)
  @@ (42 :> Return)

syscall_num ==
  (81 :> May({SyscallException})) @@ (83 :> May({SyscallException})) @@ (86 :> Return)

\* read_size may also throw PtraceException, which no case of line 23 names.
cmd_breaks ==
  (12 :> ReturnIf) @@ (23 :> Try(41)) @@ (25 :> Call("read_size"))
  @@ (27 :> Catch(23, {Exception})) @@ (29 :> Try(39)) @@ (31 :> Call("syscall_num"))
  @@ (33 :> Catch(29, {SyscallException})) @@ (37 :> Save) @@ (39 :> Etry(29))
  @@ (41 :> Etry(23)) @@ (43 :> Rethrow) @@ (46 :> Set("add_syscall_break"))
  @@ (48 :> Try(59)) @@ (50 :> May({SyscallException}))
  @@ (54 :> Catch(48, {SyscallException})) @@ (59 :> Etry(48)) @@ (60 :> Return)

cmd_break_list ==
  (26 :> ReturnIf) @@ (39 :> If(26)) @@ (43 :> Try(51)) @@ (45 :> May({SyscallException}))
  @@ (47 :> Catch(43, {SyscallException})) @@ (51 :> Etry(43)) @@ (57 :> Goto(26))

\* The stop is a hit, a call that is caught, one that is not, or a signal.
wait_program ==
  (63 :> May({WaitException})) @@ (65 :> If(133)) @@ (69 :> ReturnIf)
  @@ (76 :> May({PtraceException})) @@ (85 :> May({PtraceException}))
  @@ (90 :> May({PtraceException})) @@ (96 :> ReturnIf) @@ (100 :> May({PtraceException}))
  @@ (104 :> If(118)) @@ (106 :> Try(115)) @@ (108 :> May({SyscallException}))
  @@ (111 :> Catch(106, {SyscallException})) @@ (115 :> Etry(106)) @@ (116 :> Return)
  @@ (118 :> ReturnIf) @@ (120 :> Call("continue_execution")) @@ (122 :> Return)
  @@ (133 :> Set("g_quit")) @@ (146 :> Return)

single_step ==
  (155 :> May({PtraceException})) @@ (163 :> May({PtraceException}))
  @@ (166 :> May({PtraceException})) @@ (170 :> Call("wait_program"))
  @@ (172 :> May({PtraceException})) @@ (175 :> Return)

continue_execution ==
  (180 :> May({PtraceException})) @@ (182 :> If(185)) @@ (183 :> Call("single_step"))
  @@ (184 :> ReturnIf) @@ (185 :> May({PtraceException})) @@ (190 :> Call("wait_program"))
  @@ (191 :> Return)

cmd_continue == (15 :> Call("continue_execution")) @@ (16 :> Return)

cmd_step_instr ==
  (14 :> Call("single_step")) @@ (16 :> May({PtraceException})) @@ (19 :> Return)

cmd_next_instr ==
  (18 :> May({PtraceException})) @@ (20 :> Call("get_current_instruction")) @@ (27 :> If(36))
  @@ (29 :> Call("place_breakpoint")) @@ (32 :> Call("continue_execution")) @@ (33 :> Goto(38))
  @@ (36 :> Call("single_step")) @@ (38 :> IfCond("quit", 44)) @@ (41 :> May({PtraceException}))
  @@ (44 :> Return)

cmd_finish ==
  (15 :> Call("get_finish_address")) @@ (17 :> Call("place_breakpoint"))
  @@ (19 :> Call("continue_execution")) @@ (22 :> Return)

-----------------------------------------------------------------------------
(* cmd_attach.c *)

\* Mutant: g_pid keeps the process that could not be attached.
attach_process_NoReset ==
  (15 :> Set("g_pid = pid")) @@ (19 :> Try(40))
  @@ (21 :> SetOr("PTRACE_ATTACH", {PtraceException})) @@ (25 :> May({WaitException}))
  @@ (27 :> May({WaitException})) @@ (30 :> Throw(PtraceException))
  @@ (32 :> Catch(19, {PtraceException})) @@ (34 :> Save)
  @@ (36 :> Catch(19, {WaitException})) @@ (38 :> Save) @@ (40 :> Etry(19))
  @@ (42 :> IfCond("nothing saved", 49)) @@ (46 :> Rethrow)
  @@ (49 :> Return)

\* Line 30 passes the option PTRACE_O_EXITKILL where the request belongs:
\* the kernel knows no request 0x100000 and answers EIO.
attach_process ==
  (15 :> Set("g_pid = pid")) @@ (19 :> Try(40))
  @@ (21 :> SetOr("PTRACE_ATTACH", {PtraceException})) @@ (25 :> May({WaitException}))
  @@ (27 :> May({WaitException})) @@ (30 :> Throw(PtraceException))
  @@ (32 :> Catch(19, {PtraceException})) @@ (34 :> Save)
  @@ (36 :> Catch(19, {WaitException})) @@ (38 :> Save) @@ (40 :> Etry(19))
  @@ (42 :> IfCond("nothing saved", 49)) @@ (44 :> Set("g_pid = 0")) @@ (46 :> Rethrow)
  @@ (49 :> Return)

cmd_attach ==
  (54 :> IfCond("attached", 78)) @@ (61 :> ReturnIf) @@ (68 :> Call("read_size"))
  @@ (70 :> ReturnIf) @@ (77 :> Call("attach_process")) @@ (78 :> Return)

-----------------------------------------------------------------------------
(* commands.c *)

\* The commands run_command refuses when no program is attached.
ProgramRequired ==
  {"cmd_break", "cmd_breakf", "cmd_breakl", "cmd_breaks", "cmd_break_del",
   "cmd_break_list", "cmd_backtrace", "cmd_disassemble", "cmd_examine",
   "cmd_info_memory", "cmd_list", "cmd_continue", "cmd_step_instr",
   "cmd_next_instr", "cmd_finish"}

\* SyscallException has no case: cmd_breaks has printed its own message.
run_command ==
  (79 :> Try(127)) @@ (81 :> CallOne(ProgramRequired \cup {"cmd_attach"}))
  @@ (83 :> Catch(79, {PtraceException})) @@ (85 :> EndsIf("fatal"))
  @@ (87 :> Catch(79, {WaitException})) @@ (91 :> Catch(79, {ScanfException}))
  @@ (95 :> Catch(79, {PrintfException})) @@ (99 :> Catch(79, {IOException}))
  @@ (103 :> Catch(79, {MemoryException})) @@ (107 :> Catch(79, {ELFException}))
  @@ (111 :> Catch(79, {DisasmException})) @@ (115 :> Catch(79, {UnwindException}))
  @@ (119 :> Catch(79, {DWARFException})) @@ (123 :> Catch(79, {Exception}))
  @@ (127 :> Etry(79)) @@ (129 :> FreeAll) @@ (130 :> Return)

Functions ==
  [run_command |-> run_command, get_proc_path |-> get_proc_path,
   get_register_from_name |-> get_register_from_name, read_address |-> read_address,
   read_size |-> read_size, file_size |-> file_size, real_path |-> real_path,
   print_file_line |-> print_file_line, read_memory |-> read_memory,
   read_mem_string |-> read_mem_string, get_mem_mappings_file |-> get_mem_mappings_file,
   get_mem_mappings |-> get_mem_mappings, cmd_info_memory |-> cmd_info_memory,
   print_backtrace |-> print_backtrace, get_finish_address |-> get_finish_address,
   cmd_backtrace |-> cmd_backtrace, print_instructions |-> print_instructions,
   get_instruction |-> get_instruction,
   get_current_instruction |-> get_current_instruction,
   cmd_disassemble |-> cmd_disassemble, examine_instructions |-> examine_instructions,
   examine_memory |-> examine_memory, cmd_examine |-> cmd_examine,
   elf_size |-> elf_size, open_elf_exe |-> open_elf_exe, open_elf |-> open_elf,
   close_elf |-> close_elf, elf_section |-> elf_section,
   get_auxiliary_vector |-> get_auxiliary_vector,
   get_program_header |-> get_program_header, get_dynamic_section |-> get_dynamic_section,
   get_base_address |-> get_base_address, calc_base_address |-> calc_base_address,
   get_dynamic_entry |-> get_dynamic_entry, get_address_dyn |-> get_address_dyn,
   get_gnu_hash |-> get_gnu_hash, get_address_gnu_hash |-> get_address_gnu_hash,
   get_address_internal |-> get_address_internal, get_address |-> get_address,
   store_files |-> store_files, dwarf_lines_config |-> dwarf_lines_config,
   run_machine |-> run_machine, dwarf_lines |-> dwarf_lines,
   print_line_at_addr |-> print_line_at_addr,
   get_line_address_internal |-> get_line_address_internal,
   print_line_safe |-> SAFE_DWARF("print_line_at_addr"),
   get_line_address_safe |-> SAFE_DWARF("get_line_address_internal"),
   print_line |-> print_line, get_line_address |-> get_line_address,
   cmd_list |-> cmd_list, place_breakpoint |-> place_breakpoint,
   cmd_break |-> cmd_break, cmd_breakf |-> cmd_breakf, cmd_breakl |-> cmd_breakl,
   cmd_break_del |-> cmd_break_del, syscall_num |-> syscall_num,
   cmd_breaks |-> cmd_breaks, cmd_break_list |-> cmd_break_list,
   wait_program |-> wait_program, single_step |-> single_step,
   continue_execution |-> continue_execution, cmd_continue |-> cmd_continue,
   cmd_step_instr |-> cmd_step_instr, cmd_next_instr |-> cmd_next_instr,
   cmd_finish |-> cmd_finish, attach_process |-> attach_process,
   cmd_attach |-> cmd_attach]

=============================================================================
