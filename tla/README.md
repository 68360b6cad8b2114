# TLA+ models of athrill's debugger core and emulator services

This directory holds TLA+ models of parts of athrill. Athrill is an
instruction-level CPU emulator with an interactive multi-core debugger. Every
module is checked with TLC. `PROJECT.json` lists the components, the runs, the
mutants, the map from each definition to the source lines it models, the
findings and the hazards.

## 1. Inventory

The sources in `src/` are a slice of the repository. Some of the code they call
(`dbg_cpu_control.c`, the thread control, `mpu.c`, `mpu_malloc.c`, the
instruction loop) is not in the slice. Where a module needs that behaviour, it
follows `spec.md` and the definition is marked `spec_modelled` in the map.

| Component | Source | State it keeps | Operations | Interacts with |
|---|---|---|---|---|
| Core debug-state controller | `dbg_std_executor.c` 305-449, `dbg_cpu_control.h` 7-28, 87-91 | global debug mode, force-debug flag, per-core debug mode, cont clock budget, current debugged core; per core: running/stopped | `cont`, `cont <clocks>`, `next`, `return`, `quit`, `exit`, `core <id> on/off`, `core all on/off` | Core threads poll the flags before each instruction. The debugger thread wakes them and blocks until a core stops. |
| Breakpoint table | `dbg_cpu_control.h` 30-43; `dbg_std_executor.c` 63-155, 282-303 | 128 slots, each `{addr, FOREVER or ONLY_ONCE}` | set, delete by slot, delete all FOREVER, is-break, auto-delete of ONLY_ONCE on hit | Read by every core's stop check. Written by `break`, `delete` and `return`. |
| Watchpoint table | `dbg_cpu_control.h` 45-60; `dbg_std_executor.c` 156-279 | 128 slots, each `{addr, size, R/W/RW}` | set, delete one, delete all, info, range/direction check on every access | Read on every load and store. |
| Operation log | `main.c` 39-114 | the `DEBUG_FUNC_OPLOG` file of command lines | save after each command with `result_ok`, replay at start | It persists across runs and replays into the tables above. |
| Function-trace ring and `func_trace` | `dbg_cpu_control.h` 93-99; `dbg_std_executor.c` 645-713 | per-core ring of 1024 `{pc offset, funcid, sp}` | record on call, read newest-first or oldest-first | `func_trace` walks every core. |
| Profiling table | `dbg_cpu_control.h` 101-132; `dbg_std_executor.c` 916-996 | per core and function: call_num, func_time, total_time, recursion count | collect on every instruction, get, print | Printing divides by call_num. |
| Data-access recorder | `dbg_cpu_control.h` 62-85; `dbg_std_executor.c` 715-841 | per global: access records with time | record, view sorted by time descending, CSV export | The export opens a file and walks every global. |
| Stack log / back trace | `dbg_cpu_control.h` 134-140; `dbg_std_executor.c` 842-912 | per global: 1024 stack pointers | record, back trace | Reads guest memory through address resolution. |
| Region table / loader | `mpu_types.h` 21-36; `loader.c` 20-237; `main.c` 188-199 | regions `{type, is_malloc, permission, start, size}` | ELF header check, region setup from the memory map, malloc-unit carving, code cache, ELF load into ROM | The malloc units it registers are the pool the syscall malloc family serves. |
| Syscall device: malloc family | `athrill_syscall_device.c` 425-490 | malloc pool units (in `mpu_malloc`) | malloc, calloc, realloc, free | The guest calls it through a device register. |
| Syscall device: directory table | `athrill_syscall_device.c` 774-943 | `dir_table[10]` `{is_used, path, DIR*}` | opendir, readdir, closedir | The guest calls it. The host supplies the `DIR*`. |
| Syscall device: stream fd table | `athrill_syscall_device.c` 578-736, 945-1035 | `special_fd_table[1024]`, an in-fd to out-fd map | serial_open (pipe pair), read_r, write_r, close_r, open_r, lseek_r | Host fds are reused by the OS. |
| Syscall device: sockets, system, exit, virtfs | `athrill_syscall_device.c` 97-423, 564-576, 740-768, 1037-1049 | none beyond the virtual-fs top directory | socket, accept and shutdown take and give back host descriptors; the rest pass through to host calls | Sockets share the descriptor space of the fd table. |
| Startup and options | `main.c` 134-224 | none | parse options, load, start the threads | Sequential start-up. |
| Sample OS syslog, target headers | `syslog.c`, `sh7211.h`, `mros_packet_config.h`, `athrill_comm_image.h` | a log mask | mask and write | Guest-side sample code and constants. |

### What is hard

* **Concurrency.** One execution thread per core runs beside the debugger
  thread. A core stops only cooperatively, at its stop check before an
  instruction. The debugger's `next`, `cont <clocks>`, `quit` and `exit` block
  with no timeout until a core stops. If no core can stop, the debugger hangs.
* **Crash and restart.** The operation log is the only persisted state. It is
  replayed by slot index into a table whose slots may be laid out differently
  from the live session's.
* **Host resources.** The syscall device hands out directory handles and stream
  fds from fixed tables. It keeps host handles after they are closed and
  asserts on fd ranges.
* **Numeric edges.** Clock budgets, `calloc`'s `size * nmemb` in 32 bits,
  `realloc`'s copy length, malloc units carved from KB sizes, and unsigned stack
  differences in back trace.

### Properties that make each component correct

* Controller:
  * Some core is always in debug mode.
  * Every blocking command returns.
  * `next` executes one instruction per debug core.
  * `cont <clocks>` keeps to its budget.
  * No user command aborts athrill.
* Breakpoints and watchpoints:
  * The table refines a set of breakpoints.
  * An ONLY_ONCE breakpoint fires at most once.
* Operation log: replay restores the breakpoints the user had when athrill
  ended.
* Malloc: live blocks are disjoint and lie inside the pool. `realloc` copies no
  more than the new block holds. `calloc` returns a block of at least
  `size * nmemb`.
* Directory and fd tables:
  * A handle is never used after release.
  * A stream fd pair maps to the out fd it was opened with.
* Function trace: every core's trace shows its `min(n, entries)` newest calls, whatever the other cores hold.

## 2. Plan

The modules are listed in build order, most important first.

1. `BreakpointTable` (**done**): the breakpoint table as pure operators on a
   table value. `DebugControl` and `CommandLog` use them.
2. `DebugControl` (**done**): the controller with core threads. It composes
   `BreakpointTable`.
3. `CommandLog` (**done**): the operation log, restart and replay. It composes
   `BreakpointTable` and `WatchTable`.
4. `WatchTable` (**done** for the table): watchpoint set, delete and delete
   all, used by `CommandLog`'s `watch` lines. **Left:** the access check (range
   intersection and direction) as a pure operator compared with a reference
   definition over small address ranges.
5. `SyscallMalloc` (**done**): malloc, calloc, realloc and free over a pool of
   units, with 32-bit wrap scaled down to a `Width`-bit word. `AbstractHeap`
   (**done**) is the allocator's promise, a set of disjoint live blocks, and
   `SyscallMalloc` is checked to refine it.
6. `SyscallDir` and `SyscallFd` (**done**): `dir_table` with two cores in
   `opendir` at once, and `special_fd_table` with host descriptors that are
   closed and reused. `SyscallDevice` (**done**) composes the two behind the
   one device, where an ASSERT abort in the fd table ends the directory
   syscalls too.
7. `Loader` (**done**): `elf_load` and `Elf_LoadProgram` one loop iteration
   per step. **Left:** address resolution over the table it builds.
8. `FuncTrace` (**done**): the per-core ring buffer, and `func_trace`'s
   clamping of `bt_number` across cores, one core per step.
9. `Profile` (**left**): the recursion counter of `cpuctrl_profile_collect`.
   It comes last because its body is outside the sources.

## 3. Modules and how they correspond to the code

### BreakpointTable

A table is a function from slot indices to `NoBreak` or `[addr, type]`.

* `SetBreak` puts the entry in the lowest free slot, as the slot scan of spec.md
  §9 does. It leaves a full table unchanged, and `CanSetBreak` is the TRUE/FALSE
  result.
* `DelBreak(i)` empties slot `i` if it is used.
* `DelAllBreak(t)` empties every slot of type `t`.
* `HitBreak(a)` removes the ONLY_ONCE entries at `a`.

The bodies of `cpuctrl_*_break` are not in the sources. The operators follow
spec.md 4.3.

### WatchTable

A table is a function from slot indices to `NoWatch` or `[type, addr]`. The
type is `READ`, `WRITE` or `RW`, as in `dbg_cpu_control.h`. `SetWatch` takes
the lowest free slot, `DelWatch(i)` empties a used slot, and `DelAllWatch`
empties all of them. The bodies are outside the sources and follow spec.md 4.4.

### DebugControl

Variables:

| Variable | What it models |
|---|---|
| `debugMode` | `cpuctrl_is_debug_mode()` |
| `forceDebug` | the force-debug flag |
| `coreDebug` | `dbg_cpu_debug_mode_get` |
| `contTimed`, `contBudget`, `elapsed` | `cpuctrl_set_cont_clocks` and the per-core clocks since it was called |
| `cpu` | the state of each core thread |
| `pc` | each core's next instruction |
| `current` | the debugged core |
| `bps` | the breakpoint table |
| `dbg` | the debugger thread's control point: prompt, inside `core`'s scan, blocked in a command's wait, exited or aborted |
| `coreArg` | `parsed_args->core_id` while `core` is between its two steps |

Every command handler of `dbg_std_executor.c` that changes control state is one
action:

* `ExecContAll`, `ExecContClocks`, `ExecNext`, `ExecReturn`, `ExecQuit` and
  `ExecExit` run the handler's statements up to its blocking wait.
* `WaitReturn` is the rest of the handler after the wait. `quit` sets the debug
  mode there, and `exit` ends the process there.
* `ExecCoreSingle` and `ExecCoreAll` model `core`. `core <id> on|off` is two
  steps: `ExecCoreSingle` sets the core's mode, and `CoreScan` then looks for a
  core still in debug mode and, finding none, turns the named one back on.
  Cores run between the two steps, so one may pass its stop check while every
  core is off.
* `ExecBreak`, `ExecDelete` and `ExecDeleteAll` model `break` and `delete`.

Core threads (spec-modelled):

* `CoreStop` is the stop check. A core with per-core debug mode on stops if one
  of these holds:
  * the debug mode is set;
  * the force flag is set;
  * its pc is a breakpoint;
  * a timed cont has spent its budget.
* When a core stops, it records itself as the debugged core, consumes the
  ONLY_ONCE breakpoints at its pc and clears the force flag.
* `CoreExec` executes one instruction. The next pc is any address, since
  decoding is outside the model.
* A core woken by `cputhr_control_dbg_wakeup_cpu` (`Wakeup`) executes one
  instruction before its next check.

### CommandLog

* `bps` and `wps` are the live breakpoint and watchpoint tables. `oplog` is the
  log file, and `boots` counts restarts.
* `DoCui` is one `do_cui` turn with a `break`, `delete`, `delete all`,
  `watch`, `watch delete` or `watch info` line. It runs the executor (`Run`)
  and appends the line if `result_ok` (`ResultOk`).
* `DoReturn` is `return`'s unsaved ONLY_ONCE breakpoint. `HitOnce` is a core
  stopping on that breakpoint.
* `Restart` is athrill ending and starting again. `load_cui_operation` replays
  the file into empty tables. `Replay` is a `FoldLeft` of `Run` over the log.
* `onceAtSave` is a history variable. It records that a break or delete line
  was saved while a return breakpoint held a slot.

### SyscallMalloc

* `heap` maps the start unit of each live block to its allocated size and to
  the size the guest believes it has.
* `tag` gives, for every byte of the pool, the block whose owner last wrote it.
  Contents are abstracted to this ownership.
* `Malloc`, `Calloc`, `Realloc` and `Free` are the four handlers.
  * `Calloc` multiplies in `Width` bits (`MulW`).
  * `Realloc` copies the old block's `mpu_malloc_ref_size` bytes into the new
    block.
* `GuestWrite` is the guest filling a block it holds, as far as it believes the
  block reaches.
* The allocator (`FitStarts`, `UnitsFor`, `Release`) is outside the sources
  and follows spec.md 4.2.

### SyscallDir

* `used` and `dirp` are `dir_table`.
* `hostOpen` and `opened` are the host's DIR streams, which are numbered.
* `pc` and `loc` are each core's position in `opendir` and its local `p`.
  `get_free_dir` is split into `OpenScan` (the read of `is_used`) and
  `OpenClaim` (the write).
* `OpenHost` is the host `opendir` succeeding or failing.
* `held` is the set of dirids each guest believes are open.
* `ub` records a `readdir` or `closedir` of a NULL or already closed `DIR*`.

### SyscallFd

* `obj` is what each host descriptor is open on. The host hands out the lowest
  free one.
* `pair` is `special_fd_table`.
* `held` is what each guest descriptor should write to.
* `aborted` is set by the ASSERT in `set_correspond_fd`.
* The actions are `OpenR`, `SerialOpen` (DEFAULT, or `create_pipe_pair` for
  UART and BT) and `CloseR`, and for sockets `Socket`, `Accept` and
  `Shutdown`. They share the host's lowest-free descriptor numbering with the
  files and pipes. A failed `socket()` leaves `ret_value` as the guest set
  it (`GuestRetInit`, as for opendir). `Shutdown` closes the descriptor
  without looking at `special_fd_table`; the guest passes it only sockets.
* `read_r` and `write_r` change only file contents, which are abstracted, so
  they are operators on the state. `ReadR(fd, bufOk, host)` is what the guest
  gets back: an MPU error for a bad buffer, the count for data, and at the end
  of data 0 for a file but -1 for a stream, where `is_stream_fd` decides which
  by `special_fd_table`. `WriteR(fd)` is what the bytes reach through
  `get_correspond_fd`.

### AbstractHeap

`blocks` maps the address of each live block to the number of bytes the guest
may use there. `Allocate` adds a fresh block (inside the pool, clear of every
live block), `Reallocate` replaces a live block by a fresh one in one step,
and `Free` drops one. A failed call changes nothing, so it is a stutter.

`SyscallMalloc` instantiates it with `Pool <- Bytes` and
`blocks <- GuestBlocks`: each live heap entry, at its first byte, with the size
the guest believes it has (`want`). `ImplementsAbstractHeap` is `Heap!Spec` as
a property. It fails if any handler hands out a block that overlaps a live one
or leaves the pool, or if `realloc` keeps both blocks.

### SyscallDevice

`athrill_syscall_device` dispatches every syscall of the device. The module
instantiates `SyscallDir` and `SyscallFd` with their own `held` variables
(`dirHeld`, `fdHeld`) and interleaves their actions. The two share one
process: once `set_correspond_fd`'s ASSERT has aborted, no directory syscall
runs either. Its invariants are the components' own, checked together over
every interleaving of directory and fd calls.

### FuncTrace

* `log[c]` is core `c`'s ring, oldest first, at most `TraceSize` entries. An
  entry is the called function. `Record` is `cpuctrl_set_func_log_trace`; it
  drops the oldest entry when the ring is full (spec.md 4.6, the body is
  outside the sources).
* `ft` is `func_trace` in progress: the core it is at, the current
  `bt_number`, the `n` typed and the direction.
* `screen[c]` is what the command printed for core `c`.
* `FuncTraceStart` is the handler's entry. `FuncTraceCore` is one iteration of
  its core loop (lines 698-713): the clamp of `bt_number` to `lognum`, the
  write of the clamped value back into `bt_number`, and the print by
  `TowardOlder` or `TowardNewer`. Cores record between iterations, since the
  core threads keep running.

### Loader

* `memap` and `elf` are the inputs: the memory map `main` read and the ELF
  image.
* `pc` and `i` are the loop being run and its index.
* `regions` is the region table. `mallocs` is the set of units given to
  `mpu_address_set_malloc_region`. `cache` is the code-cache regions.
  `written` is the KBs the segment copy wrote.
* `Check` is `Elf_Check`. `RomStep`, `RamStep`, `MallocSetStep`, `DevStep`,
  `CacheElf` and `LoadStep` are one iteration of each loop of
  `Elf_LoadProgram`. `RegisterFails` is a `NULL` from a registration, which
  makes the function return `STD_E_INVALID`.
* `CacheElf` takes the code-cache region from each program header's
  `p_vaddr`, as line 144 does; the MC images link at their load address.
* `SymbolLoad` is the rest of `elf_load` after `Elf_LoadProgram`: the symbol
  and DWARF loaders, either of which may fail and make the result
  `STD_E_INVALID`.
* The malloc-unit registrations at line 183 discard their result, so `RamStep`
  lets any subset of the units reach the table.

## 4. Runs

| Run | Module / cfg | Expect | What it shows |
|---|---|---|---|
| `syscall_device` | `MC_SyscallDevice` / `SyscallDevice.cfg` | pass | One core uses directories, files, sockets and the UART and BT ports, up to table and descriptor exhaustion. `dir_table` and the host's streams stay one-to-one (`DirTableSound`), every held dirid is open (`HeldAreOpen`), no closed `DIR*` reaches libc (`NoStaleDirUse`), writes on every held descriptor reach what it opened (`WritesReachTarget`), `close_r` leaks no pipe (`NoFdLeak`), and `read_r` ends a file or socket with 0 and a serial stream with -1 by what the guest opened (`EndOfDataByKind`). About 1.1M states, about 30 s. |
| `fd_zero` | `MC_SyscallFd` / `SyscallFd_zero.cfg` | violation | After `serial_open(DEFAULT)` and `close_r(0)`, a second `serial_open(DEFAULT)` returns the closed descriptor 0 (line 1013), and writes to it no longer reach the console (`WritesReachTarget`). |
| `dir_race` | `MC_SyscallDir` / `SyscallDir_race.cfg` | violation | Two cores in `opendir` claim the same free entry. One stream leaks, and both guests get the same dirid (`DirTableSound`). |
| `malloc_heap` | `MC_SyscallMalloc` / `SyscallMalloc.cfg` | pass | The handlers refine the abstract allocator (`ImplementsAbstractHeap`). `BlocksIntact` is checked by the two violation runs below. |
| `realloc_shrink` | `MC_SyscallMalloc` / `SyscallMalloc_realloc.cfg` | violation | `realloc` to fewer units copies the old size and overwrites the next block (`BlocksIntact`). |
| `calloc_wrap` | `MC_SyscallMalloc` / `SyscallMalloc_calloc.cfg` | violation | A wrapping `size * nmemb` gives a small block, which the guest overruns (`BlocksIntact`). |
| `debug_control` | `MC_DebugControl` / `DebugControl.cfg` | pass | Under every command sequence, `next` steps each debug core at most once (`StepIsSingle`). Every blocking command returns (`WaitReturns`). About 836k states. |
| `core_all_off` | `MC_DebugControl` / `DebugControl_core_all.cfg` | violation | `core all off` leaves no core in debug mode (`SomeCoreDebuggable`). |
| `oplog_replay_unless_once` | `MC_CommandLog` / `CommandLog.cfg` | pass | Replay restores the watchpoint table slot for slot. It restores the persistent breakpoints unless a line was saved while a return breakpoint held a slot (`ReplayRestoresSession`). |
| `oplog_replay` | `MC_CommandLog` / `CommandLog_replay.cfg` | violation | An ONLY_ONCE breakpoint from `return` shifts slots, so a saved `delete <slot>` deletes another breakpoint on replay (`ReplayRestoresBreakpoints`). |
| `func_trace_clamp` | `MC_FuncTrace` / `FuncTrace.cfg` | violation | `func_trace <n>` writes the first core's clamped count back into `bt_number`, so a core with fewer entries hides the later cores' trace (`FuncTraceShowsNewest`). |
| `loader` | `MC_Loader` / `Loader.cfg` | pass | Under any registration failures and either outcome of the symbol and DWARF loaders, an OK result means every ROM, plain RAM and device entry is registered and every ROM segment is copied (`LoadComplete`). The allocator only gets units inside the pool (`MallocUnitsInPool`). |

Every property of a passing run has a mutant in `PROJECT.json`: a plausible
bug in a mapped definition that TLC finds.

Bounds:

* Controller: two cores, two addresses and two breakpoint slots. Budgets 1 and 2
  cover the clock check's boundary, and `MaxClocks` = 3 caps the counter.
* Operation log: two breakpoint slots, two watch slots, logs of four lines and
  two restarts. The shortest divergent sequences are found at depth 5.
* Malloc: four units of two bytes, with a 4-bit word. That is enough for a
  block of two units beside another, and for `3 * 6` to wrap.
* Directory table: two slots and four host opens. This fills the table, reuses
  released slots and makes `opendir` fail.
* Syscall device: one core (the race needs two and is `dir_race`), two
  directory slots and four host opens, which fill the table, reuse released
  slots and make `opendir` fail; eight descriptors, three of them standard,
  which two pipe pairs and a file, or a socket and four connections, exhaust,
  so `socket` and `accept` also meet a full host and a reused number.
* Function trace: two cores, rings of two entries, two functions and
  `n` in {1, 2}. Core 0 with fewer entries than `n` is the case the clamp
  mishandles, and a full ring exercises the overwrite.
* Loader: three maps, with malloc entries of 1, 3 and 4 KB for a 2 KB unit
  (zero units, one unit with a remainder, two units). The ELF images are a
  valid one, with segments in ROM, in RAM and in a ROM entry only one map has,
  and an invalid one.

No symmetry is used: the liveness runs would not be sound under it.

`CHECK_DEADLOCK FALSE` appears in two cfgs:

* `SyscallDevice.cfg` and `SyscallFd_zero.cfg`, because the ASSERT abort
  really ends athrill.
* `Loader.cfg`, because `elf_load` returns and the loader has no later step.

## 5. Fairness

* The core threads are OS threads that run whenever they are not blocked. Each
  has weak fairness on its step.
* The debugger thread has weak fairness on leaving a wait whose condition
  holds (`WaitReturn`) and on finishing a `core` command (`CoreScan`), which
  runs straight on with nothing to wait for.
* The user and the guest are not assumed to do anything.

## 6. Not modelled, and why

* Instruction decode and execute: a collaborator outside the slice. Its only
  effect here is the next pc, which is chosen freely.
* Printing, formatting, symbol lookup and the CSV text: no property is about
  them.
* `bind`, `listen`, `connect`, `select`, `send` and `recv` change only the
  host socket's own state, which is abstracted (`send` and `recv` also
  overwrite the `-errno` they just stored with `ret`, so the guest sees -1 and
  not the error code). `system` runs a host script, `exit` ends the process,
  and `set_virtfs_top` only keeps a path string.
* `lseek_r` changes only the host file offset, which the model does not keep.
  `read_r` and `write_r` are operators (see SyscallFd), not actions, for the
  same reason; the `ENABLE_EXTERNAL_BT_SERIAL` fifo branch of `read_r` is not
  modelled.
* `binary_load`: a single copy to address 0.
* The symbol and DWARF loaders leave the region table alone.
* Startup option parsing: sequential and I/O-bound.
* Profiling, the data-access recorder and the stack log: the
  executor only reads and prints them, and their writers are outside the
  sources. The data-access view sorts by time through `object_container_sort`,
  which is not in the sources either.
* The sample OS syslog and the target headers: guest-side code and constants.
* Three behaviours of the debug commands are reached by `DebugControl` but
  not checked by a property, because each would be a property that fails:
  `return` before any core has stopped reaches `ASSERT(0)` and ends athrill
  (`dbg_std_executor.c` 421); `return` with a full breakpoint table only
  prints an error and still lets the cores run past the return address
  (411); `quit` while a core is already stopped returns at once and leaves
  the force flag set, so the next `cont` stops after one instruction (429).
  The project keeps its violation runs for the disagreements listed under
  the runs; these three are listed as open hazards in `PROJECT.json`.
