---------------------------- MODULE DebugControl ----------------------------
(***************************************************************************)
(* The core debug-state controller: the debugger thread running the       *)
(* execution-control commands of dbg_std_executor.c (cont, next, return,  *)
(* quit, exit, core, break, delete) against one execution thread per      *)
(* emulated core.                                                          *)
(*                                                                         *)
(* The debugger side is translated from dbg_std_executor.c.  The core     *)
(* side (the cooperative stop check each core makes before an             *)
(* instruction, cputhr_control_dbg_wakeup_cpu and the wait for a stopped  *)
(* cpu) lives outside the sources and follows spec.md 4.5 and 5:          *)
(*   - a core whose per-core debug mode is on stops before its next        *)
(*     instruction when the global debug mode or the force flag is set,   *)
(*     when its pc is a breakpoint, or when a timed cont has used its     *)
(*     clock budget; a core whose per-core debug mode is off never stops; *)
(*   - a woken core executes one instruction before it checks again;      *)
(*   - the debugger's wait returns once some core is stopped.             *)
(***************************************************************************)
EXTENDS Naturals, FiniteSets

CONSTANTS
    Cores,        \* emulated core ids
    Addrs,        \* instruction addresses
    BreakSlots,   \* breakpoint slot indices
    NoBreak,      \* model value: empty breakpoint slot
    NoCore,       \* model value: no debugged core recorded yet
    ContBudgets,  \* clock budgets a user may give to "cont <clocks>"
    MaxClocks     \* cap on the per-core clock counter (bound of the model)

ASSUME ContBudgets \subseteq 1..(MaxClocks - 1)
ASSUME NoCore \notin Cores

INSTANCE BreakpointTable

VARIABLES
    debugMode,    \* cpuctrl_is_debug_mode(): the global debug mode
    forceDebug,   \* cpuctrl_is_force_debug_mode(): a pending force stop
    coreDebug,    \* dbg_cpu_debug_mode_get(core): per-core debug mode
    contTimed,    \* cpuctrl_set_cont_clocks: is_timeout
    contBudget,   \* cpuctrl_set_cont_clocks: cont_clocks
    elapsed,      \* per core: clocks executed since cpuctrl_set_cont_clocks
    cpu,          \* per core: "running", "stopped" or "resumed" (woken)
    pc,           \* per core: address of the next instruction
    current,      \* cpuctrl_get_current_debugged_core()
    bps,          \* the breakpoint table
    dbg,          \* control point of the debugger thread
    coreArg       \* parsed_args->core_id of a core command in progress

vars == <<debugMode, forceDebug, coreDebug, contTimed, contBudget, elapsed,
          cpu, pc, current, bps, dbg, coreArg>>

\* Control points of the debugger thread: at the command prompt of
\* do_cui, inside core <id> between its write and its scan, blocked
\* inside a command waiting for a stopped cpu, or gone.
Waits == {"wait_cont", "wait_next", "wait_quit", "wait_exit"}
DbgStates == {"prompt", "core_scan", "exited", "aborted"} \cup Waits

Live == dbg \notin {"exited", "aborted"}

-----------------------------------------------------------------------------
(* Thread control, spec-modelled.                                          *)

\* cputhr_control_dbg_wakeup_cpu: every stopped core resumes.
Wakeup(c) == IF cpu[c] = "stopped" THEN "resumed" ELSE cpu[c]

\* The condition cputhr_control_dbg_waitfor_cpu_stopped waits for.
CpuStopped == \E c \in Cores : cpu[c] = "stopped"

\* The stop check a core makes before it executes an instruction.
ShouldStop(c) ==
    /\ coreDebug[c]
    /\ \/ debugMode
       \/ forceDebug
       \/ IsBreakPoint(bps, pc[c])
       \/ contTimed /\ elapsed[c] >= contBudget

\* cpuctrl_set_cont_clocks(is_timeout, clocks): the budget and its start.
SetContClocks(timed, n) ==
    /\ contTimed' = timed
    /\ contBudget' = n
    /\ elapsed' = [c \in Cores |-> 0]

\* The core stops: it records itself as the debugged core, consumes the
\* ONLY_ONCE breakpoints at its pc and acknowledges a force request.
CoreStop(c) ==
    /\ Live
    /\ cpu[c] = "running"
    /\ ShouldStop(c)
    /\ cpu' = [cpu EXCEPT ![c] = "stopped"]
    /\ current' = c
    /\ bps' = HitBreak(bps, pc[c])
    /\ forceDebug' = FALSE
    /\ UNCHANGED <<debugMode, coreDebug, contTimed, contBudget, elapsed, pc, dbg>>

\* The core executes one instruction; where it goes next is decided by
\* the instruction decoder, outside this model.
CoreExec(c) ==
    /\ Live
    /\ \/ cpu[c] = "resumed"
       \/ cpu[c] = "running" /\ ~ShouldStop(c)
    /\ cpu' = [cpu EXCEPT ![c] = "running"]
    /\ \E a \in Addrs : pc' = [pc EXCEPT ![c] = a]
    /\ elapsed' = [elapsed EXCEPT ![c] = IF @ < MaxClocks THEN @ + 1 ELSE @]
    /\ UNCHANGED <<debugMode, forceDebug, coreDebug, contTimed, contBudget,
                   current, bps, dbg>>

\* The debugger thread leaves its wait once a core is stopped, and runs
\* the rest of the command: quit sets the debug mode, exit ends athrill.
WaitReturn ==
    /\ dbg \in Waits
    /\ CpuStopped
    /\ dbg' = IF dbg = "wait_exit" THEN "exited" ELSE "prompt"
    /\ debugMode' = (dbg = "wait_quit" \/ debugMode)
    /\ UNCHANGED <<forceDebug, coreDebug, contTimed, contBudget, elapsed, cpu,
                   pc, current, bps>>

-----------------------------------------------------------------------------
(* Debugger commands, dbg_std_executor.c.                                  *)

AtPrompt == dbg = "prompt"

\* dbg_std_executor_cont, DBG_CMD_CONT_ALL: run freely, do not wait.
ExecContAll ==
    /\ AtPrompt
    /\ debugMode' = FALSE
    /\ SetContClocks(FALSE, 0)
    /\ cpu' = [c \in Cores |-> Wakeup(c)]
    /\ UNCHANGED <<forceDebug, coreDebug, pc, current, bps, dbg>>

\* dbg_std_executor_cont with a clock count: run and wait for a stop.
ExecContClocks(n) ==
    /\ AtPrompt
    /\ debugMode' = FALSE
    /\ SetContClocks(TRUE, n)
    /\ cpu' = [c \in Cores |-> Wakeup(c)]
    /\ dbg' = "wait_cont"
    /\ UNCHANGED <<forceDebug, coreDebug, pc, current, bps>>

\* dbg_std_executor_core, DBG_CMD_CORE_SINGLE: dbg_cpu_debug_mode_set
\* writes the core's mode at once, while the cores run on ...
ExecCoreSingle(c, on) ==
    /\ AtPrompt
    /\ coreDebug' = [coreDebug EXCEPT ![c] = on]
    /\ dbg' = "core_scan"
    /\ coreArg' = c
    /\ UNCHANGED <<debugMode, forceDebug, contTimed, contBudget, elapsed,
                   cpu, pc, current, bps>>

\* ... and only then the loop looks for a core in debug mode; if there is
\* none, the core's mode is set back to TRUE and the command reports NG.
CoreScan ==
    /\ dbg = "core_scan"
    /\ coreDebug' = IF \E i \in Cores : coreDebug[i]
                    THEN coreDebug
                    ELSE [coreDebug EXCEPT ![coreArg] = TRUE]
    /\ dbg' = "prompt"
    /\ coreArg' = NoCore
    /\ UNCHANGED <<debugMode, forceDebug, contTimed, contBudget, elapsed,
                   cpu, pc, current, bps>>

\* dbg_std_executor_core, DBG_CMD_CORE_ALL: set every core's mode.
ExecCoreAll(on) ==
    /\ AtPrompt
    /\ coreDebug' = [c \in Cores |-> on]
    /\ UNCHANGED <<debugMode, forceDebug, contTimed, contBudget, elapsed,
                   cpu, pc, current, bps, dbg>>

\* Mutant of ExecNext: cpuctrl_set_debug_mode(TRUE) is left out.
ExecNextKeepMode ==
    /\ AtPrompt
    /\ SetContClocks(FALSE, 0)
    /\ UNCHANGED debugMode
    /\ cpu' = [c \in Cores |-> Wakeup(c)]
    /\ dbg' = "wait_next"
    /\ UNCHANGED <<forceDebug, coreDebug, pc, current, bps>>

\* dbg_std_executor_next: debug mode on, wake the cores, wait for a stop.
ExecNext ==
    /\ AtPrompt
    /\ SetContClocks(FALSE, 0)
    /\ debugMode' = TRUE
    /\ cpu' = [c \in Cores |-> Wakeup(c)]
    /\ dbg' = "wait_next"
    /\ UNCHANGED <<forceDebug, coreDebug, pc, current, bps>>

\* dbg_std_executor_return: an ONLY_ONCE breakpoint at the return address
\* of the debugged core (a failed set is only reported), then run freely.
\* Without a debugged core the command reaches ASSERT(0).
ExecReturn ==
    /\ AtPrompt
    /\ SetContClocks(FALSE, 0)
    /\ IF current # NoCore
       THEN /\ \E ret \in Addrs : bps' = SetBreak(bps, ret, "ONLY_ONCE")
            /\ debugMode' = FALSE
            /\ cpu' = [c \in Cores |-> Wakeup(c)]
            /\ UNCHANGED dbg
       ELSE /\ dbg' = "aborted"
            /\ UNCHANGED <<bps, debugMode, cpu>>
    /\ UNCHANGED <<forceDebug, coreDebug, pc, current>>

\* Mutant of ExecQuit: cpuctrl_set_force_debug_mode() is left out.
ExecQuitNoForce ==
    /\ AtPrompt
    /\ dbg' = "wait_quit"
    /\ UNCHANGED <<debugMode, forceDebug, coreDebug, contTimed, contBudget,
                   elapsed, cpu, pc, current, bps>>

\* dbg_std_executor_quit: request a force stop and wait for a stopped cpu.
ExecQuit ==
    /\ AtPrompt
    /\ forceDebug' = TRUE
    /\ dbg' = "wait_quit"
    /\ UNCHANGED <<debugMode, coreDebug, contTimed, contBudget, elapsed, cpu,
                   pc, current, bps>>

\* dbg_std_executor_exit: debug mode on, wait for a stopped cpu, exit(1).
ExecExit ==
    /\ AtPrompt
    /\ debugMode' = TRUE
    /\ dbg' = "wait_exit"
    /\ UNCHANGED <<forceDebug, coreDebug, contTimed, contBudget, elapsed, cpu,
                   pc, current, bps>>

\* dbg_std_executor_break, DBG_CMD_BBREAK_SET: a persistent breakpoint.
ExecBreak(a) ==
    /\ AtPrompt
    /\ bps' = SetBreak(bps, a, "FOREVER")
    /\ UNCHANGED <<debugMode, forceDebug, coreDebug, contTimed, contBudget,
                   elapsed, cpu, pc, current, dbg>>

\* dbg_std_executor_delete: DBG_CMD_DELETE_ONE (by slot) or
\* DBG_CMD_DELETE_ALL (the FOREVER breakpoints only).
ExecDelete(i) ==
    /\ AtPrompt
    /\ bps' = DelBreak(bps, i)
    /\ UNCHANGED <<debugMode, forceDebug, coreDebug, contTimed, contBudget,
                   elapsed, cpu, pc, current, dbg>>

ExecDeleteAll ==
    /\ AtPrompt
    /\ bps' = DelAllBreak(bps, "FOREVER")
    /\ UNCHANGED <<debugMode, forceDebug, coreDebug, contTimed, contBudget,
                   elapsed, cpu, pc, current, dbg>>

\* athrill has exited or aborted: nothing moves any more.
Terminated == ~Live /\ UNCHANGED vars

-----------------------------------------------------------------------------
\* athrill starts in debug mode with every core in debug mode, the cores
\* running towards their first stop check and the prompt already open.
Init ==
    /\ debugMode = TRUE
    /\ forceDebug = FALSE
    /\ coreDebug = [c \in Cores |-> TRUE]
    /\ contTimed = FALSE
    /\ contBudget = 0
    /\ elapsed = [c \in Cores |-> 0]
    /\ cpu = [c \in Cores |-> "running"]
    /\ pc \in [Cores -> Addrs]
    /\ current = NoCore
    /\ bps = EmptyBreakTable
    /\ dbg = "prompt"
    /\ coreArg = NoCore

CoreStep(c) == CoreStop(c) \/ CoreExec(c)

DebuggerStep ==
    \/ ExecContAll
    \/ \E n \in ContBudgets : ExecContClocks(n)
    \/ \E on \in BOOLEAN : ExecCoreAll(on)
    \/ ExecNext
    \/ ExecReturn
    \/ ExecQuit
    \/ ExecExit
    \/ \E a \in Addrs : ExecBreak(a)
    \/ \E i \in BreakSlots \cup {Cardinality(BreakSlots)} : ExecDelete(i)
    \/ ExecDeleteAll

Next ==
    \/ (\/ \E c \in Cores : CoreStep(c)
        \/ WaitReturn
        \/ DebuggerStep) /\ UNCHANGED coreArg
    \/ \E c \in Cores, on \in BOOLEAN : ExecCoreSingle(c, on)
    \/ CoreScan
    \/ Terminated

\* Each core is an OS thread and the debugger thread runs on once its wait
\* condition holds or inside a command; the user typing commands is not
\* assumed to act.
Fairness ==
    /\ \A c \in Cores : WF_vars(CoreStep(c) /\ UNCHANGED coreArg)
    /\ WF_vars(WaitReturn /\ UNCHANGED coreArg)
    /\ WF_vars(CoreScan)

Spec == Init /\ [][Next]_vars /\ Fairness

-----------------------------------------------------------------------------
TypeOK ==
    /\ debugMode \in BOOLEAN
    /\ forceDebug \in BOOLEAN
    /\ coreDebug \in [Cores -> BOOLEAN]
    /\ contTimed \in BOOLEAN
    /\ contBudget \in {0} \cup ContBudgets
    /\ elapsed \in [Cores -> 0..MaxClocks]
    /\ cpu \in [Cores -> {"running", "stopped", "resumed"}]
    /\ pc \in [Cores -> Addrs]
    /\ current \in Cores \cup {NoCore}
    /\ bps \in BreakTableType
    /\ dbg \in DbgStates
    /\ coreArg \in Cores \cup {NoCore}

-----------------------------------------------------------------------------
(* Properties.                                                             *)

\* A next command is a single step: while the debugger waits inside
\* dbg_std_executor_next, no core in debug mode has executed more than one
\* instruction since the command woke the cores.  It fails if the command
\* wakes the cores before (or without) setting the debug mode, or if a
\* woken core skips its stop check.
StepIsSingle ==
    dbg = "wait_next" => \A c \in Cores : coreDebug[c] => elapsed[c] <= 1

\* Every blocking command gives the prompt back: when next, cont <clocks>,
\* quit or exit waits for a stopped cpu while some core is in debug mode,
\* the debugger thread eventually leaves the wait.
WaitReturns ==
    (dbg \in Waits /\ \E c \in Cores : coreDebug[c]) ~> dbg \notin Waits

\* spec.md 4.5: the controller refuses a core-mode change that would leave
\* no core in debug mode, since then nothing brings the cores back under
\* debugger control.
SomeCoreDebuggable == \E c \in Cores : coreDebug[c]

=============================================================================
