------------------------------ MODULE FuncTrace ------------------------------
(***************************************************************************)
(* The per-core function-call trace and the debugger's func_trace command  *)
(* (dbg_std_executor.c).  Each core thread records every function entry in *)
(* its own ring of DBG_FUNCLOG_TRACE_SIZE entries; func_trace <n> walks    *)
(* the cores in id order and prints, for each, entries 0 .. bt_number-1    *)
(* counted from the newest, oldest first (toward_older) or newest first    *)
(* (toward_newer).                                                         *)
(*                                                                         *)
(* The ring's code (cpuctrl_set_func_log_trace, _get_func_log_trace_info,  *)
(* _get_func_log_trace_num) is not part of the sources and follows         *)
(* spec.md 4.6: a record overwrites the oldest entry once the ring is      *)
(* full, and entries are read by index from the newest.  A ring is the     *)
(* sequence of its entries, oldest first; an entry is the called function. *)
(* The cores keep running while the command prints, so the handler takes   *)
(* one step per core.                                                      *)
(***************************************************************************)
EXTENDS Naturals, Sequences, SequencesExt

CONSTANTS
    NCores,     \* cpu_config_get_core_id_num()
    TraceSize,  \* DBG_FUNCLOG_TRACE_SIZE
    Funcs,      \* functions a core may call
    BtNumbers,  \* the n the user types after func_trace
    None        \* model value: a core the command has not printed yet

Cores == 0 .. (NCores - 1)

VARIABLES
    log,     \* each core's ring
    ft,      \* the command in progress: [run, core, bt, n, way]
    screen   \* what the command printed for each core

vars == <<log, ft, screen>>

\* cpuctrl_get_func_log_trace_num
LogNum(c) == Len(log[c])

\* cpuctrl_get_func_log_trace_info(c, i): entry i counted from the newest.
Entry(c, i) == log[c][LogNum(c) - i]

\* dbg_std_executor_fun_trace_toward_older: i = bt-1 down to 0, stopping
\* at the first i with no entry (the very first one, if bt > lognum).
TowardOlder(c, bt) ==
    IF bt > LogNum(c) THEN << >> ELSE [j \in 1..bt |-> Entry(c, bt - j)]

\* dbg_std_executor_fun_trace_toward_newer: i = 0 up to bt-1, stopping at
\* the first i with no entry.
TowardNewer(c, bt) ==
    LET k == IF bt > LogNum(c) THEN LogNum(c) ELSE bt
    IN [j \in 1..k |-> Entry(c, j - 1)]

-----------------------------------------------------------------------------
\* A core thread enters function f: cpuctrl_set_func_log_trace.
Record(c, f) ==
    /\ log' = [log EXCEPT ![c] = IF Len(@) < TraceSize THEN Append(@, f)
                                 ELSE Append(Tail(@), f)]
    /\ UNCHANGED <<ft, screen>>

\* dbg_std_executor_func_trace is entered with bt_number = n and bt_way.
FuncTraceStart(n, way) ==
    /\ ~ft.run
    /\ ft' = [run |-> TRUE, core |-> 0, bt |-> n, n |-> n, way |-> way]
    /\ screen' = [c \in Cores |-> None]
    /\ UNCHANGED log

\* One iteration of its core loop: bt_number is clamped to this core's
\* lognum, and the clamped value stays in bt_number for the cores after;
\* then the core's entries are printed.  After the last core, "OK".
FuncTraceCore ==
    /\ ft.run
    /\ LET c  == ft.core
           bt == IF ft.bt > LogNum(c) THEN LogNum(c) ELSE ft.bt
       IN /\ screen' = [screen EXCEPT ![c] = IF ft.way THEN TowardNewer(c, bt)
                                                      ELSE TowardOlder(c, bt)]
          /\ ft' = [ft EXCEPT !.core = c + 1, !.bt = bt, !.run = c + 1 < NCores]
    /\ UNCHANGED log

Init ==
    /\ log = [c \in Cores |-> << >>]
    /\ ft = [run |-> FALSE, core |-> 0, bt |-> 0, n |-> 0, way |-> FALSE]
    /\ screen = [c \in Cores |-> None]

Next ==
    \/ \E c \in Cores, f \in Funcs : Record(c, f)
    \/ \E n \in BtNumbers, way \in BOOLEAN : FuncTraceStart(n, way)
    \/ FuncTraceCore

Spec == Init /\ [][Next]_vars

-----------------------------------------------------------------------------
\* get_trace(core, n) of spec.md 4.6: the min(n, entries) newest entries.
Newest(c, n) ==
    LET k == IF n > LogNum(c) THEN LogNum(c) ELSE n
    IN [j \in 1..k |-> Entry(c, j - 1)]

\* func_trace <n> shows every core its own n newest calls (all of them if
\* it has fewer), newest first or oldest first as asked, whatever the
\* other cores have recorded: the step that prints a core prints exactly
\* that core's window at that moment.
FuncTraceShowsNewest ==
    [][\A c \in Cores :
         screen'[c] # screen[c] /\ screen'[c] # None =>
            screen'[c] = IF ft.way THEN Newest(c, ft.n) ELSE Reverse(Newest(c, ft.n))]_vars

=============================================================================
