----------------------------- MODULE CommandLog -----------------------------
(***************************************************************************)
(* The debugger's operation log (main.c): with DEBUG_FUNC_OPLOG set, do_cui *)
(* appends every command whose executor reported result_ok to a file, and *)
(* load_cui_operation replays the whole file through dbg_parse/run when    *)
(* athrill starts again.  Of the executors, break, delete and watch are   *)
(* the ones that set result_ok and change debugger state; return puts an   *)
(* ONLY_ONCE breakpoint in the same table without setting result_ok, and  *)
(* a core stopping on that breakpoint removes it.  A restart loses every  *)
(* table and keeps the file.                                               *)
(***************************************************************************)
EXTENDS Naturals, Sequences, SequencesExt

CONSTANTS
    BreakSlots,   \* breakpoint slot indices
    Addrs,        \* instruction addresses
    NoBreak,      \* model value: empty breakpoint slot
    WatchSlots,   \* watchpoint slot indices
    WatchAddrs,   \* data addresses a watch may name
    NoWatch,      \* model value: empty watchpoint slot
    OnceAddrs,    \* return addresses a "return" command may break at
    MaxLog,       \* bound on the length of the operation log
    MaxBoots      \* bound on the number of restarts

ASSUME OnceAddrs \subseteq Addrs

INSTANCE BreakpointTable
INSTANCE WatchTable

VARIABLES
    bps,     \* the breakpoint table of the running athrill
    wps,     \* its data watchpoint table
    oplog,   \* the DEBUG_FUNC_OPLOG file: the saved command lines
    boots,   \* how many times athrill has started again
    onceAtSave \* auxiliary: a break or delete line was saved while an ONLY_ONCE
               \* entry held a slot

vars == <<bps, wps, oplog, boots, onceAtSave>>

\* Some slot holds a breakpoint set by return.
HasOnce(tbl) == \E i \in UsedSlots(tbl) : tbl[i].type = "ONLY_ONCE"

\* The tables of the running athrill as one record.
Live == [b |-> bps, w |-> wps]

\* The command lines of dbg_std_executor_break (DBG_CMD_BBREAK_SET),
\* dbg_std_executor_delete (DBG_CMD_DELETE_ONE, DBG_CMD_DELETE_ALL) and
\* dbg_std_executor_watch_data (set, delete one, delete all, info).  The
\* mode of a watch set is watch_type & DBG_CMD_WATCH_TYPE_RW, "NONE" when
\* neither bit is given.
Cmds ==
    [op : {"break"}, addr : Addrs]
    \cup [op : {"delete"}, slot : 0..Cardinality(BreakSlots)]
    \cup [op : {"delete_all"}]
    \cup [op : {"watch_set"}, mode : WatchTypes \cup {"NONE"}, addr : WatchAddrs]
    \cup [op : {"watch_delete"}, slot : 0..Cardinality(WatchSlots)]
    \cup [op : {"watch_delete_all"}]
    \cup [op : {"watch_info"}]

\* The debugger tables a command line acts on.
Tables == [b : BreakTableType, w : WatchTableType]

\* dbg_std_executor_break and dbg_std_executor_delete: the breakpoint
\* table they leave behind, and the result_ok they report.
RunBreak(tbl, cmd) ==
    CASE cmd.op = "break"      -> SetBreak(tbl, cmd.addr, "FOREVER")
      [] cmd.op = "delete"     -> DelBreak(tbl, cmd.slot)
      [] cmd.op = "delete_all" -> DelAllBreak(tbl, "FOREVER")
      [] OTHER                 -> tbl

BreakOk(tbl, cmd) ==
    CASE cmd.op = "break"      -> CanSetBreak(tbl)
      [] cmd.op = "delete"     -> CanDelBreak(tbl, cmd.slot)
      [] OTHER                 -> TRUE

\* dbg_std_executor_watch_data and its set, delete and info helpers.
RunWatch(tbl, cmd) ==
    CASE cmd.op = "watch_set" /\ cmd.mode # "NONE" -> SetWatch(tbl, cmd.mode, cmd.addr)
      [] cmd.op = "watch_delete"     -> DelWatch(tbl, cmd.slot)
      [] cmd.op = "watch_delete_all" -> DelAllWatch(tbl)
      [] OTHER                       -> tbl

WatchOk(tbl, cmd) ==
    CASE cmd.op = "watch_set"    -> cmd.mode # "NONE" /\ CanSetWatch(tbl)
      [] cmd.op = "watch_delete" -> CanDelWatch(tbl, cmd.slot)
      [] OTHER                   -> TRUE

IsWatchCmd(cmd) == cmd.op \in {"watch_set", "watch_delete", "watch_delete_all", "watch_info"}

\* The executor of a command line: the tables it leaves behind ...
Run(st, cmd) ==
    IF IsWatchCmd(cmd) THEN [st EXCEPT !.w = RunWatch(st.w, cmd)]
                       ELSE [st EXCEPT !.b = RunBreak(st.b, cmd)]

\* ... and the result_ok it reports.
ResultOk(st, cmd) ==
    IF IsWatchCmd(cmd) THEN WatchOk(st.w, cmd) ELSE BreakOk(st.b, cmd)

\* Mutant of Replay: the replay loop stops before the last saved line.
ReplaySkipLast(tbl, log) ==
    FoldLeft(Run, tbl, IF log = <<>> THEN log ELSE SubSeq(log, 1, Len(log) - 1))

\* load_cui_operation: every saved line is run in file order.
Replay(tbl, log) == FoldLeft(Run, tbl, log)

-----------------------------------------------------------------------------
\* One turn of the do_cui loop with a break or delete command: run it, and
\* save_cui_operation appends it to the file when it reported result_ok.
\* The bound MaxLog only cuts off the commands that would save a line.
DoCui(cmd) ==
    /\ Len(oplog) < MaxLog \/ ~ResultOk(Live, cmd)
    /\ bps' = Run(Live, cmd).b
    /\ wps' = Run(Live, cmd).w
    /\ oplog' = IF ResultOk(Live, cmd) THEN Append(oplog, cmd) ELSE oplog
    /\ onceAtSave' = (onceAtSave \/ (ResultOk(Live, cmd) /\ ~IsWatchCmd(cmd) /\ HasOnce(bps)))
    /\ UNCHANGED boots

\* dbg_std_executor_return: an ONLY_ONCE breakpoint, never saved.
DoReturn(a) ==
    /\ bps' = SetBreak(bps, a, "ONLY_ONCE")
    /\ UNCHANGED <<wps, oplog, boots, onceAtSave>>

\* A core stops on an ONLY_ONCE breakpoint, which is deleted.
HitOnce(a) ==
    /\ \E i \in UsedSlots(bps) : bps[i].addr = a /\ bps[i].type = "ONLY_ONCE"
    /\ bps' = HitBreak(bps, a)
    /\ UNCHANGED <<wps, oplog, boots, onceAtSave>>

\* athrill ends (exit, or the process dies) and is started again: main
\* calls do_cui, whose load_cui_operation replays the file into an empty
\* table before the first prompt.
Restart ==
    /\ boots < MaxBoots
    /\ bps' = Replay([b |-> EmptyBreakTable, w |-> EmptyWatchTable], oplog).b
    /\ wps' = Replay([b |-> EmptyBreakTable, w |-> EmptyWatchTable], oplog).w
    /\ boots' = boots + 1
    /\ UNCHANGED <<oplog, onceAtSave>>

Init ==
    /\ bps = EmptyBreakTable
    /\ wps = EmptyWatchTable
    /\ oplog = <<>>
    /\ boots = 0
    /\ onceAtSave = FALSE

Next ==
    \/ \E cmd \in Cmds : DoCui(cmd)
    \/ \E a \in OnceAddrs : DoReturn(a) \/ HitOnce(a)
    \/ Restart

Spec == Init /\ [][Next]_vars

-----------------------------------------------------------------------------
TypeOK ==
    /\ bps \in BreakTableType
    /\ wps \in WatchTableType
    /\ oplog \in Seq(Cmds)
    /\ Len(oplog) <= MaxLog
    /\ boots \in 0..MaxBoots
    /\ onceAtSave \in BOOLEAN

\* The operation log restores the session: after athrill starts again and
\* load_cui_operation has replayed the file, the persistent breakpoints
\* are those the user had set and not deleted before it ended.
ReplayRestoresBreakpoints ==
    [][boots' # boots => ForeverAddrs(bps') = ForeverAddrs(bps)]_vars

\* The replay restores the session except where return breakpoints shift
\* slots: after a restart the watchpoint table is exactly the one before,
\* slot for slot, and as long as no break or delete line was saved while a
\* breakpoint set by dbg_std_executor_return held a slot, so are the
\* persistent breakpoints, whatever the failed commands, delete all,
\* return breakpoints hit or left pending, and earlier restarts did.
ReplayRestoresSession ==
    [][boots' # boots =>
         /\ wps' = wps
         /\ ~onceAtSave => ForeverAddrs(bps') = ForeverAddrs(bps)]_vars

=============================================================================
