---------------------------- MODULE WatchTable ----------------------------
(***************************************************************************)
(* The data watchpoint table behind the debugger's watch command: a fixed  *)
(* array of DBG_CPU_CONTROL_WATCH_DATA_SETSIZE slots (dbg_cpu_control.h),  *)
(* each empty or holding (type, addr, size) with type one of              *)
(* DATA_WATCH_POINT_TYPE_READ, _WRITE, _RW.  The cpuctrl_*_data_watch*    *)
(* bodies are not part of the sources; the operators follow spec.md 4.4,  *)
(* which gives the table the breakpoint table's lifecycle: a set takes    *)
(* the lowest free slot, a delete names a slot by index.                  *)
(***************************************************************************)
EXTENDS Naturals

CONSTANTS
    WatchSlots,   \* slot indices 0..DBG_CPU_CONTROL_WATCH_DATA_SETSIZE-1
    WatchAddrs,   \* data addresses (with their sizes) a watch may name
    NoWatch       \* model value: an empty slot

WatchTypes == {"READ", "WRITE", "RW"}

WatchEntry == [type : WatchTypes, addr : WatchAddrs]

WatchTableType == [WatchSlots -> WatchEntry \cup {NoWatch}]

EmptyWatchTable == [i \in WatchSlots |-> NoWatch]

UsedWatchSlots(tbl) == {i \in WatchSlots : tbl[i] # NoWatch}

\* cpuctrl_set_data_watch returns TRUE iff a slot is free.
CanSetWatch(tbl) == UsedWatchSlots(tbl) # WatchSlots

SetWatch(tbl, t, a) ==
    IF CanSetWatch(tbl)
    THEN LET free == WatchSlots \ UsedWatchSlots(tbl)
             i == CHOOSE k \in free : \A j \in free : k <= j
         IN [tbl EXCEPT ![i] = [type |-> t, addr |-> a]]
    ELSE tbl

\* cpuctrl_del_data_watch_point(delno) returns TRUE iff delno is in use.
CanDelWatch(tbl, i) == i \in UsedWatchSlots(tbl)

DelWatch(tbl, i) ==
    IF CanDelWatch(tbl, i) THEN [tbl EXCEPT ![i] = NoWatch] ELSE tbl

\* cpuctrl_del_all_data_watch_points
DelAllWatch(tbl) == EmptyWatchTable

=============================================================================
