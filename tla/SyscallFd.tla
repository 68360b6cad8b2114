------------------------------ MODULE SyscallFd ------------------------------
(***************************************************************************)
(* The file and serial syscalls of the athrill syscall device              *)
(* (athrill_syscall_device.c) and the special_fd_table behind them.        *)
(* athrill_syscall_ev3_serial_open makes a pipe pair <base>_out/<base>_in  *)
(* and records in special_fd_table[fd_in] the fd_out that writes on fd_in  *)
(* are redirected to; 0 in the table means "no pair".  read_r, write_r,    *)
(* close_r go through get_correspond_fd, which ASSERTs the fd is in the    *)
(* table's range.                                                          *)
(*                                                                         *)
(* The host gives out the lowest free descriptor (POSIX open) and fails    *)
(* with -1 when all NFds are in use; NFds stands for both SPECIAL_FD_NUM   *)
(* and the process's descriptor limit (1024 each by default).  File        *)
(* contents are abstracted to what each descriptor is open on.             *)
(***************************************************************************)
EXTENDS Integers, FiniteSets, TLC

CONSTANTS
    NFds,     \* SPECIAL_FD_NUM and the host descriptor limit
    Ports,    \* ports the guest passes to serial_open
    Closed,   \* model value: a descriptor not open on the host
    GuestRetInit \* ret_value the guest's argument block holds before the call

Fds == 0..(NFds - 1)
Std == [kind |-> "std"]
File == [kind |-> "file"]
PipeIn(port) == [kind |-> "pipe_in", port |-> port]
PipeOut(port) == [kind |-> "pipe_out", port |-> port]
Sock == [kind |-> "socket"]      \* made by socket()
Conn == [kind |-> "conn"]        \* made by accept() on a socket
Objects == {Std, File, Sock, Conn}
           \cup {PipeIn(p) : p \in Ports} \cup {PipeOut(p) : p \in Ports}

VARIABLES
    obj,      \* host descriptor -> what it is open on
    pair,     \* special_fd_table
    held,     \* guest: descriptor -> what it expects its writes to reach
    aborted   \* an ASSERT has ended athrill

vars == <<obj, pair, held, aborted>>

\* open(): the lowest free descriptor, -1 when there is none.
LowestFree(o) ==
    IF \E f \in Fds : o[f] = Closed
    THEN CHOOSE f \in Fds : o[f] = Closed /\ \A g \in Fds : o[g] = Closed => f <= g
    ELSE -1

Opened(o, f, what) == IF f = -1 THEN o ELSE [o EXCEPT ![f] = what]

\* get_correspond_fd (once its ASSERT has passed).
Correspond(fd) == IF pair[fd] # 0 THEN pair[fd] ELSE fd

InRange(fd) == 0 <= fd /\ fd < NFds

\* is_stream_fd: the descriptor has a corresponding one.
IsStream(fd) == Correspond(fd) # fd

\* athrill_syscall_read_r, as the guest sees it: a buffer mpu_get_pointer
\* cannot resolve gives its error; otherwise read(fd), where the host
\* reports data, end of data (0) or EAGAIN (-1).  On a stream descriptor
\* end of data becomes -1 with errno 0, and EAGAIN or ESPIPE becomes
\* SYS_API_ERR_AGAIN (the ENABLE_EXTERNAL_BT_SERIAL fifo branch is not
\* modelled).  read_r changes no modelled state (file contents
\* and offsets are abstracted), so it is an operator on the state.
ReadR(fd, bufOk, host) ==
    [ret |-> CASE ~bufOk -> "mpu_error"
               [] host = "data" -> "count"
               [] host = "end" -> IF IsStream(fd) THEN "minus_one" ELSE "zero"
               [] host = "again" -> "minus_one",
     err |-> IF bufOk /\ host = "again" THEN "AGAIN" ELSE "none"]

\* athrill_syscall_write_r: after the same buffer check, write() on
\* get_correspond_fd(fd); the bytes land on what that descriptor is open on.
WriteR(fd) == obj[Correspond(fd)]

-----------------------------------------------------------------------------
\* athrill_syscall_open_r: ret_value = open(...); the guest keeps it
\* unless it is -1.
OpenR ==
    /\ ~aborted
    /\ LowestFree(obj) # -1
    /\ LET fd == LowestFree(obj) IN
       /\ obj' = [obj EXCEPT ![fd] = File]
       /\ held' = held @@ (fd :> File)
    /\ UNCHANGED <<pair, aborted>>

\* Mutant of SerialOpen: set_correspond_fd with its arguments swapped.
SerialOpenSwapped(port) ==
    /\ ~aborted
    /\ IF port = "DEFAULT"
       THEN /\ held' = held @@ (0 :> Std)
            /\ UNCHANGED <<obj, pair, aborted>>
       ELSE LET out == LowestFree(obj)
                o1  == Opened(obj, out, PipeOut(port))
                in  == LowestFree(o1)
            IN IF ~InRange(in)
               THEN /\ obj' = o1
                    /\ aborted' = TRUE
                    /\ UNCHANGED <<pair, held>>
               ELSE /\ obj' = Opened(o1, in, PipeIn(port))
                    /\ pair' = [pair EXCEPT ![out] = in]
                    /\ held' = held @@ (in :> PipeOut(port))
                    /\ UNCHANGED aborted

\* Mutant of SerialOpen: set_correspond_fd without its ASSERT (a build
\* where ASSERT is compiled out), so fd_in = -1 goes back to the guest.
SerialOpenNoAssert(port) ==
    /\ ~aborted
    /\ IF port = "DEFAULT"
       THEN /\ held' = held @@ (0 :> Std)
            /\ UNCHANGED <<obj, pair, aborted>>
       ELSE LET out == LowestFree(obj)
                o1  == Opened(obj, out, PipeOut(port))
                in  == LowestFree(o1)
            IN /\ obj' = Opened(o1, in, PipeIn(port))
               /\ pair' = IF InRange(in) THEN [pair EXCEPT ![in] = out] ELSE pair
               /\ held' = held @@ (in :> PipeOut(port))
               /\ UNCHANGED aborted

\* athrill_syscall_ev3_serial_open: DEFAULT is descriptor 0; UART and BT
\* are create_pipe_pair: fd_out = create_pipe(<base>_out), fd_in =
\* create_pipe(<base>_in), set_correspond_fd(fd_in, fd_out), whose ASSERT
\* ends athrill when fd_in is -1.  (create_pipe's draining of an existing
\* fifo opens and closes a descriptor and leaves none behind.)
SerialOpen(port) ==
    /\ ~aborted
    /\ IF port = "DEFAULT"
       THEN /\ held' = held @@ (0 :> Std)
            /\ UNCHANGED <<obj, pair, aborted>>
       ELSE LET out == LowestFree(obj)
                o1  == Opened(obj, out, PipeOut(port))
                in  == LowestFree(o1)
            IN IF ~InRange(in)
               THEN /\ obj' = o1
                    /\ aborted' = TRUE
                    /\ UNCHANGED <<pair, held>>
               ELSE /\ obj' = Opened(o1, in, PipeIn(port))
                    /\ pair' = [pair EXCEPT ![in] = out]
                    /\ held' = held @@ (in :> PipeOut(port))
                    /\ UNCHANGED aborted

\* Mutant of CloseR: the special_fd_table entry is not cleared.
CloseRKeepEntry(fd) ==
    /\ ~aborted
    /\ fd \in DOMAIN held
    /\ LET c == Correspond(fd)
           o1 == IF c # fd /\ InRange(c) THEN [obj EXCEPT ![c] = Closed] ELSE obj
       IN obj' = [o1 EXCEPT ![fd] = Closed]
    /\ held' = [f \in DOMAIN held \ {fd} |-> held[f]]
    /\ UNCHANGED <<pair, aborted>>

\* Mutant of CloseR: the corresponding descriptor is left open.
CloseRKeepPair(fd) ==
    /\ ~aborted
    /\ fd \in DOMAIN held
    /\ obj' = [obj EXCEPT ![fd] = Closed]
    /\ pair' = [pair EXCEPT ![fd] = 0]
    /\ held' = [f \in DOMAIN held \ {fd} |-> held[f]]
    /\ UNCHANGED aborted

\* athrill_syscall_close_r: a descriptor with a corresponding one closes
\* that one too and clears the entry, then close(fd).
CloseR(fd) ==
    /\ ~aborted
    /\ fd \in DOMAIN held
    /\ LET c == Correspond(fd)
           o1 == IF c # fd /\ InRange(c) THEN [obj EXCEPT ![c] = Closed] ELSE obj
       IN /\ obj' = [o1 EXCEPT ![fd] = Closed]
          /\ pair' = IF c # fd THEN [pair EXCEPT ![fd] = 0] ELSE pair
    /\ held' = [f \in DOMAIN held \ {fd} |-> held[f]]
    /\ UNCHANGED aborted

\* athrill_syscall_socket: ret_value = socket(); when the host has no
\* descriptor left the handler returns at once and ret_value keeps what
\* the guest put there, which a guest that finds a descriptor there takes
\* for its socket.
Socket ==
    /\ ~aborted
    /\ LET fd == LowestFree(obj) IN
       IF fd # -1
       THEN /\ obj' = [obj EXCEPT ![fd] = Sock]
            /\ held' = (fd :> Sock) @@ held
       ELSE /\ \E r \in GuestRetInit :
                  held' = IF r \in Fds THEN (r :> Sock) @@ held ELSE held
            /\ UNCHANGED obj
    /\ UNCHANGED <<pair, aborted>>

\* athrill_syscall_accept on a socket the guest holds, once both of its
\* pointers resolve: accept() is non-blocking, so with no connection
\* pending or no descriptor left it gives -errno and nothing changes;
\* otherwise the new descriptor is the connection's.
Accept(lfd) ==
    /\ ~aborted
    /\ held[lfd] = Sock
    /\ LowestFree(obj) # -1
    /\ LET fd == LowestFree(obj) IN
       /\ obj' = [obj EXCEPT ![fd] = Conn]
       /\ held' = (fd :> Conn) @@ held
    /\ UNCHANGED <<pair, aborted>>

\* athrill_syscall_shutdown: ret_value = OK and close(sockfd), straight
\* on the host descriptor: special_fd_table is not looked at.
Shutdown(fd) ==
    /\ ~aborted
    /\ held[fd] \in {Sock, Conn}
    /\ obj' = [obj EXCEPT ![fd] = Closed]
    /\ held' = [f \in DOMAIN held \ {fd} |-> held[f]]
    /\ UNCHANGED <<pair, aborted>>

Init ==
    /\ obj = [f \in Fds |-> IF f <= 2 THEN Std ELSE Closed]
    /\ pair = [f \in Fds |-> 0]
    /\ held = <<>>
    /\ aborted = FALSE

Next ==
    \/ OpenR
    \/ \E p \in Ports : SerialOpen(p)
    \/ \E fd \in DOMAIN held : CloseR(fd) \/ Accept(fd) \/ Shutdown(fd)
    \/ Socket

Spec == Init /\ [][Next]_vars

-----------------------------------------------------------------------------
TypeOK ==
    /\ obj \in [Fds -> Objects \cup {Closed}]
    /\ pair \in [Fds -> Fds]
    /\ DOMAIN held \subseteq Fds
    /\ \A f \in DOMAIN held : held[f] \in Objects
    /\ aborted \in BOOLEAN

\* write_r on a descriptor the guest holds goes, through
\* get_correspond_fd, to an open descriptor on what the guest opened it
\* for: the file, the <base>_out pipe of its serial port, or the console.
WritesReachTarget ==
    \A fd \in DOMAIN held :
        InRange(Correspond(fd)) /\ WriteR(fd) = held[fd]

\* No descriptor is leaked: while athrill runs, every open host
\* descriptor other than the console's is one the guest holds or the pipe
\* its writes go to.
NoFdLeak ==
    ~aborted =>
    \A f \in Fds :
        obj[f] \notin {Closed, Std} =>
            f \in DOMAIN held \/ \E h \in DOMAIN held : Correspond(h) = f

\* read_r tells the guest's end of data apart by what it opened: on a
\* file or a socket, end of file is ret 0; on a serial port (a pipe pair), the end
\* of the stream is ret -1 with errno 0, which the guest's library takes
\* for "no data yet".  read_r decides by special_fd_table (is_stream_fd),
\* so this holds for every descriptor the guest holds only if open_r,
\* serial_open and close_r keep the table in step with the descriptors
\* the host hands out and reuses.
EndOfDataByKind ==
    \A fd \in DOMAIN held :
        ReadR(fd, TRUE, "end") =
            IF held[fd].kind = "pipe_out" THEN [ret |-> "minus_one", err |-> "none"]
                                          ELSE [ret |-> "zero", err |-> "none"]

=============================================================================
