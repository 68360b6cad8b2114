---------------------------- MODULE SyscallDevice ----------------------------
(***************************************************************************)
(* The athrill syscall device as the guest cores see it: every syscall     *)
(* goes through athrill_syscall_device, which reads the argument block     *)
(* and calls syscall_table[api_id]; an unreadable block or an api_id past  *)
(* the table is ignored and changes nothing.  The directory handlers       *)
(* (SyscallDir) and the descriptor handlers (SyscallFd) run on the thread  *)
(* of whichever core made the call, interleaved.  An ASSERT in a           *)
(* descriptor handler ends athrill, and with it every core's syscalls.     *)
(***************************************************************************)
EXTENDS Integers

CONSTANTS
    Cores, NSlots, MaxOpens, GuestRetInit, GuestMisuse, NoDir, NoSlot,
    NFds, Ports, Closed

VARIABLES
    used, dirp, hostOpen, opened, pc, loc, dirHeld, ub,   \* SyscallDir
    obj, pair, fdHeld, aborted                            \* SyscallFd

Dir == INSTANCE SyscallDir WITH held <- dirHeld
Fd == INSTANCE SyscallFd WITH held <- fdHeld

dirVars == <<used, dirp, hostOpen, opened, pc, loc, dirHeld, ub>>
fdVars == <<obj, pair, fdHeld, aborted>>
vars == <<dirVars, fdVars>>

Init == Dir!Init /\ Fd!Init

\* athrill_syscall_device: the handler of the call's api_id runs to its
\* end (opendir in its three steps) on the calling core's thread, for as
\* long as athrill has not aborted.
Next ==
    \/ ~aborted /\ Dir!Next /\ UNCHANGED fdVars
    \/ Fd!Next /\ UNCHANGED dirVars

Spec == Init /\ [][Next]_vars

-----------------------------------------------------------------------------
TypeOK == Dir!TypeOK /\ Fd!TypeOK

\* dir_table and the host's DIR streams stay one-to-one (SyscallDir).
DirTableSound == Dir!DirTableSound

\* Every dirid a guest holds names an open DIR stream (SyscallDir).
HeldAreOpen == Dir!HeldAreOpen

\* readdir and closedir never pass libc a NULL or closed DIR* (SyscallDir).
NoStaleDirUse == Dir!NoStaleDirUse

\* write_r on every descriptor a guest holds reaches what it opened it
\* for, through special_fd_table (SyscallFd).
WritesReachTarget == Fd!WritesReachTarget

\* read_r reports the end of data as a file's or a stream's, by what the
\* guest opened (SyscallFd).
EndOfDataByKind == Fd!EndOfDataByKind

\* close_r leaves no pipe descriptor open behind the guest (SyscallFd).
NoFdLeak == Fd!NoFdLeak

=============================================================================
