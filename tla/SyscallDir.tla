----------------------------- MODULE SyscallDir -----------------------------
(***************************************************************************)
(* The directory syscalls of the athrill syscall device                    *)
(* (athrill_syscall_device.c): athrill_syscall_ev3_opendir, _readdir and   *)
(* _closedir over the static dir_table[10].  athrill_syscall_device runs   *)
(* on the thread of the core whose guest made the call, so two cores can   *)
(* be inside these handlers at once; get_free_dir has no lock ("TODO:      *)
(* thread safe") and is split into its read of is_used and its write.      *)
(*                                                                         *)
(* Host DIR streams are numbered 1, 2, ... in the order opendir creates    *)
(* them; hostOpen is the set not yet closed.  A readdir or closedir of a   *)
(* DIR* that is NULL or already closed is undefined behaviour on the host  *)
(* (a use after free in libc) and is recorded in the flag ub.              *)
(***************************************************************************)
EXTENDS Integers, FiniteSets

CONSTANTS
    Cores,        \* cores whose guests make syscalls
    NSlots,       \* entries of dir_table
    MaxOpens,     \* bound on host opendir successes
    GuestRetInit, \* ret_value the guest's argument block holds before the call
    GuestMisuse,  \* TRUE: guests may pass any dirid, FALSE: only those they hold
    NoDir,        \* model value: a NULL DIR*
    NoSlot        \* model value: a core's p is not set

Slots == 0..(NSlots - 1)
DirIds == 1..NSlots         \* GETDIRID(p) = index + 1
E_PAR == -17
E_OK == 0
Handles == 1..MaxOpens

VARIABLES
    used,      \* dir_table[i].is_used
    dirp,      \* dir_table[i].dir
    hostOpen,  \* host DIR streams not yet closed
    opened,    \* host DIR streams created so far
    pc,        \* where each core is in athrill_syscall_ev3_opendir
    loc,       \* each core's local p (the slot get_free_dir is returning)
    held,      \* dirids each core's guest believes it has open
    ub         \* a handler has passed a NULL or closed DIR* to libc

vars == <<used, dirp, hostOpen, opened, pc, loc, held, ub>>

Idle(c) == pc[c] = "idle"

\* Mutant of GETDIR: the dirid is used as the index without dirid--.
GetDirNoDecrement(dirid) ==
    IF dirid \in Slots THEN dirid ELSE NoSlot

\* GETDIR: the slot a dirid names, whether or not it is in use.
GETDIR(dirid) ==
    IF dirid - 1 \in Slots THEN dirid - 1 ELSE NoSlot

\* The dirids a core's guest may pass to readdir and closedir.
GuestIds(c) == IF GuestMisuse THEN DirIds ELSE held[c] \cap DirIds

-----------------------------------------------------------------------------
\* Mutant of OpenScan: the p == ENDOF(dir_table) check is missing, so a
\* full table hands out the entry past the end.
OpenScanNoEndCheck(c) ==
    /\ Idle(c)
    /\ LET free == {i \in Slots : ~used[i]} IN
       /\ loc' = [loc EXCEPT ![c] = IF free = {} THEN NSlots
                                    ELSE CHOOSE i \in free : \A j \in free : i <= j]
       /\ pc' = [pc EXCEPT ![c] = "claim"]
       /\ UNCHANGED <<used, dirp, hostOpen, opened, held, ub>>

\* get_free_dir, first half: the scan for the lowest entry with !is_used.
\* With none free, opendir returns E_NOID at once.
OpenScan(c) ==
    /\ Idle(c)
    /\ LET free == {i \in Slots : ~used[i]} IN
       IF free = {}
       THEN UNCHANGED vars
       ELSE /\ loc' = [loc EXCEPT ![c] = CHOOSE i \in free :
                                          \A j \in free : i <= j]
            /\ pc' = [pc EXCEPT ![c] = "claim"]
            /\ UNCHANGED <<used, dirp, hostOpen, opened, held, ub>>

\* get_free_dir, second half: p->is_used = 1.
OpenClaim(c) ==
    /\ pc[c] = "claim"
    /\ used' = [used EXCEPT ![loc[c]] = TRUE]
    /\ pc' = [pc EXCEPT ![c] = "open"]
    /\ UNCHANGED <<dirp, hostOpen, opened, loc, held, ub>>

\* Mutant of OpenHost: a failed opendir does not release the entry.
OpenHostNoRelease(c) ==
    /\ pc[c] = "open"
    /\ pc' = [pc EXCEPT ![c] = "idle"]
    /\ loc' = [loc EXCEPT ![c] = NoSlot]
    /\ \/ /\ opened < MaxOpens
          /\ opened' = opened + 1
          /\ dirp' = [dirp EXCEPT ![loc[c]] = opened + 1]
          /\ hostOpen' = hostOpen \cup {opened + 1}
          /\ held' = [held EXCEPT ![c] = @ \cup {loc[c] + 1}]
          /\ UNCHANGED <<used, ub>>
       \/ /\ dirp' = [dirp EXCEPT ![loc[c]] = NoDir]
          /\ \E r \in GuestRetInit :
                held' = [held EXCEPT ![c] = IF r = E_OK THEN @ \cup {E_PAR} ELSE @]
          /\ UNCHANGED <<used, hostOpen, opened, ub>>

\* Mutant of OpenHost: the dirid handed back is the index, without the
\* + 1 of GETDIRID.
OpenHostIndexId(c) ==
    /\ pc[c] = "open"
    /\ pc' = [pc EXCEPT ![c] = "idle"]
    /\ loc' = [loc EXCEPT ![c] = NoSlot]
    /\ \/ /\ opened < MaxOpens
          /\ opened' = opened + 1
          /\ dirp' = [dirp EXCEPT ![loc[c]] = opened + 1]
          /\ hostOpen' = hostOpen \cup {opened + 1}
          /\ held' = [held EXCEPT ![c] = @ \cup {loc[c]}]
          /\ UNCHANGED <<used, ub>>
       \/ /\ dirp' = [dirp EXCEPT ![loc[c]] = NoDir]
          /\ used' = [used EXCEPT ![loc[c]] = FALSE]
          /\ \E r \in GuestRetInit :
                held' = [held EXCEPT ![c] = IF r = E_OK THEN @ \cup {E_PAR} ELSE @]
          /\ UNCHANGED <<hostOpen, opened, ub>>

\* p->dir = opendir(path).  On success ret_value = 0 and dirid = index+1;
\* on failure dirid = E_PAR and the entry is released, but ret_value is
\* left as the guest set it, so a guest that finds 0 there takes E_PAR
\* for its dirid.
OpenHost(c) ==
    /\ pc[c] = "open"
    /\ pc' = [pc EXCEPT ![c] = "idle"]
    /\ loc' = [loc EXCEPT ![c] = NoSlot]
    /\ \/ /\ opened < MaxOpens
          /\ opened' = opened + 1
          /\ dirp' = [dirp EXCEPT ![loc[c]] = opened + 1]
          /\ hostOpen' = hostOpen \cup {opened + 1}
          /\ held' = [held EXCEPT ![c] = @ \cup {loc[c] + 1}]
          /\ UNCHANGED <<used, ub>>
       \/ /\ dirp' = [dirp EXCEPT ![loc[c]] = NoDir]
          /\ used' = [used EXCEPT ![loc[c]] = FALSE]
          /\ \E r \in GuestRetInit :
                held' = [held EXCEPT ![c] = IF r = E_OK THEN @ \cup {E_PAR} ELSE @]
          /\ UNCHANGED <<hostOpen, opened, ub>>

\* athrill_syscall_ev3_readdir: GETDIR, then readdir(de->dir) until an
\* entry other than "." and ".."; only the DIR* matters to the state.
Readdir(c, dirid) ==
    /\ Idle(c)
    /\ GETDIR(dirid) # NoSlot
    /\ ub' = (ub \/ dirp[GETDIR(dirid)] \notin hostOpen)
    /\ UNCHANGED <<used, dirp, hostOpen, opened, pc, loc, held>>

\* athrill_syscall_ev3_closedir: GETDIR, closedir(de->dir), and on
\* success release_dir and E_OK, which the guest takes as the end of the
\* dirid.  is_used is not looked at.
Closedir(c, dirid) ==
    /\ Idle(c)
    /\ GETDIR(dirid) # NoSlot
    /\ LET i == GETDIR(dirid) IN
       /\ ub' = (ub \/ dirp[i] \notin hostOpen)
       /\ hostOpen' = hostOpen \ {dirp[i]}
       /\ used' = [used EXCEPT ![i] = FALSE]
       /\ held' = [held EXCEPT ![c] = @ \ {dirid}]
    /\ UNCHANGED <<dirp, opened, pc, loc>>

Init ==
    /\ used = [i \in Slots |-> FALSE]
    /\ dirp = [i \in Slots |-> NoDir]
    /\ hostOpen = {}
    /\ opened = 0
    /\ pc = [c \in Cores |-> "idle"]
    /\ loc = [c \in Cores |-> NoSlot]
    /\ held = [c \in Cores |-> {}]
    /\ ub = FALSE

Next ==
    \E c \in Cores :
        \/ OpenScan(c) \/ OpenClaim(c) \/ OpenHost(c)
        \/ \E d \in GuestIds(c) : Readdir(c, d) \/ Closedir(c, d)

Spec == Init /\ [][Next]_vars

-----------------------------------------------------------------------------
TypeOK ==
    /\ used \in [Slots -> BOOLEAN]
    /\ dirp \in [Slots -> Handles \cup {NoDir}]
    /\ hostOpen \subseteq Handles
    /\ opened \in 0..MaxOpens
    /\ pc \in [Cores -> {"idle", "claim", "open"}]
    /\ loc \in [Cores -> Slots \cup {NoSlot}]
    /\ held \in [Cores -> SUBSET (0..NSlots \cup {E_PAR})]
    /\ ub \in BOOLEAN

\* Slots still inside some core's opendir.
Opening == {loc[c] : c \in {d \in Cores : pc[d] = "open"}}

\* dir_table and the host agree: an entry in use (and not still being
\* opened) holds an open DIR stream, and every open DIR stream is held by
\* exactly one entry in use, so none is leaked.
DirTableSound ==
    /\ \A i \in Slots : used[i] /\ i \notin Opening => dirp[i] \in hostOpen
    /\ \A h \in hostOpen : \E i \in Slots : used[i] /\ dirp[i] = h
    /\ \A i, j \in Slots : i # j /\ dirp[i] \in hostOpen => dirp[i] # dirp[j]

\* Every dirid a guest holds after a successful opendir names an entry in
\* use with an open DIR stream, and no two guests hold the same one.
HeldAreOpen ==
    /\ \A c \in Cores : \A d \in held[c] :
          d \in DirIds /\ used[d - 1] /\ dirp[d - 1] \in hostOpen
    /\ \A c, e \in Cores : c # e => held[c] \cap held[e] = {}

\* readdir and closedir never hand libc a DIR* that is NULL or already
\* closed.
NoStaleDirUse == ~ub

=============================================================================
