---------------------------- MODULE FileLocking ----------------------------
(***************************************************************************)
(* Local file-based locking (locking_type = 1) of one resource, a volume   *)
(* group name or VG_ORPHANS: lib/locking/file_locking.c, one step per      *)
(* system call.  Commands are processes.  A lock is a flock(2) on the open *)
(* file description of a lock file that is created on demand and unlinked  *)
(* by whoever releases it last; the ":aux" file queues the requests when   *)
(* global/prioritise_write_locks is set.                                   *)
(*                                                                         *)
(* flock, open, unlink, fork and exit are the kernel's and are modelled    *)
(* from the way the code uses them.                                        *)
(***************************************************************************)
EXTENDS Naturals, FiniteSets

CONSTANTS
    Procs,                 \* processes (LVM commands and their children)
    Readers, Writers,      \* those that ask for LCK_READ, for LCK_WRITE
    Inodes,                \* inode numbers, enough for every open file
    NoInode, NoFd,         \* null values
    PrioritiseWriteLocks,  \* global/prioritise_write_locks
    NonBlock,              \* values of the LCK_NONBLOCK flag in requests
    CanFork, CanCrash      \* may a holder fork a child, a process be killed

ASSUME ConstAssumption ==
    /\ Readers \subseteq Procs
    /\ Writers \subseteq Procs
    /\ NoInode \notin Inodes
    /\ NoFd \notin Procs
    /\ PrioritiseWriteLocks \in BOOLEAN
    /\ NonBlock \subseteq BOOLEAN
    /\ CanFork \in BOOLEAN
    /\ CanCrash \in BOOLEAN

Files == {"V", "aux"}      \* V_<vg> and V_<vg>:aux

VARIABLES
    path,    \* path[f]: the inode the lock file's name links to
    ofd,     \* ofd[p][f]: inode and flock state of the open file description
             \* made by the last open of f by p
    pc,      \* pc[p]: the next system call of p
    cur,     \* cur[p]: the file _do_flock or _undo_flock of p works on
    op,      \* op[p]: LOCK_SH or LOCK_EX, what p asked for
    nb,      \* nb[p]: p asked for LCK_NONBLOCK
    got,     \* got[p]: r of _do_flock(V) while p undoes its aux lock
    fd,      \* fd[p][f]: whose description of f p has a descriptor of
    reset    \* history: processes that hold a lock of which a forked child,
             \* undoing the descriptor it inherited, dropped the flock or
             \* unlinked the file

vars == <<path, ofd, pc, cur, op, nb, got, fd, reset>>

Modes == {"UN", "SH", "EX"}
PCs == {"idle", "open", "flock", "stat", "held",
        "undo_flock", "undo_stat", "undo_unlink", "undo_close"}

Closed == [ino |-> NoInode, mode |-> "UN"]

\* Every variable has the shape its declaration describes.
TypeOK ==
    /\ path \in [Files -> Inodes \cup {NoInode}]
    /\ ofd \in [Procs -> [Files -> [ino : Inodes \cup {NoInode}, mode : Modes]]]
    /\ pc \in [Procs -> PCs]
    /\ cur \in [Procs -> Files]
    /\ op \in [Procs -> {"SH", "EX"}]
    /\ nb \in [Procs -> BOOLEAN]
    /\ got \in [Procs -> BOOLEAN]
    /\ fd \in [Procs -> [Files -> Procs \cup {NoFd}]]
    /\ reset \in SUBSET Procs

Init ==
    /\ path = [f \in Files |-> NoInode]
    /\ ofd = [p \in Procs |-> [f \in Files |-> Closed]]
    /\ pc = [p \in Procs |-> "idle"]
    /\ cur = [p \in Procs |-> "V"]
    /\ op = [p \in Procs |-> "SH"]
    /\ nb = [p \in Procs |-> FALSE]
    /\ got = [p \in Procs |-> FALSE]
    /\ fd = [p \in Procs |-> [f \in Files |-> NoFd]]
    /\ reset = {}

---------------------------------------------------------------------------
(* The kernel.                                                             *)

\* The inode of a name that is gone is reused once nobody has it open.
Free(f, i) == path[f] # i /\ \A d \in Procs : ofd[d][f].ino # i

\* Which free inode a new file gets makes no difference.
InodeFor(f) == IF path[f] = NoInode THEN CHOOSE i \in Inodes : Free(f, i) ELSE path[f]

\* Does flock of d's description of f have to wait, or fail with LOCK_NB?
Conflicts(d, f, m) ==
    \E e \in Procs \ {d} : /\ ofd[e][f].ino = ofd[d][f].ino
                           /\ ofd[e][f].mode # "UN"
                           /\ "EX" \in {m, ofd[e][f].mode}

Flocked(d, f, m) == [ofd EXCEPT ![d][f].mode = m]

\* A lock is dropped when the last descriptor of its description is closed.
AfterClose(o, fds) ==
    [d \in Procs |-> [f \in Files |->
        IF \E p \in Procs : fds[p][f] = d THEN o[d][f] ELSE Closed]]

\* Mutant: the comparison is left out.
SameInodeUnchecked(p) == TRUE

\* stat(file) and fstat(fd) agree.
SameInode(p) == path[cur[p]] = ofd[fd[p][cur[p]]][cur[p]].ino

OpFor(p) == IF cur[p] = "aux" THEN "EX" ELSE op[p]
NbFor(p) == cur[p] = "V" /\ nb[p]

---------------------------------------------------------------------------
(* _lock_file and _do_write_priority_flock: what follows a _do_flock that  *)
(* succeeded or failed, and an _undo_flock that is over.                   *)

Holds(p) ==
    \/ pc[p] = "held"
    \/ /\ pc[p] \in {"undo_flock", "undo_stat", "undo_unlink", "undo_close"}
       /\ cur[p] = "aux"
       /\ got[p]

\* Mutant: a writer does not keep it either.
KeepsAuxNever(p) == FALSE

\* A writer keeps the aux lock until it has the lock, a reader does not.
KeepsAux(p) == op[p] = "EX"

Goto(p, l) == pc' = [pc EXCEPT ![p] = l]

LockSucceeded(p) ==
    \/ /\ cur[p] = "aux"
       /\ KeepsAux(p)
       /\ Goto(p, "open")
       /\ cur' = [cur EXCEPT ![p] = "V"]
       /\ UNCHANGED got
    \/ /\ cur[p] = "aux"
       /\ ~KeepsAux(p)
       /\ Goto(p, "undo_flock")
       /\ UNCHANGED <<cur, got>>
    \/ /\ cur[p] = "V"
       /\ PrioritiseWriteLocks
       /\ KeepsAux(p)
       /\ Goto(p, "undo_flock")
       /\ cur' = [cur EXCEPT ![p] = "aux"]
       /\ got' = [got EXCEPT ![p] = TRUE]
    \/ /\ cur[p] = "V"
       /\ ~(PrioritiseWriteLocks /\ KeepsAux(p))
       /\ Goto(p, "held")
       /\ UNCHANGED <<cur, got>>

LockFailed(p) ==
    IF cur[p] = "V" /\ PrioritiseWriteLocks /\ KeepsAux(p)
    THEN /\ Goto(p, "undo_flock")
         /\ cur' = [cur EXCEPT ![p] = "aux"]
         /\ got' = [got EXCEPT ![p] = FALSE]
    ELSE /\ Goto(p, "idle")
         /\ UNCHANGED <<cur, got>>

UndoFinished(p) ==
    IF cur[p] = "aux" /\ ~KeepsAux(p)
    THEN /\ Goto(p, "open")
         /\ cur' = [cur EXCEPT ![p] = "V"]
         /\ UNCHANGED got
    ELSE /\ Goto(p, IF cur[p] = "aux" /\ got[p] THEN "held" ELSE "idle")
         /\ cur' = [cur EXCEPT ![p] = "V"]
         /\ got' = [got EXCEPT ![p] = FALSE]

---------------------------------------------------------------------------
(* Requests.                                                               *)

\* LCK_READ or LCK_WRITE: the aux file first when writers have priority.
Request(p, m, n) ==
    /\ pc[p] = "idle"
    /\ p \in (IF m = "SH" THEN Readers ELSE Writers)
    /\ Goto(p, "open")
    /\ cur' = [cur EXCEPT ![p] = IF PrioritiseWriteLocks THEN "aux" ELSE "V"]
    /\ op' = [op EXCEPT ![p] = m]
    /\ nb' = [nb EXCEPT ![p] = n]
    /\ UNCHANGED <<path, ofd, got, fd, reset>>

Sharers(p) == {q \in Procs \ {p} : fd[q][cur[p]] = fd[p][cur[p]]}

\* Mutant: the release records its own operation as the one asked for.
ReleaseRecordsUn(p) ==
    /\ pc[p] = "held"
    /\ Sharers(p) = {}
    /\ Goto(p, "undo_flock")
    /\ ofd' = Flocked(fd[p]["V"], "V", "UN")
    /\ op' = [op EXCEPT ![p] = "UN"]
    /\ reset' = reset \ {p}
    /\ UNCHANGED <<path, cur, nb, got, fd>>

\* LCK_UNLOCK, _fin_file_locking: flock(LOCK_UN), then undo.  A command in
\* exec_cmd waits for its child first.
Release(p) ==
    /\ pc[p] = "held"
    /\ Sharers(p) = {}
    /\ Goto(p, "undo_flock")
    /\ ofd' = Flocked(fd[p]["V"], "V", "UN")
    /\ reset' = reset \ {p}
    /\ UNCHANGED <<path, cur, op, nb, got, fd>>

\* close of a stale descriptor, then open(O_CREAT).  The description of an
\* earlier open is not replaced while a child still has it.
Open(p) ==
    LET f == cur[p]
        i == InodeFor(f) IN
    /\ pc[p] = "open"
    /\ \A q \in Procs \ {p} : fd[q][f] # p
    /\ i \in Inodes /\ (path[f] = i \/ Free(f, i))
    /\ path' = [path EXCEPT ![f] = i]
    /\ fd' = [fd EXCEPT ![p][f] = p]
    /\ ofd' = AfterClose([ofd EXCEPT ![p][f] = [ino |-> i, mode |-> "UN"]], fd')
    /\ Goto(p, "flock")
    /\ UNCHANGED <<cur, op, nb, got, reset>>

\* open fails, after the close of a stale descriptor.
OpenFails(p) ==
    /\ pc[p] = "open"
    /\ fd' = [fd EXCEPT ![p][cur[p]] = NoFd]
    /\ ofd' = AfterClose(ofd, fd')
    /\ LockFailed(p)
    /\ UNCHANGED <<path, op, nb, reset>>

FlockGranted(p) ==
    LET d == fd[p][cur[p]] IN
    /\ pc[p] = "flock"
    /\ ~Conflicts(d, cur[p], OpFor(p))
    /\ ofd' = Flocked(d, cur[p], OpFor(p))
    /\ Goto(p, "stat")
    /\ UNCHANGED <<path, cur, op, nb, got, fd, reset>>

\* EWOULDBLOCK of a non-blocking request; EINTR of a blocked one (ctrl-C).
FlockRefused(p) ==
    LET d == fd[p][cur[p]] IN
    /\ pc[p] = "flock"
    /\ Conflicts(d, cur[p], OpFor(p))
    /\ fd' = [fd EXCEPT ![p][cur[p]] = NoFd]
    /\ ofd' = AfterClose(ofd, fd')
    /\ LockFailed(p)
    /\ UNCHANGED <<path, op, nb, reset>>

\* Is the file that was locked still the one that has the name?  If not, a
\* blocking request starts again; another fails, and leaves the descriptor of
\* the nameless file open, which no later request can meet.
Stat(p) ==
    /\ pc[p] = "stat"
    /\ \/ /\ SameInode(p)
          /\ LockSucceeded(p)
          /\ UNCHANGED <<fd, ofd>>
       \/ /\ ~SameInode(p)
          /\ ~NbFor(p)
          /\ Goto(p, "open")
          /\ UNCHANGED <<cur, got, fd, ofd>>
       \/ /\ ~SameInode(p)
          /\ NbFor(p)
          /\ LockFailed(p)
          /\ fd' = [fd EXCEPT ![p][cur[p]] = NoFd]
          /\ ofd' = AfterClose(ofd, fd')
    /\ UNCHANGED <<path, op, nb, reset>>

---------------------------------------------------------------------------
(* _undo_flock.                                                            *)

\* Mutant: the result of the flock is ignored.
InUseIgnored(p) == FALSE

\* Somebody else has a lock on the file: it is not the last user's to unlink.
InUse(p) == Conflicts(fd[p][cur[p]], cur[p], "EX")

\* flock(LOCK_NB | LOCK_EX).  A conversion drops the lock held before.
UndoFlock(p) ==
    LET d == fd[p][cur[p]] IN
    /\ pc[p] = "undo_flock"
    /\ IF InUse(p)
       THEN /\ ofd' = Flocked(d, cur[p], "UN")
            /\ Goto(p, "undo_close")
            /\ reset' = reset \cup Sharers(p)
       ELSE /\ ofd' = Flocked(d, cur[p], "EX")
            /\ Goto(p, "undo_stat")
            /\ UNCHANGED reset
    /\ UNCHANGED <<path, cur, op, nb, got, fd>>

UndoStat(p) ==
    /\ pc[p] = "undo_stat"
    /\ Goto(p, IF SameInode(p) THEN "undo_unlink" ELSE "undo_close")
    /\ UNCHANGED <<path, ofd, cur, op, nb, got, fd, reset>>

\* Mutant: the file is not unlinked.
UndoLeavesFile(p) ==
    /\ pc[p] = "undo_unlink"
    /\ Goto(p, "undo_close")
    /\ UNCHANGED <<path, ofd, cur, op, nb, got, fd, reset>>

UndoUnlink(p) ==
    /\ pc[p] = "undo_unlink"
    /\ path' = [path EXCEPT ![cur[p]] = NoInode]
    /\ Goto(p, "undo_close")
    /\ reset' = reset \cup Sharers(p)
    /\ UNCHANGED <<ofd, cur, op, nb, got, fd>>

UndoClose(p) ==
    /\ pc[p] = "undo_close"
    /\ fd' = [fd EXCEPT ![p][cur[p]] = NoFd]
    /\ ofd' = AfterClose(ofd, fd')
    /\ UndoFinished(p)
    /\ UNCHANGED <<path, op, nb, reset>>

---------------------------------------------------------------------------
(* Processes.                                                              *)

\* exec_cmd: the child shares the descriptors of the holder and calls
\* reset_locking, which undoes without unlocking, before it executes another
\* program.
Fork(p, c) ==
    /\ CanFork
    /\ p # c
    /\ pc[p] = "held"
    /\ Sharers(p) = {}
    /\ pc[c] = "idle"
    /\ fd' = [fd EXCEPT ![c] = fd[p]]
    /\ op' = [op EXCEPT ![c] = op[p]]
    /\ nb' = [nb EXCEPT ![c] = nb[p]]
    /\ cur' = [cur EXCEPT ![c] = "V"]
    /\ Goto(c, "undo_flock")
    /\ UNCHANGED <<path, ofd, got, reset>>

\* The process is killed; the kernel closes its descriptors.
Exit(p) ==
    /\ CanCrash
    /\ pc[p] # "idle"
    /\ Goto(p, "idle")
    /\ fd' = [fd EXCEPT ![p] = [f \in Files |-> NoFd]]
    /\ ofd' = AfterClose(ofd, fd')
    /\ cur' = [cur EXCEPT ![p] = "V"]
    /\ got' = [got EXCEPT ![p] = FALSE]
    /\ reset' = reset \ {p}
    /\ UNCHANGED <<path, op, nb>>

Step(p) ==
    \/ Open(p) \/ FlockGranted(p) \/ Stat(p)
    \/ UndoFlock(p) \/ UndoStat(p) \/ UndoUnlink(p) \/ UndoClose(p)
    \/ Release(p)

Next ==
    \E p \in Procs :
        \/ \E m \in {"SH", "EX"}, n \in NonBlock : Request(p, m, n)
        \/ Step(p)
        \/ OpenFails(p) \/ FlockRefused(p)
        \/ \E c \in Procs : Fork(p, c)
        \/ Exit(p)

Spec == Init /\ [][Next]_vars

\* A process that is not blocked in flock keeps running, and a command that
\* has its lock finishes and releases it.
FairSpec == Spec /\ \A p \in Procs : WF_vars(Step(p))

---------------------------------------------------------------------------
(* Properties.                                                             *)

\* A write lock excludes every other lock: two processes whose _lock_file
\* returned 1 and that have not released share the resource only as readers,
\* as long as no child forked by either dropped the lock they share.
MutualExclusion ==
    \A p, q \in Procs :
        p # q /\ Holds(p) /\ Holds(q) /\ p \notin reset /\ q \notin reset
        => op[p] = "SH" /\ op[q] = "SH"

\* example.conf.in: with locking on, commands run concurrently are kept
\* apart, forked children or not.
ExclusionAcrossFork ==
    \A p, q \in Procs : p # q /\ Holds(p) /\ Holds(q) => op[p] = "SH" /\ op[q] = "SH"

\* The stat/fstat comparison of _do_flock against the unlink of _undo_flock:
\* the file whose lock a process holds keeps its name until it is released.
HeldFileLinked ==
    \A p \in Procs : Holds(p) /\ p \notin reset => path["V"] = ofd[fd[p]["V"]]["V"].ino

\* Releasing, failing and waiting commands leave no lock file behind: a name
\* that is linked is of a file that some process has open and will undo.
NoLitter ==
    \A f \in Files : path[f] # NoInode =>
        \E p \in Procs : fd[p][f] # NoFd /\ ofd[fd[p][f]][f].ino = path[f]

\* prioritise_write_locks: a writer that has the aux lock and waits for the
\* readers to go away is not stalled by new ones.
WritersNotStalled ==
    \A p \in Procs :
        pc[p] \in {"open", "flock"} /\ cur[p] = "V" /\ op[p] = "EX"
        ~> Holds(p) \/ pc[p] \in {"undo_flock", "idle"}
=============================================================================
