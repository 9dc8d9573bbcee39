------------------------- MODULE FileLockingProofs --------------------------
(***************************************************************************)
(* The inductive invariant of FileLocking and what follows from it, for any *)
(* set of processes, with or without priority for writers, children and    *)
(* kills.                                                                  *)
(***************************************************************************)
EXTENDS FileLocking, TLAPS

Undoing(p) == pc[p] \in {"undo_flock", "undo_stat", "undo_unlink", "undo_close"}

\* Which descriptors a process has open, as its program counter tells.
DescriptorsOf(p) ==
    /\ pc[p] = "idle" => fd[p]["V"] = NoFd /\ fd[p]["aux"] = NoFd
    /\ pc[p] \in {"flock", "stat"} \/ Undoing(p) => fd[p][cur[p]] # NoFd
    /\ cur[p] = "aux" => PrioritiseWriteLocks
    /\ pc[p] = "held" => cur[p] = "V"
    /\ Holds(p) => fd[p]["V"] # NoFd
    /\ got[p] => Undoing(p) /\ cur[p] = "aux" /\ op[p] = "EX"
    /\ Undoing(p) /\ cur[p] = "aux" /\ ~got[p] => fd[p]["V"] = NoFd
    /\ pc[p] = "held" \/ (Undoing(p) /\ cur[p] = "V") => fd[p]["aux"] = NoFd
    /\ pc[p] \in {"open", "flock", "stat"} /\ cur[p] = "aux" => fd[p]["V"] = NoFd
    /\ pc[p] \in {"open", "flock", "stat"} /\ cur[p] = "V" =>
         (fd[p]["aux"] # NoFd <=> PrioritiseWriteLocks /\ op[p] = "EX")
Descriptors == \A p \in Procs : DescriptorsOf(p)

\* A description that a process has a descriptor of has an inode.
LiveOf(p) == \A f \in Files : fd[p][f] # NoFd => ofd[fd[p][f]][f].ino # NoInode
Live == \A p \in Procs : LiveOf(p)

\* What flock guarantees.
LockCompat ==
    \A d, e \in Procs, f \in Files :
        d # e /\ ofd[d][f].ino = ofd[e][f].ino /\ ofd[d][f].mode = "EX"
        => ofd[e][f].mode = "UN"

\* Only the child of a holder shares a description, and only to undo it.
Sharing ==
    \A p, q \in Procs, f \in Files :
        p # q /\ fd[p][f] = fd[q][f] /\ fd[p][f] # NoFd =>
            /\ f = "V"
            /\ \/ pc[p] = "held" /\ Undoing(q) /\ cur[q] = "V"
               \/ pc[q] = "held" /\ Undoing(p) /\ cur[p] = "V"

\* What the lock that a process has obtained is worth.
LockedFilesOf(p) ==
    /\ Holds(p) /\ p \notin reset =>
         /\ path["V"] = ofd[fd[p]["V"]]["V"].ino
         /\ ofd[fd[p]["V"]]["V"].mode \in {op[p], "EX"}
    /\ pc[p] = "stat" => ofd[fd[p][cur[p]]][cur[p]].mode = OpFor(p)
    /\ pc[p] \in {"undo_stat", "undo_unlink"} => ofd[fd[p][cur[p]]][cur[p]].mode = "EX"
    /\ pc[p] = "undo_unlink" => path[cur[p]] = ofd[fd[p][cur[p]]][cur[p]].ino
LockedFiles == \A p \in Procs : LockedFilesOf(p)

\* The inductive invariant.
LockInv == TypeOK /\ Descriptors /\ Live /\ LockCompat /\ Sharing /\ LockedFiles
---------------------------------------------------------------------------
(* The kernel's operators.                                                 *)

OfdType == [Procs -> [Files -> [ino : Inodes \cup {NoInode}, mode : Modes]]]

\* flock changes the mode of one description and nothing else.
LEMMA FlockedFacts ==
    ASSUME ofd \in OfdType, NEW d \in Procs, NEW f \in Files, NEW m \in Modes
    PROVE  /\ Flocked(d, f, m) \in OfdType
           /\ \A e \in Procs, g \in Files :
                /\ Flocked(d, f, m)[e][g].ino = ofd[e][g].ino
                /\ Flocked(d, f, m)[e][g].mode = IF e = d /\ g = f THEN m ELSE ofd[e][g].mode
BY DEF OfdType, Flocked

\* close leaves what is still referred to and frees the rest.
LEMMA AfterCloseFacts ==
    ASSUME NEW o \in OfdType, NEW fds
    PROVE  /\ AfterClose(o, fds) \in OfdType
           /\ \A e \in Procs, g \in Files :
                AfterClose(o, fds)[e][g] =
                    IF \E p \in Procs : fds[p][g] = e THEN o[e][g] ELSE Closed
BY DEF OfdType, AfterClose, Closed, Modes

---------------------------------------------------------------------------
(* Types.                                                                  *)

\* The null values are no process and no inode.
LEMMA Nulls == NoFd \notin Procs /\ NoInode \notin Inodes
BY ConstAssumption

\* The values that the continuations of _do_flock assign have their types.
LEMMA ContinuationType ==
    ASSUME TypeOK, NEW p \in Procs,
           LockSucceeded(p) \/ LockFailed(p) \/ UndoFinished(p)
    PROVE  pc' \in [Procs -> PCs] /\ cur' \in [Procs -> Files] /\ got' \in [Procs -> BOOLEAN]
BY ZenonT(30) DEF TypeOK, LockSucceeded, LockFailed, UndoFinished, Goto, PCs, Files

\* The initial state and every step have the types of TypeOK.
LEMMA TypeInit == Init => TypeOK
BY DEF Init, TypeOK, PCs, Files, Modes, Closed

LEMMA TypeStep == TypeOK /\ [Next]_vars => TypeOK'
<1> SUFFICES ASSUME TypeOK, [Next]_vars PROVE TypeOK'
  OBVIOUS
<1> USE DEF TypeOK, OfdType
<1>1. ASSUME NEW p \in Procs, NEW m \in {"SH", "EX"}, NEW n \in NonBlock, Request(p, m, n)
      PROVE  TypeOK'
  BY <1>1, ConstAssumption, Zenon DEF Request, Goto, PCs, Files
<1>2. ASSUME NEW p \in Procs, Release(p)
      PROVE  TypeOK'
  <2>1. fd[p]["V"] \in Procs => TypeOK'
    BY <1>2, SMTT(30), FlockedFacts, "UN" \in Modes, "V" \in Files DEF Release, Goto, PCs, Files, Modes
  <2>2. fd[p]["V"] \notin Procs => Flocked(fd[p]["V"], "V", "UN") = ofd
    BY Zenon DEF Flocked
  <2> QED
    BY <1>2, <2>1, <2>2, Zenon DEF Release, Goto, PCs, Files, Modes
<1>3. ASSUME NEW p \in Procs, Open(p)
      PROVE  TypeOK'
  <2> DEFINE i == InodeFor(cur[p])
             o == [ofd EXCEPT ![p][cur[p]] = [ino |-> i, mode |-> "UN"]]
  <2>1. o \in OfdType
    BY <1>3, Zenon DEF Open, Modes
  <2>2. ofd' = AfterClose(o, fd')
    BY <1>3, Zenon DEF Open
  <2>3. ofd' \in OfdType
    BY <2>1, <2>2, AfterCloseFacts, Zenon
  <2> QED
    BY <1>3, <2>3, Zenon DEF Open, Goto, PCs
<1>4. ASSUME NEW p \in Procs, FlockGranted(p)
      PROVE  TypeOK'
  <2> DEFINE d == fd[p][cur[p]]
  <2>0. OpFor(p) \in Modes
    BY Zenon DEF OpFor, Modes
  <2>1. d \in Procs => ofd' \in OfdType
    BY <1>4, <2>0, FlockedFacts, Zenon DEF FlockGranted
  <2>2. d \notin Procs => Flocked(d, cur[p], OpFor(p)) = ofd
    BY Zenon DEF Flocked
  <2> QED
    BY <1>4, <2>1, <2>2, Zenon DEF FlockGranted, Goto, PCs
<1>5. ASSUME NEW p \in Procs, OpenFails(p) \/ FlockRefused(p)
      PROVE  TypeOK'
  <2>1. ofd' = AfterClose(ofd, fd')
    BY <1>5, Zenon DEF OpenFails, FlockRefused
  <2>2. ofd' \in OfdType
    BY <2>1, AfterCloseFacts, Zenon
  <2>3. /\ fd' = [fd EXCEPT ![p][cur[p]] = NoFd]
        /\ LockFailed(p)
        /\ UNCHANGED <<path, op, nb, reset>>
    BY <1>5, Zenon DEF OpenFails, FlockRefused
  <2> QED
    BY <2>2, <2>3, ContinuationType, Zenon
<1>6. ASSUME NEW p \in Procs, Stat(p)
      PROVE  TypeOK'
  <2>1. ofd' = ofd \/ ofd' = AfterClose(ofd, fd')
    BY <1>6, Zenon DEF Stat
  <2>2. ofd' \in OfdType
    <3>1. AfterClose(ofd, fd') \in OfdType
      BY AfterCloseFacts, Zenon
    <3> QED
      BY <2>1, <3>1, Zenon
  <2>3. fd' = fd \/ fd' = [fd EXCEPT ![p][cur[p]] = NoFd]
    BY <1>6, Zenon DEF Stat
  <2>4. fd' \in [Procs -> [Files -> Procs \cup {NoFd}]]
    <3>1. [fd EXCEPT ![p][cur[p]] = NoFd] \in [Procs -> [Files -> Procs \cup {NoFd}]]
      OBVIOUS
    <3> QED
      BY <2>3, <3>1, Zenon
  <2>5. \/ LockSucceeded(p) \/ LockFailed(p)
        \/ Goto(p, "open") /\ UNCHANGED <<cur, got>>
    BY <1>6, Zenon DEF Stat
  <2>6. pc' \in [Procs -> PCs] /\ cur' \in [Procs -> Files] /\ got' \in [Procs -> BOOLEAN]
    BY <2>5, ContinuationType, Zenon DEF Goto, PCs
  <2>7. UNCHANGED <<path, op, nb, reset>>
    BY <1>6, Zenon DEF Stat
  <2> QED
    BY <2>2, <2>4, <2>6, <2>7, Zenon
<1>7. ASSUME NEW p \in Procs, UndoFlock(p)
      PROVE  TypeOK'
  <2> DEFINE d == fd[p][cur[p]]
  <2>1. ASSUME NEW m \in Modes PROVE Flocked(d, cur[p], m) \in OfdType
    <3>1. CASE d \in Procs
      BY <3>1, FlockedFacts, Zenon
    <3>2. CASE d \notin Procs
      BY <3>2, Zenon DEF Flocked
    <3> QED
      BY <3>1, <3>2, Zenon
  <2>2. ofd' \in OfdType
    BY <1>7, <2>1, Zenon DEF UndoFlock, Modes
  <2> QED
    BY <1>7, <2>2, Zenon DEF UndoFlock, Goto, PCs, Sharers
<1>8. ASSUME NEW p \in Procs, UndoStat(p)
      PROVE  TypeOK'
  BY <1>8, Zenon DEF UndoStat, Goto, PCs
<1>9. ASSUME NEW p \in Procs, UndoUnlink(p)
      PROVE  TypeOK'
  BY <1>9, Zenon DEF UndoUnlink, Goto, PCs, Sharers
<1>10. ASSUME NEW p \in Procs, UndoClose(p)
       PROVE  TypeOK'
  <2>1. ofd' = AfterClose(ofd, fd')
    BY <1>10, Zenon DEF UndoClose
  <2>2. ofd' \in OfdType
    BY <2>1, AfterCloseFacts, Zenon
  <2> QED
    BY <1>10, <2>2, ContinuationType, Zenon DEF UndoClose
<1>11. ASSUME NEW p \in Procs, NEW c \in Procs, Fork(p, c)
       PROVE  TypeOK'
  BY <1>11, Zenon DEF Fork, Goto, PCs, Files
<1>12. ASSUME NEW p \in Procs, Exit(p)
       PROVE  TypeOK'
  <2>1. ofd' = AfterClose(ofd, fd')
    BY <1>12, Zenon DEF Exit
  <2>2. ofd' \in OfdType
    BY <2>1, AfterCloseFacts, Zenon
  <2> QED
    BY <1>12, <2>2, Zenon DEF Exit, Goto, PCs, Files
<1>13. CASE UNCHANGED vars
  BY <1>13, Zenon DEF vars
<1> HIDE DEF TypeOK, OfdType
<1>14. ASSUME NEW p \in Procs, Step(p)
       PROVE  TypeOK'
  BY <1>14, <1>2, <1>3, <1>4, <1>5, <1>6, <1>7, <1>8, <1>9, <1>10, <1>11, <1>12, Zenon DEF Step
<1> QED
  BY <1>1, <1>5, <1>11, <1>12, <1>13, <1>14, Zenon DEF Next

\* Every behaviour of the file locking code keeps its variables in TypeOK.
THEOREM TypeCorrect == Spec => []TypeOK
BY TypeInit, TypeStep, PTL DEF Spec
---------------------------------------------------------------------------
(* The inductive invariant, action by action.                              *)

Kept == Descriptors' /\ Live' /\ LockCompat' /\ Sharing' /\ LockedFiles'

LEMMA InvInit == Init => LockInv
<1> SUFFICES ASSUME Init PROVE LockInv
  OBVIOUS
<1>1. TypeOK
  BY TypeInit, Zenon
<1>2. Descriptors /\ Live /\ Sharing /\ LockedFiles
  BY Zenon DEF Init, Descriptors, DescriptorsOf, Live, LiveOf, Sharing, LockedFiles, LockedFilesOf,
         Undoing, Holds, Files
<1>3. LockCompat
  BY Zenon DEF Init, LockCompat, Closed, Files
<1> QED
  BY <1>1, <1>2, <1>3, Zenon DEF LockInv

\* The parts of the invariant, and what a descriptor can be.
LEMMA Parts ==
    ASSUME LockInv
    PROVE  /\ LockCompat /\ Sharing /\ ofd \in OfdType
           /\ \A q \in Procs : DescriptorsOf(q) /\ LiveOf(q) /\ LockedFilesOf(q) /\ cur[q] \in Files
           /\ \A q \in Procs, g \in Files : fd[q][g] # NoFd => fd[q][g] \in Procs
<1>1. LockCompat /\ Sharing /\ TypeOK
  BY Zenon DEF LockInv
<1>2. \A q \in Procs : DescriptorsOf(q) /\ LiveOf(q) /\ LockedFilesOf(q)
  BY Zenon DEF LockInv, Descriptors, Live, LockedFiles
<1>3. ofd \in OfdType
  BY <1>1, Zenon DEF TypeOK, OfdType
<1>4. fd \in [Procs -> [Files -> Procs \cup {NoFd}]] /\ cur \in [Procs -> Files]
  BY <1>1, Zenon DEF TypeOK
<1> QED
  BY <1>1, <1>2, <1>3, <1>4, Zenon

\* A description that two processes have is a holder's and its child's.
LEMMA SharedBy ==
    ASSUME LockInv, NEW p \in Procs, NEW q \in Procs, q # p, NEW f \in Files,
           fd[q][f] = fd[p][f], fd[p][f] \in Procs
    PROVE  /\ f = "V"
           /\ \/ pc[p] = "held" /\ Undoing(q) /\ cur[q] = "V"
              \/ pc[q] = "held" /\ Undoing(p) /\ cur[p] = "V"
<1>1. fd[p][f] # NoFd /\ Sharing
  BY Nulls, Parts, Zenon
<1> QED
  BY <1>1 DEF Sharing

\* A flock changes one mode and no inode.
LEMMA FlockedStep ==
    ASSUME LockInv, NEW d \in Procs, NEW f \in Files, NEW m \in Modes, ofd' = Flocked(d, f, m)
    PROVE  \A e \in Procs, g \in Files :
             /\ ofd'[e][g].ino = ofd[e][g].ino
             /\ ofd'[e][g].mode = IF e = d /\ g = f THEN m ELSE ofd[e][g].mode
             /\ e # d \/ g # f => ofd'[e][g] = ofd[e][g]
<1>1. ofd \in OfdType
  BY Parts, Zenon
<1> QED
  BY <1>1 DEF OfdType, Flocked

LEMMA FlockedLive ==
    ASSUME LockInv, NEW q \in Procs, UNCHANGED fd,
           \A e \in Procs, g \in Files : ofd'[e][g].ino = ofd[e][g].ino
    PROVE  LiveOf(q)'
<1>1. LiveOf(q) /\ \A g \in Files : fd[q][g] # NoFd => fd[q][g] \in Procs
  BY Parts, Zenon
<1> QED
  BY <1>1, Zenon DEF LiveOf

\* A step of another process that leaves q's descriptions alone.
Framed(q) ==
    /\ pc'[q] = pc[q] /\ cur'[q] = cur[q] /\ op'[q] = op[q] /\ got'[q] = got[q]
    /\ fd'[q] = fd[q]
    /\ q \in reset => q \in reset'
    /\ \A g \in Files : fd[q][g] # NoFd => ofd'[fd[q][g]][g] = ofd[fd[q][g]][g]

\* A name that is linked stays linked to the same inode.
PathKept == \A g \in Files : path[g] # NoInode => path'[g] = path[g]

LEMMA Frame ==
    ASSUME LockInv, NEW q \in Procs, Framed(q), PathKept
    PROVE  DescriptorsOf(q)' /\ LiveOf(q)' /\ LockedFilesOf(q)'
<1> USE DEF Framed
<1>1. cur[q] \in Files /\ "V" \in Files
  BY Zenon DEF LockInv, TypeOK, Files
<1>2. DescriptorsOf(q)'
  BY DEF LockInv, Descriptors, DescriptorsOf, Undoing, Holds
<1>3. LiveOf(q)'
  BY Zenon DEF LockInv, Live, LiveOf
<1>4. DescriptorsOf(q) /\ LiveOf(q) /\ LockedFilesOf(q)
  BY Zenon DEF LockInv, Descriptors, Live, LockedFiles
<1>5. LockedFilesOf(q)'
  <2>1. Holds(q)' = Holds(q) /\ OpFor(q)' = OpFor(q)
    BY Zenon DEF Holds, OpFor
  <2>2. ASSUME Holds(q), q \notin reset'
        PROVE  /\ path'["V"] = ofd'[fd'[q]["V"]]["V"].ino
               /\ ofd'[fd'[q]["V"]]["V"].mode \in {op'[q], "EX"}
    BY <1>1, <1>4, <2>2, ZenonT(30) DEF LockedFilesOf, PathKept, DescriptorsOf, LiveOf
  <2>3. pc[q] \in {"stat", "undo_stat", "undo_unlink"} =>
          ofd'[fd'[q][cur[q]]][cur[q]] = ofd[fd[q][cur[q]]][cur[q]]
    BY <1>1, <1>4, Zenon DEF DescriptorsOf, Undoing
  <2>4. pc[q] = "undo_unlink" => path'[cur[q]] = path[cur[q]]
    BY <1>1, <1>4, Zenon DEF DescriptorsOf, LiveOf, LockedFilesOf, PathKept, Undoing
  <2>5. pc'[q] = "stat" => ofd'[fd'[q][cur'[q]]][cur'[q]].mode = OpFor(q)'
    BY <1>4, <2>1, <2>3, Zenon DEF LockedFilesOf
  <2>6. pc'[q] \in {"undo_stat", "undo_unlink"} => ofd'[fd'[q][cur'[q]]][cur'[q]].mode = "EX"
    BY <1>4, <2>3, Zenon DEF LockedFilesOf
  <2>7. pc'[q] = "undo_unlink" => path'[cur'[q]] = ofd'[fd'[q][cur'[q]]][cur'[q]].ino
    BY <1>4, <2>3, <2>4, Zenon DEF LockedFilesOf
  <2> HIDE DEF Framed
  <2> QED
    BY <2>1, <2>2, <2>5, <2>6, <2>7, Zenon DEF LockedFilesOf
<1> QED
  BY <1>2, <1>3, <1>5, Zenon

\* Nobody comes to share a description by a step of p that keeps or closes the
\* descriptors p has and by which neither a holder nor a child in undo stops
\* being one while its descriptor is open.
LEMMA SharingKept ==
    ASSUME LockInv, NEW p \in Procs,
           \A q \in Procs \ {p} : pc'[q] = pc[q] /\ cur'[q] = cur[q] /\ fd'[q] = fd[q],
           \A g \in Files : fd'[p][g] \in {fd[p][g], NoFd},
           pc[p] = "held" => pc'[p] = "held",
           Undoing(p) /\ cur[p] = "V" => Undoing(p)' /\ cur'[p] = "V"
    PROVE  Sharing'
<1> SUFFICES ASSUME NEW a \in Procs, NEW b \in Procs, NEW g \in Files,
                    a # b, fd'[a][g] = fd'[b][g], fd'[a][g] # NoFd
             PROVE  /\ g = "V"
                    /\ \/ pc'[a] = "held" /\ Undoing(b)' /\ cur'[b] = "V"
                       \/ pc'[b] = "held" /\ Undoing(a)' /\ cur'[a] = "V"
  BY DEF Sharing
<1>1. fd[a][g] = fd'[a][g] /\ fd[b][g] = fd'[b][g]
  OBVIOUS
<1>2. /\ g = "V"
      /\ \/ pc[a] = "held" /\ Undoing(b) /\ cur[b] = "V"
         \/ pc[b] = "held" /\ Undoing(a) /\ cur[a] = "V"
  BY <1>1 DEF LockInv, Sharing
<1>3. \A q \in Procs : /\ pc[q] = "held" => pc'[q] = "held"
                       /\ Undoing(q) /\ cur[q] = "V" => Undoing(q)' /\ cur'[q] = "V"
  BY Zenon DEF Undoing
<1> QED
  BY <1>2, <1>3, Zenon

\* Nor by a step after which p has descriptors that it alone has.
LEMMA SharingAlone ==
    ASSUME LockInv, NEW p \in Procs,
           \A q \in Procs \ {p} : pc'[q] = pc[q] /\ cur'[q] = cur[q] /\ fd'[q] = fd[q],
           \A q \in Procs \ {p}, g \in Files : fd'[p][g] # NoFd => fd[q][g] # fd'[p][g]
    PROVE  Sharing'
<1> SUFFICES ASSUME NEW a \in Procs, NEW b \in Procs, NEW g \in Files,
                    a # b, fd'[a][g] = fd'[b][g], fd'[a][g] # NoFd
             PROVE  /\ g = "V"
                    /\ \/ pc'[a] = "held" /\ Undoing(b)' /\ cur'[b] = "V"
                       \/ pc'[b] = "held" /\ Undoing(a)' /\ cur'[a] = "V"
  BY DEF Sharing
<1>1. a # p /\ b # p
  OBVIOUS
<1>2. fd[a][g] = fd[b][g] /\ fd[a][g] # NoFd
  BY <1>1, Zenon
<1>3. fd[b][g] \in Procs
  BY <1>2, Parts, Zenon
<1>4. /\ g = "V"
      /\ \/ pc[a] = "held" /\ Undoing(b) /\ cur[b] = "V"
         \/ pc[b] = "held" /\ Undoing(a) /\ cur[a] = "V"
  BY <1>2, <1>3, SharedBy
<1> QED
  BY <1>1, <1>4, Zenon DEF Undoing

\* What the actions leave to prove: the acting process, and pairs.
LEMMA FrameAll ==
    ASSUME LockInv, PathKept, NEW p \in Procs, \A q \in Procs \ {p} : Framed(q),
           DescriptorsOf(p)', LiveOf(p)', LockedFilesOf(p)', LockCompat', Sharing'
    PROVE  Kept
<1>1. ASSUME NEW q \in Procs
      PROVE  DescriptorsOf(q)' /\ LiveOf(q)' /\ LockedFilesOf(q)'
  BY Frame, Zenon
<1> QED
  BY <1>1, Zenon DEF Kept, Descriptors, Live, LockedFiles
\* Closing descriptors disturbs no description that is still referred to.
LEMMA CloseFacts ==
    ASSUME LockInv, \A q \in Procs, g \in Files : fd'[q][g] \in {fd[q][g], NoFd},
           ofd' = AfterClose(ofd, fd')
    PROVE  /\ \A q \in Procs, g \in Files :
                fd'[q][g] # NoFd => ofd'[fd'[q][g]][g] = ofd[fd[q][g]][g]
           /\ LockCompat'
<1>1. \A e \in Procs, g \in Files :
        ofd'[e][g] = IF \E q \in Procs : fd'[q][g] = e THEN ofd[e][g] ELSE Closed
  BY Zenon DEF AfterClose
<1>2. ASSUME NEW q \in Procs, NEW g \in Files, fd'[q][g] # NoFd
      PROVE  ofd'[fd'[q][g]][g] = ofd[fd[q][g]][g]
  <2>1. fd'[q][g] = fd[q][g] /\ fd[q][g] \in Procs
    BY <1>2 DEF LockInv, TypeOK
  <2> QED
    BY <1>1, <2>1, Zenon
<1>3. \A e \in Procs, g \in Files : ofd'[e][g].mode # "UN" => ofd'[e][g] = ofd[e][g]
  BY <1>1 DEF Closed
<1>4. LockCompat'
  BY <1>1, <1>3 DEF LockInv, LockCompat, Closed
<1> QED
  BY <1>2, <1>4, Zenon

----------------------------------------------------------------------------
(* The steps that request, acquire and release a lock                      *)

LEMMA RequestInv ==
    ASSUME LockInv, NEW p \in Procs, NEW m \in {"SH", "EX"}, NEW n \in NonBlock,
           Request(p, m, n)
    PROVE  Kept
<1>1. /\ pc[p] = "idle" /\ pc'[p] = "open" /\ got'[p] = got[p]
      /\ cur'[p] = IF PrioritiseWriteLocks THEN "aux" ELSE "V"
      /\ UNCHANGED <<path, ofd, fd, reset>>
  BY Zenon DEF LockInv, TypeOK, Request, Goto
<1>2. \A q \in Procs \ {p} : Framed(q)
  BY <1>1, Zenon DEF LockInv, TypeOK, Request, Goto, Framed
<1>3. PathKept
  BY <1>1, Zenon DEF PathKept
<1>4. DescriptorsOf(p)' /\ LiveOf(p)'
  BY <1>1, Zenon DEF LockInv, Descriptors, DescriptorsOf, Live, LiveOf, Undoing, Holds
<1>5. LockedFilesOf(p)'
  BY <1>1, Zenon DEF LockInv, Descriptors, DescriptorsOf, LockedFilesOf, Undoing, Holds
<1>6. LockCompat'
  BY <1>1 DEF LockInv, LockCompat
<1>7. Sharing'
  <2>1. \A q \in Procs \ {p} : pc'[q] = pc[q] /\ cur'[q] = cur[q] /\ fd'[q] = fd[q]
    BY <1>2, Zenon DEF Framed
  <2> QED
    BY <1>1, <2>1, SharingKept, Zenon DEF Undoing
<1> QED
  BY <1>2, <1>3, <1>4, <1>5, <1>6, <1>7, FrameAll, Zenon

LEMMA ReleaseInv ==
    ASSUME LockInv, NEW p \in Procs, Release(p)
    PROVE  Kept
<1> DEFINE d == fd[p]["V"]
<1>1. d \in Procs /\ cur[p] = "V" /\ DescriptorsOf(p)
  BY DEF LockInv, TypeOK, Release, Descriptors, DescriptorsOf, Holds, Files
<1>2. /\ pc[p] = "held" /\ pc'[p] = "undo_flock" /\ UNCHANGED <<path, fd>>
      /\ cur'[p] = cur[p] /\ got'[p] = got[p]
      /\ ofd' = Flocked(d, "V", "UN")
      /\ \A q \in Procs : q # p => fd[q]["V"] # d
  BY <1>1, Zenon DEF LockInv, TypeOK, Release, Goto, Sharers
<1>3. \A e \in Procs, g \in Files :
        /\ ofd'[e][g].ino = ofd[e][g].ino
        /\ ofd'[e][g].mode = IF e = d /\ g = "V" THEN "UN" ELSE ofd[e][g].mode
        /\ e # d \/ g # "V" => ofd'[e][g] = ofd[e][g]
  <2>1. "V" \in Files /\ "UN" \in Modes
    BY Zenon DEF Files, Modes
  <2> HIDE DEF d
  <2> QED
    BY <1>1, <1>2, <2>1, FlockedStep
<1>4. ASSUME NEW q \in Procs \ {p} PROVE Framed(q)
  <2>1. \A g \in Files : fd[q][g] # NoFd => ofd'[fd[q][g]][g] = ofd[fd[q][g]][g]
    BY <1>2, <1>3 DEF LockInv, TypeOK
  <2> QED
    BY <2>1, Zenon DEF LockInv, TypeOK, Release, Goto, Framed
<1>5. PathKept
  BY <1>2, Zenon DEF PathKept
<1>6. DescriptorsOf(p)'
  BY <1>1, <1>2, Zenon DEF DescriptorsOf, Undoing, Holds
<1>7. LiveOf(p)'
  BY <1>2, <1>3, FlockedLive, Zenon
<1>8. LockedFilesOf(p)'
  BY <1>1, <1>2, Zenon DEF LockedFilesOf, Holds
<1>9. LockCompat'
  BY <1>3 DEF LockInv, LockCompat
<1>10. Sharing'
  <2>1. \A q \in Procs \ {p} : pc'[q] = pc[q] /\ cur'[q] = cur[q] /\ fd'[q] = fd[q]
    BY <1>4, Zenon DEF Framed
  <2>2. fd[p]["aux"] = NoFd
    BY <1>1, <1>2, Zenon DEF DescriptorsOf
  <2>3. \A q \in Procs \ {p}, g \in Files : fd'[p][g] # NoFd => fd[q][g] # fd'[p][g]
    BY <1>2, <2>2, Zenon DEF Files
  <2> HIDE DEF d
  <2> QED
    BY <2>1, <2>3, SharingAlone, Zenon
<1> QED
  BY <1>4, <1>5, <1>6, <1>7, <1>8, <1>9, <1>10, FrameAll, Zenon

LEMMA OpenInv ==
    ASSUME LockInv, NEW p \in Procs, Open(p)
    PROVE  Kept
<1> DEFINE f == cur[p]
           i == InodeFor(f)
           o == [ofd EXCEPT ![p][f] = [ino |-> i, mode |-> "UN"]]
<1>1. f \in Files /\ i \in Inodes /\ o \in OfdType /\ i # NoInode
  BY Nulls, Zenon DEF LockInv, TypeOK, Open, OfdType, Modes
<1>2. \A e \in Procs, g \in Files :
        o[e][g] = IF e = p /\ g = f THEN [ino |-> i, mode |-> "UN"] ELSE ofd[e][g]
  BY <1>1, Zenon DEF LockInv, TypeOK
<1>3. /\ pc[p] = "open" /\ pc'[p] = "flock"
      /\ path' = [path EXCEPT ![f] = i]
      /\ fd' = [fd EXCEPT ![p][f] = p]
      /\ ofd' = AfterClose(o, fd')
      /\ \A q \in Procs : q # p => fd[q][f] # p
      /\ UNCHANGED <<cur, op, got, reset>>
  BY Zenon DEF LockInv, TypeOK, Open, Goto
<1>4. \A e \in Procs, g \in Files :
        ofd'[e][g] = IF \E q \in Procs : fd'[q][g] = e THEN o[e][g] ELSE Closed
  BY <1>3, Zenon DEF AfterClose
<1>5. \A q \in Procs, g \in Files : fd'[q][g] = IF q = p /\ g = f THEN p ELSE fd[q][g]
  BY <1>1, <1>3, Zenon DEF LockInv, TypeOK
<1>6. ofd'[p][f] = [ino |-> i, mode |-> "UN"]
  BY <1>1, <1>2, <1>4, <1>5
<1>7. ASSUME NEW q \in Procs, NEW g \in Files, q # p \/ g # f, fd[q][g] # NoFd
      PROVE  ofd'[fd[q][g]][g] = ofd[fd[q][g]][g]
  <2>1. fd[q][g] \in Procs /\ fd'[q][g] = fd[q][g]
    BY <1>5, <1>7 DEF LockInv, TypeOK
  <2>2. ofd'[fd[q][g]][g] = o[fd[q][g]][g]
    BY <1>4, <2>1, Zenon
  <2>3. g = f => q # p
    BY <1>7, Zenon
  <2>4. ~(fd[q][g] = p /\ g = f)
    BY <1>3, <2>3, Zenon
  <2> QED
    BY <1>2, <2>1, <2>2, <2>4
<1>8. ASSUME NEW q \in Procs \ {p} PROVE Framed(q)
  <2>1. pc'[q] = pc[q] /\ fd'[q] = fd[q]
    BY <1>3 DEF LockInv, TypeOK, Open, Goto
  <2> QED
    BY <1>3, <1>7, <2>1, Zenon DEF Framed
<1>9. PathKept
  <2>1. path[f] # NoInode => i = path[f]
    BY Zenon DEF InodeFor
  <2> QED
    BY <1>1, <1>3, <2>1, Zenon DEF PathKept, LockInv, TypeOK
<1>10. DescriptorsOf(p)'
  BY <1>1, <1>3, <1>5, Nulls DEF LockInv, Descriptors, DescriptorsOf, Undoing, Holds, Files
<1>11. LiveOf(p)'
  BY <1>1, <1>5, <1>6, <1>7 DEF LockInv, Live, LiveOf
<1>12. LockedFilesOf(p)'
  BY <1>3, Zenon DEF LockInv, Descriptors, DescriptorsOf, LockedFilesOf, Undoing, Holds
<1>13. LockCompat'
  <2>1. \A e \in Procs, g \in Files : ofd'[e][g].mode # "UN" => ofd'[e][g] = ofd[e][g]
    BY <1>2, <1>4, <1>6 DEF Closed
  <2> QED
    BY <2>1 DEF LockInv, LockCompat
<1>14. Sharing'
  <2> SUFFICES ASSUME NEW a \in Procs, NEW b \in Procs, NEW g \in Files, a # b,
                      fd'[a][g] = fd'[b][g], fd'[a][g] # NoFd
               PROVE  /\ g = "V"
                      /\ \/ pc'[a] = "held" /\ Undoing(b)' /\ cur'[b] = "V"
                         \/ pc'[b] = "held" /\ Undoing(a)' /\ cur'[a] = "V"
    BY DEF Sharing
  <2> HIDE DEF f, i, o
  <2>1. ~(a = p /\ g = f) /\ ~(b = p /\ g = f)
    BY <1>3, <1>5
  <2>2. fd[a][g] = fd[b][g] /\ fd[a][g] # NoFd
    BY <1>5, <2>1
  <2>3. fd[b][g] \in Procs
    BY <2>2, Parts, Zenon
  <2>4. /\ g = "V"
        /\ \/ pc[a] = "held" /\ Undoing(b) /\ cur[b] = "V"
           \/ pc[b] = "held" /\ Undoing(a) /\ cur[a] = "V"
    BY <2>2, <2>3, SharedBy, Zenon
  <2>5. \A q \in Procs : pc[q] = "held" \/ Undoing(q) => q # p
    BY <1>3, Zenon DEF Undoing
  <2>6. \A q \in Procs \ {p} : pc'[q] = pc[q] /\ cur'[q] = cur[q] /\ (Undoing(q)' <=> Undoing(q))
    BY <1>8, Zenon DEF Framed, Undoing
  <2> QED
    BY <2>4, <2>5, <2>6
<1> QED
  BY <1>8, <1>9, <1>10, <1>11, <1>12, <1>13, <1>14, FrameAll, Zenon

\* A flock that conflicts with no other keeps them compatible.
LEMMA GrantCompat ==
    ASSUME LockInv, NEW d \in Procs, NEW f \in Files, NEW m \in Modes, ~Conflicts(d, f, m),
           \A e \in Procs, g \in Files :
             /\ ofd'[e][g].ino = ofd[e][g].ino
             /\ ofd'[e][g].mode = IF e = d /\ g = f THEN m ELSE ofd[e][g].mode
    PROVE  LockCompat'
<1> SUFFICES ASSUME NEW a \in Procs, NEW b \in Procs, NEW g \in Files, a # b,
                    ofd'[a][g].ino = ofd'[b][g].ino, ofd'[a][g].mode = "EX"
             PROVE  ofd'[b][g].mode = "UN"
  BY DEF LockCompat
<1>1. CASE g = f /\ a = d
  BY <1>1 DEF Conflicts
<1>2. CASE g = f /\ b = d
  BY <1>2 DEF Conflicts
<1>3. CASE ~(g = f /\ d \in {a, b})
  BY <1>3 DEF LockInv, LockCompat
<1> QED
  BY <1>1, <1>2, <1>3, Zenon

\* flock of a description that p does not share.
LEMMA FlockGrantedInv ==
    ASSUME LockInv, NEW p \in Procs, FlockGranted(p)
    PROVE  Kept
<1> DEFINE f == cur[p]
           d == fd[p][f]
           m == OpFor(p)
<1>1. f \in Files /\ d \in Procs /\ m \in Modes /\ DescriptorsOf(p)
  BY DEF LockInv, TypeOK, FlockGranted, Descriptors, DescriptorsOf, OpFor, Modes
<1>2. /\ pc[p] = "flock" /\ pc'[p] = "stat" /\ ofd' = Flocked(d, f, m)
      /\ ~Conflicts(d, f, m)
      /\ UNCHANGED <<path, cur, op, got, fd, reset>>
      /\ \A q \in Procs \ {p} : pc'[q] = pc[q]
  BY Zenon DEF LockInv, TypeOK, FlockGranted, Goto
<1>3. \A e \in Procs, g \in Files :
        /\ ofd'[e][g].ino = ofd[e][g].ino
        /\ ofd'[e][g].mode = IF e = d /\ g = f THEN m ELSE ofd[e][g].mode
        /\ e # d \/ g # f => ofd'[e][g] = ofd[e][g]
  <2> HIDE DEF f, d, m
  <2> QED
    BY <1>1, <1>2, FlockedStep
<1>4. \A q \in Procs \ {p} : fd[q][f] # d
  <2>1. ~Undoing(p) /\ pc[p] # "held" /\ d # NoFd
    BY <1>1, <1>2, Nulls, Zenon DEF Undoing
  <2> QED
    BY <1>1, <2>1, SharedBy, Zenon
<1>5. ASSUME NEW q \in Procs \ {p} PROVE Framed(q)
  <2>1. \A g \in Files : fd[q][g] # NoFd => ofd'[fd[q][g]][g] = ofd[fd[q][g]][g]
    <3>1. \A g \in Files : fd[q][g] # NoFd => fd[q][g] \in Procs
      BY Parts, Zenon
    <3> HIDE DEF f, d, m
    <3> QED
      BY <1>3, <1>4, <3>1
  <2> QED
    BY <1>2, <2>1, Zenon DEF Framed
<1>6. PathKept
  BY <1>2, Zenon DEF PathKept
<1>7. DescriptorsOf(p)'
  BY <1>1, <1>2, Zenon DEF DescriptorsOf, Undoing, Holds
<1>8. LiveOf(p)'
  BY <1>2, <1>3, FlockedLive, Zenon
<1>9. LockedFilesOf(p)'
  <2>1. ~Holds(p)' /\ OpFor(p)' = m /\ fd'[p][cur'[p]] = d /\ cur'[p] = f
    BY <1>2, Zenon DEF Holds, OpFor
  <2>2. ofd'[d][f].mode = m
    BY <1>1, <1>3, Zenon
  <2> HIDE DEF f, d, m
  <2> QED
    BY <1>2, <2>1, <2>2, Zenon DEF LockedFilesOf
<1>10. LockCompat'
  <2> HIDE DEF f, d, m
  <2> QED
    BY <1>1, <1>2, <1>3, GrantCompat
<1>11. Sharing'
  <2>1. \A q \in Procs \ {p} : pc'[q] = pc[q] /\ cur'[q] = cur[q] /\ fd'[q] = fd[q]
    BY <1>5, Zenon DEF Framed
  <2> QED
    BY <1>2, <2>1, SharingKept, Zenon DEF Undoing
<1> QED
  BY <1>5, <1>6, <1>7, <1>8, <1>9, <1>10, <1>11, FrameAll, Zenon

\* What LockFailed, after the descriptor of V or of aux is closed, leaves.
LEMMA LockFailedInv ==
    ASSUME LockInv, NEW p \in Procs, pc[p] \in {"open", "flock", "stat"}, LockFailed(p),
           fd' = [fd EXCEPT ![p][cur[p]] = NoFd],
           ofd' = AfterClose(ofd, fd'),
           UNCHANGED <<path, op, nb, reset>>
    PROVE  Kept
<1> DEFINE f == cur[p]
<1>1. f \in Files /\ f \in {"V", "aux"} /\ DescriptorsOf(p)
  BY Zenon DEF LockInv, TypeOK, Descriptors, Files
<1>2. \A q \in Procs, g \in Files : fd'[q][g] = IF q = p /\ g = f THEN NoFd ELSE fd[q][g]
  BY <1>1, Zenon DEF LockInv, TypeOK
<1>3. /\ \A q \in Procs, g \in Files :
           fd'[q][g] # NoFd => ofd'[fd'[q][g]][g] = ofd[fd[q][g]][g]
      /\ LockCompat'
  <2>1. \A q \in Procs, g \in Files : fd'[q][g] \in {fd[q][g], NoFd}
    BY <1>2
  <2> QED
    BY <2>1, CloseFacts, Zenon
<1>4. ASSUME NEW q \in Procs \ {p} PROVE Framed(q)
  <2>1. fd'[q] = fd[q]
    BY Zenon DEF LockInv, TypeOK
  <2>2. pc'[q] = pc[q] /\ cur'[q] = cur[q] /\ got'[q] = got[q]
    BY DEF LockInv, TypeOK, LockFailed, Goto
  <2> QED
    BY <1>3, <2>1, <2>2, ZenonT(30) DEF Framed
<1>5. PathKept
  BY Zenon DEF PathKept
<1>6. \/ /\ f = "V" /\ PrioritiseWriteLocks /\ op[p] = "EX"
         /\ pc'[p] = "undo_flock" /\ cur'[p] = "aux" /\ ~got'[p]
      \/ /\ ~(f = "V" /\ PrioritiseWriteLocks /\ op[p] = "EX")
         /\ pc'[p] = "idle" /\ cur'[p] = f /\ got'[p] = got[p]
  BY <1>1 DEF LockInv, TypeOK, LockFailed, Goto, KeepsAux
<1>7. fd'[p][f] = NoFd /\ (f = "V" => fd'[p]["aux"] = fd[p]["aux"])
      /\ (f = "aux" => fd'[p]["V"] = fd[p]["V"])
  BY <1>1, <1>2 DEF Files
<1>8. pc[p] # "held" /\ ~Undoing(p)
  BY Zenon DEF Undoing
<1>9. DescriptorsOf(p)'
  BY <1>1, <1>6, <1>7, <1>8 DEF DescriptorsOf, Undoing, Holds
<1>10. LiveOf(p)'
  <2> SUFFICES ASSUME NEW g \in Files, fd'[p][g] # NoFd
               PROVE  ofd'[fd'[p][g]][g].ino # NoInode
    BY Zenon DEF LiveOf
  <2>1. fd[p][g] # NoFd
    <3>1. fd'[p][g] = IF g = f THEN NoFd ELSE fd[p][g]
      BY <1>2
    <3> QED
      BY <3>1, Zenon
  <2>2. ofd'[fd'[p][g]][g] = ofd[fd[p][g]][g]
    BY <1>3, Zenon
  <2>3. ofd[fd[p][g]][g].ino # NoInode
    BY <2>1, Zenon DEF LockInv, Live, LiveOf
  <2> QED
    BY <2>2, <2>3, Zenon
<1>11. LockedFilesOf(p)'
  BY <1>6, Zenon DEF LockedFilesOf, Undoing, Holds
<1>12. Sharing'
  <2>1. \A q \in Procs \ {p} : pc'[q] = pc[q] /\ cur'[q] = cur[q] /\ fd'[q] = fd[q]
    BY <1>4, Zenon DEF Framed
  <2> QED
    BY <1>2, <1>8, <2>1, SharingKept
<1> QED
  BY <1>3, <1>4, <1>5, <1>9, <1>10, <1>11, <1>12, FrameAll, Zenon

LEMMA FlockRefusedInv ==
    ASSUME LockInv, NEW p \in Procs, OpenFails(p) \/ FlockRefused(p)
    PROVE  Kept
BY LockFailedInv, Zenon DEF OpenFails, FlockRefused

\* The locked file is the one that has the name: the lock is good.
LEMMA StatSameInv ==
    ASSUME LockInv, NEW p \in Procs, pc[p] = "stat", SameInode(p), LockSucceeded(p),
           UNCHANGED <<path, ofd, op, nb, fd, reset>>
    PROVE  Kept
<1> DEFINE f == cur[p]
<1>1. /\ f \in {"V", "aux"} /\ op[p] \in {"SH", "EX"} /\ DescriptorsOf(p)
      /\ path[f] = ofd[fd[p][f]][f].ino /\ ofd[fd[p][f]][f].mode = OpFor(p)
  BY Zenon DEF LockInv, TypeOK, Descriptors, LockedFiles, LockedFilesOf, SameInode, Files
<1>2. ASSUME NEW q \in Procs \ {p} PROVE Framed(q)
  <2>1. pc'[q] = pc[q] /\ cur'[q] = cur[q] /\ got'[q] = got[q]
    BY DEF LockInv, TypeOK, LockSucceeded, Goto
  <2> QED
    BY <2>1, Zenon DEF Framed
<1>3. PathKept
  BY Zenon DEF PathKept
<1>4. \/ /\ f = "aux" /\ op[p] = "EX"
         /\ pc'[p] = "open" /\ cur'[p] = "V" /\ got'[p] = got[p]
      \/ /\ f = "aux" /\ op[p] = "SH"
         /\ pc'[p] = "undo_flock" /\ cur'[p] = "aux" /\ got'[p] = got[p]
      \/ /\ f = "V" /\ PrioritiseWriteLocks /\ op[p] = "EX"
         /\ pc'[p] = "undo_flock" /\ cur'[p] = "aux" /\ got'[p]
      \/ /\ f = "V" /\ ~(PrioritiseWriteLocks /\ op[p] = "EX")
         /\ pc'[p] = "held" /\ cur'[p] = "V" /\ got'[p] = got[p]
  BY <1>1 DEF LockInv, TypeOK, LockSucceeded, Goto, KeepsAux
<1>5. DescriptorsOf(p)'
  BY <1>1, <1>4, Zenon DEF DescriptorsOf, Undoing, Holds
<1>6. LiveOf(p)' /\ LockCompat'
  BY Zenon DEF LockInv, Live, LiveOf, LockCompat
<1>7. LockedFilesOf(p)'
  BY <1>1, <1>4, Zenon DEF DescriptorsOf, LockedFilesOf, Undoing, Holds, OpFor
<1>8. Sharing'
  <2>1. \A q \in Procs \ {p} : pc'[q] = pc[q] /\ cur'[q] = cur[q] /\ fd'[q] = fd[q]
    BY <1>2, Zenon DEF Framed
  <2> QED
    BY <2>1, SharingKept, Zenon DEF Undoing
<1> QED
  BY <1>2, <1>3, <1>5, <1>6, <1>7, <1>8, FrameAll

\* The name is gone or another file's: a blocking request opens it again.
LEMMA StatLoopInv ==
    ASSUME LockInv, NEW p \in Procs, pc[p] = "stat", Goto(p, "open"),
           UNCHANGED <<path, ofd, cur, op, nb, got, fd, reset>>
    PROVE  Kept
<1>1. DescriptorsOf(p) /\ pc'[p] = "open"
  BY Zenon DEF LockInv, TypeOK, Descriptors, Goto
<1>2. \A q \in Procs \ {p} : Framed(q)
  BY Zenon DEF LockInv, TypeOK, Goto, Framed
<1>3. PathKept
  BY Zenon DEF PathKept
<1>4. DescriptorsOf(p)'
  BY <1>1, Zenon DEF DescriptorsOf, Undoing, Holds
<1>5. LiveOf(p)' /\ LockCompat'
  BY Zenon DEF LockInv, Live, LiveOf, LockCompat
<1>6. LockedFilesOf(p)'
  BY <1>1, Zenon DEF DescriptorsOf, LockedFilesOf, Undoing, Holds
<1>7. Sharing'
  BY <1>2, SMTT(40) DEF LockInv, Sharing, Undoing, Framed
<1> QED
  BY <1>2, <1>3, <1>4, <1>5, <1>6, <1>7, FrameAll

LEMMA StatInv ==
    ASSUME LockInv, NEW p \in Procs, Stat(p)
    PROVE  Kept
<1>1. CASE SameInode(p) /\ LockSucceeded(p) /\ UNCHANGED <<fd, ofd>>
  BY <1>1, StatSameInv, Zenon DEF Stat
<1>2. CASE Goto(p, "open") /\ UNCHANGED <<cur, got, fd, ofd>>
  BY <1>2, StatLoopInv, Zenon DEF Stat
<1>3. CASE LockFailed(p) /\ fd' = [fd EXCEPT ![p][cur[p]] = NoFd] /\ ofd' = AfterClose(ofd, fd')
  BY <1>3, LockFailedInv, Zenon DEF Stat
<1> QED
  BY <1>1, <1>2, <1>3, Zenon DEF Stat

----------------------------------------------------------------------------
(* The steps that undo a lock, fork and exit                               *)

\* LOCK_NB | LOCK_EX: granted if nobody else has the file, and then also for
\* the holder whose description the child shares; else the lock is gone, and
\* with it the holder's, who is recorded in reset.
LEMMA UndoFlockInv ==
    ASSUME LockInv, NEW p \in Procs, UndoFlock(p)
    PROVE  Kept
<1> DEFINE f == cur[p]
           d == fd[p][f]
<1>1. f \in Files /\ d \in Procs /\ DescriptorsOf(p) /\ pc[p] = "undo_flock"
  <2>1. f \in Files /\ DescriptorsOf(p) /\ pc[p] = "undo_flock"
    BY Parts, Zenon DEF UndoFlock
  <2>2. d # NoFd
    BY <2>1, Zenon DEF DescriptorsOf, Undoing
  <2> QED
    BY <2>1, <2>2, Parts, Zenon
<1>2. UNCHANGED <<path, cur, op, got, fd>>
  BY Zenon DEF UndoFlock
<1>3. PICK m \in {"UN", "EX"} :
        /\ ofd' = Flocked(d, f, m)
        /\ m = "UN" => pc' = [pc EXCEPT ![p] = "undo_close"] /\ reset' = reset \cup Sharers(p)
        /\ m = "EX" => /\ pc' = [pc EXCEPT ![p] = "undo_stat"] /\ reset' = reset
                       /\ ~Conflicts(d, f, "EX")
  BY Zenon DEF UndoFlock, Goto, InUse
<1>4. \A e \in Procs, g \in Files :
        /\ ofd'[e][g].ino = ofd[e][g].ino
        /\ ofd'[e][g].mode = IF e = d /\ g = f THEN m ELSE ofd[e][g].mode
        /\ e # d \/ g # f => ofd'[e][g] = ofd[e][g]
  <2> HIDE DEF f, d
  <2>1. m \in Modes
    BY Zenon DEF Modes
  <2> QED
    BY <1>1, <1>3, <2>1, FlockedStep
<1>5. PathKept
  BY <1>2, Zenon DEF PathKept
<1>6. LockCompat'
  <2>1. CASE m = "EX"
    <3> HIDE DEF f, d
    <3>1. ~Conflicts(d, f, m) /\ m \in Modes
      BY <1>3, <2>1, Zenon DEF Modes
    <3> QED
      BY <1>1, <1>4, <3>1, GrantCompat, ZenonT(30)
  <2>2. CASE m = "UN"
    <3> HIDE DEF f, d
    <3>1. \A e \in Procs, g \in Files : /\ ofd'[e][g].ino = ofd[e][g].ino
                                         /\ ofd'[e][g].mode \in {ofd[e][g].mode, "UN"}
      BY <1>4, <2>2
    <3>2. LockCompat
      BY Parts, Zenon
    <3> QED
      BY <3>1, <3>2 DEF LockCompat
  <2> QED
    BY <2>1, <2>2, Zenon
<1>7. pc'[p] \in {"undo_close", "undo_stat"} /\ (pc'[p] = "undo_stat" => m = "EX")
      /\ \A q \in Procs : q # p => pc'[q] = pc[q]
  BY <1>3 DEF LockInv, TypeOK
<1>8. \A q \in Procs : q # p /\ fd[q][f] = d =>
        f = "V" /\ pc[q] = "held" /\ (m = "UN" => q \in reset')
  <2>1. ASSUME NEW q \in Procs, q # p, fd[q][f] = d
        PROVE  f = "V" /\ pc[q] = "held"
    BY <1>1, <2>1, SharedBy
  <2>2. ASSUME NEW q \in Procs, q # p, fd[q][f] = d, m = "UN"
        PROVE  q \in reset'
    BY <1>3, <2>2, Zenon DEF Sharers
  <2> QED
    BY <2>1, <2>2, Zenon
<1>9. reset \subseteq reset'
  BY <1>3, Zenon
<1>10. ASSUME NEW q \in Procs, q # p
       PROVE  DescriptorsOf(q)' /\ LiveOf(q)' /\ LockedFilesOf(q)'
  <2>1. CASE fd[q][f] # d
    <3>1. Framed(q)
      <4>1. \A g \in Files : fd[q][g] # NoFd => ofd'[fd[q][g]][g] = ofd[fd[q][g]][g]
        <5>1. \A g \in Files : fd[q][g] # NoFd => fd[q][g] \in Procs
          BY DEF LockInv, TypeOK
        <5> QED
          BY <1>4, <2>1, <5>1
      <4> QED
        BY <1>2, <1>7, <1>9, <1>10, <4>1 DEF Framed
    <3> QED
      BY <1>5, <3>1, Frame
  <2>2. CASE fd[q][f] = d
    <3>1. f = "V" /\ pc[q] = "held" /\ pc'[q] = "held" /\ (m = "UN" => q \in reset')
          /\ DescriptorsOf(q) /\ LockedFilesOf(q)
      BY <1>7, <1>8, <1>10, <2>2 DEF LockInv, Descriptors, LockedFiles
    <3>2. DescriptorsOf(q)'
      BY <1>2, <3>1, Zenon DEF DescriptorsOf, Undoing, Holds
    <3>3. LiveOf(q)'
      BY <1>2, <1>4, FlockedLive, Zenon
    <3>4. LockedFilesOf(q)'
      <4>1. CASE m = "UN"
        BY <3>1, <4>1, Zenon DEF LockedFilesOf
      <4>2. CASE m = "EX"
        <5>1. ofd'[d]["V"].ino = ofd[d]["V"].ino /\ ofd'[d]["V"].mode = "EX"
          BY <1>1, <1>4, <3>1, <4>2, Zenon
        <5>2. q \notin reset' => path["V"] = ofd[d]["V"].ino
          BY <1>9, <2>2, <3>1, Zenon DEF LockedFilesOf, Holds
        <5>3. fd'[q]["V"] = d /\ path' = path
          BY <1>2, <2>2, <3>1, Zenon
        <5> HIDE DEF d, f
        <5> QED
          BY <3>1, <5>1, <5>2, <5>3, Zenon DEF LockedFilesOf
      <4> QED
        BY <4>1, <4>2, Zenon
    <3> QED
      BY <3>2, <3>3, <3>4, Zenon
  <2> QED
    BY <2>1, <2>2, Zenon
<1>11. DescriptorsOf(p)'
  BY <1>1, <1>2, <1>7, Zenon DEF DescriptorsOf, Undoing, Holds
<1>12. LiveOf(p)'
  BY <1>2, <1>4, FlockedLive, Zenon
<1>13. LockedFilesOf(p)'
  <2>1. ofd'[fd'[p][cur'[p]]][cur'[p]].mode = m
    BY <1>1, <1>2, <1>4, Zenon
  <2>2. pc'[p] # "held" /\ pc'[p] # "stat" /\ pc'[p] # "undo_unlink"
    BY <1>7, Zenon
  <2>3. Holds(p)' /\ p \notin reset' => f = "aux" /\ Holds(p) /\ p \notin reset
    BY <1>1, <1>2, <1>7, <1>9, Zenon DEF Holds, Undoing
  <2>4. f = "aux" => \A e \in Procs : ofd'[e]["V"] = ofd[e]["V"]
    BY <1>4, Zenon DEF Files
  <2>5. Holds(p) => fd[p]["V"] \in Procs
    BY <1>1 DEF LockInv, TypeOK, DescriptorsOf, Files
  <2>6. Holds(p)' /\ p \notin reset' =>
          /\ path'["V"] = ofd'[fd'[p]["V"]]["V"].ino
          /\ ofd'[fd'[p]["V"]]["V"].mode \in {op'[p], "EX"}
    BY <1>2, <2>3, <2>4, <2>5, Zenon DEF LockInv, LockedFiles, LockedFilesOf
  <2> QED
    BY <1>7, <2>1, <2>2, <2>6, Zenon DEF LockedFilesOf
<1>14. Sharing'
  <2>1. \A q \in Procs \ {p} : pc'[q] = pc[q] /\ cur'[q] = cur[q] /\ fd'[q] = fd[q]
    BY <1>2, <1>7, Zenon
  <2>2. \A g \in Files : fd'[p][g] \in {fd[p][g], NoFd}
    BY <1>2, Zenon
  <2>3. pc[p] # "held" /\ Undoing(p)' /\ cur'[p] = cur[p]
    BY <1>1, <1>2, <1>7, Zenon DEF Undoing
  <2> HIDE DEF f, d
  <2> QED
    BY <2>1, <2>2, <2>3, SharingKept, Zenon
<1> QED
  BY <1>6, <1>10, <1>11, <1>12, <1>13, <1>14 DEF Kept, Descriptors, Live, LockedFiles
LEMMA UndoStatInv ==
    ASSUME LockInv, NEW p \in Procs, UndoStat(p)
    PROVE  Kept
<1>1. /\ DescriptorsOf(p) /\ LockedFilesOf(p) /\ pc[p] = "undo_stat"
      /\ pc'[p] \in {"undo_unlink", "undo_close"}
      /\ pc'[p] = "undo_unlink" => SameInode(p)
      /\ UNCHANGED <<path, ofd, cur, op, got, fd, reset>>
  BY Zenon DEF LockInv, TypeOK, Descriptors, LockedFiles, UndoStat, Goto
<1>2. \A q \in Procs \ {p} : Framed(q)
  BY <1>1, Zenon DEF LockInv, TypeOK, UndoStat, Goto, Framed
<1>3. PathKept
  BY <1>1, Zenon DEF PathKept
<1>4. DescriptorsOf(p)'
  BY <1>1, Zenon DEF DescriptorsOf, Undoing, Holds
<1>5. LiveOf(p)' /\ LockCompat'
  BY <1>1, Zenon DEF LockInv, Live, LiveOf, LockCompat
<1>6. LockedFilesOf(p)'
  BY <1>1, Zenon DEF DescriptorsOf, LockedFilesOf, Undoing, Holds, SameInode
<1>7. Sharing'
  <2>1. \A q \in Procs \ {p} : pc'[q] = pc[q] /\ cur'[q] = cur[q] /\ fd'[q] = fd[q]
    BY <1>2, Zenon DEF Framed
  <2> QED
    BY <1>1, <2>1, SharingKept, Zenon DEF Undoing
<1> QED
  BY <1>2, <1>3, <1>4, <1>5, <1>6, <1>7, FrameAll

\* The file is unlinked by a process that has it locked exclusively: nobody
\* else does, but for the holder of the same description, who is in reset.
LEMMA UndoUnlinkInv ==
    ASSUME LockInv, NEW p \in Procs, UndoUnlink(p)
    PROVE  Kept
<1> DEFINE f == cur[p]
           d == fd[p][f]
<1>1. /\ f \in Files /\ d \in Procs /\ DescriptorsOf(p) /\ pc[p] = "undo_unlink"
      /\ ofd[d][f].mode = "EX" /\ path[f] = ofd[d][f].ino
  <2>1. f \in Files /\ DescriptorsOf(p) /\ LockedFilesOf(p) /\ pc[p] = "undo_unlink"
    BY Zenon DEF LockInv, TypeOK, UndoUnlink, Descriptors, LockedFiles
  <2>2. d \in Procs
    BY <2>1 DEF LockInv, TypeOK, DescriptorsOf, Undoing
  <2> QED
    BY <2>1, <2>2, Zenon DEF LockedFilesOf
<1>2. /\ UNCHANGED <<ofd, cur, op, got, fd>> /\ reset' = reset \cup Sharers(p)
      /\ pc'[p] = "undo_close" /\ \A q \in Procs : q # p => pc'[q] = pc[q]
      /\ \A g \in Files : path'[g] = IF g = f THEN NoInode ELSE path[g]
  BY Zenon DEF LockInv, TypeOK, UndoUnlink, Goto
<1>3. LockCompat' /\ Live'
  BY <1>2 DEF LockInv, LockCompat, Live, LiveOf
<1>4. Sharing'
  <2>1. \A q \in Procs \ {p} : pc'[q] = pc[q] /\ cur'[q] = cur[q] /\ fd'[q] = fd[q]
    BY <1>2, Zenon
  <2>2. \A g \in Files : fd'[p][g] \in {fd[p][g], NoFd}
    BY <1>2, Zenon
  <2>3. pc[p] # "held" /\ Undoing(p)' /\ cur'[p] = cur[p]
    BY <1>1, <1>2, Zenon DEF Undoing
  <2> HIDE DEF f, d
  <2> QED
    BY <2>1, <2>2, <2>3, SharingKept, Zenon
<1>5. ASSUME NEW q \in Procs, q # p
      PROVE  LockedFilesOf(q)'
  <2>1. DescriptorsOf(q) /\ LockedFilesOf(q) /\ LiveOf(q) /\ cur[q] \in Files /\ "V" \in Files
    BY Zenon DEF LockInv, TypeOK, Descriptors, LockedFiles, Live, Files
  <2>2. Holds(q)' = Holds(q) /\ OpFor(q)' = OpFor(q) /\ pc'[q] = pc[q]
    BY <1>2, <1>5, Zenon DEF Holds, OpFor
  <2>3. ASSUME NEW g \in Files, fd[q][g] # NoFd, path[g] = ofd[fd[q][g]][g].ino,
               ofd[fd[q][g]][g].mode # "UN"
        PROVE  path'[g] = path[g] \/ (g = "V" /\ pc[q] = "held" /\ q \in reset')
    <3>1. CASE g # f
      BY <1>2, <3>1, Zenon
    <3>2. CASE g = f /\ fd[q][g] # d
      <4>1. fd[q][g] \in Procs
        BY <2>3 DEF LockInv, TypeOK
      <4> QED
        <5>1. path[f] = ofd[d][f].ino /\ ofd[d][f].mode = "EX" /\ d \in Procs /\ f \in Files
              /\ LockCompat
          BY <1>1, Zenon DEF LockInv
        <5> HIDE DEF f, d
        <5>2. PICK e \in Procs : e = fd[q][g]
          BY <4>1, Zenon
        <5>3. e # d /\ ofd[d][f].ino = ofd[e][f].ino
          BY <2>3, <3>2, <5>1, <5>2, Zenon
        <5>4. ofd[e][f].mode = "UN"
          BY <5>1, <5>3, Zenon DEF LockCompat
        <5> QED
          BY <2>3, <3>2, <5>2, <5>4, Zenon
    <3>3. CASE g = f /\ fd[q][g] = d
      <4>1. g = "V" /\ pc[q] = "held"
        <5>1. pc[p] # "held"
          BY <1>1, Zenon
        <5> QED
          BY <1>1, <1>5, <3>3, <5>1, SharedBy, Zenon
      <4>2. q \in reset'
        BY <1>2, <1>5, <3>3, Zenon DEF Sharers
      <4> QED
        BY <4>1, <4>2, Zenon
    <3> QED
      BY <3>1, <3>2, <3>3, Zenon
  <2>4. ASSUME Holds(q)', q \notin reset'
        PROVE  /\ path'["V"] = ofd'[fd'[q]["V"]]["V"].ino
               /\ ofd'[fd'[q]["V"]]["V"].mode \in {op'[q], "EX"}
    <3>1. /\ path["V"] = ofd[fd[q]["V"]]["V"].ino /\ fd[q]["V"] # NoFd
          /\ ofd[fd[q]["V"]]["V"].mode \in {op[q], "EX"} /\ op[q] \in {"SH", "EX"}
      BY <1>2, <2>1, <2>2, <2>4, Zenon DEF LockInv, TypeOK, LockedFilesOf, DescriptorsOf
    <3>2. path'["V"] = path["V"]
      BY <2>1, <2>3, <2>4, <3>1, Zenon
    <3> QED
      BY <1>2, <3>1, <3>2, Zenon
  <2>5. pc[q] = "undo_unlink" => path'[cur[q]] = path[cur[q]]
    <3>1. pc[q] = "undo_unlink" =>
            /\ path[cur[q]] = ofd[fd[q][cur[q]]][cur[q]].ino
            /\ ofd[fd[q][cur[q]]][cur[q]].mode = "EX" /\ fd[q][cur[q]] # NoFd
      BY <2>1, Zenon DEF LockedFilesOf, DescriptorsOf, Undoing
    <3> QED
      BY <2>1, <2>3, <3>1, Zenon
  <2> QED
    BY <1>2, <2>1, <2>2, <2>4, <2>5, Zenon DEF LockedFilesOf
<1>6. LockedFilesOf(p)'
  <2>1. Holds(p)' => f = "aux" /\ Holds(p)
    BY <1>1, <1>2, Zenon DEF Holds
  <2>2. f = "aux" => path'["V"] = path["V"]
    BY <1>2, Zenon DEF Files
  <2> QED
    BY <1>2, <2>1, <2>2, Zenon DEF LockInv, LockedFiles, LockedFilesOf
<1>7. ASSUME NEW q \in Procs
      PROVE  DescriptorsOf(q)'
  <2>1. DescriptorsOf(q)
    BY Parts, Zenon
  <2>2. CASE q # p
    <3>1. /\ pc'[q] = pc[q] /\ cur'[q] = cur[q] /\ got'[q] = got[q] /\ fd'[q] = fd[q]
          /\ op'[q] = op[q]
      BY <1>2, <2>2, Zenon
    <3> QED
      BY <2>1, <3>1, Zenon DEF DescriptorsOf, Undoing, Holds
  <2>3. CASE q = p
    BY <1>1, <1>2, <2>1, <2>3, Zenon DEF DescriptorsOf, Undoing, Holds
  <2> QED
    BY <2>2, <2>3, Zenon
<1> QED
  BY <1>3, <1>4, <1>5, <1>6, <1>7 DEF Kept, Descriptors, LockedFiles
LEMMA UndoCloseInv ==
    ASSUME LockInv, NEW p \in Procs, UndoClose(p)
    PROVE  Kept
<1> DEFINE f == cur[p]
<1>1. /\ f \in {"V", "aux"} /\ f \in Files /\ DescriptorsOf(p) /\ LockedFilesOf(p)
      /\ pc[p] = "undo_close" /\ op[p] \in {"SH", "EX"}
  BY Zenon DEF LockInv, TypeOK, Descriptors, LockedFiles, UndoClose, Files
<1>2. /\ fd' = [fd EXCEPT ![p][f] = NoFd] /\ ofd' = AfterClose(ofd, fd')
      /\ UNCHANGED <<path, op, nb, reset>>
  BY Zenon DEF UndoClose
<1>3. \A q \in Procs, g \in Files : fd'[q][g] = IF q = p /\ g = f THEN NoFd ELSE fd[q][g]
  BY <1>1, <1>2, Zenon DEF LockInv, TypeOK
<1>4. /\ \A q \in Procs, g \in Files :
           fd'[q][g] # NoFd => ofd'[fd'[q][g]][g] = ofd[fd[q][g]][g]
      /\ LockCompat'
  <2>1. \A q \in Procs, g \in Files : fd'[q][g] \in {fd[q][g], NoFd}
    BY <1>3
  <2> QED
    BY <1>2, <2>1, CloseFacts, Zenon
<1>5. ASSUME NEW q \in Procs \ {p} PROVE Framed(q)
  <2>1. fd'[q] = fd[q]
    BY <1>2, Zenon DEF LockInv, TypeOK
  <2>2. pc'[q] = pc[q] /\ cur'[q] = cur[q] /\ got'[q] = got[q]
    BY DEF LockInv, TypeOK, UndoClose, UndoFinished, Goto
  <2> QED
    BY <1>2, <1>4, <2>1, <2>2, ZenonT(30) DEF Framed
<1>6. PathKept
  BY <1>2, Zenon DEF PathKept
<1>7. \/ /\ f = "aux" /\ op[p] = "SH"
         /\ pc'[p] = "open" /\ cur'[p] = "V" /\ got'[p] = got[p]
      \/ /\ f = "aux" /\ op[p] = "EX" /\ got[p]
         /\ pc'[p] = "held" /\ cur'[p] = "V" /\ ~got'[p]
      \/ /\ f = "V" \/ ~got[p]
         /\ pc'[p] = "idle" /\ cur'[p] = "V" /\ ~got'[p]
  BY <1>1 DEF LockInv, TypeOK, UndoClose, UndoFinished, Goto, KeepsAux
<1>8. /\ fd'[p][f] = NoFd /\ (f = "V" => fd'[p]["aux"] = fd[p]["aux"])
      /\ (f = "aux" => fd'[p]["V"] = fd[p]["V"])
  BY <1>1, <1>3, Zenon DEF Files
<1>9. DescriptorsOf(p)'
  BY <1>1, <1>2, <1>7, <1>8, Zenon DEF DescriptorsOf, Undoing, Holds
<1>10. LiveOf(p)'
  BY <1>3, <1>4, SMTT(40) DEF LockInv, Live, LiveOf
<1>11. LockedFilesOf(p)'
  <2>1. CASE pc'[p] # "held"
    BY <1>7, <2>1, Zenon DEF LockedFilesOf, Holds
  <2>2. CASE pc'[p] = "held"
    <3>1. Holds(p) /\ fd[p]["V"] # NoFd /\ fd'[p]["V"] = fd[p]["V"]
      BY <1>1, <1>7, <1>8, <2>2, Zenon DEF Holds, DescriptorsOf
    <3>2. ofd'[fd'[p]["V"]]["V"] = ofd[fd[p]["V"]]["V"]
      BY <1>4, <3>1, Zenon DEF Files
    <3> QED
      BY <1>1, <1>2, <2>2, <3>1, <3>2, Zenon DEF LockedFilesOf
  <2> QED
    BY <2>1, <2>2, Zenon
<1>12. Sharing'
  <2> SUFFICES ASSUME NEW a \in Procs, NEW b \in Procs, NEW g \in Files, a # b,
                      fd'[a][g] = fd'[b][g], fd'[a][g] # NoFd
               PROVE  /\ g = "V"
                      /\ \/ pc'[a] = "held" /\ Undoing(b)' /\ cur'[b] = "V"
                         \/ pc'[b] = "held" /\ Undoing(a)' /\ cur'[a] = "V"
    BY SMTT(40) DEF Sharing, Undoing
  <2>1. fd[a][g] = fd[b][g] /\ fd[a][g] # NoFd
    BY <1>3
  <2>2. /\ g = "V"
        /\ \/ pc[a] = "held" /\ Undoing(b) /\ cur[b] = "V"
           \/ pc[b] = "held" /\ Undoing(a) /\ cur[a] = "V"
    BY <2>1 DEF LockInv, Sharing
  <2>3. a # p /\ b # p
    BY <1>1, <1>8, <2>2, Zenon
  <2>4. Framed(a) /\ Framed(b)
    BY <1>5, <2>3, Zenon
  <2> QED
    BY <2>2, <2>4, Zenon DEF Framed, Undoing
<1> QED
  BY <1>4, <1>5, <1>6, <1>9, <1>10, <1>11, <1>12, FrameAll, Zenon

\* The child has the descriptors of its parent, who shares them with no other.
LEMMA ForkInv ==
    ASSUME LockInv, NEW p \in Procs, NEW c \in Procs, Fork(p, c)
    PROVE  Kept
<1>1. /\ p # c /\ pc[p] = "held" /\ cur[p] = "V" /\ fd[p]["aux"] = NoFd /\ fd[p]["V"] # NoFd
      /\ pc[c] = "idle" /\ ~got[c] /\ DescriptorsOf(c)
      /\ \A q \in Procs : q # p => fd[q]["V"] # fd[p]["V"]
  BY DEF LockInv, TypeOK, Fork, Descriptors, DescriptorsOf, Holds, Sharers, Undoing
<1>2. /\ pc'[c] = "undo_flock" /\ cur'[c] = "V" /\ fd'[c] = fd[p] /\ ~got'[c]
      /\ UNCHANGED <<path, ofd, got, reset>>
      /\ \A q \in Procs : q # c => pc'[q] = pc[q] /\ cur'[q] = cur[q] /\ fd'[q] = fd[q]
                                   /\ op'[q] = op[q]
  BY <1>1 DEF LockInv, TypeOK, Fork, Goto
<1>3. \A q \in Procs \ {c} : Framed(q)
  BY <1>2 DEF Framed
<1>4. PathKept
  BY <1>2, Zenon DEF PathKept
<1>5. DescriptorsOf(c)'
  BY <1>1, <1>2, Zenon DEF DescriptorsOf, Undoing, Holds
<1>6. LiveOf(c)' /\ LockCompat'
  <2>1. LiveOf(p) /\ LockCompat
    BY Zenon DEF LockInv, Live
  <2> QED
    BY <1>2, <2>1 DEF LiveOf, LockCompat
<1>7. LockedFilesOf(c)'
  BY <1>2, Zenon DEF LockedFilesOf, Holds
<1>8. Sharing'
  <2> SUFFICES ASSUME NEW a \in Procs, NEW b \in Procs, NEW g \in Files, a # b,
                      fd'[a][g] = fd'[b][g], fd'[a][g] # NoFd
               PROVE  /\ g = "V"
                      /\ \/ (pc[a] = "held" /\ Undoing(b) /\ cur[b] = "V")'
                         \/ (pc[b] = "held" /\ Undoing(a) /\ cur[a] = "V")'
    BY DEF Sharing
  <2>1. CASE c \notin {a, b}
    BY <1>2, <2>1 DEF LockInv, Sharing, Undoing
  <2>2. CASE a = c
    BY <1>1, <1>2, <2>2, Zenon DEF Undoing, Files
  <2>3. CASE b = c
    BY <1>1, <1>2, <2>3 DEF Undoing, Files
  <2> QED
    BY <2>1, <2>2, <2>3, Zenon
<1> QED
  BY <1>3, <1>4, <1>5, <1>6, <1>7, <1>8, FrameAll, Zenon

LEMMA ExitInv ==
    ASSUME LockInv, NEW p \in Procs, Exit(p)
    PROVE  Kept
<1>1. /\ pc'[p] = "idle" /\ cur'[p] = "V" /\ ~got'[p]
      /\ ofd' = AfterClose(ofd, fd') /\ reset' = reset \ {p}
      /\ UNCHANGED <<path, op, nb>>
  BY Zenon DEF LockInv, TypeOK, Exit, Goto
<1>2. \A q \in Procs : q # p => pc'[q] = pc[q] /\ cur'[q] = cur[q] /\ got'[q] = got[q]
                                 /\ fd'[q] = fd[q]
  BY Zenon DEF LockInv, TypeOK, Exit, Goto
<1>3. \A g \in Files : fd'[p][g] = NoFd
  BY Zenon DEF LockInv, TypeOK, Exit
<1>4. /\ \A q \in Procs, g \in Files :
           fd'[q][g] # NoFd => ofd'[fd'[q][g]][g] = ofd[fd[q][g]][g]
      /\ LockCompat'
  <2>1. \A q \in Procs, g \in Files : fd'[q][g] \in {fd[q][g], NoFd}
    BY <1>2, <1>3, Zenon
  <2> QED
    BY <1>1, <2>1, CloseFacts, Zenon
<1>5. ASSUME NEW q \in Procs \ {p} PROVE Framed(q)
  <2>1. /\ pc'[q] = pc[q] /\ cur'[q] = cur[q] /\ got'[q] = got[q] /\ fd'[q] = fd[q]
        /\ op'[q] = op[q]
    BY <1>1, <1>2, Zenon
  <2>2. q \in reset => q \in reset'
    BY <1>1, Zenon
  <2>3. \A g \in Files : fd[q][g] # NoFd => ofd'[fd[q][g]][g] = ofd[fd[q][g]][g]
    BY <1>4, <2>1, Zenon
  <2> QED
    BY <2>1, <2>2, <2>3, Zenon DEF Framed
<1>6. PathKept
  BY <1>1, Zenon DEF PathKept
<1>7. DescriptorsOf(p)' /\ LiveOf(p)' /\ LockedFilesOf(p)'
  BY <1>1, <1>3, Zenon DEF DescriptorsOf, LiveOf, LockedFilesOf, Undoing, Holds, Files
<1>8. Sharing'
  BY <1>2, <1>3, SharingAlone
<1> QED
  BY <1>4, <1>5, <1>6, <1>7, <1>8, FrameAll, Zenon

---------------------------------------------------------------------------
(* The theorems.                                                           *)

LEMMA InvStep == LockInv /\ [Next]_vars => LockInv'
<1> SUFFICES ASSUME LockInv, [Next]_vars PROVE LockInv'
  OBVIOUS
<1>1. TypeOK'
  BY TypeStep, Zenon DEF LockInv
<1>2. ASSUME Next PROVE Kept
  BY <1>2, RequestInv, ReleaseInv, OpenInv, FlockGrantedInv, FlockRefusedInv, StatInv,
     UndoFlockInv, UndoStatInv, UndoUnlinkInv, UndoCloseInv, ForkInv, ExitInv DEF Next, Step
<1>3. ASSUME UNCHANGED vars PROVE Kept
  <2>1. \A q \in Procs : Framed(q)
    BY <1>3, Zenon DEF vars, Framed
  <2>2. PathKept
    BY <1>3, Zenon DEF vars, PathKept
  <2>3. Descriptors' /\ Live' /\ LockedFiles'
    BY <2>1, <2>2, Frame, Zenon DEF Descriptors, Live, LockedFiles
  <2>4. LockCompat' /\ Sharing'
    <3>1. LockCompat /\ Sharing
      BY Parts, Zenon
    <3>2. UNCHANGED <<ofd, fd, pc, cur>>
      BY <1>3, Zenon DEF vars
    <3> QED
      BY <3>1, <3>2 DEF LockCompat, Sharing, Undoing
  <2> QED
    BY <2>3, <2>4, Zenon DEF Kept
<1>4. Kept
  BY <1>2, <1>3, Zenon
<1> QED
  BY <1>1, <1>4, Zenon DEF LockInv, Kept

LEMMA InvHolds == Spec => []LockInv
BY InvInit, InvStep, PTL DEF Spec

\* In every behaviour, the file of a lock that is held and was not dropped by
\* a child has its name: nobody can create a second lock file beside it.
THEOREM HeldFilesLinked == Spec => []HeldFileLinked
<1>1. LockInv => HeldFileLinked
  BY Zenon DEF LockInv, LockedFiles, LockedFilesOf, HeldFileLinked
<1> QED
  BY <1>1, InvHolds, PTL

\* In every behaviour, for any number of processes, a write lock excludes all
\* others, apart from locks that a child of their holder dropped.
THEOREM Exclusion == Spec => []MutualExclusion
<1>1. LockInv => MutualExclusion
  <2> SUFFICES ASSUME LockInv, NEW p \in Procs, NEW q \in Procs, p # q, Holds(p), Holds(q),
                      p \notin reset, q \notin reset
               PROVE  op[p] = "SH" /\ op[q] = "SH"
    BY Zenon DEF MutualExclusion
  <2>1. /\ path["V"] = ofd[fd[p]["V"]]["V"].ino /\ path["V"] = ofd[fd[q]["V"]]["V"].ino
        /\ ofd[fd[p]["V"]]["V"].mode \in {op[p], "EX"}
        /\ ofd[fd[q]["V"]]["V"].mode \in {op[q], "EX"}
        /\ op[p] \in {"SH", "EX"} /\ op[q] \in {"SH", "EX"}
        /\ fd[p]["V"] \in Procs /\ fd[q]["V"] \in Procs
    <3>1. LockedFilesOf(p) /\ LockedFilesOf(q) /\ DescriptorsOf(p) /\ DescriptorsOf(q)
      BY Zenon DEF LockInv, LockedFiles, Descriptors
    <3>2. \A r \in Procs : op[r] \in {"SH", "EX"} /\ (fd[r]["V"] # NoFd => fd[r]["V"] \in Procs)
      BY DEF LockInv, TypeOK, Files
    <3>3. fd[p]["V"] # NoFd /\ fd[q]["V"] # NoFd
      BY <3>1, Zenon DEF DescriptorsOf
    <3> QED
      BY <3>1, <3>2, <3>3, Zenon DEF LockedFilesOf
  <2>2. fd[p]["V"] # fd[q]["V"]
    BY <2>1, Nulls, Zenon DEF LockInv, Sharing, Holds, Undoing, Files
  <2> QED
    BY <2>1, <2>2, ZenonT(30) DEF LockInv, LockCompat, Files
<1> QED
  BY <1>1, InvHolds, PTL
=============================================================================
