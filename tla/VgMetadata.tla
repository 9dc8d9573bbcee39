----------------------------- MODULE VgMetadata -----------------------------
(***************************************************************************)
(* The metadata of one volume group, kept in several metadata areas: the   *)
(* transaction of vg_write, vg_commit and vg_revert over the areas in use, *)
(* and the choice and repair of a version by _vg_read, with failing        *)
(* devices and commands killed at any point: lib/metadata/metadata.c.      *)
(*                                                                         *)
(* Each area is the pair of registers of MdaSlots, which TextMda           *)
(* implements.  A version is a sequence number and a content; a content    *)
(* stands for everything else in the text and is never used twice.         *)
(* Commands hold the VG's lock, so one is active at a time.                *)
(***************************************************************************)
EXTENDS Naturals, Sequences, FiniteSets, SequencesExt

CONSTANTS
    Mdas,           \* metadata areas, numbered in the order of the list
    Scenarios       \* the circumstances in which commands run

\* A scenario: bounds on changes and faults, the kinds of faults, may commands
\* set and clear the ignored flags of areas, is metadata read from lvmetad.
ASSUME VgMetadataAssumption ==
    /\ Mdas \subseteq Nat
    /\ IsFiniteSet(Mdas)
    /\ Mdas # {}
    /\ Scenarios \subseteq [maxChanges : Nat, maxFaults : Nat,
                            faults : SUBSET {"crash", "io", "unplug"},
                            canIgnore : BOOLEAN, useLvmetad : BOOLEAN]

VARIABLES
    scenario,       \* the scenario, which does not change
    live, pre,      \* the registers of each area
    ignored,        \* rlocn_is_ignored of each area's header
    gone,           \* areas on devices that are unplugged
    lvmetad,        \* the version that lvmetad holds
    vg,             \* the command's struct volume_group: its version
    list,           \* vg->fid->metadata_areas_in_use
    mda_ignored,    \* MDA_IGNORED of the command's areas
    i,              \* position in the list
    repairing,      \* the transaction is that of _vg_read, not the command's
    cache_updated,  \* some area has been committed
    pc,             \* where the command is
    changes,        \* contents used so far
    faults,         \* faults so far
    reported        \* history: the content of the last successful vg_commit

disk == <<live, pre, ignored>>
command == <<vg, list, mda_ignored, i, repairing, cache_updated, pc>>
vars == <<scenario, disk, gone, lvmetad, command, changes, faults, reported>>

MaxChanges == scenario.maxChanges
UseLvmetad == scenario.useLvmetad

Versions == [seqno : Nat, content : 0 .. MaxChanges]
None == [seqno |-> 0, content |-> 0]
First == [seqno |-> 1, content |-> 0]

\* Every variable has the shape its declaration describes.
TypeOK ==
    /\ scenario \in Scenarios
    /\ live \in [Mdas -> Versions]
    /\ pre \in [Mdas -> Versions]
    /\ ignored \in [Mdas -> BOOLEAN]
    /\ gone \subseteq Mdas
    /\ lvmetad \in Versions
    /\ vg \in Versions
    /\ list \in Seq(Mdas)
    /\ mda_ignored \in [Mdas -> BOOLEAN]
    /\ i \in 0 .. (IF pc = "commit" THEN Len(list) + 1 ELSE Len(list))
    /\ repairing \in BOOLEAN
    /\ cache_updated \in BOOLEAN
    /\ pc \in {"idle", "locked", "write", "unwrite", "precommit", "revert",
               "written", "commit"}
    /\ changes \in 0 .. MaxChanges
    /\ faults \in 0 .. scenario.maxFaults
    /\ reported \in 0 .. MaxChanges

Idle ==
    /\ vg = None /\ list = <<>> /\ mda_ignored = [m \in Mdas |-> FALSE]
    /\ i = 0 /\ repairing = FALSE /\ cache_updated = FALSE /\ pc = "idle"

Init ==
    /\ scenario \in Scenarios
    /\ live = [m \in Mdas |-> First]
    /\ pre = [m \in Mdas |-> None]
    /\ ignored = [m \in Mdas |-> FALSE]
    /\ gone = {}
    /\ lvmetad = First
    /\ Idle
    /\ changes = 0
    /\ faults = 0
    /\ reported = 0

-----------------------------------------------------------------------------
(* Reading *)

\* A set of areas in the order of the list.
InOrder(S) == SetToSortSeq(S, LAMBDA m, n : m < n)

\* The first of the areas in S with the highest sequence number.
Newest(S) ==
    CHOOSE m \in S : \A n \in S :
        \/ live[n].seqno < live[m].seqno
        \/ live[n].seqno = live[m].seqno /\ m <= n


Inconsistent(S) == \E m, n \in S : live[m].seqno # live[n].seqno

\* The areas that a scan finds in use, and what is read from them.
InUse == {m \in Mdas \ gone : ~ignored[m]}
Correct == live[Newest(InUse)]

-----------------------------------------------------------------------------
(* The transaction *)

Fault(kind) ==
    /\ kind \in scenario.faults
    /\ faults < scenario.maxFaults
    /\ faults' = faults + 1

Finish ==
    /\ vg' = None /\ list' = <<>> /\ mda_ignored' = [m \in Mdas |-> FALSE]
    /\ i' = 0 /\ repairing' = FALSE /\ cache_updated' = FALSE /\ pc' = "idle"

\* Go to phase with the first area of the list.
Phase(phase) == pc' = phase /\ i' = 1

\* vg_write before its loops: the next sequence number.
BeginWrite(version, l, flags, repair) ==
    /\ vg' = version
    /\ list' = l
    /\ mda_ignored' = flags
    /\ repairing' = repair
    /\ cache_updated' = FALSE
    /\ Phase("write")

\* _vg_read writes the newest of the copies that differ to all of them.
Repair ==
    /\ Inconsistent(InUse)
    /\ BeginWrite([Correct EXCEPT !.seqno = @ + 1], InOrder(InUse), ignored, TRUE)

\* A command takes the lock and reads the VG.
Start ==
    /\ pc = "idle"
    /\ InUse # {}
    /\ \/ ~UseLvmetad /\ Repair
       \/ /\ UseLvmetad \/ ~Inconsistent(InUse)
          /\ vg' = IF UseLvmetad THEN lvmetad ELSE Correct
          /\ list' = InOrder(InUse)
          /\ mda_ignored' = ignored
          /\ pc' = "locked" /\ i' = 0
          /\ UNCHANGED <<repairing, cache_updated>>
    /\ UNCHANGED <<disk, gone, lvmetad, changes, faults, reported>>

\* The flags that a command may set: those it has, or more or fewer areas in
\* use, whatever number of copies is asked for, but never none.
IgnoredChoices ==
    {flags \in [Mdas -> BOOLEAN] :
        /\ flags = mda_ignored \/ scenario.canIgnore
        /\ \A m \in gone : flags[m] = mda_ignored[m]
        /\ \E m \in Mdas \ gone : ~flags[m]
        /\ \/ \A m \in Mdas : mda_ignored[m] => flags[m]
           \/ \A m \in Mdas : flags[m] => mda_ignored[m]}


\* The command changes the VG and calls vg_write.  An area that is no longer
\* ignored joins the list, one that becomes ignored stays on it.  While PVs
\* are missing only vgreduce --removemissing and lvconvert --repair may.
vg_write(flags) ==
    LET listed == {list[k] : k \in 1 .. Len(list)}
        joining == {m \in Mdas : mda_ignored[m] /\ ~flags[m]} \ (listed \cup gone)
    IN  /\ pc = "locked"
        /\ changes < MaxChanges
        /\ changes' = changes + 1
        /\ BeginWrite([seqno |-> vg.seqno + 1, content |-> changes + 1],
                      list \o InOrder(joining), flags, FALSE)
        /\ UNCHANGED <<disk, gone, lvmetad, faults, reported>>

\* Mutant: one area too many.
WriteMda_beyond ==
    /\ pc = "write"
    /\ IF i <= Len(list) THEN i' = i + 1 /\ UNCHANGED pc ELSE Phase("precommit")
    /\ UNCHANGED <<vg, list, mda_ignored, repairing, cache_updated>>
    /\ UNCHANGED <<disk, gone, lvmetad, changes, faults, reported>>

\* The text is written to one area: its registers do not change.
WriteMda ==
    /\ pc = "write"
    /\ IF i < Len(list) THEN i' = i + 1 /\ UNCHANGED pc ELSE Phase("precommit")
    /\ UNCHANGED <<vg, list, mda_ignored, repairing, cache_updated>>
    /\ UNCHANGED <<disk, gone, lvmetad, changes, faults, reported>>

\* It cannot be written: the areas before it in the list are reverted.
WriteFails ==
    /\ pc = "write"
    /\ Fault("io")
    /\ IF i = 1 THEN Finish
       ELSE /\ i' = i - 1 /\ pc' = "unwrite"
            /\ UNCHANGED <<vg, list, mda_ignored, repairing, cache_updated>>
    /\ UNCHANGED <<disk, gone, lvmetad, changes, reported>>

\* Mutant: only the first area is pre-committed.
PrecommitMda_first ==
    /\ pc = "precommit"
    /\ pre' = [pre EXCEPT ![list[i]] = vg]
    /\ ignored' = [ignored EXCEPT ![list[i]] = mda_ignored[list[i]]]
    /\ pc' = "written" /\ i' = 0
    /\ UNCHANGED <<vg, list, mda_ignored, repairing, cache_updated>>
    /\ UNCHANGED <<live, gone, lvmetad, changes, faults, reported>>

\* Every header that is written carries the command's ignored flag.
PrecommitMda ==
    /\ pc = "precommit"
    /\ pre' = [pre EXCEPT ![list[i]] = vg]
    /\ ignored' = [ignored EXCEPT ![list[i]] = mda_ignored[list[i]]]
    /\ IF i < Len(list) THEN i' = i + 1 /\ UNCHANGED pc ELSE pc' = "written" /\ i' = 0
    /\ UNCHANGED <<vg, list, mda_ignored, repairing, cache_updated>>
    /\ UNCHANGED <<live, gone, lvmetad, changes, faults, reported>>

\* The header cannot be written: all areas of the list are reverted.
PrecommitFails ==
    /\ pc = "precommit"
    /\ Fault("io")
    /\ Phase("revert")
    /\ UNCHANGED <<vg, list, mda_ignored, repairing, cache_updated>>
    /\ UNCHANGED <<disk, gone, lvmetad, changes, reported>>

\* The caller calls vg_revert.
vg_revert ==
    /\ pc = "written" /\ ~repairing
    /\ Phase("revert")
    /\ UNCHANGED <<vg, list, mda_ignored, repairing, cache_updated>>
    /\ UNCHANGED <<disk, gone, lvmetad, changes, faults, reported>>

\* After vg_write failed at an area the list is walked backwards.
NextReverted ==
    IF pc = "unwrite"
    THEN IF i > 1 THEN i' = i - 1 /\ UNCHANGED <<pc, vg, list, mda_ignored, repairing, cache_updated>>
                  ELSE Finish
    ELSE IF i < Len(list)
         THEN i' = i + 1 /\ UNCHANGED <<pc, vg, list, mda_ignored, repairing, cache_updated>>
         ELSE Finish

RevertMda ==
    /\ pc \in {"unwrite", "revert"}
    /\ pre' = [pre EXCEPT ![list[i]] = None]
    /\ ignored' = [ignored EXCEPT ![list[i]] = mda_ignored[list[i]]]
    /\ NextReverted
    /\ UNCHANGED <<live, gone, lvmetad, changes, faults, reported>>

\* A failure to revert is only logged.
RevertFails ==
    /\ pc \in {"unwrite", "revert"}
    /\ Fault("io")
    /\ NextReverted
    /\ UNCHANGED <<disk, gone, lvmetad, changes, reported>>


\* dm_list_move appends, so the ignored areas come last.  The comment in the
\* code says the opposite: "so ignored mdas come first".
CommitOrder(l) ==
    SelectSeq(l, LAMBDA m : ~mda_ignored[m]) \o SelectSeq(l, LAMBDA m : mda_ignored[m])

\* The caller calls vg_commit: lvmetad first, then the list is rearranged.
vg_commit ==
    /\ pc = "written"
    /\ lvmetad' = IF UseLvmetad THEN vg ELSE lvmetad
    /\ list' = CommitOrder(list)
    /\ cache_updated' = FALSE
    /\ Phase("commit")
    /\ UNCHANGED <<vg, mda_ignored, repairing>>
    /\ UNCHANGED <<disk, gone, changes, faults, reported>>

\* lvmetad does not answer: vg_commit returns 0 and leaves the disks alone.
LvmetadFails ==
    /\ pc = "written"
    /\ UseLvmetad
    /\ Fault("io")
    /\ Finish
    /\ UNCHANGED <<disk, gone, lvmetad, changes, reported>>

CommitMda ==
    /\ pc = "commit"
    /\ i <= Len(list)
    /\ live' = [live EXCEPT ![list[i]] = vg]
    /\ pre' = [pre EXCEPT ![list[i]] = None]
    /\ ignored' = [ignored EXCEPT ![list[i]] = mda_ignored[list[i]]]
    /\ i' = i + 1 /\ cache_updated' = TRUE
    /\ UNCHANGED <<vg, list, mda_ignored, repairing, pc>>
    /\ UNCHANGED <<gone, lvmetad, changes, faults, reported>>

\* The other areas are committed all the same.
CommitFails ==
    /\ pc = "commit"
    /\ i <= Len(list)
    /\ Fault("io")
    /\ i' = i + 1
    /\ UNCHANGED <<vg, list, mda_ignored, repairing, cache_updated, pc>>
    /\ UNCHANGED <<disk, gone, lvmetad, changes, reported>>

\* vg_commit returns: with success if one area was committed, and then the
\* command goes on.
CommitReturns ==
    /\ pc = "commit"
    /\ i > Len(list)
    /\ IF cache_updated
       THEN /\ pc' = "locked" /\ i' = 0 /\ repairing' = FALSE /\ cache_updated' = FALSE
            /\ reported' = vg.content
            /\ UNCHANGED <<vg, list, mda_ignored>>
       ELSE Finish /\ UNCHANGED reported
    /\ UNCHANGED <<disk, gone, lvmetad, changes, faults>>

Unlock ==
    /\ pc = "locked"
    /\ Finish
    /\ UNCHANGED <<disk, gone, lvmetad, changes, faults, reported>>

\* The command is killed, or the machine stops.
Crash ==
    /\ pc # "idle"
    /\ Fault("crash")
    /\ Finish
    /\ UNCHANGED <<disk, gone, lvmetad, changes, reported>>

\* A device disappears between two commands, and comes back.
Unplug(m) ==
    /\ pc = "idle"
    /\ Fault("unplug")
    /\ gone' = gone \cup {m}
    /\ UNCHANGED <<disk, lvmetad, command, changes, reported>>

Replug(m) ==
    /\ pc = "idle"
    /\ gone' = gone \ {m}
    /\ UNCHANGED <<disk, lvmetad, command, changes, faults, reported>>

Step ==
    \/ Start
    \/ WriteMda \/ PrecommitMda \/ RevertMda \/ vg_commit \/ CommitMda \/ CommitReturns
    \/ Unlock

Next ==
    /\ \/ Step
       \/ \E flags \in IgnoredChoices : vg_write(flags)
       \/ vg_revert
       \/ WriteFails \/ PrecommitFails \/ RevertFails \/ LvmetadFails \/ CommitFails
       \/ Crash
       \/ \E m \in Mdas \ gone : Unplug(m)
       \/ \E m \in gone : Replug(m)
    /\ UNCHANGED scenario

Spec == Init /\ [][Next]_vars

\* A command that has been started goes on, and commands keep coming.
FairSpec == Spec /\ WF_vars(Step /\ UNCHANGED scenario)

-----------------------------------------------------------------------------
(* Properties *)

Register ==
    INSTANCE VgRegister WITH
        current <- Correct.content,
        served <- IF UseLvmetad THEN lvmetad.content ELSE Correct.content



\* A device that comes back with other metadata than the rest is noticed.
StaleNoticed ==
    \/ Inconsistent(InUse)
    \/ \A m, n \in InUse : live[m] = live[n]

\* When vg_write has returned success every area in use yields the new version
\* to those who ask for pre-committed metadata.
PrecommittedEverywhere ==
    pc = "written" => \A m \in InUse : pre[m] = vg

\* If at least one mda commit succeeded, it was committed: a reader finds it.
ReportedIsCommitted == pc = "locked" => Correct.content >= reported

=============================================================================
