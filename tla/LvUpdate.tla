------------------------------ MODULE LvUpdate ------------------------------
(***************************************************************************)
(* How a command changes a logical volume: the on-disk metadata (committed  *)
(* and pre-committed), the kernel device of each LV (live and inactive      *)
(* table, suspended or not), the counters of the process that drives them   *)
(* (memlock.c, libdm's suspended counter), and the order of vg_write,       *)
(* suspend_lv, vg_commit and resume_lv at the call sites, error paths       *)
(* included.                                                                *)
(*                                                                          *)
(* LVs are linear: no snapshots, mirrors, thin volumes or pvmove, so that   *)
(* one LV is one device.                                                    *)
(*                                                                          *)
(* The process holds the VG write lock throughout (FileLocking), so the     *)
(* only interleaving is a crash between two calls, after which the next     *)
(* command finds what the kernel and the disks kept.                        *)
(***************************************************************************)
EXTENDS Integers, Sequences, FiniteSets

CONSTANTS
    LVs,            \* logical volumes of the one volume group
    MaxTable,       \* bound: tables (LV layouts) ever made
    MaxCommands,    \* bound: commands ever started
    Scenarios       \* what may happen: [kinds, faults, maxFaults]

ASSUME BoundsAssumption == MaxTable \in Nat \ {0} /\ MaxCommands \in Nat

VARIABLES
    scenario,       \* the scenario of this behaviour
    committed,      \* live metadata on disk: LV -> its table, 0 = no such LV
    precommitted,   \* << >>, or << metadata >> written but not committed
    dev,            \* LV -> its device-mapper device
    proc,           \* counters of the running process
    vg,             \* struct volume_group of the command: metadata in memory
    cmd,            \* the command: its kind and the LVs it processes, in order
    pc,             \* next call the command makes
    todo,           \* LVs still to be processed in this phase
    ok,             \* no call of the command has been reported as failed
    faults,         \* faults so far
    tables,         \* tables made so far
    reverted,       \* tables of changes the command took back with vg_revert
    commands        \* commands started so far

vars == <<scenario, committed, precommitted, dev, proc, vg, cmd, pc, todo, ok,
          faults, tables, reverted, commands>>

NoDev == [exists |-> FALSE, live |-> 0, inactive |-> 0, suspended |-> FALSE]

\* Counters of a process that has just started, and two histories that libdm
\* does not keep, because it only counts: "mine", the devices this process
\* suspended and has not resumed, and "miscounted", that it has taken from the
\* count a device it never counted.
FreshProc == [suspended |-> 0, critical |-> FALSE, mem_locked |-> FALSE,
              mine |-> {}, miscounted |-> FALSE]

Kinds == {"change", "raid", "rename", "refresh", "activate", "deactivate",
          "create", "remove"}

ASSUME ScenariosAssumption == \A s \in Scenarios : s.kinds \subseteq Kinds

Idle == [kind |-> "none", lvs |-> <<>>]

cur == Head(todo)

----------------------------------------------------------------------------
(* memlock.c and libdm's counter of suspended devices                       *)

critical_section_inc(p) ==
    [p EXCEPT !.critical = TRUE, !.mem_locked = TRUE]

\* Mutants: the section is left although devices are still suspended; it is
\* not left at all.
critical_section_dec_always(p) == [p EXCEPT !.critical = FALSE]
critical_section_dec_never(p) == p

critical_section_dec(p) ==
    IF p.suspended = 0 THEN [p EXCEPT !.critical = FALSE] ELSE p

memlock_unlock(p) ==
    IF ~p.critical THEN [p EXCEPT !.mem_locked = FALSE] ELSE p

inc_suspended(p, lv) ==
    [p EXCEPT !.suspended = @ + 1, !.mine = @ \cup {lv}]

\* Mutant: the counter may go below zero.
dec_suspended_below(p, lv) ==
    [p EXCEPT !.suspended = @ - 1, !.mine = @ \ {lv}]

\* Whoever suspended the device: the counter is only kept from going below zero.
dec_suspended(p, lv) ==
    [p EXCEPT !.suspended = IF @ = 0 THEN 0 ELSE @ - 1, !.mine = @ \ {lv},
              !.miscounted = @ \/ (p.suspended > 0 /\ lv \notin p.mine)]

----------------------------------------------------------------------------
(* Device-mapper: what the ioctls leave behind                              *)

\* Mutant: a left-over inactive table is not cleared.
LoadUncleared(d, table, clear_inactive) ==
    [d EXCEPT !.exists = TRUE,
              !.inactive = IF @ = 0 /\ table # d.live THEN table ELSE @]

\* dm_tree_add_new_dev: clear a left-over inactive table if asked to;
\* dm_tree_preload_children and _load_node: load nothing over an inactive
\* table, and nothing that is already the live one.
Load(d, table, clear_inactive) ==
    LET c == IF clear_inactive THEN [d EXCEPT !.inactive = 0] ELSE d
    IN  [c EXCEPT !.exists = TRUE,
                  !.inactive = IF @ = 0 /\ table # c.live THEN table ELSE @]

\* _resume_node: the inactive table, if there is one, becomes the live one.
Resume(d) ==
    [d EXCEPT !.live = IF d.inactive # 0 THEN d.inactive ELSE @,
              !.inactive = 0, !.suspended = FALSE]

----------------------------------------------------------------------------
(* Programs: which call follows which, at the call sites                    *)

\* Mutant: lvremove writes the metadata before it deactivates.
FirstWrites(kind) ==
    CASE kind = "refresh"                  -> "preload"
      [] kind \in {"activate", "deactivate"} -> kind
      [] OTHER                             -> "write"

First(kind) ==
    CASE kind \in {"change", "raid", "rename", "create"} -> "write"
      [] kind = "refresh"                                -> "preload"
      [] kind = "activate"                               -> "activate"
      [] kind \in {"deactivate", "remove"}               -> "deactivate"

\* process_each_lv: the next LV, whatever became of this one.
NextLv ==
    /\ todo' = Tail(todo)
    /\ pc' = IF Len(todo) > 1 THEN First(cmd.kind) ELSE "exit"

\* The same phase for the next LV of a list, then "then" with the list "lvs".
NextInList(phase, then, lvs) ==
    IF Len(todo) > 1 THEN pc' = phase /\ todo' = Tail(todo)
                     ELSE pc' = then  /\ todo' = lvs

Return == pc' = "exit" /\ todo' = <<>>

Goto(label) == pc' = label /\ todo' = todo

Fault(f) ==
    /\ f \in scenario.faults /\ faults < scenario.maxFaults
    /\ faults' = faults + 1

NoFault == faults' = faults

\* What a revert of the pre-committed copy p leaves: a failure is only logged.
Reverted(p) == {<<>>} \cup (IF "revert" \in scenario.faults THEN {p} ELSE {})

vg_revert ==
    /\ precommitted' \in Reverted(precommitted)
    /\ reverted' = reverted \cup {vg[lv] : lv \in {x \in LVs : vg[x] # committed[x]}}

\* dm_list_iterate_back_items: lv_rename resumes in reverse order.
Reverse(s) == [k \in 1 .. Len(s) |-> s[(Len(s) - k) + 1]]

\* suspend_lv returned 1.
Suspended ==
    CASE cmd.kind \in {"change", "raid"} -> Goto("commit")
      [] cmd.kind = "refresh"            -> Goto("resume")
      [] cmd.kind = "rename"             -> NextInList("preload", "commit",
                                                       Reverse(cmd.lvs))

\* Mutant: the LVs suspended before the one that failed are forgotten.
SuspendFailedReturns ==
    /\ ok' = FALSE
    /\ IF cmd.kind \in {"change", "rename"} THEN vg_revert
       ELSE UNCHANGED <<precommitted, reverted>>
    /\ Return

\* suspend_lv returned 0: lvchange, lvresize and lvconvert take the metadata
\* back; raid_manip.c just returns; suspend_lvs takes it back and resumes the
\* whole list with revert_lv.
SuspendFailed ==
    /\ ok' = FALSE
    /\ CASE cmd.kind = "change"  -> vg_revert /\ NextLv
         [] cmd.kind = "raid"    -> UNCHANGED <<precommitted, reverted>> /\ Return
         [] cmd.kind = "refresh" -> UNCHANGED <<precommitted, reverted>> /\ NextLv
         [] cmd.kind = "rename"  -> vg_revert /\ pc' = "revert" /\ todo' = cmd.lvs

----------------------------------------------------------------------------
(* The calls                                                                *)

\* The metadata a command of this kind writes for LV lv.
Changed(kind, lv) ==
    CASE kind \in {"change", "raid", "create"} -> [vg EXCEPT ![lv] = tables + 1]
      [] kind = "rename"                       -> vg
      [] kind = "remove"                       -> [vg EXCEPT ![lv] = 0]

\* When an area cannot be written those before it in the list are reverted and
\* the others keep what they had; when one cannot be pre-committed all are
\* reverted.  The check for the critical section logs and goes on.
vg_write ==
    /\ pc = "write"
    /\ LET new == Changed(cmd.kind, cur)
       IN  /\ vg' = new
           /\ tables' = IF new[cur] > tables THEN new[cur] ELSE tables
           /\ proc' = memlock_unlock(proc)
           /\ \/ /\ NoFault
                 /\ precommitted' = <<new>>
                 /\ IF cmd.kind \in {"change", "raid"} THEN Goto("preload")
                    ELSE IF cmd.kind = "rename"
                         THEN pc' = "preload" /\ todo' = cmd.lvs
                         ELSE Goto("commit")
                 /\ ok' = ok
              \/ /\ Fault("write")
                 /\ precommitted' \in {precommitted} \cup Reverted(<<new>>)
                 /\ ok' = FALSE
                 /\ IF cmd.kind = "change" THEN NextLv ELSE Return
    /\ UNCHANGED <<committed, dev, cmd, reverted>>

\* _lv_suspend up to the suspension itself: the new table goes into the
\* inactive slot.  A failure comes before the slot is cleared or after.
lv_preload ==
    /\ pc = "preload"
    /\ LET d == dev[cur]
           pre == IF precommitted = <<>> THEN committed[cur] ELSE precommitted[1][cur]
           flag == precommitted # <<>>
       IN  \/ /\ pre # 0 /\ (~d.exists \/ d.suspended)
              /\ proc' = IF d.suspended THEN critical_section_inc(proc) ELSE proc
              /\ Suspended
              /\ NoFault /\ UNCHANGED <<dev, precommitted, reverted, ok>>
           \/ /\ pre # 0 /\ d.exists /\ ~d.suspended
              /\ dev' = [dev EXCEPT ![cur] = Load(d, pre, flag)]
              /\ Goto("suspend")
              /\ NoFault /\ UNCHANGED <<proc, precommitted, reverted, ok>>
           \/ /\ pre # 0 /\ d.exists /\ ~d.suspended
              /\ Fault("preload")
              /\ \E cleared \in {FALSE, flag} :
                    dev' = [dev EXCEPT ![cur].inactive = IF cleared THEN 0 ELSE @]
              /\ SuspendFailed
              /\ UNCHANGED proc
           \/ /\ pre = 0
              /\ SuspendFailed
              /\ NoFault /\ UNCHANGED <<dev, proc>>
    /\ UNCHANGED <<committed, vg, cmd, tables>>

lv_suspend ==
    /\ pc = "suspend"
    /\ LET p == critical_section_inc(proc)
       IN  \/ /\ NoFault
              /\ dev' = [dev EXCEPT ![cur].suspended = TRUE]
              /\ proc' = inc_suspended(p, cur)
              /\ Suspended
              /\ UNCHANGED <<precommitted, reverted, ok>>
           \/ /\ Fault("suspend")
              /\ proc' = critical_section_dec(p)
              /\ SuspendFailed
              /\ UNCHANGED dev
    /\ UNCHANGED <<committed, vg, cmd, tables>>

\* A failed commit leaves the pre-committed copy on disk.
vg_commit ==
    /\ pc = "commit"
    /\ \/ /\ NoFault
          /\ committed' = precommitted[1]
          /\ precommitted' = <<>>
          /\ ok' = ok
          /\ CASE cmd.kind \in {"change", "raid", "rename"} -> Goto("resume")
               [] cmd.kind = "create"                       -> Goto("activate")
               [] cmd.kind = "remove"                       -> Return
       \/ /\ Fault("commit")
          /\ ok' = FALSE
          /\ IF cmd.kind \in {"change", "rename"} THEN Goto("resume") ELSE Return
          /\ UNCHANGED <<committed, precommitted>>
    /\ UNCHANGED <<dev, proc, vg, cmd, tables, reverted>>

\* After resume_lv or revert_lv of one LV, with result r.  lv_rename and
\* suspend_lvs go on to the next LV of their list and ignore the result.
Resumed(r) ==
    /\ ok' = IF cmd.kind = "rename" THEN ok ELSE ok /\ r
    /\ CASE cmd.kind \in {"change", "refresh"} -> NextLv
         [] cmd.kind = "raid"                  -> Return
         [] cmd.kind = "rename"                -> NextInList(pc, "exit", <<>>)

lv_resume ==
    /\ pc \in {"resume", "revert"}
    /\ LET d == dev[cur]
           cleared == [d EXCEPT !.inactive = IF pc = "revert" THEN 0 ELSE @]
           loaded == Load(d, committed[cur], pc = "revert")
       IN  \/ /\ ~d.suspended
              /\ proc' = critical_section_dec(proc)
              /\ NoFault /\ Resumed(TRUE) /\ UNCHANGED dev
           \/ /\ d.suspended
              /\ dev' = [dev EXCEPT ![cur] = Resume(loaded)]
              /\ proc' = critical_section_dec(dec_suspended(proc, cur))
              /\ NoFault /\ Resumed(TRUE)
           \/ /\ d.suspended
              /\ Fault("resume")
              /\ \E left \in {d, cleared, loaded} : dev' = [dev EXCEPT ![cur] = left]
              /\ Resumed(FALSE) /\ UNCHANGED proc
    /\ UNCHANGED <<committed, precommitted, vg, cmd, tables, reverted>>

\* What _lv_activate leaves when it fails: nothing done, a device without a
\* table, or a device with a table it could not be resumed with.
HalfActive(d) ==
    {d, [d EXCEPT !.exists = TRUE], Load(d, committed[cur], FALSE)}

\* deactivate_and_revert_new_lv: lvcreate goes on with the calls of a removal.
RemoveNewLv ==
    /\ cmd.kind = "create"
    /\ cmd' = [cmd EXCEPT !.kind = "remove"]
    /\ Goto("deactivate")

\* Nothing is done for an active device, unless its read-only mode is not the
\* one asked for; the mode depends on the metadata and on the configuration.
\* lvcreate then wipes the start of the new LV, which may fail too.
lv_activate ==
    /\ pc = "activate"
    /\ LET d == dev[cur]
           p == critical_section_inc(proc)
           q == IF d.suspended THEN dec_suspended(p, cur) ELSE p
           Activated == /\ dev' = [dev EXCEPT ![cur] = Resume(Load(d, committed[cur], FALSE))]
                        /\ proc' = critical_section_dec(q)
       IN  \/ /\ d.exists /\ ~d.suspended /\ d.live # 0
              /\ NoFault /\ Return /\ UNCHANGED <<dev, proc, cmd, ok>>
           \/ Activated /\ NoFault /\ Return /\ UNCHANGED <<cmd, ok>>
           \/ Activated /\ Fault("wipe") /\ RemoveNewLv /\ ok' = FALSE
           \/ /\ Fault("activate")
              /\ \E h \in HalfActive(d) : dev' = [dev EXCEPT ![cur] = h]
              /\ proc' = critical_section_dec(p)
              /\ ok' = FALSE
              /\ (Return /\ cmd' = cmd) \/ RemoveNewLv
    /\ UNCHANGED <<committed, precommitted, vg, tables, reverted>>

lv_deactivate ==
    /\ pc = "deactivate"
    /\ LET d == dev[cur]
           p == critical_section_inc(proc)
           q == IF d.suspended THEN dec_suspended(p, cur) ELSE p
       IN  \/ /\ dev' = [dev EXCEPT ![cur] = NoDev]
              /\ proc' = IF d.exists THEN critical_section_dec(q) ELSE proc
              /\ IF cmd.kind = "remove" THEN Goto("write") ELSE Return
              /\ NoFault /\ ok' = ok
           \/ /\ d.exists /\ Fault("deactivate")
              /\ proc' \in {proc, critical_section_dec(p)}
              /\ ok' = FALSE /\ Return /\ UNCHANGED dev
    /\ UNCHANGED <<committed, precommitted, vg, cmd, tables, reverted>>

----------------------------------------------------------------------------
(* Commands                                                                 *)

\* lvchange and vgchange --refresh take several LVs; lv_rename has a second
\* one when a virtual origin is renamed with its snapshot.
Lists(kind) ==
    {<<x>> : x \in LVs} \cup
    (IF kind \in {"change", "rename", "refresh"}
     THEN {<<x, y>> : x, y \in LVs} \ {<<x, x>> : x \in LVs} ELSE {})

MakesTables(kind) == kind \in {"change", "raid", "create"}

Start ==
    /\ pc = "idle" /\ commands < MaxCommands
    /\ \E k \in scenario.kinds : \E lvs \in Lists(k) :
         /\ \A i \in DOMAIN lvs : (committed[lvs[i]] = 0) <=> (k = "create")
         /\ MakesTables(k) => tables + Len(lvs) <= MaxTable
         /\ cmd' = [kind |-> k, lvs |-> lvs]
         /\ todo' = lvs
         /\ pc' = First(k)
    /\ vg' = committed
    /\ commands' = commands + 1
    /\ UNCHANGED <<committed, precommitted, dev, proc, ok, faults, tables, reverted>>

\* The process is gone: its counters and its copy of the metadata with it.
Gone ==
    /\ pc' = "idle" /\ cmd' = Idle /\ todo' = <<>> /\ ok' = TRUE
    /\ proc' = FreshProc
    /\ vg' = committed
    /\ UNCHANGED <<committed, precommitted, dev, tables, reverted, commands>>

Exit == pc = "exit" /\ NoFault /\ Gone

Crash == pc \notin {"idle", "exit"} /\ Fault("crash") /\ Gone

\* No command left to run.
Done == pc = "idle" /\ UNCHANGED vars

Call ==
    \/ (vg_write \/ lv_preload \/ lv_suspend \/ vg_commit \/ lv_resume \/
        lv_activate \/ lv_deactivate) /\ UNCHANGED commands
    \/ Exit

Init ==
    /\ scenario \in Scenarios
    /\ committed \in [LVs -> {0, 1}] /\ \E x \in LVs : committed[x] = 1
    /\ precommitted = <<>>
    /\ \E active \in SUBSET {x \in LVs : committed[x] = 1} :
         dev = [x \in LVs |-> IF x \in active
                              THEN [NoDev EXCEPT !.exists = TRUE, !.live = 1]
                              ELSE NoDev]
    /\ proc = FreshProc /\ vg = committed
    /\ cmd = Idle /\ pc = "idle" /\ todo = <<>> /\ ok = TRUE
    /\ faults = 0 /\ tables = 1 /\ reverted = {} /\ commands = 0

Next == (Call \/ Start \/ Crash \/ Done) /\ UNCHANGED scenario

Spec == Init /\ [][Next]_vars

\* A running command goes on to its next call.
FairSpec == Spec /\ WF_vars(Call /\ UNCHANGED scenario)

----------------------------------------------------------------------------
(* Properties                                                               *)

Tables == 0..MaxTable
Metadata == [LVs -> Tables]

\* Every variable has its type: at most one pre-committed copy, tables within
\* the bound, a device record per LV, the counters of one process.
TypeOK ==
    /\ committed \in Metadata /\ vg \in Metadata
    /\ precommitted \in {<<>>} \cup {<<m>> : m \in Metadata}
    /\ dev \in [LVs -> [exists : BOOLEAN, live : Tables, inactive : Tables,
                        suspended : BOOLEAN]]
    /\ proc \in [suspended : 0..Cardinality(LVs), critical : BOOLEAN,
                 mem_locked : BOOLEAN, mine : SUBSET LVs, miscounted : BOOLEAN]
    /\ pc \in {"idle", "write", "preload", "suspend", "commit", "resume",
               "revert", "activate", "deactivate", "exit"}
    /\ ok \in BOOLEAN /\ tables \in Tables /\ reverted \subseteq Tables

\* Scenarios in which no process leaves a device suspended behind: no crash,
\* no failing resume ioctl, and none of raid_manip.c's call sites, which
\* return without resuming when vg_commit fails.
Tidy == /\ scenario.faults \cap {"crash", "resume"} = {}
        /\ "raid" \notin scenario.kinds

\* While a device this process suspended is still suspended, the process is in
\* its critical section with memory locked (critical_section_inc before the
\* suspend ioctl, critical_section_dec only once libdm counts none suspended):
\* it must not page, scan or log to a suspended device, on no error path, after
\* no failed resume, and whatever other processes left behind.  The exception
\* is dec_suspended's: after it has counted down for a device that a killed
\* process had suspended, the count is too low and the section left too early.
CriticalWhileSuspended ==
    proc.mine # {} /\ ~proc.miscounted => proc.critical /\ proc.mem_locked

\* A process that is in its critical section has a reason to be: vg_write's
\* check "Writing metadata in critical section" fires only when the device of
\* an LV that the command has already processed is in fact still suspended,
\* and never before the first LV or after one whose resume has succeeded.
\* (It does fire after a failed resume: _lv_resume then returns without
\* critical_section_dec and lvchange goes on to its next LV.)
CriticalOnlyWhileSuspended ==
    pc = "write" /\ proc.critical =>
        \E k \in DOMAIN cmd.lvs : /\ dev[cmd.lvs[k]].suspended
                                  /\ k <= Len(cmd.lvs) - Len(todo)

\* A metadata update that reports success has taken effect: each of its LVs
\* that is active runs the table that is now committed, not suspended, with
\* nothing left in the inactive slot - whatever earlier commands failed at and
\* left in the inactive slot or in the pre-committed copy.
UpdateTakesEffect ==
    (Tidy /\ pc = "exit" /\ ok /\ cmd.kind \in {"change", "rename"}) =>
        \A i \in DOMAIN cmd.lvs : LET d == dev[cmd.lvs[i]] IN
            d.exists => /\ d.live = committed[cmd.lvs[i]]
                        /\ d.inactive = 0 /\ ~d.suspended

\* There is no kernel device without an LV in the committed metadata: lvcreate
\* commits before it activates and lvremove deactivates before it writes, and
\* lvcreate's own clean-up of a new LV that is no snapshot keeps that order, in
\* spite of any fault or crash.
DeviceHasLv == \A x \in LVs : dev[x].exists => committed[x] # 0

\* A suspended device does not stay suspended: every error path of the callers
\* that handle errors resumes what it suspended.
SuspendedIsResumed ==
    Tidy => \A x \in LVs : dev[x].suspended ~> ~dev[x].suspended

\* lvchange --refresh, when it reports success, leaves an active LV running the
\* committed table, as its manual page promises.
RefreshReloads ==
    (pc = "exit" /\ ok /\ cmd.kind = "refresh") =>
        \A i \in DOMAIN cmd.lvs : LET d == dev[cmd.lvs[i]] IN
            d.exists => d.live = committed[cmd.lvs[i]]

\* A change taken back with vg_revert ("Don't commit any pending changes") is
\* not committed later.
RevertIsFinal == \A x \in LVs : committed[x] \notin reverted
=============================================================================
