--------------------------- MODULE LvUpdateProofs ---------------------------
(***************************************************************************)
(* Proofs about LvUpdate, for any set of logical volumes, any number of     *)
(* commands and tables and any scenario of faults and crashes.              *)
(***************************************************************************)
EXTENDS LvUpdate, FiniteSetTheorems, TLAPS

Device == [exists : BOOLEAN, live : Nat, inactive : Nat, suspended : BOOLEAN]

NonEmptyLists == Seq(LVs) \ {<<>>}

\* The shape of the state as far as the argument needs it.
Shape ==
    /\ scenario \in Scenarios
    /\ committed \in [LVs -> Nat] /\ vg \in [LVs -> Nat]
    /\ precommitted \in {<<>>} \cup {<<m>> : m \in [LVs -> Nat]}
    /\ dev \in [LVs -> Device]
    /\ tables \in Nat
    /\ pc \in {"idle", "exit"} \/ (todo \in NonEmptyLists /\ cmd.lvs \in NonEmptyLists)
    /\ cmd \in [kind : Kinds \cup {"none"}, lvs : Seq(LVs)]
    /\ pc \in {"idle", "write", "preload", "suspend", "commit", "resume",
               "revert", "activate", "deactivate", "exit"}

\* Which commands make which calls.
Program ==
    /\ pc = "write" => cmd.kind \in {"change", "raid", "rename", "create", "remove"}
    /\ pc = "commit" => cmd.kind \in {"change", "raid", "rename", "create", "remove"}
    /\ pc \in {"preload", "suspend"} => cmd.kind \in {"change", "raid", "rename", "refresh"}
    /\ pc \in {"resume", "revert"} => cmd.kind \in {"change", "raid", "rename", "refresh"}
    /\ pc = "activate" => cmd.kind \in {"activate", "create"}
    /\ pc = "deactivate" => cmd.kind \in {"deactivate", "remove"}

\* What vg_commit will commit is what the command has in memory, and an LV that
\* is about to be activated is in it.
Pending ==
    /\ pc = "commit" => precommitted = <<vg>>
    /\ pc \in {"preload", "suspend"} /\ cmd.kind # "refresh" => precommitted = <<vg>>
    /\ pc = "commit" /\ cmd.kind = "create" => vg[cur] # 0
    /\ pc = "activate" => committed[cur] # 0 /\ vg[cur] # 0
    /\ pc = "write" /\ cmd.kind = "remove" => ~dev[cur].exists
    /\ pc = "suspend" => dev[cur].exists

\* A device has its LV on disk and in memory.
Known(x) == dev[x].exists => committed[x] # 0 /\ vg[x] # 0

Devices == \A x \in LVs : Known(x) /\ (dev[x].suspended => dev[x].exists)

IInv == Shape /\ Program /\ Pending /\ Devices

----------------------------------------------------------------------------
(* Lemmas                                                                   *)

\* The list of LVs a command works through: its head and its tail.
LEMMA ListFacts ==
    ASSUME NEW s \in NonEmptyLists
    PROVE  /\ Head(s) \in LVs
           /\ Len(s) > 1 => Tail(s) \in NonEmptyLists
           /\ Reverse(s) \in NonEmptyLists
<1>1. s \in Seq(LVs) /\ s # <<>> /\ Len(s) \in Nat
  BY DEF NonEmptyLists
<1>2. Head(s) \in LVs /\ Tail(s) \in Seq(LVs) /\ Len(Tail(s)) = Len(s) - 1
  BY <1>1
<1>3. Len(s) > 1 => Tail(s) # <<>>
  BY <1>1, <1>2
<1>4. Len(s) # 0
  BY <1>1
<1>5. Reverse(s) \in Seq(LVs) /\ Len(Reverse(s)) = Len(s)
  <2>1. \A i \in 1..Len(s) : s[(Len(s) - i) + 1] \in LVs
    BY <1>1
  <2> QED BY <2>1, <1>1 DEF Reverse
<1> QED BY <1>1, <1>2, <1>3, <1>4, <1>5, Zenon DEF NonEmptyLists

\* Loading a table makes the device exist and does not suspend or resume it.
LEMMA LoadFacts ==
    ASSUME NEW d \in Device, NEW t \in Nat, NEW clear \in BOOLEAN
    PROVE  /\ Load(d, t, clear) \in Device
           /\ Load(d, t, clear).exists
           /\ Load(d, t, clear).suspended = d.suspended
BY ZenonT(30) DEF Load, Device

\* Resuming neither makes nor removes the device.
LEMMA ResumeFacts ==
    ASSUME NEW d \in Device
    PROVE  /\ Resume(d) \in Device
           /\ Resume(d).exists = d.exists
           /\ ~Resume(d).suspended
BY ZenonT(30) DEF Resume, Device

\* A device record of one LV is replaced, by one that keeps what Devices says.
LEMMA ReplaceDevice ==
    ASSUME Shape, Devices, NEW lv \in LVs, NEW d \in Device,
           dev' = [dev EXCEPT ![lv] = d],
           d.exists => committed[lv] # 0 /\ vg[lv] # 0,
           d.suspended => d.exists,
           committed' = committed, vg' = vg
    PROVE  dev' \in [LVs -> Device] /\ Devices'
BY DEF Shape, Devices, Known

\* What the control operators leave: a list to work on, unless the command is
\* over.
LEMMA ControlFacts ==
    ASSUME Shape, pc \notin {"idle", "exit"}
    PROVE  /\ cur \in LVs /\ dev[cur] \in Device
           /\ NextLv => \/ pc' = First(cmd.kind) /\ todo' \in NonEmptyLists
                        \/ pc' = "exit"
           /\ \A phase, then : \A lvs \in NonEmptyLists :
                 NextInList(phase, then, lvs) => /\ pc' \in {phase, then}
                                                 /\ todo' \in NonEmptyLists
           /\ \A phase : NextInList(phase, "exit", <<>>) =>
                 \/ pc' = phase /\ todo' \in NonEmptyLists
                 \/ pc' = "exit"
           /\ \A label : Goto(label) => pc' = label /\ todo' = todo
           /\ Return => pc' = "exit"
<1>1. todo \in NonEmptyLists
  BY Zenon DEF Shape
<1>2. /\ Head(todo) \in LVs
      /\ Len(todo) > 1 => Tail(todo) \in NonEmptyLists
  BY <1>1, ListFacts, Zenon
<1>3. cur \in LVs
  BY <1>2, Zenon DEF cur
<1>4. dev[cur] \in Device
  BY <1>3, Zenon DEF Shape
<1>5. NextLv => \/ pc' = First(cmd.kind) /\ todo' \in NonEmptyLists
                \/ pc' = "exit"
  BY <1>2, Zenon DEF NextLv
<1>6. \A phase, then : \A lvs \in NonEmptyLists :
         NextInList(phase, then, lvs) => /\ pc' \in {phase, then}
                                         /\ todo' \in NonEmptyLists
  BY <1>2, ZenonT(30) DEF NextInList
<1>7. \A phase : NextInList(phase, "exit", <<>>) =>
                 \/ pc' = phase /\ todo' \in NonEmptyLists
                 \/ pc' = "exit"
  BY <1>2, ZenonT(30) DEF NextInList
<1>8. \A label : Goto(label) => pc' = label /\ todo' = todo
  BY Zenon DEF Goto
<1>9. Return => pc' = "exit"
  BY Zenon DEF Return
<1> QED BY <1>3, <1>4, <1>5, <1>6, <1>7, <1>8, <1>9, SMTT(30)

\* After a suspend_lv that succeeded the command commits, resumes, or goes on
\* with its list.
LEMMA SuspendedFacts ==
    ASSUME Shape, Program, pc \in {"preload", "suspend"}, Suspended
    PROVE  /\ todo' \in NonEmptyLists
           /\ \/ pc' = "commit" /\ cmd.kind \in {"change", "raid", "rename"}
              \/ pc' = "resume" /\ cmd.kind = "refresh"
              \/ pc' = "preload" /\ cmd.kind = "rename"
<1>1. cmd.kind \in {"change", "raid", "rename", "refresh"}
  BY Zenon DEF Program
<1>2. todo \in NonEmptyLists /\ cmd.lvs \in NonEmptyLists
  BY Zenon DEF Shape
<1>3. Reverse(cmd.lvs) \in NonEmptyLists
  BY <1>2, ListFacts, Zenon
<1>4. CASE cmd.kind \in {"change", "raid"}
  BY <1>4, <1>2, ZenonT(30) DEF Suspended, Goto
<1>5. CASE cmd.kind = "refresh"
  BY <1>5, <1>2, Zenon DEF Suspended, Goto
<1>6. CASE cmd.kind = "rename"
  <2>1. NextInList("preload", "commit", Reverse(cmd.lvs))
    BY <1>6, Zenon DEF Suspended
  <2> QED BY <2>1, <1>3, <1>6, ControlFacts, Zenon
<1> QED BY <1>1, <1>4, <1>5, <1>6, Zenon

\* After a suspend_lv that failed the metadata is taken back or left, and the
\* command goes on with the next LV, reverts its list, or is over.
LEMMA SuspendFailedFacts ==
    ASSUME Shape, Program, pc \in {"preload", "suspend"}, SuspendFailed
    PROVE  /\ precommitted' \in {<<>>, precommitted}
           /\ \/ pc' = "exit"
              \/ /\ todo' \in NonEmptyLists
                 /\ \/ pc' = "write" /\ cmd.kind = "change"
                    \/ pc' = "preload" /\ cmd.kind = "refresh"
                    \/ pc' = "revert" /\ cmd.kind = "rename"
<1>1. cmd.kind \in {"change", "raid", "rename", "refresh"}
  BY Zenon DEF Program
<1>2. todo \in NonEmptyLists /\ cmd.lvs \in NonEmptyLists
  BY Zenon DEF Shape
<1>0. vg_revert => precommitted' \in {<<>>, precommitted}
  BY Zenon DEF vg_revert, Reverted
<1>3. CASE cmd.kind = "change"
  <2>1. vg_revert /\ NextLv
    BY <1>3, Zenon DEF SuspendFailed
  <2>2. First(cmd.kind) = "write"
    BY <1>3, Zenon DEF First
  <2> QED BY <2>1, <2>2, <1>0, <1>3, ControlFacts, Zenon
<1>4. CASE cmd.kind = "raid"
  BY <1>4, Zenon DEF SuspendFailed, Return
<1>5. CASE cmd.kind = "refresh"
  <2>1. precommitted' = precommitted /\ NextLv
    BY <1>5, Zenon DEF SuspendFailed
  <2>2. First(cmd.kind) = "preload"
    BY <1>5, Zenon DEF First
  <2> QED BY <2>1, <2>2, <1>5, ControlFacts, Zenon
<1>6. CASE cmd.kind = "rename"
  BY <1>6, <1>0, <1>2, Zenon DEF SuspendFailed
<1> QED BY <1>1, <1>3, <1>4, <1>5, <1>6, Zenon

\* After resume_lv or revert_lv of one LV.
LEMMA ResumedFacts ==
    ASSUME Shape, Program, pc \in {"resume", "revert"}, NEW r, Resumed(r)
    PROVE  \/ pc' = "exit"
           \/ /\ todo' \in NonEmptyLists
              /\ \/ pc' = "write" /\ cmd.kind = "change"
                 \/ pc' = "preload" /\ cmd.kind = "refresh"
                 \/ pc' = pc /\ cmd.kind = "rename"
<1>1. cmd.kind \in {"change", "raid", "rename", "refresh"}
  BY Zenon DEF Program
<1>2. CASE cmd.kind \in {"change", "refresh"}
  <2>1. NextLv
    BY <1>2, ZenonT(30) DEF Resumed
  <2>2. \/ cmd.kind = "change" /\ First(cmd.kind) = "write"
        \/ cmd.kind = "refresh" /\ First(cmd.kind) = "preload"
    BY <1>2, Zenon DEF First
  <2> QED BY <2>1, <2>2, ControlFacts, Zenon
<1>3. CASE cmd.kind = "raid"
  BY <1>3, Zenon DEF Resumed, Return
<1>4. CASE cmd.kind = "rename"
  <2>1. NextInList(pc, "exit", <<>>)
    BY <1>4, Zenon DEF Resumed
  <2> QED BY <2>1, <1>4, ControlFacts, Zenon
<1> QED BY <1>1, <1>2, <1>3, <1>4, Zenon

----------------------------------------------------------------------------
(* Each call preserves the invariant                                        *)

\* vg_write puts into memory and on disk only metadata that knows every device:
\* a removal has deactivated its LV before.
LEMMA WriteStep ==
    ASSUME IInv, vg_write, scenario' = scenario
    PROVE  IInv'
<1> DEFINE new == Changed(cmd.kind, cur)
<1> USE DEF IInv
<1>1. pc = "write" /\ cmd.kind \in {"change", "raid", "rename", "create", "remove"}
  BY Zenon DEF vg_write, Program
<1>2. cur \in LVs /\ todo \in NonEmptyLists /\ cmd.lvs \in NonEmptyLists
  BY <1>1, ControlFacts, Zenon DEF Shape
<1>3. /\ vg' = new /\ committed' = committed /\ dev' = dev /\ cmd' = cmd
      /\ tables' = IF new[cur] > tables THEN new[cur] ELSE tables
  BY Zenon DEF vg_write
<1>4. /\ new \in [LVs -> Nat]
      /\ \A x \in LVs : dev[x].exists => new[x] # 0
      /\ cmd.kind = "create" => new[cur] # 0
  <2>1. CASE cmd.kind \in {"change", "raid", "create"}
    <3>1. new = [vg EXCEPT ![cur] = tables + 1]
      BY <2>1, Zenon DEF Changed
    <3>2. tables + 1 \in Nat /\ tables + 1 # 0
      BY DEF Shape
    <3> HIDE DEF new
    <3> QED BY <3>1, <3>2, <1>2, Zenon DEF Shape, Devices, Known
  <2>2. CASE cmd.kind = "rename"
    <3>1. new = vg
      BY <2>2, Zenon DEF Changed
    <3> HIDE DEF new
    <3> QED BY <3>1, <2>2, Zenon DEF Shape, Devices, Known
  <2>3. CASE cmd.kind = "remove"
    <3>1. new = [vg EXCEPT ![cur] = 0]
      BY <2>3, Zenon DEF Changed
    <3>2. ~dev[cur].exists
      BY <2>3, <1>1, Zenon DEF Pending
    <3> HIDE DEF new
    <3> QED BY <3>1, <3>2, <2>3, <1>2, Zenon DEF Shape, Devices, Known
  <2> QED BY <2>1, <2>2, <2>3, <1>1, Zenon
<1>5. tables' \in Nat
  <2> HIDE DEF new
  <2> QED BY <1>2, <1>3, <1>4, Zenon DEF Shape
<1>6. Devices'
  <2> HIDE DEF new
  <2> QED BY <1>3, <1>4, Zenon DEF Devices, Known
<1>7. \/ /\ precommitted' = <<new>>
         /\ todo' \in NonEmptyLists
         /\ \/ pc' = "preload" /\ cmd.kind \in {"change", "raid", "rename"}
            \/ pc' = "commit" /\ cmd.kind \in {"create", "remove"} /\ todo' = todo
      \/ /\ precommitted' \in {<<>>, <<new>>, precommitted}
         /\ \/ pc' = "exit"
            \/ pc' = "write" /\ cmd.kind = "change" /\ todo' \in NonEmptyLists
  <2>1. First("change") = "write"
    BY Zenon DEF First
  <2>2. NextLv /\ cmd.kind = "change" =>
           \/ pc' = "exit"
           \/ pc' = "write" /\ todo' \in NonEmptyLists
    BY <2>1, <1>1, ControlFacts, Zenon
  <2>3. CASE /\ precommitted' = <<new>>
             /\ IF cmd.kind \in {"change", "raid"} THEN Goto("preload")
                ELSE IF cmd.kind = "rename"
                     THEN pc' = "preload" /\ todo' = cmd.lvs
                     ELSE Goto("commit")
    <3> HIDE DEF new
    <3> QED BY <2>3, <1>1, <1>2, Zenon DEF Goto
  <2>4. CASE /\ precommitted' \in {precommitted} \cup Reverted(<<new>>)
             /\ IF cmd.kind = "change" THEN NextLv ELSE Return
    <3> HIDE DEF new
    <3>1. precommitted' \in {<<>>, <<new>>, precommitted}
      BY <2>4, Zenon DEF Reverted
    <3> QED BY <3>1, <2>4, <2>2, <1>1, Zenon DEF Return
  <2> QED BY <2>3, <2>4, Zenon DEF vg_write
<1> HIDE DEF new
<1>8. Shape'
  BY <1>2, <1>3, <1>4, <1>5, <1>7, Zenon DEF Shape
<1>9. Program'
  BY <1>3, <1>7, Zenon DEF Program
<1>10. Pending'
  <2>1. cmd.kind = "create" /\ todo' = todo => vg'[cur'] # 0
    BY <1>3, <1>4, Zenon DEF cur
  <2> QED BY <2>1, <1>3, <1>7, Zenon DEF Pending
<1> QED BY <1>6, <1>8, <1>9, <1>10, Zenon

\* The preload of _lv_suspend loads a table only into a device that exists.
LEMMA PreloadStep ==
    ASSUME IInv, lv_preload, scenario' = scenario
    PROVE  IInv'
<1> USE DEF IInv
<1>1. pc = "preload" /\ cmd.kind \in {"change", "raid", "rename", "refresh"}
  BY Zenon DEF lv_preload, Program
<1>2. cur \in LVs /\ dev[cur] \in Device /\ cmd.lvs \in NonEmptyLists
      /\ todo \in NonEmptyLists
  BY <1>1, ControlFacts, Zenon DEF Shape
<1>3. committed' = committed /\ vg' = vg /\ cmd' = cmd /\ tables' = tables
  BY Zenon DEF lv_preload
<1> DEFINE pre == IF precommitted = <<>> THEN committed[cur] ELSE precommitted[1][cur]
           flag == precommitted # <<>>
<1>4. pre \in Nat /\ flag \in BOOLEAN
  <2>1. CASE precommitted = <<>>
    BY <2>1, <1>2, Zenon DEF Shape
  <2>2. CASE precommitted # <<>>
    <3>1. PICK m \in [LVs -> Nat] : precommitted = <<m>>
      BY <2>2, Zenon DEF Shape
    <3> QED BY <3>1, <1>2, Zenon
  <2> QED BY <2>1, <2>2, Zenon
<1>5. \/ dev' = dev
      \/ dev[cur].exists /\ dev' = [dev EXCEPT ![cur] = Load(dev[cur], pre, flag)]
      \/ \E cleared \in {FALSE, flag} :
            dev' = [dev EXCEPT ![cur].inactive = IF cleared THEN 0 ELSE @]
  BY Zenon DEF lv_preload
<1>7. \/ Suspended /\ precommitted' = precommitted
      \/ /\ Goto("suspend") /\ precommitted' = precommitted
         /\ dev' = [dev EXCEPT ![cur] = Load(dev[cur], pre, flag)]
      \/ SuspendFailed
  BY Zenon DEF lv_preload
<1> HIDE DEF pre, flag
<1>6. dev' \in [LVs -> Device] /\ Devices'
  <2>1. CASE dev' = dev
    BY <2>1, <1>3, Zenon DEF Devices, Known, Shape
  <2>2. CASE dev[cur].exists /\ dev' = [dev EXCEPT ![cur] = Load(dev[cur], pre, flag)]
    <3> DEFINE d == Load(dev[cur], pre, flag)
    <3>1. d \in Device /\ d.exists
      BY <1>2, <1>4, LoadFacts, Zenon
    <3>2. committed[cur] # 0 /\ vg[cur] # 0
      BY <2>2, <1>2, Zenon DEF Devices, Known
    <3>3. dev' = [dev EXCEPT ![cur] = d]
      BY <2>2, Zenon
    <3> HIDE DEF d
    <3> QED BY <3>1, <3>2, <3>3, <1>2, <1>3, ReplaceDevice, ZenonT(30)
  <2>3. ASSUME NEW cleared \in {FALSE, flag},
               dev' = [dev EXCEPT ![cur].inactive = IF cleared THEN 0 ELSE @]
        PROVE  dev' \in [LVs -> Device] /\ Devices'
    <3> DEFINE d == [dev[cur] EXCEPT !.inactive = IF cleared THEN 0 ELSE @]
    <3>1. d \in Device /\ d.exists = dev[cur].exists /\ d.suspended = dev[cur].suspended
      BY <1>2, Zenon DEF Device
    <3>2. /\ d.exists => committed[cur] # 0 /\ vg[cur] # 0
          /\ d.suspended => d.exists
      BY <3>1, <1>2, Zenon DEF Devices, Known
    <3>3. dev' = [dev EXCEPT ![cur] = d]
      BY <2>3, Zenon
    <3> HIDE DEF d
    <3> QED BY <3>1, <3>2, <3>3, <1>2, <1>3, ReplaceDevice, ZenonT(30)
  <2> QED BY <2>1, <2>2, <2>3, <1>5, Zenon
<1>8. CASE Suspended /\ precommitted' = precommitted
  <2>1. /\ todo' \in NonEmptyLists
        /\ \/ pc' = "commit" /\ cmd.kind \in {"change", "raid", "rename"}
           \/ pc' = "resume" /\ cmd.kind = "refresh"
           \/ pc' = "preload" /\ cmd.kind = "rename"
    BY <1>8, <1>1, SuspendedFacts, SMTT(30)
  <2> QED BY <2>1, <1>8, <1>1, <1>2, <1>3, <1>6, SMTT(30) DEF Shape, Program, Pending
<1>9. CASE /\ Goto("suspend") /\ precommitted' = precommitted
           /\ dev' = [dev EXCEPT ![cur] = Load(dev[cur], pre, flag)]
  <2>1. Load(dev[cur], pre, flag).exists
    BY <1>2, <1>4, LoadFacts, Zenon
  <2>2. dev'[cur'].exists
    BY <2>1, <1>9, <1>2, SMTT(30) DEF Shape, Goto, cur
  <2> QED BY <2>2, <1>9, <1>1, <1>2, <1>3, <1>6, SMTT(30) DEF Shape, Program, Pending, Goto
<1>10. CASE SuspendFailed
  <2>1. /\ precommitted' \in {<<>>, precommitted}
        /\ \/ pc' = "exit"
           \/ /\ todo' \in NonEmptyLists
              /\ \/ pc' = "write" /\ cmd.kind = "change"
                 \/ pc' = "preload" /\ cmd.kind = "refresh"
                 \/ pc' = "revert" /\ cmd.kind = "rename"
    BY <1>10, <1>1, SuspendFailedFacts, Zenon
  <2> QED BY <2>1, <1>1, <1>2, <1>3, <1>6, SMTT(30) DEF Shape, Program, Pending
<1> QED BY <1>7, <1>8, <1>9, <1>10, Zenon

\* _lv_suspend suspends a device that its preload found to exist.
LEMMA SuspendStep ==
    ASSUME IInv, lv_suspend, scenario' = scenario
    PROVE  IInv'
<1> USE DEF IInv
<1>1. pc = "suspend" /\ cmd.kind \in {"change", "raid", "rename", "refresh"}
  BY Zenon DEF lv_suspend, Program
<1>2. cur \in LVs /\ dev[cur] \in Device /\ cmd.lvs \in NonEmptyLists
  BY <1>1, ControlFacts, Zenon DEF Shape
<1>3. committed' = committed /\ vg' = vg /\ cmd' = cmd /\ tables' = tables
  BY Zenon DEF lv_suspend
<1>4. dev[cur].exists
  BY <1>1, Zenon DEF Pending
<1>5. dev' = dev \/ dev' = [dev EXCEPT ![cur].suspended = TRUE]
  BY Zenon DEF lv_suspend
<1>6. dev' \in [LVs -> Device] /\ Devices'
  <2>1. CASE dev' = dev
    BY <2>1, <1>3, Zenon DEF Devices, Known, Shape
  <2>2. CASE dev' = [dev EXCEPT ![cur].suspended = TRUE]
    <3> DEFINE d == [dev[cur] EXCEPT !.suspended = TRUE]
    <3>1. d \in Device /\ d.exists
      BY <1>2, <1>4, ZenonT(30) DEF Device
    <3>2. committed[cur] # 0 /\ vg[cur] # 0
      BY <1>2, <1>4, Zenon DEF Devices, Known
    <3>3. dev' = [dev EXCEPT ![cur] = d]
      BY <2>2, Zenon
    <3> HIDE DEF d
    <3> QED BY <3>1, <3>2, <3>3, <1>2, <1>3, ReplaceDevice, ZenonT(30)
  <2> QED BY <2>1, <2>2, <1>5, Zenon
<1>7. \/ Suspended /\ precommitted' = precommitted
      \/ SuspendFailed
  BY Zenon DEF lv_suspend
<1>8. CASE Suspended /\ precommitted' = precommitted
  <2>1. /\ todo' \in NonEmptyLists
        /\ \/ pc' = "commit" /\ cmd.kind \in {"change", "raid", "rename"}
           \/ pc' = "resume" /\ cmd.kind = "refresh"
           \/ pc' = "preload" /\ cmd.kind = "rename"
    BY <1>8, <1>1, SuspendedFacts, Zenon
  <2> QED BY <2>1, <1>8, <1>1, <1>2, <1>3, <1>6, SMTT(30) DEF Shape, Program, Pending
<1>9. CASE SuspendFailed
  <2>1. /\ precommitted' \in {<<>>, precommitted}
        /\ \/ pc' = "exit"
           \/ /\ todo' \in NonEmptyLists
              /\ \/ pc' = "write" /\ cmd.kind = "change"
                 \/ pc' = "preload" /\ cmd.kind = "refresh"
                 \/ pc' = "revert" /\ cmd.kind = "rename"
    BY <1>9, <1>1, SuspendFailedFacts, Zenon
  <2> QED BY <2>1, <1>1, <1>2, <1>3, <1>6, Zenon DEF Shape, Program, Pending
<1> QED BY <1>7, <1>8, <1>9, Zenon

\* vg_commit commits the metadata in memory, which knows every device.
LEMMA CommitStep ==
    ASSUME IInv, vg_commit, scenario' = scenario
    PROVE  IInv'
<1> USE DEF IInv
<1>1. pc = "commit" /\ cmd.kind \in {"change", "raid", "rename", "create", "remove"}
      /\ precommitted = <<vg>>
  BY Zenon DEF vg_commit, Program, Pending
<1>2. cur \in LVs /\ todo \in NonEmptyLists /\ cmd.lvs \in NonEmptyLists
  BY <1>1, ControlFacts, Zenon DEF Shape
<1>3. dev' = dev /\ vg' = vg /\ cmd' = cmd /\ tables' = tables
  BY Zenon DEF vg_commit
<1>4. \/ /\ committed' = vg /\ precommitted' = <<>>
         /\ \/ pc' = "exit"
            \/ pc' = "resume" /\ todo' = todo /\ cmd.kind \in {"change", "raid", "rename"}
            \/ pc' = "activate" /\ todo' = todo /\ cmd.kind = "create"
      \/ /\ committed' = committed /\ precommitted' = precommitted
         /\ \/ pc' = "exit"
            \/ pc' = "resume" /\ todo' = todo /\ cmd.kind \in {"change", "rename"}
  BY <1>1, ZenonT(30) DEF vg_commit, Goto, Return
<1>5. cmd.kind = "create" => vg[cur] # 0
  BY <1>1, Zenon DEF Pending
<1>6. Shape'
  BY <1>1, <1>2, <1>3, <1>4, Zenon DEF Shape
<1>7. Program'
  BY <1>3, <1>4, Zenon DEF Program
<1>8. Pending'
  <2>1. cmd.kind = "create" /\ todo' = todo => vg'[cur'] # 0
    BY <1>3, <1>5, Zenon DEF cur
  <2> QED BY <2>1, <1>3, <1>4, Zenon DEF Pending
<1>9. Devices'
  BY <1>3, <1>4, Zenon DEF Devices, Known
<1> QED BY <1>6, <1>7, <1>8, <1>9, Zenon

\* _lv_resume touches only a device that is suspended, hence exists.
LEMMA ResumeStep ==
    ASSUME IInv, lv_resume, scenario' = scenario
    PROVE  IInv'
<1> USE DEF IInv
<1>1. pc \in {"resume", "revert"} /\ cmd.kind \in {"change", "raid", "rename", "refresh"}
  BY Zenon DEF lv_resume, Program
<1>2. cur \in LVs /\ dev[cur] \in Device /\ cmd.lvs \in NonEmptyLists
  BY <1>1, ControlFacts, Zenon DEF Shape
<1>3. /\ committed' = committed /\ vg' = vg /\ cmd' = cmd /\ tables' = tables
      /\ precommitted' = precommitted
  BY Zenon DEF lv_resume
<1> DEFINE loaded == Load(dev[cur], committed[cur], pc = "revert")
<1>4. /\ loaded \in Device /\ loaded.exists
      /\ Resume(loaded) \in Device /\ ~Resume(loaded).suspended
  <2>1. committed[cur] \in Nat /\ (pc = "revert") \in BOOLEAN
    BY <1>2, Zenon DEF Shape
  <2>2. loaded \in Device /\ loaded.exists
    BY <2>1, <1>2, LoadFacts, ZenonT(30)
  <2> HIDE DEF loaded
  <2> QED BY <2>2, ResumeFacts, Zenon
<1> DEFINE cleared == [dev[cur] EXCEPT !.inactive = IF pc = "revert" THEN 0 ELSE @]
<1>a. cleared \in Device /\ cleared.exists = dev[cur].exists
  BY <1>2, ZenonT(30) DEF Device
<1>5. \/ dev' = dev
      \/ /\ dev[cur].suspended
         /\ \E d \in {dev[cur], cleared, loaded, Resume(loaded)} : dev' = [dev EXCEPT ![cur] = d]
  BY ZenonT(30) DEF lv_resume
<1> HIDE DEF loaded, cleared
<1>6. dev' \in [LVs -> Device] /\ Devices'
  <2>1. CASE dev' = dev
    BY <2>1, <1>3, Zenon DEF Devices, Known, Shape
  <2>2. ASSUME dev[cur].suspended, NEW d \in {dev[cur], cleared, loaded, Resume(loaded)},
               dev' = [dev EXCEPT ![cur] = d]
        PROVE  dev' \in [LVs -> Device] /\ Devices'
    <3>1. dev[cur].exists /\ committed[cur] # 0 /\ vg[cur] # 0
      BY <2>2, <1>2, Zenon DEF Devices, Known
    <3>2. d \in Device /\ (d.suspended => d.exists)
      BY <3>1, <1>2, <1>4, <1>a, Zenon
    <3> QED BY <2>2, <3>1, <3>2, <1>2, <1>3, ReplaceDevice, ZenonT(30)
  <2> QED BY <2>1, <2>2, <1>5, Zenon
<1>7. Resumed(TRUE) \/ Resumed(FALSE)
  BY ZenonT(30) DEF lv_resume
<1>8. \/ pc' = "exit"
      \/ /\ todo' \in NonEmptyLists
         /\ \/ pc' = "write" /\ cmd.kind = "change"
            \/ pc' = "preload" /\ cmd.kind = "refresh"
            \/ pc' = pc /\ cmd.kind = "rename"
  BY <1>7, <1>1, ResumedFacts, ZenonT(30)
<1> QED BY <1>1, <1>2, <1>3, <1>6, <1>8, SMTT(30) DEF Shape, Program, Pending

\* _lv_activate makes a device only for an LV that is committed.
LEMMA ActivateStep ==
    ASSUME IInv, lv_activate, scenario' = scenario
    PROVE  IInv'
<1> USE DEF IInv
<1>1. pc = "activate" /\ cmd.kind \in {"activate", "create"}
      /\ committed[cur] # 0 /\ vg[cur] # 0
  BY Zenon DEF lv_activate, Program, Pending
<1>2. cur \in LVs /\ dev[cur] \in Device /\ todo \in NonEmptyLists
      /\ cmd.lvs \in NonEmptyLists
  BY <1>1, ControlFacts, Zenon DEF Shape
<1>3. /\ committed' = committed /\ vg' = vg /\ tables' = tables
      /\ precommitted' = precommitted
  BY Zenon DEF lv_activate
<1> DEFINE loaded == Load(dev[cur], committed[cur], FALSE)
           made == [dev[cur] EXCEPT !.exists = TRUE]
<1>4. /\ loaded \in Device /\ loaded.exists
      /\ Resume(loaded) \in Device /\ ~Resume(loaded).suspended
  <2>1. committed[cur] \in Nat /\ FALSE \in BOOLEAN
    BY <1>2, Zenon DEF Shape
  <2>2. loaded \in Device /\ loaded.exists
    BY <2>1, <1>2, LoadFacts, ZenonT(30)
  <2> HIDE DEF loaded
  <2> QED BY <2>2, ResumeFacts, Zenon
<1>5. made \in Device /\ made.exists
  BY <1>2, ZenonT(30) DEF Device
<1>6. \/ dev' = dev
      \/ \E d \in {dev[cur], made, loaded, Resume(loaded)} : dev' = [dev EXCEPT ![cur] = d]
  BY ZenonT(30) DEF lv_activate, HalfActive
<1> HIDE DEF loaded, made
<1>7. dev' \in [LVs -> Device] /\ Devices'
  <2>1. CASE dev' = dev
    BY <2>1, <1>3, Zenon DEF Devices, Known, Shape
  <2>2. ASSUME NEW d \in {dev[cur], made, loaded, Resume(loaded)},
               dev' = [dev EXCEPT ![cur] = d]
        PROVE  dev' \in [LVs -> Device] /\ Devices'
    <3>1. dev[cur].suspended => dev[cur].exists
      BY <1>2, Zenon DEF Devices
    <3>2. d \in Device /\ (d.suspended => d.exists)
      BY <3>1, <1>2, <1>4, <1>5, Zenon
    <3> QED BY <2>2, <3>2, <1>1, <1>2, <1>3, ReplaceDevice, ZenonT(30)
  <2> QED BY <2>1, <2>2, <1>6, Zenon
<1>8. \/ pc' = "exit" /\ cmd' = cmd
      \/ pc' = "deactivate" /\ todo' = todo /\ cmd' = [cmd EXCEPT !.kind = "remove"]
  BY ZenonT(30) DEF lv_activate, RemoveNewLv, Return, Goto
<1>9. /\ cmd' \in [kind : Kinds \cup {"none"}, lvs : Seq(LVs)] /\ cmd'.lvs = cmd.lvs
      /\ pc' = "exit" \/ (pc' = "deactivate" /\ cmd'.kind = "remove")
  BY <1>8, ZenonT(30) DEF Shape, Kinds
<1> QED BY <1>2, <1>3, <1>7, <1>8, <1>9, SMTT(30) DEF Shape, Program, Pending

\* lv_deactivate removes the device before a removal writes.
LEMMA DeactivateStep ==
    ASSUME IInv, lv_deactivate, scenario' = scenario
    PROVE  IInv'
<1> USE DEF IInv
<1>1. pc = "deactivate" /\ cmd.kind \in {"deactivate", "remove"}
  BY Zenon DEF lv_deactivate, Program
<1>2. cur \in LVs /\ todo \in NonEmptyLists /\ cmd.lvs \in NonEmptyLists
  BY <1>1, ControlFacts, Zenon DEF Shape
<1>3. /\ committed' = committed /\ vg' = vg /\ tables' = tables
      /\ precommitted' = precommitted /\ cmd' = cmd
  BY Zenon DEF lv_deactivate
<1>4. NoDev \in Device /\ ~NoDev.exists /\ ~NoDev.suspended
  BY Zenon DEF NoDev, Device
<1>5. \/ dev' = [dev EXCEPT ![cur] = NoDev]
         /\ ((pc' = "write" /\ todo' = todo /\ cmd.kind = "remove") \/ pc' = "exit")
      \/ dev' = dev /\ pc' = "exit"
  BY <1>1, Zenon DEF lv_deactivate, Return, Goto
<1>6. dev' \in [LVs -> Device] /\ Devices'
  <2>1. CASE dev' = dev
    BY <2>1, <1>3, Zenon DEF Devices, Known, Shape
  <2>2. CASE dev' = [dev EXCEPT ![cur] = NoDev]
    BY <2>2, <1>2, <1>3, <1>4, ReplaceDevice, ZenonT(30)
  <2> QED BY <2>1, <2>2, <1>5, Zenon
<1>7. pc' = "write" => ~dev'[cur'].exists
  BY <1>2, <1>4, <1>5, Zenon DEF Shape, cur
<1> QED BY <1>2, <1>3, <1>5, <1>6, <1>7, SMTT(30) DEF Shape, Program, Pending

\* A command starts from the committed metadata.
LEMMA StartStep ==
    ASSUME IInv, Start, scenario' = scenario
    PROVE  IInv'
<1> USE DEF IInv
<1> DEFINE Begin(k, lvs) ==
               /\ \A i \in DOMAIN lvs : (committed[lvs[i]] = 0) <=> (k = "create")
               /\ cmd' = [kind |-> k, lvs |-> lvs]
               /\ todo' = lvs
               /\ pc' = First(k)
<1>a. PICK k \in scenario.kinds : \E lvs \in Lists(k) : Begin(k, lvs)
  BY Zenon DEF Start
<1>1. PICK lvs \in Lists(k) : Begin(k, lvs)
  BY <1>a, Zenon
<1>2. /\ committed' = committed /\ vg' = committed /\ tables' = tables
      /\ precommitted' = precommitted /\ dev' = dev
  BY Zenon DEF Start
<1>3. k \in Kinds
  BY ScenariosAssumption, Zenon DEF Shape
<1>4. lvs \in NonEmptyLists
  <2>1. \/ \E x \in LVs : lvs = <<x>>
        \/ \E x, y \in LVs : lvs = <<x, y>>
    BY DEF Lists
  <2>2. \A x \in LVs : <<x>> \in Seq(LVs) /\ <<x>> # <<>>
    OBVIOUS
  <2>3. \A x, y \in LVs : <<x, y>> \in Seq(LVs) /\ <<x, y>> # <<>>
    OBVIOUS
  <2> QED BY <2>1, <2>2, <2>3, Zenon DEF NonEmptyLists
<1>5. lvs \in Seq(LVs) /\ 1 \in DOMAIN lvs /\ Head(lvs) = lvs[1]
  BY <1>4 DEF NonEmptyLists
<1>6. k = "activate" => committed'[cur'] # 0 /\ vg'[cur'] # 0
  BY <1>1, <1>2, <1>5, Zenon DEF cur
<1>7. /\ pc' \in {"write", "preload", "activate", "deactivate"}
      /\ pc' = "write" => k \in {"change", "raid", "rename", "create"}
      /\ pc' = "preload" => k = "refresh"
      /\ pc' = "activate" => k = "activate"
      /\ pc' = "deactivate" => k \in {"deactivate", "remove"}
  BY <1>1, <1>3, Zenon DEF First, Kinds
<1>8. cmd'.kind = k /\ cmd'.lvs = lvs
      /\ cmd' \in [kind : Kinds \cup {"none"}, lvs : Seq(LVs)]
  BY <1>1, <1>3, <1>5, Zenon
<1>9. Shape'
  BY <1>1, <1>2, <1>4, <1>7, <1>8, Zenon DEF Shape
<1>10. Program' /\ Pending'
  BY <1>6, <1>7, <1>8, Zenon DEF Program, Pending
<1>11. Devices'
  BY <1>2, Zenon DEF Devices, Known
<1> QED BY <1>9, <1>10, <1>11, Zenon

\* A command that exits or is killed leaves the metadata and the devices.
LEMMA GoneStep ==
    ASSUME IInv, Gone, scenario' = scenario
    PROVE  IInv'
<1> USE DEF IInv
<1>1. /\ pc' = "idle" /\ cmd' = Idle /\ vg' = committed /\ committed' = committed
      /\ precommitted' = precommitted /\ dev' = dev /\ tables' = tables
  BY Zenon DEF Gone
<1>2. Idle \in [kind : Kinds \cup {"none"}, lvs : Seq(LVs)]
  BY DEF Idle
<1>3. Devices'
  BY <1>1, Zenon DEF Devices, Known
<1> QED BY <1>1, <1>2, <1>3, Zenon DEF Shape, Program, Pending

----------------------------------------------------------------------------
(* The theorems                                                             *)

\* Active LVs are in the metadata to begin with.
LEMMA InitInv == Init => IInv
<1> SUFFICES ASSUME Init PROVE IInv
  OBVIOUS
<1>1. /\ pc = "idle" /\ cmd = Idle /\ vg = committed /\ precommitted = <<>>
      /\ tables = 1 /\ scenario \in Scenarios /\ committed \in [LVs -> {0, 1}]
  BY Zenon DEF Init
<1>2. PICK active \in SUBSET {x \in LVs : committed[x] = 1} :
         dev = [x \in LVs |-> IF x \in active
                              THEN [NoDev EXCEPT !.exists = TRUE, !.live = 1]
                              ELSE NoDev]
  BY Zenon DEF Init
<1> DEFINE On == [NoDev EXCEPT !.exists = TRUE, !.live = 1]
<1>3. /\ NoDev \in Device /\ ~NoDev.exists /\ ~NoDev.suspended
      /\ On \in Device /\ On.exists
  BY ZenonT(30) DEF NoDev, Device
<1>4. dev = [x \in LVs |-> IF x \in active THEN On ELSE NoDev]
  BY <1>2, Zenon
<1> HIDE DEF On
<1>5. dev \in [LVs -> Device]
  BY <1>3, <1>4, Zenon
<1>6. Devices
  <2> SUFFICES ASSUME NEW x \in LVs
               PROVE  Known(x) /\ (dev[x].suspended => dev[x].exists)
    BY Zenon DEF Devices
  <2>1. CASE x \in active
    <3>1. dev[x] = On /\ committed[x] = 1 /\ vg[x] = 1
      BY <1>1, <1>4, <2>1, Zenon
    <3> QED BY <1>3, <3>1 DEF Known
  <2>2. CASE x \notin active
    <3>1. dev[x] = NoDev
      BY <1>4, <2>2, Zenon
    <3> QED BY <1>3, <3>1, Zenon DEF Known
  <2> QED BY <2>1, <2>2, Zenon
<1>7. Idle \in [kind : Kinds \cup {"none"}, lvs : Seq(LVs)]
  BY DEF Idle
<1>8. committed \in [LVs -> Nat]
  BY <1>1
<1> QED BY <1>1, <1>5, <1>6, <1>7, <1>8, Zenon DEF IInv, Shape, Program, Pending

\* The invariant is inductive: one case per call, start, exit and crash.
LEMMA NextInv == IInv /\ [Next]_vars => IInv'
<1> SUFFICES ASSUME IInv, [Next]_vars PROVE IInv'
  OBVIOUS
<1>1. CASE UNCHANGED vars
  BY <1>1 DEF IInv, Shape, Program, Pending, Devices, Known, vars, cur
<1>2. CASE vg_write /\ UNCHANGED scenario
  BY <1>2, WriteStep, Zenon
<1>3. CASE lv_preload /\ UNCHANGED scenario
  BY <1>3, PreloadStep, Zenon
<1>4. CASE lv_suspend /\ UNCHANGED scenario
  BY <1>4, SuspendStep, Zenon
<1>5. CASE vg_commit /\ UNCHANGED scenario
  BY <1>5, CommitStep, Zenon
<1>6. CASE lv_resume /\ UNCHANGED scenario
  BY <1>6, ResumeStep, Zenon
<1>7. CASE lv_activate /\ UNCHANGED scenario
  BY <1>7, ActivateStep, Zenon
<1>8. CASE lv_deactivate /\ UNCHANGED scenario
  BY <1>8, DeactivateStep, Zenon
<1>9. CASE Start /\ UNCHANGED scenario
  BY <1>9, StartStep, Zenon
<1>10. CASE Gone /\ UNCHANGED scenario
  BY <1>10, GoneStep, Zenon
<1>11. Exit \/ Crash => Gone
  BY Zenon DEF Exit, Crash
<1>12. Done => UNCHANGED vars
  BY Zenon DEF Done
<1> QED
  BY <1>1, <1>2, <1>3, <1>4, <1>5, <1>6, <1>7, <1>8, <1>9, <1>10, <1>11, <1>12, SMTT(30)
     DEF Next, Call

\* In every behaviour of the commands, whatever fails and wherever a command is
\* killed, the kernel has no device for an LV that is not in the committed
\* metadata: lvcreate commits before it activates, lvremove and lvcreate's own
\* clean-up deactivate before they write.
THEOREM DevicesHaveLvs == Spec => []DeviceHasLv
<1>1. IInv => DeviceHasLv
  BY Zenon DEF IInv, Devices, Known, DeviceHasLv
<1> QED BY <1>1, InitInv, NextInv, PTL DEF Spec

----------------------------------------------------------------------------
(* The critical section                                                     *)

Counters == [suspended : Nat, critical : BOOLEAN, mem_locked : BOOLEAN,
             mine : SUBSET LVs, miscounted : BOOLEAN]

\* libdm's counter is the number of devices the process has suspended, and the
\* process is in its critical section while there are any, unless the counter
\* has been taken down for a device of another process.
Sound(p) ==
    /\ p \in Counters
    /\ IsFiniteSet(p.mine)
    /\ ~p.miscounted => p.suspended = Cardinality(p.mine)
    /\ ~p.miscounted /\ p.mine # {} => p.critical /\ p.mem_locked

\* The devices the process has suspended are suspended, and the one it is about
\* to suspend is not.
Held ==
    /\ Sound(proc)
    /\ \A x \in proc.mine : dev[x].suspended
    /\ pc = "suspend" => ~dev[cur].suspended

\* Entering and leaving the critical section and unlocking memory.
LEMMA SectionFacts ==
    ASSUME NEW p, Sound(p)
    PROVE  /\ Sound(critical_section_inc(p)) /\ critical_section_inc(p).mine = p.mine
           /\ critical_section_inc(p).critical /\ critical_section_inc(p).mem_locked
           /\ Sound(critical_section_dec(p)) /\ critical_section_dec(p).mine = p.mine
           /\ Sound(memlock_unlock(p)) /\ memlock_unlock(p).mine = p.mine
<1>1. /\ Sound(critical_section_inc(p)) /\ critical_section_inc(p).mine = p.mine
      /\ critical_section_inc(p).critical /\ critical_section_inc(p).mem_locked
  BY ZenonT(30) DEF critical_section_inc, Sound, Counters
<1>2. ~p.miscounted => (p.suspended = 0 <=> p.mine = {})
  BY FS_EmptySet, Zenon DEF Sound
<1>3. Sound(critical_section_dec(p)) /\ critical_section_dec(p).mine = p.mine
  <2>1. CASE p.suspended = 0
    BY <2>1, <1>2, ZenonT(30) DEF critical_section_dec, Sound, Counters
  <2>2. CASE p.suspended # 0
    BY <2>2, ZenonT(30) DEF critical_section_dec, Sound, Counters
  <2> QED BY <2>1, <2>2, Zenon
<1>4. Sound(memlock_unlock(p)) /\ memlock_unlock(p).mine = p.mine
  BY ZenonT(30) DEF memlock_unlock, Sound, Counters
<1> QED BY <1>1, <1>3, <1>4, Zenon

\* A device is counted when the process suspends it.
LEMMA CountUp ==
    ASSUME NEW p, Sound(p), p.critical, p.mem_locked, NEW lv \in LVs, lv \notin p.mine
    PROVE  /\ Sound(inc_suspended(p, lv))
           /\ inc_suspended(p, lv).mine = p.mine \cup {lv}
<1> DEFINE q == inc_suspended(p, lv)
<1>1. p \in Counters /\ p.suspended \in Nat
  BY Zenon DEF Sound, Counters
<1>2. p.suspended + 1 \in Nat /\ p.mine \cup {lv} \in SUBSET LVs
  BY <1>1 DEF Counters
<1>3. /\ q \in Counters
      /\ q.mine = p.mine \cup {lv} /\ q.suspended = p.suspended + 1
  BY <1>1, <1>2, ZenonT(30) DEF inc_suspended, Counters
<1>4. /\ q.critical = p.critical /\ q.mem_locked = p.mem_locked
      /\ q.miscounted = p.miscounted
  BY <1>1, ZenonT(30) DEF inc_suspended, Counters
<1>5. /\ IsFiniteSet(p.mine \cup {lv})
      /\ Cardinality(p.mine \cup {lv}) = Cardinality(p.mine) + 1
  BY FS_AddElement, Zenon DEF Sound
<1>6. Sound(q)
  <2> HIDE DEF q
  <2> QED BY <1>3, <1>4, <1>5, Zenon DEF Sound
<1> QED BY <1>3, <1>6, Zenon

\* The counter goes down when a device is resumed, whoever suspended it.
LEMMA CountDown ==
    ASSUME NEW p, Sound(p), NEW lv
    PROVE  /\ Sound(dec_suspended(p, lv))
           /\ dec_suspended(p, lv).mine = p.mine \ {lv}
<1> DEFINE q == dec_suspended(p, lv)
<1>1. p \in Counters /\ p.suspended \in Nat
  BY Zenon DEF Sound, Counters
<1>2. /\ (IF p.suspended = 0 THEN 0 ELSE p.suspended - 1) \in Nat
      /\ p.mine \ {lv} \in SUBSET LVs
      /\ (p.miscounted \/ (p.suspended > 0 /\ lv \notin p.mine)) \in BOOLEAN
  BY <1>1 DEF Counters
<1>3. /\ q \in Counters
      /\ q.mine = p.mine \ {lv}
      /\ q.suspended = IF p.suspended = 0 THEN 0 ELSE p.suspended - 1
      /\ q.miscounted = (p.miscounted \/ (p.suspended > 0 /\ lv \notin p.mine))
  BY <1>1, <1>2, ZenonT(30) DEF dec_suspended, Counters
<1>4. q.critical = p.critical /\ q.mem_locked = p.mem_locked
  BY <1>1, ZenonT(30) DEF dec_suspended, Counters
<1>5. IsFiniteSet(p.mine \ {lv})
  BY FS_RemoveElement, Zenon DEF Sound
<1>6. ASSUME ~q.miscounted
      PROVE  q.suspended = Cardinality(p.mine \ {lv})
  <2>1. ~p.miscounted /\ p.suspended = Cardinality(p.mine)
    BY <1>3, <1>6, Zenon DEF Sound
  <2>2. CASE p.suspended = 0
    <3>1. p.mine = {} /\ p.mine \ {lv} = {}
      BY <2>1, <2>2, FS_EmptySet, Zenon DEF Sound
    <3> QED BY <3>1, <2>2, <1>3, FS_EmptySet, Zenon
  <2>3. CASE p.suspended # 0
    <3>1. p.suspended > 0
      BY <2>3, <1>1
    <3>2. lv \in p.mine
      BY <3>1, <1>3, <1>6, Zenon
    <3>3. Cardinality(p.mine \ {lv}) = Cardinality(p.mine) - 1
      BY <3>2, FS_RemoveElement, Zenon DEF Sound
    <3> QED BY <3>3, <2>1, <2>3, <1>3, Zenon
  <2> QED BY <2>2, <2>3, Zenon
<1>7. ~q.miscounted /\ q.mine # {} => q.critical /\ q.mem_locked
  <2>1. ~q.miscounted => ~p.miscounted
    BY <1>3, Zenon
  <2>2. q.mine # {} => p.mine # {}
    BY <1>3, Zenon
  <2> HIDE DEF q
  <2> QED BY <2>1, <2>2, <1>4, Zenon DEF Sound
<1>8. Sound(q)
  <2> HIDE DEF q
  <2> QED BY <1>3, <1>5, <1>6, <1>7, Zenon DEF Sound
<1> QED BY <1>3, <1>8, Zenon

\* A call that leaves the devices, or all but one that it accounts for.
LEMMA KeepHeld ==
    ASSUME Shape, Held, NEW lv \in LVs, NEW d, pc' # "suspend",
           dev' = dev \/ (dev' = [dev EXCEPT ![lv] = d] /\ (lv \in proc'.mine => d.suspended)),
           Sound(proc'), proc'.mine \subseteq proc.mine
    PROVE  Held'
<1>1. \A x \in proc.mine : dev[x].suspended
  BY Zenon DEF Held
<1>2. dev \in [LVs -> Device] /\ proc.mine \subseteq LVs
  BY Zenon DEF Shape, Held, Sound, Counters
<1>3. \A x \in proc'.mine : dev'[x].suspended
  <2>1. CASE dev' = dev
    BY <2>1, <1>1, Zenon
  <2>2. CASE dev' = [dev EXCEPT ![lv] = d] /\ (lv \in proc'.mine => d.suspended)
    BY <2>2, <1>1, <1>2
  <2> QED BY <2>1, <2>2, Zenon
<1> QED BY <1>3, Zenon DEF Held

\* The preload finds the device not suspended before the command suspends it.
LEMMA PreloadHeld ==
    ASSUME IInv, Held, lv_preload
    PROVE  Held'
<1> USE DEF IInv
<1>1. pc = "preload"
  BY Zenon DEF lv_preload
<1>2. cur \in LVs /\ dev[cur] \in Device
  BY <1>1, ControlFacts, Zenon
<1>3. /\ Sound(proc) /\ Sound(critical_section_inc(proc))
      /\ critical_section_inc(proc).mine = proc.mine
  BY SectionFacts, Zenon DEF Held
<1> DEFINE pre == IF precommitted = <<>> THEN committed[cur] ELSE precommitted[1][cur]
           flag == precommitted # <<>>
<1>4. pre \in Nat /\ flag \in BOOLEAN
  <2>1. CASE precommitted = <<>>
    BY <2>1, <1>2, Zenon DEF Shape
  <2>2. CASE precommitted # <<>>
    <3>1. PICK m \in [LVs -> Nat] : precommitted = <<m>>
      BY <2>2, Zenon DEF Shape
    <3> QED BY <3>1, <1>2, Zenon
  <2> QED BY <2>1, <2>2, Zenon
<1>5. \/ /\ dev' = dev /\ proc' \in {proc, critical_section_inc(proc)}
         /\ Suspended \/ SuspendFailed
      \/ /\ dev' = [dev EXCEPT ![cur] = Load(dev[cur], pre, flag)]
         /\ proc' = proc /\ ~dev[cur].suspended /\ Goto("suspend")
      \/ /\ \E cleared \in {FALSE, flag} :
               dev' = [dev EXCEPT ![cur].inactive = IF cleared THEN 0 ELSE @]
         /\ proc' = proc /\ ~dev[cur].suspended /\ SuspendFailed
  BY ZenonT(30) DEF lv_preload
<1> HIDE DEF pre, flag
<1>6. Suspended \/ SuspendFailed => pc' # "suspend"
  <2>1. Suspended => pc' \in {"commit", "resume", "preload"}
    BY <1>1, SuspendedFacts, Zenon
  <2>2. SuspendFailed => pc' \in {"exit", "write", "preload", "revert"}
    BY <1>1, SuspendFailedFacts, Zenon
  <2> QED BY <2>1, <2>2
<1>7. CASE /\ dev' = dev /\ proc' \in {proc, critical_section_inc(proc)}
           /\ Suspended \/ SuspendFailed
  <2>1. Sound(proc') /\ proc'.mine \subseteq proc.mine
    BY <1>3, <1>7, Zenon
  <2> QED BY <2>1, <1>2, <1>6, <1>7, KeepHeld, Zenon
<1>8. CASE /\ dev' = [dev EXCEPT ![cur] = Load(dev[cur], pre, flag)]
           /\ proc' = proc /\ ~dev[cur].suspended /\ Goto("suspend")
  <2>1. cur' = cur
    BY <1>8, Zenon DEF cur, Goto
  <2>2. cur \notin proc.mine
    BY <1>8, Zenon DEF Held
  <2>3. \A x \in LVs : dev'[x].suspended = dev[x].suspended
    <3>1. Load(dev[cur], pre, flag).suspended = dev[cur].suspended
      BY <1>2, <1>4, LoadFacts, Zenon
    <3> QED BY <3>1, <1>2, <1>8 DEF Shape
  <2>4. proc.mine \subseteq LVs
    BY Zenon DEF Held, Sound, Counters
  <2> QED BY <2>1, <2>3, <2>4, <1>2, <1>8, Zenon DEF Held
<1>9. CASE /\ \E cleared \in {FALSE, flag} :
                 dev' = [dev EXCEPT ![cur].inactive = IF cleared THEN 0 ELSE @]
           /\ proc' = proc /\ ~dev[cur].suspended /\ SuspendFailed
  <2>1. cur \notin proc'.mine
    BY <1>9, Zenon DEF Held
  <2>2. PICK d : dev' = [dev EXCEPT ![cur] = d]
    BY <1>9, Zenon
  <2> QED BY <2>1, <2>2, <1>2, <1>3, <1>6, <1>9, KeepHeld, Zenon
<1> QED BY <1>5, <1>7, <1>8, <1>9, Zenon

\* A device that the command suspends is counted, and was not before.
LEMMA SuspendHeld ==
    ASSUME IInv, Held, lv_suspend
    PROVE  Held'
<1> USE DEF IInv
<1> DEFINE p == critical_section_inc(proc)
<1>1. pc = "suspend" /\ ~dev[cur].suspended
  BY Zenon DEF lv_suspend, Held
<1>2. cur \in LVs /\ dev[cur] \in Device
  BY <1>1, ControlFacts, Zenon
<1>3. Sound(p) /\ p.mine = proc.mine /\ p.critical /\ p.mem_locked
  BY SectionFacts, Zenon DEF Held
<1>4. cur \notin proc.mine
  BY <1>1, Zenon DEF Held
<1>5. \/ /\ dev' = [dev EXCEPT ![cur].suspended = TRUE]
         /\ proc' = inc_suspended(p, cur) /\ Suspended
      \/ dev' = dev /\ proc' = critical_section_dec(p) /\ SuspendFailed
  BY ZenonT(30) DEF lv_suspend
<1> HIDE DEF p
<1>6. CASE /\ dev' = [dev EXCEPT ![cur].suspended = TRUE]
           /\ proc' = inc_suspended(p, cur) /\ Suspended
  <2>1. Sound(proc') /\ proc'.mine = proc.mine \cup {cur}
    <3>1. cur \notin p.mine
      BY <1>3, <1>4, Zenon
    <3>2. Sound(inc_suspended(p, cur)) /\ inc_suspended(p, cur).mine = p.mine \cup {cur}
      BY <3>1, <1>2, <1>3, CountUp, Zenon
    <3> QED BY <3>2, <1>3, <1>6, Zenon
  <2>2. pc' \in {"commit", "resume", "preload"}
    BY <1>1, <1>6, SuspendedFacts, Zenon
  <2>3. \A x \in LVs : x = cur \/ dev[x].suspended => dev'[x].suspended
    <3>1. dev'[cur] = [dev[cur] EXCEPT !.suspended = TRUE]
      BY <1>2, <1>6, Zenon DEF Shape
    <3>2. dev'[cur].suspended
      BY <3>1, <1>2, Zenon DEF Device
    <3>3. \A x \in LVs \ {cur} : dev'[x] = dev[x]
      BY <1>6, Zenon DEF Shape
    <3> QED BY <3>2, <3>3, Zenon
  <2>4. proc.mine \subseteq LVs /\ \A x \in proc.mine : dev[x].suspended
    BY Zenon DEF Held, Sound, Counters
  <2>5. \A x \in proc'.mine : dev'[x].suspended
    BY <2>1, <2>3, <2>4, <1>2, Zenon
  <2> QED BY <2>1, <2>2, <2>5 DEF Held
<1>7. CASE dev' = dev /\ proc' = critical_section_dec(p) /\ SuspendFailed
  <2>1. Sound(proc') /\ proc'.mine = proc.mine
    BY <1>3, <1>7, SectionFacts, Zenon
  <2>2. pc' \in {"exit", "write", "preload", "revert"}
    BY <1>1, <1>7, SuspendFailedFacts, Zenon
  <2>3. pc' # "suspend" /\ proc'.mine \subseteq proc.mine
    BY <2>1, <2>2
  <2> QED BY <2>1, <2>3, <1>2, <1>7, KeepHeld, Zenon
<1> QED BY <1>5, <1>6, <1>7, Zenon

\* A device that is resumed is no longer held, whoever suspended it.
LEMMA ResumeHeld ==
    ASSUME IInv, Held, lv_resume
    PROVE  Held'
<1> USE DEF IInv
<1>1. pc \in {"resume", "revert"}
  BY Zenon DEF lv_resume
<1>2. cur \in LVs /\ dev[cur] \in Device /\ committed[cur] \in Nat
  <2>1. pc \notin {"idle", "exit"}
    BY <1>1
  <2> QED BY <2>1, ControlFacts, Zenon DEF Shape
<1> DEFINE loaded == Load(dev[cur], committed[cur], pc = "revert")
           cleared == [dev[cur] EXCEPT !.inactive = IF pc = "revert" THEN 0 ELSE @]
           q == dec_suspended(proc, cur)
<1>3. loaded.suspended = dev[cur].suspended /\ cleared.suspended = dev[cur].suspended
  <2>1. (pc = "revert") \in BOOLEAN
    BY Zenon
  <2>2. loaded.suspended = dev[cur].suspended
    BY <2>1, <1>2, LoadFacts, ZenonT(30)
  <2> QED BY <2>2, <1>2, ZenonT(30) DEF Device
<1>4. Sound(proc) /\ Sound(critical_section_dec(proc)) /\ critical_section_dec(proc).mine = proc.mine
  BY SectionFacts, Zenon DEF Held
<1>5. Sound(critical_section_dec(q)) /\ critical_section_dec(q).mine = proc.mine \ {cur}
  <2>1. Sound(q) /\ q.mine = proc.mine \ {cur}
    BY <1>4, CountDown, Zenon
  <2> HIDE DEF q
  <2> QED BY <2>1, SectionFacts, Zenon
<1>6. \/ dev' = dev /\ proc' = critical_section_dec(proc)
      \/ dev' = [dev EXCEPT ![cur] = Resume(loaded)] /\ proc' = critical_section_dec(q)
      \/ /\ dev[cur].suspended /\ proc' = proc
         /\ \E left \in {dev[cur], cleared, loaded} : dev' = [dev EXCEPT ![cur] = left]
  BY ZenonT(30) DEF lv_resume
<1> HIDE DEF loaded, cleared, q
<1>7. pc' # "suspend"
  <2>1. Resumed(TRUE) \/ Resumed(FALSE)
    BY ZenonT(30) DEF lv_resume
  <2>2. pc' \in {"exit", "write", "preload", "resume", "revert"}
    BY <2>1, <1>1, ResumedFacts, ZenonT(30)
  <2> QED BY <2>2
<1>8. CASE dev' = dev /\ proc' = critical_section_dec(proc)
  <2>1. Sound(proc') /\ proc'.mine \subseteq proc.mine
    BY <1>4, <1>8, Zenon
  <2> QED BY <2>1, <1>2, <1>7, <1>8, KeepHeld, Zenon
<1>9. CASE dev' = [dev EXCEPT ![cur] = Resume(loaded)] /\ proc' = critical_section_dec(q)
  <2>1. Sound(proc') /\ proc'.mine \subseteq proc.mine /\ cur \notin proc'.mine
    BY <1>5, <1>9, Zenon
  <2> QED BY <2>1, <1>2, <1>7, <1>9, KeepHeld, Zenon
<1>10. CASE /\ dev[cur].suspended /\ proc' = proc
            /\ \E left \in {dev[cur], cleared, loaded} : dev' = [dev EXCEPT ![cur] = left]
  <2>1. PICK left \in {dev[cur], cleared, loaded} : dev' = [dev EXCEPT ![cur] = left]
    BY <1>10, Zenon
  <2>2. left.suspended
    BY <2>1, <1>3, <1>10, Zenon
  <2>3. Sound(proc') /\ proc'.mine \subseteq proc.mine
    BY <1>4, <1>10, Zenon
  <2> QED BY <2>1, <2>2, <2>3, <1>2, <1>7, KeepHeld, Zenon
<1> QED BY <1>6, <1>8, <1>9, <1>10, Zenon

\* Activation and deactivation: a device that loses its suspension, or goes away,
\* is counted out.
LEMMA ActivationHeld ==
    ASSUME IInv, Held, lv_activate \/ lv_deactivate
    PROVE  Held'
<1> USE DEF IInv
<1> DEFINE p == critical_section_inc(proc)
           out == dec_suspended(p, cur)
           loaded == Load(dev[cur], committed[cur], FALSE)
           made == [dev[cur] EXCEPT !.exists = TRUE]
<1>1. pc \in {"activate", "deactivate"} /\ pc' # "suspend"
  <2>1. pc \in {"activate", "deactivate"}
    BY Zenon DEF lv_activate, lv_deactivate
  <2>2. pc' \in {"exit", "deactivate", "write"}
    BY ZenonT(30) DEF lv_activate, lv_deactivate, RemoveNewLv, Return, Goto
  <2> QED BY <2>1, <2>2
<1>2. cur \in LVs /\ dev[cur] \in Device /\ committed[cur] \in Nat
  <2>1. pc \notin {"idle", "exit"}
    BY <1>1
  <2> QED BY <2>1, ControlFacts, Zenon DEF Shape
<1>3. loaded.suspended = dev[cur].suspended /\ made.suspended = dev[cur].suspended
  <2>1. FALSE \in BOOLEAN
    BY Zenon
  <2>2. loaded.suspended = dev[cur].suspended
    BY <2>1, <1>2, LoadFacts, ZenonT(30)
  <2> QED BY <2>2, <1>2, ZenonT(30) DEF Device
<1>4. /\ Sound(proc) /\ Sound(p) /\ p.mine = proc.mine
      /\ Sound(critical_section_dec(p)) /\ critical_section_dec(p).mine = proc.mine
      /\ Sound(critical_section_dec(out)) /\ critical_section_dec(out).mine = proc.mine \ {cur}
  <2>1. Sound(proc) /\ Sound(p) /\ p.mine = proc.mine
    BY SectionFacts, Zenon DEF Held
  <2>2. Sound(out) /\ out.mine = p.mine \ {cur}
    <3> HIDE DEF p
    <3> QED BY <2>1, CountDown, Zenon
  <2> HIDE DEF p, out
  <2> QED BY <2>1, <2>2, SectionFacts, Zenon
<1>5. (dev[cur].suspended => dev[cur].exists) /\ (~dev[cur].suspended => cur \notin proc.mine)
  BY <1>2, Zenon DEF Devices, Held
<1>6. \/ dev' = dev /\ proc' \in {proc, critical_section_dec(p)}
      \/ /\ dev' \in {[dev EXCEPT ![cur] = Resume(loaded)], [dev EXCEPT ![cur] = NoDev]}
         /\ \/ ~dev[cur].suspended /\ proc' \in {proc, critical_section_dec(p)}
            \/ proc' = critical_section_dec(out)
      \/ /\ \E h \in {dev[cur], made, loaded} : dev' = [dev EXCEPT ![cur] = h]
         /\ proc' = critical_section_dec(p)
  <2>1. CASE lv_activate
    BY <2>1, ZenonT(60) DEF lv_activate, HalfActive
  <2>2. CASE lv_deactivate
    BY <2>2, <1>5, ZenonT(60) DEF lv_deactivate
  <2> QED BY <2>1, <2>2, Zenon
<1> HIDE DEF p, out, loaded, made
<1>7. CASE dev' = dev /\ proc' \in {proc, critical_section_dec(p)}
  <2>1. Sound(proc') /\ proc'.mine \subseteq proc.mine
    BY <1>4, <1>7, Zenon
  <2> QED BY <2>1, <1>1, <1>2, <1>7, KeepHeld, Zenon
<1>8. CASE /\ dev' \in {[dev EXCEPT ![cur] = Resume(loaded)], [dev EXCEPT ![cur] = NoDev]}
           /\ \/ ~dev[cur].suspended /\ proc' \in {proc, critical_section_dec(p)}
              \/ proc' = critical_section_dec(out)
  <2>1. Sound(proc') /\ proc'.mine \subseteq proc.mine /\ cur \notin proc'.mine
    BY <1>4, <1>5, <1>8, Zenon
  <2>2. PICK d : dev' = [dev EXCEPT ![cur] = d]
    BY <1>8, Zenon
  <2> QED BY <2>1, <2>2, <1>1, <1>2, KeepHeld, Zenon
<1>9. CASE /\ \E h \in {dev[cur], made, loaded} : dev' = [dev EXCEPT ![cur] = h]
           /\ proc' = critical_section_dec(p)
  <2>1. PICK h \in {dev[cur], made, loaded} : dev' = [dev EXCEPT ![cur] = h]
    BY <1>9, Zenon
  <2>2. Sound(proc') /\ proc'.mine = proc.mine
    BY <1>4, <1>9, Zenon
  <2>3. cur \in proc'.mine => h.suspended
    BY <2>1, <2>2, <1>3, <1>5, Zenon
  <2> QED BY <2>1, <2>2, <2>3, <1>1, <1>2, KeepHeld, Zenon
<1> QED BY <1>6, <1>7, <1>8, <1>9, Zenon

\* Writing, committing, starting and ending do not touch the devices.
LEMMA OtherHeld ==
    ASSUME IInv, Held, vg_write \/ vg_commit \/ Start \/ Gone
    PROVE  Held'
<1> USE DEF IInv
<1>1. dev' = dev /\ proc' \in {proc, memlock_unlock(proc), FreshProc}
  BY ZenonT(30) DEF vg_write, vg_commit, Start, Gone
<1>2. FreshProc \in Counters /\ FreshProc.mine = {} /\ FreshProc.suspended = 0
  BY DEF FreshProc, Counters
<1>3. Sound(FreshProc)
  BY <1>2, FS_EmptySet, Zenon DEF Sound
<1>4. Sound(proc') /\ proc'.mine \subseteq proc.mine
  <2>1. Sound(proc) /\ Sound(memlock_unlock(proc)) /\ memlock_unlock(proc).mine = proc.mine
    BY SectionFacts, Zenon DEF Held
  <2> QED BY <2>1, <1>1, <1>2, <1>3
<1>5. pc' # "suspend"
  <2>1. CASE vg_write
    <3>1. pc = "write" /\ cmd.kind \in {"change", "raid", "rename", "create", "remove"}
      BY <2>1, Zenon DEF vg_write, Program
    <3>2. NextLv /\ cmd.kind = "change" => pc' \in {"exit", "write"}
      BY <3>1, ControlFacts, Zenon DEF First
    <3>3. pc' \in {"preload", "commit", "exit", "write"}
      BY <2>1, <3>1, <3>2, ZenonT(30) DEF vg_write, Goto, Return
    <3> QED BY <3>3
  <2>2. CASE vg_commit
    <3>1. cmd.kind \in {"change", "raid", "rename", "create", "remove"}
      BY <2>2, Zenon DEF vg_commit, Program
    <3>2. pc' \in {"resume", "activate", "exit"}
      BY <2>2, <3>1, ZenonT(30) DEF vg_commit, Goto, Return
    <3> QED BY <3>2
  <2>3. CASE Start
    <3>1. PICK k \in scenario.kinds : pc' = First(k)
      BY <2>3, Zenon DEF Start
    <3>2. k \in Kinds
      BY <3>1, ScenariosAssumption DEF Shape
    <3> QED BY <3>1, <3>2 DEF First, Kinds
  <2>4. CASE Gone
    BY <2>4 DEF Gone
  <2> QED BY <2>1, <2>2, <2>3, <2>4, Zenon
<1>6. \A x \in proc'.mine : dev'[x].suspended
  BY <1>1, <1>4, Zenon DEF Held
<1> QED BY <1>4, <1>5, <1>6, Zenon DEF Held

\* A process that has just started has suspended nothing.
LEMMA InitHeld == Init => Held
<1> SUFFICES ASSUME Init PROVE Held
  OBVIOUS
<1>1. proc = FreshProc /\ pc = "idle"
  BY Zenon DEF Init
<1>2. FreshProc \in Counters /\ FreshProc.mine = {} /\ FreshProc.suspended = 0
  BY DEF FreshProc, Counters
<1>3. Sound(FreshProc)
  BY <1>2, FS_EmptySet, Zenon DEF Sound
<1> QED BY <1>1, <1>2, <1>3 DEF Held

\* Every call and every kill keeps the count right.
LEMMA NextHeld == IInv /\ Held /\ [Next]_vars => Held'
<1> SUFFICES ASSUME IInv, Held, [Next]_vars PROVE Held'
  OBVIOUS
<1>1. CASE UNCHANGED vars
  BY <1>1, Zenon DEF Held, vars, cur
<1>2. CASE vg_write \/ vg_commit \/ Start \/ Gone
  BY <1>2, OtherHeld, Zenon
<1>3. CASE lv_preload
  BY <1>3, PreloadHeld, Zenon
<1>4. CASE lv_suspend
  BY <1>4, SuspendHeld, Zenon
<1>5. CASE lv_resume
  BY <1>5, ResumeHeld, Zenon
<1>6. CASE lv_activate \/ lv_deactivate
  BY <1>6, ActivationHeld, Zenon
<1>7. (Exit \/ Crash => Gone) /\ (Done => UNCHANGED vars)
  BY Zenon DEF Exit, Crash, Done
<1> QED BY <1>1, <1>2, <1>3, <1>4, <1>5, <1>6, <1>7, ZenonT(30) DEF Next, Call

\* A process that has devices suspended is in its critical section with memory
\* locked, for any number of LVs, whatever fails, whatever earlier processes
\* left suspended, as long as dec_suspended has not counted down for a device
\* of theirs.
THEOREM SuspendsInCriticalSection == Spec => []CriticalWhileSuspended
<1>1. Init => IInv /\ Held
  BY InitInv, InitHeld, Zenon
<1>2. (IInv /\ Held) /\ [Next]_vars => (IInv /\ Held)'
  BY NextInv, NextHeld, Zenon
<1>3. Held => CriticalWhileSuspended
  BY Zenon DEF Held, Sound, CriticalWhileSuspended
<1> QED BY <1>1, <1>2, <1>3, PTL DEF Spec
=============================================================================
