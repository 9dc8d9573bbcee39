------------------------------ MODULE TextMda ------------------------------
(***************************************************************************)
(* One metadata area of the text format: lib/format_text/format-text.c.    *)
(* The area starts with a header sector that holds raw_locns[0], the       *)
(* committed text, and raw_locns[1], the pre-committed one; behind it the  *)
(* texts are written one after the other around a circular buffer.  A      *)
(* command writes the text, points raw_locns[1] at it, and then points     *)
(* raw_locns[0] at it or wipes raw_locns[1].                               *)
(*                                                                         *)
(* Sizes and offsets are in units of which SectorSize make a sector.  A    *)
(* unit of text is named by the version it belongs to and its position in  *)
(* it, and a checksum by the version it was computed from: what is read    *)
(* matches the checksum when every unit is the version's own.              *)
(***************************************************************************)
EXTENDS Integers

CONSTANTS
    SectorSize,     \* SECTOR_SIZE, and MDA_HEADER_SIZE: both are 512
    AreaSize,       \* mdah->size, the header sector included
    TextSizes,      \* sizes that the exported text may have
    Names,          \* names of volume groups
    Kinds,          \* kinds of command, see Commands
    MaxWrites       \* bound on the number of texts written

Header == SectorSize
Buffer == AreaSize - Header
BufferUnits == Header .. AreaSize - 1

ASSUME GeometryAssumption ==
    /\ SectorSize \in Nat \ {0}
    /\ AreaSize \in Nat
    /\ Buffer > 0
    /\ Buffer % SectorSize = 0
    /\ TextSizes \subseteq Nat \ {0}
    /\ MaxWrites \in Nat
    /\ "" \notin Names

\* The write counter tells apart texts that repeat a sequence number.
Versions == [write : 1 .. MaxWrites, name : Names]
None == [write |-> 0, name |-> ""]

NoLocn == [offset |-> 0, size |-> 0, checksum |-> None]
Locns == [offset : 0 .. AreaSize - 1, size : TextSizes \cup {0},
          checksum : Versions \cup {None}]

VARIABLES
    raw_locns,  \* the two slots of the header on disk
    text,       \* text[u]: version and position of the unit at offset u
    rlocn,      \* mdac->rlocn of the command
    vgname,     \* the name it looks for: vg->old_name, or vg->name
    done,       \* units of its text that have reached the disk
    pc,         \* how far it has come
    writes      \* texts written so far

vars == <<raw_locns, text, rlocn, vgname, done, pc, writes>>

\* Every variable has the shape its declaration describes.
TypeOK ==
    /\ raw_locns \in [{0, 1} -> Locns]
    /\ text \in [BufferUnits -> [version : Versions \cup {None}, pos : Nat]]
    /\ rlocn \in Locns
    /\ vgname \in Names \cup {""}
    /\ done \in Nat
    /\ pc \in {"idle", "writing", "written", "precommitted"}
    /\ writes \in 0 .. MaxWrites

Init ==
    /\ raw_locns = [s \in {0, 1} |-> NoLocn]
    /\ text = [u \in BufferUnits |-> [version |-> None, pos |-> 0]]
    /\ rlocn = NoLocn
    /\ vgname = ""
    /\ done = 0
    /\ pc = "idle"
    /\ writes = 0

-----------------------------------------------------------------------------
(* Reading *)

\* Where unit i of a text that starts at offset is: the text continues behind
\* the header when it reaches the end of the area.
UnitAt(offset, i) ==
    IF offset + i < AreaSize THEN offset + i ELSE offset + i - AreaSize + Header

\* The text begins with the name of its VG.
NameAt(offset) ==
    IF offset \in BufferUnits /\ text[offset].pos = 0
    THEN text[offset].version.name ELSE ""

\* Slot 1 counts as pre-committed unless it points where slot 0 does.
Precommitted(slots) == slots[1].size # 0 /\ slots[1].offset # slots[0].offset

find_vg_rlocn(slots, name, precommitted) ==
    LET locn == IF precommitted /\ Precommitted(slots) THEN slots[1] ELSE slots[0]
    IN  IF \/ locn.offset = 0 /\ locn.size = 0
           \/ name # "" /\ NameAt(locn.offset) # name
        THEN NoLocn ELSE locn

WrapOf(locn) ==
    IF locn.offset + locn.size > AreaSize
    THEN locn.offset + locn.size - AreaSize ELSE 0

\* The version found at locn, None when the checksum does not match.
Import(locn) ==
    IF /\ WrapOf(locn) <= locn.offset
       /\ \A i \in 0 .. locn.size - 1 :
             text[UnitAt(locn.offset, i)] = [version |-> locn.checksum, pos |-> i]
    THEN locn.checksum ELSE None

vg_read_raw_area(name, precommitted) ==
    LET locn == find_vg_rlocn(raw_locns, name, precommitted)
    IN  IF locn = NoLocn THEN None ELSE Import(locn)

-----------------------------------------------------------------------------
(* Writing *)

\* Mutant: the offset is not taken around the end of the area.
next_rlocn_offset_straight(old) ==
    IF old = NoLocn THEN Header
    ELSE old.offset + old.size + (SectorSize - (old.size % SectorSize))

\* Mutant: the last sector of the old text is used again.
next_rlocn_offset_unpadded(old) ==
    IF old = NoLocn THEN Header
    ELSE ((old.offset + old.size - (old.size % SectorSize) - Header) % Buffer) + Header

\* Where the next text goes: the sector after the old one, circularly.  A
\* text that fills its last sector is followed by a whole empty one.
next_rlocn_offset(old) ==
    IF old = NoLocn THEN Header
    ELSE ((old.offset + old.size + (SectorSize - (old.size % SectorSize)) - Header)
            % Buffer) + Header

TooLarge(old, new) ==
    LET new_wrap == WrapOf(new)
        old_wrap == WrapOf(old)
        new_end == IF new_wrap # 0 THEN new_wrap + Header ELSE new.offset + new.size
    IN  \/ new_wrap # 0 /\ old_wrap # 0
        \/ /\ old # NoLocn
           /\ new_wrap # 0 \/ old_wrap # 0
           /\ new_end > old.offset
        \/ new.size >= AreaSize

\* What a command looks for and what it writes.  An update finds the VG it
\* writes; vgrename finds the old name, vgcfgrestore (old_name is "") any.  A
\* merge writes the areas of another VG under the name of its own.
Commands ==
    LET live == NameAt(raw_locns[0].offset)
    IN  {c \in [kind : Kinds, find : Names \cup {""}, write : Names] :
            \/ c.kind = "update" /\ c.find = c.write /\ live \in {c.write, ""}
            \/ c.kind = "rename" /\ c.find = live /\ live # "" /\ c.write # live
            \/ c.kind = "restore" /\ c.find = ""
            \/ c.kind = "merge" /\ c.find = c.write /\ live \notin {c.write, ""}}

\* vg_write, up to the first write to the disk.
Write(c, size) ==
    LET old == find_vg_rlocn(raw_locns, c.find, FALSE)
        new == [offset |-> next_rlocn_offset(old), size |-> size,
                checksum |-> [write |-> writes + 1, name |-> c.write]]
    IN  /\ pc = "idle"
        /\ writes < MaxWrites
        /\ writes' = writes + 1
        /\ IF TooLarge(old, new)
           THEN UNCHANGED <<rlocn, vgname, pc>>
           ELSE rlocn' = new /\ vgname' = c.find /\ pc' = "writing"
        /\ UNCHANGED <<raw_locns, text, done>>

\* One more unit of the text reaches the disk.
WriteText ==
    /\ pc = "writing"
    /\ text' = [text EXCEPT ![UnitAt(rlocn.offset, done)] =
                    [version |-> rlocn.checksum, pos |-> done]]
    /\ IF done + 1 = rlocn.size
       THEN pc' = "written" /\ done' = 0
       ELSE done' = done + 1 /\ UNCHANGED pc
    /\ UNCHANGED <<raw_locns, rlocn, vgname, writes>>

\* The header that _vg_commit_raw_rlocn starts from: all slots are wiped when
\* slot 0 does not hold the VG.
HeaderFor(name) ==
    IF find_vg_rlocn(raw_locns, name, FALSE) = NoLocn
    THEN [s \in {0, 1} |-> NoLocn] ELSE raw_locns

\* Mutant: the pre-commit takes slot 0.
commit_raw_rlocn_slot0(name, new, precommit) ==
    LET slots == HeaderFor(name)
    IN  IF new.size # 0 THEN [slots EXCEPT ![0] = new] ELSE slots

\* Mutant: the new locations are written whatever the caller.
commit_raw_rlocn_both(name, new, precommit) ==
    LET slots == HeaderFor(name)
    IN  IF new.size # 0 THEN [slots EXCEPT ![0] = new, ![1] = new]
        ELSE [slots EXCEPT ![1] = NoLocn]

commit_raw_rlocn(name, new, precommit) ==
    LET slots == HeaderFor(name)
    IN  IF precommit
        THEN IF new.size # 0 THEN [slots EXCEPT ![1] = new] ELSE slots
        ELSE [s \in {0, 1} |-> IF s = 1 THEN NoLocn
                               ELSE IF new.size # 0 THEN new ELSE slots[0]]

Finished == rlocn' = NoLocn /\ vgname' = "" /\ done' = 0 /\ pc' = "idle"

Precommit ==
    /\ pc = "written"
    /\ raw_locns' = commit_raw_rlocn(vgname, rlocn, TRUE)
    /\ pc' = "precommitted"
    /\ UNCHANGED <<text, rlocn, vgname, done, writes>>

Commit ==
    /\ pc = "precommitted"
    /\ raw_locns' = commit_raw_rlocn(vgname, rlocn, FALSE)
    /\ Finished
    /\ UNCHANGED <<text, writes>>

\* vg_revert, and the failure of the write or the pre-commit elsewhere.
Revert ==
    /\ pc \in {"written", "precommitted"}
    /\ raw_locns' = commit_raw_rlocn(vgname, [rlocn EXCEPT !.size = 0], FALSE)
    /\ Finished
    /\ UNCHANGED <<text, writes>>

\* A command that finds slot 0 leaves slot 1 alone.
Remove(name) ==
    /\ pc = "idle"
    /\ raw_locns' =
          IF find_vg_rlocn(raw_locns, name, FALSE) = NoLocn
          THEN [raw_locns EXCEPT ![0] = NoLocn, ![1].offset = 0]
          ELSE [raw_locns EXCEPT ![0] = NoLocn]
    /\ UNCHANGED <<text, rlocn, vgname, done, pc, writes>>

\* The machine or the command stops, or the device returns an error: what is
\* on the disk stays, and nobody reverts it.
Stop ==
    /\ pc # "idle"
    /\ Finished
    /\ UNCHANGED <<raw_locns, text, writes>>

Next ==
    \/ \E c \in Commands, size \in TextSizes : Write(c, size)
    \/ WriteText
    \/ Precommit
    \/ Commit
    \/ Revert
    \/ \E name \in Names : Remove(name)
    \/ Stop

Spec == Init /\ [][Next]_vars

-----------------------------------------------------------------------------
(* Properties *)

\* The committed text can be read, whatever has been written since and
\* wherever that was interrupted: no write touches a unit that slot 0 needs.
CommittedReadable ==
    raw_locns[0] # NoLocn => Import(raw_locns[0]) = raw_locns[0].checksum

\* Between vg_write and vg_commit the area yields the new text to those who
\* ask for pre-committed metadata (activation of suspended LVs) and the old
\* one to everybody else.
PrecommittedReadable ==
    pc = "precommitted" =>
        /\ vg_read_raw_area(rlocn.checksum.name, TRUE) = rlocn.checksum
        /\ raw_locns[0] # NoLocn => Import(raw_locns[0]) # rlocn.checksum

Live == IF raw_locns[0] = NoLocn THEN None ELSE Import(raw_locns[0])
Pre == IF Precommitted(raw_locns) THEN raw_locns[1].checksum ELSE None

\* vg_revert gives the metadata back that was committed before vg_write: the
\* version that can be read never changes before the commit.
LiveUntilCommit ==
    [][Precommit \/ Revert => Live' = Live]_vars

Slots == INSTANCE MdaSlots WITH live <- Live, pre <- Pre

\* The area implements two registers: the live version only ever changes to
\* the pre-committed one, in one step, or to nothing when the VG is removed.
ImplementsSlots == Slots!Spec
=============================================================================
