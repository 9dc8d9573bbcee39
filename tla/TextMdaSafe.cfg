\* Texts of up to three units in a buffer of four sectors of two units, and one
\* text that is too large for the area.
CONSTANTS
    SectorSize = 2
    AreaSize = 10
    TextSizes = {1, 2, 3, 10}
    Names = {"vg", "vg2"}
    Kinds = {"update", "rename", "restore"}
    MaxWrites = 4
SPECIFICATION Spec
INVARIANTS TypeOK CommittedReadable PrecommittedReadable
PROPERTY ImplementsSlots
