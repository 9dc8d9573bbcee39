\* Texts larger than half of the buffer.
CONSTANTS
    SectorSize = 2
    AreaSize = 10
    TextSizes = {3, 5}
    Names = {"vg"}
    Kinds = {"update"}
    MaxWrites = 4
SPECIFICATION Spec
INVARIANTS CommittedReadable
