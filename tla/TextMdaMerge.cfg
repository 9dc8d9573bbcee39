\* vgmerge writes the areas of one VG under the name of the other.
CONSTANTS
    SectorSize = 2
    AreaSize = 10
    TextSizes = {1, 2}
    Names = {"vg", "vg2"}
    Kinds = {"update", "merge"}
    MaxWrites = 3
SPECIFICATION Spec
PROPERTY LiveUntilCommit
