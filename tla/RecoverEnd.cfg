\* The images of Recover.cfg: a root of up to three entries, one directory of up to two, in slots of four.
CONSTANTS
    Names = {0, 1, 2, 3}
    Images <- TestImages
    RootEntries = 4
    ClusterSlots = 4
SPECIFICATION Spec
INVARIANT ExitsAtEnd
CHECK_DEADLOCK FALSE
