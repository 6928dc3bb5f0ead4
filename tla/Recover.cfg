\* A root of three entries, a directory of one or two, in slots of four; images whole
\* or cut off, directories that end with zeroes or with an entry that was used.
CONSTANTS
    Names = {0, 1, 2, 3}
    Images <- TestImages
    RootEntries = 4
    ClusterSlots = 4
SPECIFICATION Spec
INVARIANTS
    Sorted
    OneParent
\* The program ends.
CHECK_DEADLOCK FALSE
