\* Bytes of eight bits; ints of sixteen are enough for one branch.
CONSTANTS
    ByteBits = 8
    IntBits = 16
    MaxFrames = 1
    MaxArrays = 0
    Classes <- FarClasses
SPECIFICATION Spec
INVARIANT VerifiedCodeIsSafe
CHECK_DEADLOCK FALSE
