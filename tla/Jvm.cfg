\* Bytes of two bits and ints of four.
CONSTANTS
    ByteBits = 2
    IntBits = 4
    MaxFrames = 5
    MaxArrays = 3
    Classes <- TestClasses
SPECIFICATION Spec
INVARIANTS
    VerifiedCodeIsSafe
    NothingLeaks
\* A program ends; the depth of its calls and the arrays it makes are bounded.
CHECK_DEADLOCK FALSE
