\* Words of four bits, two variables, which start as either of two values.
CONSTANTS
    IntBits = 4
    Letters = 2
    Garbage <- GarbageValues
    MaxOutput = 6
    Programs <- TestPrograms
SPECIFICATION Spec
INVARIANTS
    RunsAsWritten
    CallingConvention
PROPERTY
    EndsAsWritten
\* A program ends, or has printed as much as it may.
CHECK_DEADLOCK FALSE
