\* The stack files alone matter here.
SPECIFICATION Spec
CONSTANTS
    Absent = Absent
    Invalid = Invalid
    MaxU16 = 65535
    U32 = 65536
    Inputs <- AllInputs
INVARIANTS
    DefaultsAreKept
CHECK_DEADLOCK FALSE
