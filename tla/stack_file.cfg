\* Every file of the family loads, converts and validates; it ends there.
SPECIFICATION Spec
CONSTANTS
    Absent = Absent
    Invalid = Invalid
    MaxU16 = 65535
    U32 = 65536
    Inputs <- AllInputs
INVARIANTS
    TypeOK
    SpellingsAgree
    PublishedAsWritten
    DownVolumesAreOwn
    ReplicasAreDistinct
    EnvironmentIsLayered
CHECK_DEADLOCK FALSE
