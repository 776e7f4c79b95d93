\* Registry commands in two terminals; or a machine created, kept and repaired from one.
SPECIFICATION FairSpec
CONSTANTS
    p = p
    q = q
    NULL = NULL
    Procs = {p, q}
    Cases <- AllCases
    Names = {n1, n2}
    Mirrors = {r1}
    Addresses = {a1, a2}
    Polls = 2
    Tries = 1
INVARIANTS
    TypeOK
    FilesAreWhole
    VmDiskIsWhole
    OnlyVerifiedIsUsed
    GuestMirrorsAreConfigured
PROPERTIES
    RegistryIsAtomic
    NothingIsOverwritten
    CommandsEnd
