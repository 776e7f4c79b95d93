\* One manager at a time; everything may fail and the guest restarts.
SPECIFICATION Spec
CONSTANTS
    NULL = NULL
    Managers = {m1}
    Containers = {k1, k2, k3}
    Configs = {plain, checked}
    Probed = {checked}
    Ports = {p1, p2}
    plain = plain
    checked = checked
    p1 = p1
    p2 = p2
    PortsOf <- MCPortsOf
    Addrs = {a1, a2}
    Faults = TRUE
    VmMoves = TRUE
SYMMETRY Symmetry
INVARIANTS
    TypeOK
PROPERTIES
    KeepsProvenLayer
    FailedLaunchRestores
    StartDelivers
