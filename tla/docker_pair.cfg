\* Two requests at once; the guest may go down at any time.
SPECIFICATION Spec
CONSTANTS
    NULL = NULL
    Requests = {r1, r2}
    Ids = {c1, c2}
    Names = {n1, n2}
    Ports = {p1}
    VmStops = TRUE
    Faults = FALSE
SYMMETRY Symmetry
INVARIANTS
    PortsAreReserved
