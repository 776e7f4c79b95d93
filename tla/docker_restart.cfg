\* One request at a time; the server crashes.
SPECIFICATION Spec
CONSTANTS
    NULL = NULL
    Requests = {r1}
    Ids = {c1, c2}
    Names = {n1}
    Ports = {p1}
    VmStops = FALSE
    Faults = FALSE
SYMMETRY Symmetry
INVARIANTS
    ServerComesUp
