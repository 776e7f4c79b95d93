\* One manager at a time; the guest restarts under another address.
SPECIFICATION Spec
CONSTANTS
    NULL = NULL
    Managers = {m1}
    Containers = {k1, k2}
    Configs = {plain, checked}
    Probed = {}
    Ports = {p1, p2}
    plain = plain
    checked = checked
    p1 = p1
    p2 = p2
    PortsOf <- MCPortsOf
    Addrs = {a1, a2}
    Faults = FALSE
    VmMoves = TRUE
SYMMETRY Symmetry
PROPERTIES
    ApiRulesLeadToGuest
