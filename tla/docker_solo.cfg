\* One request at a time; the server crashes, commands and answers fail, the
\* guest stops.
SPECIFICATION Spec
CONSTANTS
    NULL = NULL
    Requests = {r1}
    Ids = {c1, c2, c3}
    Names = {n1, n2}
    Ports = {p1, p2}
    VmStops = TRUE
    Faults = TRUE
SYMMETRY Symmetry
INVARIANTS
    TypeOK
    RulesAreOwned
    OneListener
PROPERTIES
    OnlyUnansweredRemovalUntracks
