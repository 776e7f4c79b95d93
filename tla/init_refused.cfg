\* `init` on a host that has nothing, and nobody who interferes.
SPECIFICATION Spec
CONSTANTS
    p = p
    q = q
    NULL = NULL
    Procs = {p, q}
    Cases <- FreshCases
    Names = {n1}
    Mirrors = {}
    Addresses = {a1}
    Polls = 1
    Tries = 0
INVARIANT
    GuardSparesOwnFiles
