\* One manager at a time, two services, one waiting for the other.
SPECIFICATION Spec
CONSTANTS
    web = web
    worker = worker
    NULL = NULL
    Foreign = Foreign
    Managers = {m1}
    Services = {web, worker}
    Pids = {p1, p2}
    Ids = {i1, i2, i3}
    depends_on <- WebNeedsWorker
    ProcessChecked = {worker}
    Limited = {web}
    PromptReuse = FALSE
    DbFails = TRUE
SYMMETRY Symmetry
INVARIANTS
    TypeOK
    NoLostProcess
    ReadyRowIsTruthful
    RecordedIdentity
PROPERTIES
    KillsOnlyItsOwn
