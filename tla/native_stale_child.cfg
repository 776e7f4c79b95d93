\* Two managers (a supervising `up` and a command in another terminal).
SPECIFICATION Spec
CONSTANTS
    web = web
    worker = worker
    NULL = NULL
    Foreign = Foreign
    Managers = {m1, m2}
    Services = {worker}
    Pids = {p1, p2}
    Ids = {i1, i2, i3}
    depends_on <- NoDependencies
    ProcessChecked = {worker}
    Limited = {}
    PromptReuse = FALSE
    DbFails = FALSE
SYMMETRY Symmetry
PROPERTIES
    StopIsConfirmed
