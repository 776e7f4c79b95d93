\* One command on stacks of two and three services; the services do as they like.
SPECIFICATION FairSpec
CONSTANTS
    a = a
    b = b
    c = c
    Services = {a, b, c}
    Cases <- AllCases
    Polls = 2
    Elapsed = {100, 300}
    Invalid = Invalid
INVARIANTS
    TypeOK
    OrderIsSound
    DependenciesFirst
    SuccessIsComplete
    RestartsAreBounded
PROPERTIES
    RestartsAreSpaced
    CommandEnds
    BadIsRestarted
CHECK_DEADLOCK FALSE
