SPECIFICATION FairSpec
CONSTANTS
    update = update
    register = register
    ready = ready
    Request = {update, register, ready}
    Statements <- MCStatements
    MaxConns = 2
    MaxSignals = 2
PROPERTIES
    ProcessEnds
    RequestsEnd
    NoStatementCut
INVARIANTS
    LifecycleTypeOK
    GracefulStop
