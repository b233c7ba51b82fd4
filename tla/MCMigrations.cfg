SPECIFICATION FairSpec
CONSTANTS
    r1 = r1
    r2 = r2
    r3 = r3
    Replica = {r1, r2, r3}
    NoReplica = NoReplica
    Latest = 2
INVARIANTS
    MigrationsTypeOK
    SchemaReady
    AppliedInOrder
PROPERTIES
    CutShortStaysVisible
    StartEnds
