SPECIFICATION FairSpec
CONSTANTS
    UserID = {1, 2, 3, 4}
    NoUser = 0
    Created <- MCCreated
    DefaultLimit = 2
    MaxLimit = 3
    MaxInt = 20
    Limits <- MCLimits
    Starts <- MCStarts
INVARIANTS
    PagingTypeOK
    MissesOnlyByDeletes
    RepeatsOnlyByInserts
PROPERTIES
    PagesFilled
    ScanEnds
