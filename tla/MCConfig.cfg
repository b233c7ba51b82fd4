SPECIFICATION Spec
CONSTANTS
    MaxInt = 31
    MaxInt32 = 7
    MaxDefault = 4
    MinDefault = 2
    PoolTexts <- MCPoolTexts
    Ratios <- MCRatios
    Secrets = {0, 15, 16}
INVARIANTS
    ConfigTypeOK
    PoolAsAsked
    SampledAsAsked
