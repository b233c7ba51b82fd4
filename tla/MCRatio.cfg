SPECIFICATION Spec
CONSTANTS
    MaxInt = 31
    MaxInt32 = 7
    MaxDefault = 4
    MinDefault = 2
    PoolTexts <- MCPoolTexts
    Ratios <- MCNaN
    Secrets = {0, 15, 16}
INVARIANT
    RatioInRange
