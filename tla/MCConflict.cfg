SPECIFICATION Spec
CONSTANTS
    EmailText <- MCEmailText
    BlankEmail = blank
    WithAt <- MCWithAt
    NameText <- MCNameText
    NameLen <- MCNameLen
    Password <- MCPassword
    PasswordLen <- MCPasswordLen
    BcryptKey <- MCBcryptKey
    Nil = Nil
    NoUser = NoUser
    NoReply = NoReply
    ann = ann
    bob = bob
    noat = noat
    blank = blank
    nobody = nobody
    alice = alice
    full = full
    empty = empty
    short = short
    secret = secret
    longest = longest
    overlong = overlong
    g1 = g1
    g2 = g2
    r1 = r1
    r2 = r2
    u1 = u1
    u2 = u2
    u3 = u3
    UserID = {u1, u2}
    Goroutine = {g1, g2}
    Host <- MCHost
    Seed <- MCOneSeed
    RegisterInputs = {}
    Credentials = {}
    UpdateInputs <- MCMoves
    MaxCalls = 2
    MaxTime = 0
PROPERTIES
    ConflictMeansDuplicate
