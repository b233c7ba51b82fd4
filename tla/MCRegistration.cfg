SPECIFICATION CountsSpec
CONSTANTS
    EmailText <- MCEmailText
    BlankEmail = blank
    WithAt <- MCWithAt
    NameText <- MCNameText
    NameLen <- MCNameLen
    Password <- MCPassword
    PasswordLen <- MCPasswordLen
    BcryptKey <- MCBcryptKey
    Nil = Nil
    NoUser = NoUser
    NoReply = NoReply
    ann = ann
    bob = bob
    noat = noat
    blank = blank
    nobody = nobody
    alice = alice
    full = full
    empty = empty
    short = short
    secret = secret
    longest = longest
    overlong = overlong
    g1 = g1
    g2 = g2
    g3 = g3
    r1 = r1
    r2 = r2
    UserID = {u1, u2, u3}
    Goroutine = {g1, g2, g3}
    Host <- MCHost
    Seed <- MCSeed
    RegisterInputs <- MCRegisterInputs
    Credentials = {}
    UpdateInputs = {}
    MaxCalls = 3
    MaxTime = 0
SYMMETRY Alike
INVARIANTS
    TypeOK
    EmailsUnique
    CountsBacked
