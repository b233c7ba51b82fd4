SPECIFICATION WebSpec
CONSTANTS
    EmailText <- MCWebText
    BlankEmail = blank
    WithAt <- MCWebAt
    NameText <- MCWebName
    NameLen <- MCWebNameLen
    NameRunes <- MCNameRunes
    Password <- MCWebPassword
    PasswordLen <- MCWebPasswordLen
    PasswordRunes <- MCPasswordRunes
    BcryptKey <- MCWebBcryptKey
    WellFormed <- MCWellFormed
    Nil = Nil
    NoUser = NoUser
    NoReply = NoReply
    ann = ann
    bob = bob
    odd = odd
    noat = noat
    blank = blank
    nobody = nobody
    alice = alice
    broad = broad
    full = full
    empty = empty
    short = short
    secret = secret
    wide = wide
    longest = longest
    overlong = overlong
    g1 = g1
    g2 = g2
    r1 = r1
    u1 = u1
    u2 = u2
    UserID = {u1, u2}
    Goroutine = {g1, g2}
    Host <- MCHost
    Seed <- MCSeed
    RegisterInputs <- MCBodies
    Credentials <- MCLogins
    UpdateInputs <- MCPuts
    MaxCalls = 3
    MaxTime = 2
    Second = 2
    TTL = 2
SYMMETRY Alike
INVARIANTS
    LifetimeExact
    TruthfulStatus
    LoginStaysPossible
    PasswordsLongEnough
PROPERTIES
    OnlyBearersChange
