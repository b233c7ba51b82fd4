SPECIFICATION FairSpec
CONSTANTS
    EmailText <- MCEmailText
    BlankEmail = blank
    WithAt <- MCWithAt
    NameText <- MCNameText
    NameLen <- MCNameLen
    Password <- MCPassword
    PasswordLen <- MCPasswordLen
    BcryptKey <- MCBcryptKey
    Nil = Nil
    NoUser = NoUser
    NoReply = NoReply
    ann = ann
    bob = bob
    noat = noat
    blank = blank
    nobody = nobody
    alice = alice
    full = full
    empty = empty
    short = short
    secret = secret
    longest = longest
    overlong = overlong
    g1 = g1
    g2 = g2
    r1 = r1
    r2 = r2
    u1 = u1
    u2 = u2
    u3 = u3
    UserID <- MCUserID
    Goroutine = {g1, g2}
    Host <- MCHost
    Seed <- MCSeed
    RegisterInputs <- MCRegisterInputs
    Credentials <- MCCredentials
    UpdateInputs <- MCUpdateInputs
    MaxCalls = 3
    MaxTime = 0
INVARIANTS
    StoredValid
    HonestAnswers
    TokenSound
PROPERTIES
    StaysDeleted
    ImplementsDirectory
    CallsReturn
