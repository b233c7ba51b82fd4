SPECIFICATION Spec
CONSTANTS
    q1 = q1
    q2 = q2
    q3 = q3
    Request = {q1}
    Route <- MCOneRoute
    Path <- MCOnePath
    HasID = {q1}
    Statuses = {200, 409}
    NoID = NoID
    Unset = Unset
INVARIANTS
    EachRequestRecorded
