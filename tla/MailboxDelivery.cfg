SPECIFICATION Spec
CONSTANTS
    m1 = m1
    m2 = m2
    c1 = c1
    c2 = c2
    r1 = r1
    NoMessage = NoMessage
    Message = {m1, m2}
    Consumer = {c1, c2}
    RecipientOf <- OneBox
    Serves <- ServeOne
    MaxCrashes = 2
INVARIANTS
    TypeOK
    AckedHandled
    SingleClaim
    NothingLost
PROPERTIES
    OldestFirst
    NeverReopened
