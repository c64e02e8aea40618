SPECIFICATION FairSpec
CONSTANTS
    r1 = r1
    r2 = r2
    k1 = k1
    x1 = x1
    room = room
    None = None
    Requests = {r1, r2}
    KindsOf <- AnyThenBusiness
    Chunks = {k1}
    Invented = {x1}
    OrderKinds = {"reservation"}
    Fields = {room}
    HotelFields = {room}
    Providers = 2
    MaxFailures = 1
INVARIANTS
    TypeOK
    GroundedAnswer
PROPERTIES
    OrderDetailsKept
    EveryRequestEnds
