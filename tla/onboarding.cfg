SPECIFICATION Spec
CONSTANTS
    c1 = c1
    c2 = c2
    c3 = c3
    u1 = u1
    u2 = u2
    u3 = u3
    k1 = k1
    k2 = k2
    k3 = k3
    e1 = e1
    e2 = e2
    n1 = n1
    n2 = n2
    None = None
    Calls = {c1, c2, c3}
    Kinds <- Entries
    Accounts = {u1, u2, u3}
    Companies = {k1, k2, k3}
    Emails = {e1, e2}
    Names = {n1, n2}
SYMMETRY Symmetry
INVARIANTS
    TypeOK
    AccountFollowsRequest
    OneRegistrationPerAddress
    SessionFollowsLogin
PROPERTY
    InUseUntilWithdrawn
