SPECIFICATION Spec
CONSTANTS
    k1 = k1
    k2 = k2
    v1 = v1
    v2 = v2
    blank = blank
    g1 = g1
    g2 = g2
    c1 = c1
    c2 = c2
    c3 = c3
    None = None
    Articles = {k1, k2}
    Versions = {v1, v2, blank}
    Blank = {blank}
    Suggestions = {g1}
    Calls = {c1, c2}
    KindsOf <- AnyKind
    Targets = {"published", "archived"}
    MaxFailures = 2
SYMMETRY Symmetry
INVARIANTS
    TypeOK
    IndexFollowsBody
PROPERTY
    ErrorLeavesNoTrace
