SPECIFICATION Spec
CONSTANTS
    d1 = d1
    d2 = d2
    r1 = r1
    r2 = r2
    r3 = r3
    a1 = a1
    a2 = a2
    None = None
    Drafts = {d1, d2}
    Reviews = {r1, r2, r3}
    Actors = {a1}
    Lease = 1
    MaxTime = 2
    MaxCrashes = 0
SYMMETRY Symmetry
INVARIANT
    ApprovedStaysPublished
