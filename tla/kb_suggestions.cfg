SPECIFICATION FairSpec
CONSTANTS
    k1 = k1
    k2 = k2
    v1 = v1
    v2 = v2
    blank = blank
    g1 = g1
    g2 = g2
    c1 = c1
    c2 = c2
    c3 = c3
    None = None
    Articles = {k1, k2}
    Versions = {v1}
    Blank = {}
    Suggestions = {g1}
    Calls = {c1, c2, c3}
    KindsOf <- SuggestionKinds
    Targets = {"published"}
    MaxFailures = 1
INVARIANTS
    ApprovedIsServed
    OneArticlePerAnswer
PROPERTY
    RebuildRestoresIndex
