SPECIFICATION Spec
CONSTANTS
    c1 = c1
    c2 = c2
    vip = vip
    late = late
    None = None
    Calls = {c1, c2}
    OrderKinds = {"reservation", "order"}
    OtherTags = {vip, late}
    Lists <- AgentLists
    TagLimit = 4
SYMMETRY Symmetry
INVARIANT
    TagsKept
