SPECIFICATION Spec
CONSTANTS
    c1 = c1
    c2 = c2
    c3 = c3
    p1 = p1
    p2 = p2
    d1 = d1
    d2 = d2
    d3 = d3
    m1 = m1
    m2 = m2
    a1 = a1
    None = None
    Contacts = {p1}
    Agents = {a1}
    ConvIds = {c1, c2, c3}
    Deliveries = {d1, d2, d3}
    Messages = {m1, m2}
    Identified = {m1}
    From <- OneSender
    EventAt <- InOrder
    Kinds = {"evolution", "n8n", "workflow"}
    Ops = {"close"}
    MaxOps = 1
    MaxCrashes = 1
    AgentTime = 3
SYMMETRY Symmetry
INVARIANTS
    ProcessedMeansStored
    AtMostOneDecision
    OneOpenConversation
