SPECIFICATION Spec
CONSTANTS
    c1 = c1
    c2 = c2
    c3 = c3
    p1 = p1
    p2 = p2
    d1 = d1
    d2 = d2
    d3 = d3
    m1 = m1
    m2 = m2
    a1 = a1
    None = None
    Contacts = {p1, p2}
    Agents = {a1}
    ConvIds = {c1, c2}
    Deliveries = {d1, d2}
    Messages = {m1, m2}
    Identified = {m1}
    From <- TwoSenders
    EventAt <- InOrder
    Kinds = {"evolution", "n8n", "persist", "workflow"}
    Ops = {"close", "status", "assign", "handoff", "reactivate", "update", "event", "create", "remove", "delete_message", "read_notices"}
    MaxOps = 1
    MaxCrashes = 1
    AgentTime = 3
SYMMETRY Symmetry
INVARIANTS
    TypeOK
    UnreadAccountsForInbound
    AtMostOneDecision
    MessageInSendersConversation
    WindowFromCustomer
PROPERTY
    BlockedIsSignalled
    TakeoverOutlivesDeliveries
