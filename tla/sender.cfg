SPECIFICATION Spec
CONSTANTS
    p1 = p1
    a1 = a1
    s1 = s1
    s2 = s2
    i1 = i1
    i2 = i2
    t1 = t1
    None = None
    Contacts = {p1}
    Agents = {a1}
    Sends = {s1, s2}
    Inbound = {i1, i2}
    Texts = {t1}
    Callers <- InConversation
    Window = 1
    Recent = 0
    Near = 0
    MaxTime = 2
    ReportedStatuses = {"read"}
    MaxReports = 1
    MaxEvents = 1
SYMMETRY Symmetry
INVARIANTS
    TypeOK
    AnswerIsTrue
    RepeatedReplyExplained
    WindowHonoured
    SuggestionAnswersEarlierQuestion
    StatusOfItsOwnText
PROPERTY
    RepliesAuthorised
