---------------------------- MODULE WhatsappSender ----------------------------
(***************************************************************************)
(* Outbound texts of one conversation: whatsapp.service.ts, the outbound   *)
(* part of messages.service.ts, and the delivery statuses that come back.  *)
(*                                                                         *)
(* A request is a process with one step per database or provider call:     *)
(*   workflow         POST /whatsapp/workflow/send-message                  *)
(*   automated_reply  POST /whatsapp/reply with the flag "automated"        *)
(*   send             POST /whatsapp/send-message, or reply without it      *)
(*   agent            POST /messages/send, of the inbox                     *)
(*   save             POST /messages/bot and /messages/human: the workflow  *)
(*                    records a text, nothing is sent                       *)
(* The provider is outside the program: a text it accepts reaches the       *)
(* customer, and its answer may carry no identifier or be lost.  Agents and *)
(* the customer write the conversation meanwhile.                           *)
(***************************************************************************)
EXTENDS Conversations, FiniteSets, Sequences, SequencesExt

CONSTANTS
    Sends,       \* the requests received
    Inbound,     \* messages that the customer may write
    Texts,       \* the texts of the requests
    Callers,     \* the entries in use: kind, type of sender, whether it names the conversation
    Window,      \* the 24 hours of the customer window
    Recent,      \* the 5 minutes of the duplicate check of sendText
    Near,        \* the 90 seconds of the duplicate check of save
    MaxTime,     \* bound on the clock
    ReportedStatuses,  \* what the provider or an agent may say of a text
    MaxReports,  \* bound on the statuses that the provider gives
    MaxEvents    \* bound on the operations of agents and the failures together

\* What a request may answer.
Outcomes == {"sent", "saved", "skipped", "error"}

ASSUME SenderAssumption ==
    /\ Callers \subseteq ({"workflow", "automated_reply", "send"}
                            \X {"bot", "human_agent", "system"} \X BOOLEAN)
                  \cup {<<"agent", "human_agent", TRUE>>, <<"save", "bot", TRUE>>,
                        <<"save", "human_agent", TRUE>>}
    /\ Window \in Nat \ {0} /\ Recent \in Nat /\ Near \in 0 .. Recent /\ MaxTime \in Nat \ {0}
    /\ ReportedStatuses \subseteq {"delivered", "read", "failed"} /\ MaxReports \in Nat
    /\ MaxEvents \in Nat
    /\ Sends \cap Inbound = {}   \* a message is the customer's or of a request
    /\ None \notin Sends \cup Inbound \cup Texts \cup Outcomes

VARIABLES
    clock,        \* the time of the server
    conv,         \* the row of the conversation
    messages,     \* its messages, in the order of createdAt
    deleted,      \* the messages deleted since (a history variable)
    suggestions,  \* the kb_suggestions rows
    sent,         \* the texts that the provider has accepted, in order
    request,      \* what each request knows, and its next step
    reports,      \* the statuses that the provider or an agent has given to a text
    ops           \* the number of operations of agents so far

vars == <<clock, conv, messages, deleted, suggestions, sent, request, reports, ops>>

Kinds == {caller[1] : caller \in Callers}
Senders == {caller[2] : caller \in Callers}

\* In the order of the code; an entry visits some of them.
Steps == {"idle", "instance", "duplicate", "provider", "record", "save_find", "save_near",
          "save_create", "touch", "question", "suggest", "reload", "done"}
Results == Outcomes \cup {None}

\* What a request keeps of the row it has read.
Contexts == [lastCustomerMessageAt : 0 .. MaxTime, handoffRequired : BOOLEAN]
NoContext == [lastCustomerMessageAt |-> 0, handoffRequired |-> FALSE]

Messages == [by : Sends \cup Inbound, sender : Senders \cup {"customer"},
             text : Texts \cup {None}, ext : Sends \cup {None}, status : {"sent", "delivered", "read", "failed"},
             at : 1 .. MaxTime]

TypeOK ==
    /\ clock \in 1 .. MaxTime
    /\ conv \in Rows
    /\ Range(messages) \subseteq Messages
    /\ deleted \subseteq Messages
    /\ suggestions \subseteq [question : Inbound, answer : Sends]
    /\ Range(sent) \subseteq [by : Sends, at : 1 .. MaxTime, checked : 0 .. MaxTime]
    /\ request \in [Sends -> [step : Steps, kind : Kinds \cup {None},
                              sender : Senders \cup {None}, text : Texts \cup {None},
                              known : BOOLEAN, seen : Contexts, ext : Sends \cup {None},
                              checked : 0 .. MaxTime, question : Inbound \cup {None},
                              ended : SUBSET Sends, result : Results]]
    /\ reports \subseteq [of : Sends \cup Inbound, status : ReportedStatuses]
    /\ ops \in 0 .. MaxEvents

InboundRow(i, at) == [by |-> i, sender |-> "customer", text |-> None, ext |-> None,
                      status |-> "delivered", at |-> at]

Init ==
    /\ clock = 1
    /\ \E contact \in Contacts :
         \/ /\ conv = NewRow(contact, 0)   \* opened by an agent, no message yet
            /\ messages = <<>>
         \/ /\ conv = touchInbound(NewRow(contact, 1), 1)
            /\ \E i \in Inbound : messages = <<InboundRow(i, 1)>>
    /\ deleted = {} /\ suggestions = {} /\ sent = <<>>
    /\ request = [s \in Sends |->
                    [step |-> "idle", kind |-> None, sender |-> None, text |-> None,
                     known |-> FALSE, seen |-> NoContext, ext |-> None, checked |-> 0,
                     question |-> None, ended |-> {}, result |-> None]]
    /\ reports = {}
    /\ ops = 0

-----------------------------------------------------------------------------
(* Helpers *)

\* The requests that ended before now, and those that failed.
Ended == {s \in Sends : request[s].step = "done"}
Failures == Cardinality({s \in Ended : request[s].result = "error"})

End(s, result) ==
    request' = [request EXCEPT ![s].step = "done", ![s].result = result, ![s].seen = NoContext,
                               ![s].ext = None, ![s].question = None, ![s].checked = 0]

Goto(s, step) == request' = [request EXCEPT ![s].step = step]

StoredBy(s) == {row \in Range(messages) : row.by = s}
WithExt(ext) == {row \in Range(messages) : ext # None /\ row.ext = ext}

\* Which entries refuse to speak over a human.
checksTakeover(kind, sender) ==
    kind = "automated_reply" \/ (kind = "workflow" /\ sender = "bot")

\* Mutant: only the assignment counts.
blockedByHuman_Assigned(kind, sender, known) ==
    known /\ checksTakeover(kind, sender) /\ conv.assignedTo # None

\* A request for a phone number alone knows no conversation, and is never blocked.
blockedByHuman(kind, sender, known) ==
    known /\ checksTakeover(kind, sender) /\ isHumanTakeoverActive(conv)

-----------------------------------------------------------------------------
(* A request: reply, sendMessage, sendWorkflowMessage, save *)

\* findConversationContext, then the takeover.  Contents and numbers that are
\* refused end the request here too, with an error, but the workflow's empty text is
\* skipped.
Begin(s, kind, sender, text, known, given) ==
    /\ request[s].step = "idle"
    /\ LET skipped == blockedByHuman(kind, sender, known) \/ (kind = "workflow" /\ given = "empty")
           refused == (known /\ ~Exists(conv)) \/ given # "fine"
           ends == refused \/ skipped
       IN request' = [request EXCEPT
            ![s] = [step |-> IF ends THEN "done" ELSE IF kind = "save" THEN "save_find" ELSE "instance",
                    kind |-> kind, sender |-> sender, text |-> text, known |-> known,
                    seen |-> IF ends \/ ~known \/ kind = "save" THEN NoContext
                             ELSE [lastCustomerMessageAt |-> conv.lastCustomerMessageAt,
                                   handoffRequired |-> conv.handoffRequired],
                    ext |-> None, checked |-> 0, question |-> None, ended |-> Ended,
                    result |-> IF known /\ ~Exists(conv) THEN "error"
                               ELSE IF skipped THEN "skipped"
                               ELSE IF refused THEN "error" ELSE None]]
    /\ UNCHANGED <<clock, conv, messages, deleted, suggestions, sent, reports, ops>>

\* Mutant: the window closes one instant too late.
checkWindow_Inclusive(lastCustomerMessageAt) ==
    lastCustomerMessageAt # 0 /\ clock - lastCustomerMessageAt <= Window

\* conversation-window.service.ts.
checkWindow(lastCustomerMessageAt) ==
    lastCustomerMessageAt # 0 /\ clock - lastCustomerMessageAt < Window

\* resolveInstanceConfig, then the first half of sendText: the window of the row
\* as read, before the missing instance is refused.  What a request no longer
\* needs of the row it forgets.
resolveInstance(s, found) ==
    LET r == request[s] IN
    /\ r.step = "instance"
    /\ CASE r.known /\ ~checkWindow(r.seen.lastCustomerMessageAt) -> End(s, "skipped")
         [] (~r.known \/ checkWindow(r.seen.lastCustomerMessageAt)) /\ ~found -> End(s, "error")
         [] OTHER -> request' = [request EXCEPT
                        ![s].checked = clock,
                        ![s].seen = IF r.sender = "human_agent"
                                    THEN [@ EXCEPT !.lastCustomerMessageAt = 0] ELSE NoContext,
                        ![s].step = IF r.known /\ r.sender = "bot" THEN "duplicate"
                                    ELSE "provider"]
    /\ UNCHANGED <<clock, conv, messages, deleted, suggestions, sent, reports, ops>>

\* Mutant: the oldest message is compared instead of the latest.
latestMessage_Oldest == Head(messages)

\* findFirst by createdAt, descending.
latestMessage == Last(messages)

\* findRecentDuplicateBotReply: only the latest message of the conversation.
findRecentDuplicateBotReply(s) ==
    /\ request[s].step = "duplicate"
    /\ IF /\ messages # <<>>
          /\ latestMessage.sender = "bot"
          /\ latestMessage.text = request[s].text
          /\ latestMessage.at >= clock - Recent
       THEN End(s, "skipped")
       ELSE Goto(s, "provider")
    /\ UNCHANGED <<clock, conv, messages, deleted, suggestions, sent, reports, ops>>

\* Mutant: a text whose answer is lost is sent again at once.
sendTextMessage_Retried(s, identified, answered) ==
    LET text == [by |-> s, at |-> clock, checked |-> request[s].checked] IN
    /\ request[s].step = "provider"
    /\ ~answered => ops + Failures < MaxEvents
    /\ sent' = IF answered THEN Append(sent, text) ELSE sent \o <<text, text>>
    /\ request' = [request EXCEPT ![s].ext = IF identified THEN s ELSE None,
                                  ![s].step = IF request[s].known THEN "record" ELSE "done",
                                  ![s].result = IF request[s].known THEN None ELSE "sent"]
    /\ UNCHANGED <<clock, conv, messages, deleted, suggestions, reports, ops>>

\* The provider accepts the text.  Its answer may carry no identifier that
\* extractMessageId finds, and the answer may be lost: the request then ends in
\* an error although the customer has the text.
sendTextMessage(s, identified, answered) ==
    LET text == [by |-> s, at |-> clock, checked |-> request[s].checked] IN
    /\ request[s].step = "provider"
    /\ ~answered => ops + Failures < MaxEvents
    /\ sent' = Append(sent, text)
    /\ IF ~answered THEN End(s, "error")
       ELSE IF request[s].known
            THEN request' = [request EXCEPT ![s].ext = IF identified THEN s ELSE None,
                                            ![s].checked = 0, ![s].step = "record"]
            ELSE End(s, "sent")
    /\ UNCHANGED <<clock, conv, messages, deleted, suggestions, reports, ops>>

\* Mutant: normalizeSenderType is forgotten.
OutboundRow_RawSender(s) ==
    [by |-> s, sender |-> IF request[s].kind = "agent" THEN "agent" ELSE request[s].sender,
     text |-> request[s].text, ext |-> request[s].ext, status |-> "sent", at |-> clock]

\* A row of the request, at the end of the conversation.
OutboundRow(s) == [by |-> s, sender |-> request[s].sender, text |-> request[s].text,
                   ext |-> request[s].ext, status |-> "sent", at |-> clock]

\* message.create of recordOutboundMessage: refused by the foreign key when the
\* conversation is gone, by the unique index when the identifier is stored.
recordOutboundMessage(s) ==
    /\ request[s].step = "record"
    /\ IF ~Exists(conv) \/ WithExt(request[s].ext) # {}
       THEN End(s, "error") /\ UNCHANGED messages
       ELSE messages' = Append(messages, OutboundRow(s)) /\ Goto(s, "touch")
    /\ UNCHANGED <<clock, conv, deleted, suggestions, sent, reports, ops>>

\* What a request answers when its text is stored.
Stored(s) == IF request[s].kind = "save" THEN "saved" ELSE "sent"

\* messages.service.ts reads the message again for the inbox.
AfterRecord(s) == IF request[s].kind = "agent" THEN Goto(s, "reload") ELSE End(s, Stored(s))

\* The second write of recordOutboundMessage, and touchConversation: the times of
\* the last messages, on a row that may be gone.
touchOutbound(s) ==
    /\ request[s].step = "touch"
    /\ IF ~Exists(conv) THEN End(s, "error")
       ELSE IF request[s].sender = "human_agent" THEN Goto(s, "question")
       ELSE AfterRecord(s)
    /\ UNCHANGED <<clock, conv, messages, deleted, suggestions, sent, reports, ops>>

\* The message of the inbox may have been deleted meanwhile.
reload(s) ==
    /\ request[s].step = "reload"
    /\ End(s, IF StoredBy(s) = {} THEN "error" ELSE "sent")
    /\ UNCHANGED <<clock, conv, messages, deleted, suggestions, sent, reports, ops>>

-----------------------------------------------------------------------------
(* save: a text that was sent elsewhere is recorded *)

\* The row with the same identifier.  The caller knows the identifier of a text
\* that the provider has accepted, or none.
findSaved(s, ext) ==
    /\ request[s].step = "save_find"
    /\ ext = None \/ \E i \in DOMAIN sent : sent[i].by = ext
    /\ IF WithExt(ext) # {} THEN End(s, "skipped")
       ELSE request' = [request EXCEPT
                          ![s].ext = ext,
                          ![s].step = IF ext = None THEN "save_near" ELSE "save_create"]
    /\ UNCHANGED <<clock, conv, messages, deleted, suggestions, sent, reports, ops>>

\* Without an identifier, the same content in the last 90 seconds.
findNearDuplicate(s) ==
    /\ request[s].step = "save_near"
    /\ IF \E row \in Range(messages) : row.text = request[s].text /\ row.at >= clock - Near
       THEN End(s, "skipped")
       ELSE Goto(s, "save_create")
    /\ UNCHANGED <<clock, conv, messages, deleted, suggestions, sent, reports, ops>>

\* The unique index is answered as a duplicate here.
createSaved(s) ==
    /\ request[s].step = "save_create"
    /\ CASE ~Exists(conv) -> End(s, "error") /\ UNCHANGED messages
         [] Exists(conv) /\ WithExt(request[s].ext) # {} -> End(s, "skipped") /\ UNCHANGED messages
         [] OTHER -> messages' = Append(messages, OutboundRow(s)) /\ Goto(s, "touch")
    /\ UNCHANGED <<clock, conv, deleted, suggestions, sent, reports, ops>>

-----------------------------------------------------------------------------
(* createKbSuggestionFromHumanReply, in both services *)

PositionOf(s) == CHOOSE i \in DOMAIN messages : messages[i].by = s

\* Mutant: the date of the answer is forgotten.
EarlierQuestions_AnyTime(s) == {i \in DOMAIN messages : messages[i].sender = "customer"}

\* The customer's messages up to the date of the answer, when it is still there.
EarlierQuestions(s) ==
    {i \in DOMAIN messages : /\ messages[i].sender = "customer"
                             /\ StoredBy(s) # {} => i < PositionOf(s)}

\* A suggestion is wanted when the conversation was handed off, for the sender as
\* the row was read and for save as it is now, or when some AI run handed it off.
findQuestion(s, handedOffByAi) ==
    LET handoffRequired == IF request[s].kind = "save" THEN conv.handoffRequired
                           ELSE request[s].seen.handoffRequired
        questions == EarlierQuestions(s)
    IN
    /\ request[s].step = "question"
    /\ IF questions = {} \/ ~(handoffRequired \/ handedOffByAi)
       THEN AfterRecord(s)
       ELSE request' = [request EXCEPT ![s].question = messages[Max(questions)].by,
                                       ![s].step = "suggest"]
    /\ UNCHANGED <<clock, conv, messages, deleted, suggestions, sent, reports, ops>>

\* The foreign keys refuse a question or an answer deleted meanwhile.
createSuggestion(s) ==
    LET question == request[s].question IN
    /\ request[s].step = "suggest"
    /\ IF StoredBy(s) # {} /\ StoredBy(question) # {}
       THEN /\ suggestions' = suggestions \cup {[question |-> question, answer |-> s]}
            /\ AfterRecord(s)
       ELSE End(s, "error") /\ UNCHANGED suggestions
    /\ UNCHANGED <<clock, conv, messages, deleted, sent, reports, ops>>

-----------------------------------------------------------------------------
(* What may cut a request short *)

\* A database call throws, the provider refuses the text or is not reached, or
\* the server stops: the caller gets no answer or an error, what was written stays.
Throw(s) ==
    /\ ops + Failures < MaxEvents
    /\ request[s].step \notin {"idle", "done"}
    /\ End(s, "error")
    /\ UNCHANGED <<clock, conv, messages, deleted, suggestions, sent, reports, ops>>

-----------------------------------------------------------------------------
(* delivery-status.handler.ts *)

\* Mutant: the latest message of the conversation is updated.
findByExternalId_Latest(ext) == IF messages = <<>> THEN {} ELSE {Last(messages)}

findByExternalId(ext) == WithExt(ext)

\* The provider reports a status of a text it has accepted, in any order and as
\* often as it likes.  The handler looks the message up and overwrites its status;
\* an unknown identifier is skipped, a row deleted between the two calls throws,
\* and both leave everything as it is.
handleStatus(ext, status) ==
    /\ Cardinality(reports) < MaxReports
    /\ \E i \in DOMAIN sent : sent[i].by = ext
    /\ reports' = reports \cup {[of |-> ext, status |-> status]}
    /\ messages' = [i \in DOMAIN messages |->
                      IF messages[i] \in findByExternalId(ext)
                      THEN [messages[i] EXCEPT !.status = status] ELSE messages[i]]
    /\ UNCHANGED <<clock, conv, deleted, suggestions, sent, request, ops>>

\* PATCH /messages/:id/status: an agent writes the status of the row he names.
updateStatusOf(row, status) ==
    /\ ops + Failures < MaxEvents
    /\ reports' = reports \cup {[of |-> row.by, status |-> status]}
    /\ messages' = [i \in DOMAIN messages |->
                      IF messages[i] = row THEN [row EXCEPT !.status = status] ELSE messages[i]]
    /\ ops' = ops + 1
    /\ UNCHANGED <<clock, conv, deleted, suggestions, sent, request>>

-----------------------------------------------------------------------------
(* The customer, the agents and the time *)

\* A message of the customer is stored with the time of its event, which may
\* precede the latest row.
Customer(i, late) ==
    LET position == IF late THEN Len(messages) ELSE Len(messages) + 1
        at == IF late THEN messages[Len(messages)].at ELSE clock
    IN
    /\ i \notin {row.by : row \in Range(messages) \cup deleted}
    /\ Exists(conv)
    /\ late => messages # <<>>
    /\ messages' = InsertAt(messages, position, InboundRow(i, at))
    /\ conv' = touchInbound(conv, at)
    /\ UNCHANGED <<clock, deleted, suggestions, sent, request, reports, ops>>

\* A takeover by assignment, one by a conversation event, which leaves the other
\* columns, and the end of a takeover: every value of what is read here.
Operate ==
    /\ ops + Failures < MaxEvents
    /\ Exists(conv)
    /\ \E row \in {assign(conv, a) : a \in Agents}
                  \cup {conversationEvent(conv, "human_assigned"), reactivateBot(conv, TRUE)} :
          row # conv /\ conv' = row
    /\ ops' = ops + 1
    /\ UNCHANGED <<clock, messages, deleted, suggestions, sent, request, reports>>

\* DELETE /messages/:id, which cascades to the suggestions.
DeleteMessage(i) ==
    /\ ops + Failures < MaxEvents
    /\ messages' = RemoveAt(messages, i)
    /\ deleted' = deleted \cup {messages[i]}
    /\ suggestions' = {g \in suggestions : messages[i].by \notin {g.question, g.answer}}
    /\ ops' = ops + 1
    /\ UNCHANGED <<clock, conv, sent, request, reports>>

\* DELETE /conversations/:id, with its messages and their suggestions.
RemoveConversation ==
    /\ ops + Failures < MaxEvents
    /\ Exists(conv)
    /\ conv' = remove(conv)
    /\ messages' = <<>>
    /\ deleted' = deleted \cup Range(messages)
    /\ suggestions' = {}
    /\ ops' = ops + 1
    /\ UNCHANGED <<clock, sent, request, reports>>

Tick ==
    /\ clock < MaxTime
    /\ clock' = clock + 1
    /\ UNCHANGED <<conv, messages, deleted, suggestions, sent, request, reports, ops>>

-----------------------------------------------------------------------------

Step(s) ==
    \/ \E caller \in Callers, text \in Texts, given \in {"fine", "empty", "refused"} :
          Begin(s, caller[1], caller[2], text, caller[3], given)
    \/ \E found \in BOOLEAN : resolveInstance(s, found)
    \/ findRecentDuplicateBotReply(s)
    \/ \E identified \in BOOLEAN, answered \in BOOLEAN : sendTextMessage(s, identified, answered)
    \/ recordOutboundMessage(s) \/ touchOutbound(s) \/ reload(s)
    \/ \E ext \in Sends \cup {None} : findSaved(s, ext)
    \/ findNearDuplicate(s) \/ createSaved(s)
    \/ \E handedOffByAi \in BOOLEAN : findQuestion(s, handedOffByAi)
    \/ createSuggestion(s) \/ Throw(s)

\* Every request has ended; the others may still act.
Rest ==
    /\ \A s \in Sends : request[s].step = "done"
    /\ UNCHANGED vars

Next ==
    \/ Rest
    \/ Tick
    \/ \E s \in Sends : Step(s)
    \/ \E ext \in Sends, status \in ReportedStatuses : handleStatus(ext, status)
    \/ \E i \in Inbound, late \in BOOLEAN : Customer(i, late)
    \/ Operate
    \/ \E row \in Range(messages), status \in ReportedStatuses : updateStatusOf(row, status)
    \/ \E i \in DOMAIN messages : DeleteMessage(i)
    \/ RemoveConversation

Spec == Init /\ [][Next]_vars

-----------------------------------------------------------------------------
(* Properties *)

\* The deliveries of a request, and its row, stored now or deleted since.
DeliveriesOf(s) == {i \in DOMAIN sent : sent[i].by = s}
RowsOf(s) == {row \in Range(messages) \cup deleted : row.by = s}

\* The answer of sendText is true: "sent" means that the customer got the text
\* exactly once and that it is in the conversation, "skipped" that he got none;
\* and nothing is recorded that was not delivered.  Only "error" says nothing.
AnswerIsTrue ==
    \A s \in {q \in Sends : request[q].kind # "save"} :
        /\ Cardinality(DeliveriesOf(s)) <= 1
        /\ RowsOf(s) # {} => DeliveriesOf(s) # {}
        /\ request[s].result = "skipped" => DeliveriesOf(s) = {}
        /\ request[s].result = "sent" => /\ DeliveriesOf(s) # {}
                                         /\ request[s].known => RowsOf(s) # {}

\* A bot text that is delivered again within the 5 minutes, by a request that
\* began after the first one had answered "sent", has another message behind the
\* first in the conversation, or one was deleted: DUPLICATE_REPLY_RECENT of
\* sendText catches every other sequential repetition.
RepeatedReplyExplained ==
    \A i, j \in DOMAIN sent :
        LET first == sent[i].by
            again == sent[j].by
        IN /\ i < j
           /\ first \in request[again].ended
           /\ request[first].result = "sent"
           /\ request[first].known /\ request[again].known
           /\ request[first].sender = "bot" /\ request[again].sender = "bot"
           /\ request[first].text = request[again].text
           /\ sent[j].at - sent[i].at <= Recent
           => \/ \E row \in deleted : row.by # again
              \/ \E k \in DOMAIN messages : k > PositionOf(first) /\ messages[k].by # again

\* A text is delivered only if, when its window was checked, a message of the
\* customer was less than 24 hours old, although the row that gives the date is
\* read earlier and overwritten by late messages.
WindowHonoured ==
    \A i \in DOMAIN sent : request[sent[i].by].known =>
        \E row \in Range(messages) \cup deleted :
            row.sender = "customer" /\ sent[i].checked - row.at < Window

\* A suggestion pairs an answer with a question asked before it, even when the
\* customer writes again between the answer and the suggestion.
SuggestionAnswersEarlierQuestion ==
    \A g \in suggestions : \E q, a \in DOMAIN messages :
        q < a /\ messages[q].by = g.question /\ messages[a].by = g.answer

\* A message carries only statuses that the provider reported for that very
\* text, or that an agent gave to that very row, whatever the order of the
\* reports and of the deletions.
StatusOfItsOwnText ==
    \A row \in Range(messages) : row.by \in Sends /\ row.status # "sent" =>
        \E of \in {row.by, row.ext} : [of |-> of, status |-> row.status] \in reports

\* The automatic replies to the conversation, and those past their takeover check.
Automatic == {s \in Sends : request[s].known /\ checksTakeover(request[s].kind, request[s].sender)}
InFlight == {s \in Automatic : request[s].step # "done"}
Received == {s \in Automatic : DeliveriesOf(s) # {}}

\* The sender implements the promise of AutomaticReplies: each automatic reply
\* that is delivered was authorised by a read of a conversation nobody held.
Promise == INSTANCE AutomaticReplies WITH
    Replies <- Sends,
    held <- isHumanTakeoverActive(conv),
    authorised <- InFlight \cup Received,
    delivered <- Received
RepliesAuthorised == Promise!Spec

\* whatsapp.service.ts:188 answers "Automatic reply blocked while a human handoff
\* is active."  The takeover is checked before the instance, the duplicate and
\* the provider: no automatic reply is delivered while a human holds the row.
NoReplyDuringHandoff ==
    [][\A s \in Sends : DeliveriesOf(s) = {} /\ DeliveriesOf(s)' # {} /\ s \in Automatic
          => ~isHumanTakeoverActive(conv)]_vars
=============================================================================
