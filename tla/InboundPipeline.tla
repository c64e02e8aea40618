--------------------------- MODULE InboundPipeline ---------------------------
(***************************************************************************)
(* Inbound WhatsApp messages of one company, from the webhook to the       *)
(* decision about an automatic answer.                                     *)
(*                                                                         *)
(* The same message may be delivered several times and by four entries:    *)
(*   evolution  POST /webhooks/evolution, handled by inbound-message.handler *)
(*   n8n        the n8n workflow, processN8nNormalizedMessage, which also   *)
(*              decides who answers                                         *)
(*   persist    persistN8nNormalizedWebhook, which only logs the event      *)
(*   workflow   POST /messages/incoming, messages.service.ts saveIncoming   *)
(* A delivery is a process with one step per database call or transaction. *)
(* Agents and the workflow write the same conversation rows meanwhile.     *)
(***************************************************************************)
EXTENDS Conversations, FiniteSets

CONSTANTS
    ConvIds,     \* identifiers of the conversation rows that may be created
    Deliveries,  \* the requests received
    Messages,    \* the WhatsApp messages they carry
    Identified,  \* the messages that have an external identifier
    From,        \* the contact that sent each message
    EventAt,     \* the time of each message
    Kinds,       \* the entries in use
    Ops,         \* the operations of agents in use
    MaxOps,      \* bound on the operations of agents
    MaxCrashes,  \* bound on the deliveries cut short by a crash
    AgentTime    \* the time at which agents create conversations

\* The decisions of the n8n entry about an automatic answer, and all that a request may
\* come to.
Decisions == {"reply", "no_reply", "blocked", "handoff"}
Outcomes == Decisions \cup {"stored", "resolved", "duplicate", "ignored", "error"}

ASSUME InboundAssumption ==
    /\ From \in [Messages -> Contacts]
    /\ EventAt \in [Messages -> Nat \ {0}]
    /\ Identified \subseteq Messages
    /\ Kinds \subseteq {"evolution", "n8n", "persist", "workflow"}
    /\ Ops \subseteq {"close", "status", "assign", "handoff", "reactivate", "update",
                      "event", "create", "remove", "delete_message", "read_notices"}
    /\ AgentTime \in Nat \ {0} /\ MaxOps \in Nat /\ MaxCrashes \in Nat
    /\ None \notin Messages \cup ConvIds \cup Outcomes
    /\ None \notin {"evolution", "n8n", "persist", "workflow"}

VARIABLES
    convs,     \* the conversations table
    messages,  \* the inbound rows of the messages table
    deleted,   \* the rows that an agent has deleted since (a history variable)
    notices,   \* the unread handoff notifications of each conversation
    delivery,  \* what each request knows, its next step, and its webhook event
    ops        \* the number of operations of agents so far

vars == <<convs, messages, deleted, notices, delivery, ops>>

EndSteps == {"done", "crashed"}
\* In the order of the code; a kind visits a subset of them.
Steps == {"idle", "conversation", "new_conversation", "events", "duplicate", "tx",
          "commit", "store", "count", "ai", "notice_find", "notice_create",
          "mark", "fail"} \cup EndSteps

Results == Outcomes \cup {None}

\* WebhookEvent.processingStatus; the workflow entry logs no event.
Logs == {"none", "pending", "processed", "failed"}

TypeOK ==
    /\ convs \in [ConvIds -> Rows]
    /\ messages \subseteq [by : Deliveries, msg : Messages, conv : ConvIds]
    /\ deleted \subseteq [by : Deliveries, msg : Messages, conv : ConvIds]
    /\ notices \in [ConvIds -> Nat]
    /\ delivery \in [Deliveries -> [step : Steps,
                                    kind : Kinds \cup {None},
                                    msg : Messages \cup {None},
                                    conv : ConvIds \cup {None},
                                    seen : Rows,
                                    result : Results,
                                    log : Logs]]
    /\ ops \in 0 .. MaxOps

Init ==
    /\ convs = [c \in ConvIds |-> NoRow]
    /\ messages = {}
    /\ deleted = {}
    /\ notices = [c \in ConvIds |-> 0]
    /\ delivery = [d \in Deliveries |-> [step |-> "idle", kind |-> None, msg |-> None,
                                         conv |-> None, seen |-> NoRow, result |-> None,
                                         log |-> "none"]]
    /\ ops = 0

-----------------------------------------------------------------------------
(* Helpers *)

\* Mutant: the look-up forgets the contact.
OpenOf_AnyContact(contact) == {c \in ConvIds : Open(convs[c])}

\* The conversations that findFirst may return for a contact: it orders by
\* updatedAt, which mixes event times with times of the server.
OpenOf(contact) == {c \in ConvIds : convs[c].contact = contact /\ Open(convs[c])}

Fresh == {c \in ConvIds : convs[c].status = "none"}

\* The inbound rows with the external identifier of a message.
RowsWithId(m) == {row \in messages : m \in Identified /\ row.msg = m}

\* Mutant: the unique index is missing.
ViolatesUniqueIndex_None(m) == FALSE

\* P2002 on (company_id, external_message_id).
ViolatesUniqueIndex(m) == RowsWithId(m) # {}

\* Mutant: the transaction reads the contact without updating it.
ContactLocked_Never(contact) == FALSE

\* Every transaction begins by updating the row of the contact, and holds
\* that row until it commits.
ContactLocked(contact) ==
    \E d \in Deliveries : delivery[d].step = "commit" /\ From[delivery[d].msg] = contact

\* The next step of d.  An ended delivery forgets its local variables.
Goto(d, step, result) ==
    delivery' = [delivery EXCEPT
                   ![d].step = step,
                   ![d].result = result,
                   ![d].seen = IF step \in {"notice_find", "ai", "store", "mark", "fail", "done"}
                               THEN NoRow ELSE @,
                   ![d].conv = IF step \in {"mark", "fail", "done"} THEN None ELSE @]

\* Mutant: errors are swallowed and the event is marked processed.
ErrorStep_Swallowed(d) == IF delivery[d].kind = "workflow" THEN "done" ELSE "mark"

\* Where a handled error leads: markFailed for the entries that log an event.
ErrorStep(d) == IF delivery[d].kind = "workflow" THEN "done" ELSE "fail"
\* Where success leads: markProcessed for the same entries.
SuccessStep(d) == IF delivery[d].kind = "workflow" THEN "done" ELSE "mark"

At(d, step, kind) == delivery[d].step = step /\ delivery[d].kind = kind

-----------------------------------------------------------------------------
(* Arrival *)

\* createWebhookLog; a request without its required fields is refused before it.
\* An n8n message that is not inbound, or whose company or phone cannot be
\* resolved, is answered "ignored" and its event marked processed.
Receive(d, kind, m, ignored) ==
    /\ delivery[d].step = "idle"
    /\ ignored => kind = "n8n"
    /\ delivery' = [delivery EXCEPT
          ![d].kind = kind,
          ![d].msg = m,
          ![d].log = IF kind = "workflow" THEN "none" ELSE "pending",
          ![d].result = IF ignored THEN "ignored" ELSE None,
          ![d].step = CASE ignored \/ kind = "persist" -> "mark"
                        [] kind = "evolution" -> "conversation"
                        [] kind = "n8n" -> IF m \in Identified THEN "duplicate" ELSE "tx"
                        [] kind = "workflow" -> "events"]
    /\ UNCHANGED <<convs, messages, deleted, notices, ops>>

\* POST /messages/save with the conversation that an earlier call has resolved:
\* resolveConversationId only checks that it exists.
ReceiveForConversation(d, m, c) ==
    /\ delivery[d].step = "idle"
    /\ "workflow" \in Kinds
    /\ Exists(convs[c]) /\ convs[c].contact = From[m]
    /\ delivery' = [delivery EXCEPT
          ![d].kind = "workflow", ![d].msg = m, ![d].conv = c,
          ![d].step = IF m \in Identified THEN "duplicate" ELSE "store"]
    /\ UNCHANGED <<convs, messages, deleted, notices, ops>>

-----------------------------------------------------------------------------
(* evolution: inbound-message.handler.ts, without a transaction *)

\* The contact is upserted, then an open conversation of it is looked up.
FindConversation(d) ==
    /\ delivery[d].step = "conversation"
    /\ LET open == OpenOf(From[delivery[d].msg]) IN
         \/ /\ open = {}
            /\ Goto(d, "new_conversation", None)
         \/ \E c \in open :
               delivery' = [delivery EXCEPT ![d].conv = c, ![d].seen = convs[c],
                              ![d].step = IF delivery[d].msg \in Identified THEN "duplicate"
                                          ELSE "store"]
    /\ UNCHANGED <<convs, messages, deleted, notices, ops>>

CreateConversation(d) ==
    /\ delivery[d].step = "new_conversation"
    /\ \E c \in Fresh :
         LET row == NewRow(From[delivery[d].msg], EventAt[delivery[d].msg]) IN
         /\ convs' = [convs EXCEPT ![c] = row]
         /\ delivery' = [delivery EXCEPT ![d].conv = c, ![d].seen = row,
                           ![d].step = IF delivery[d].msg \in Identified THEN "duplicate"
                                       ELSE "store"]
    /\ UNCHANGED <<messages, deleted, notices, ops>>

\* The look-up of a stored row, in the three entries that store.  The n8n entry
\* then opens its transaction, the two others create the row.
FindDuplicate(d) ==
    /\ delivery[d].step = "duplicate"
    /\ IF RowsWithId(delivery[d].msg) # {}
       THEN Goto(d, SuccessStep(d), "duplicate")
       ELSE delivery' = [delivery EXCEPT
                           ![d].step = IF delivery[d].kind = "n8n" THEN "tx" ELSE "store"]
    /\ UNCHANGED <<convs, messages, deleted, notices, ops>>

\* Mutant: a duplicate refused by the index is still counted as unread.
StoreMessage_CountsDuplicate(d) ==
    LET m == delivery[d].msg
        c == delivery[d].conv
    IN
    /\ delivery[d].step = "store"
    /\ Exists(convs[c])
    /\ messages' = IF RowsWithId(m) # {} THEN messages
                   ELSE messages \cup {[by |-> d, msg |-> m, conv |-> c]}
    /\ delivery' = [delivery EXCEPT ![d].step = "count"]
    /\ UNCHANGED <<deleted, convs, notices, ops>>

\* message.create outside a transaction: the unique index answers a duplicate,
\* the foreign key refuses a conversation that was removed.
StoreMessage(d) ==
    LET m == delivery[d].msg
        c == delivery[d].conv
    IN
    /\ delivery[d].step = "store"
    /\ CASE ViolatesUniqueIndex(m) ->
              Goto(d, SuccessStep(d), "duplicate") /\ UNCHANGED messages
         [] ~ViolatesUniqueIndex(m) /\ ~Exists(convs[c]) ->
              Goto(d, ErrorStep(d), "error") /\ UNCHANGED messages
         [] OTHER -> /\ messages' = messages \cup {[by |-> d, msg |-> m, conv |-> c]}
                     /\ delivery' = [delivery EXCEPT ![d].step = "count"]
    /\ UNCHANGED <<deleted, convs, notices, ops>>

\* The conversation is updated after the message: by the handler with the
\* status it has read before, by touchConversation without a status.
CountMessage(d) ==
    LET c == delivery[d].conv
        at == EventAt[delivery[d].msg]
    IN
    /\ delivery[d].step = "count"
    /\ IF Exists(convs[c])
       THEN /\ convs' = [convs EXCEPT
                           ![c] = IF delivery[d].kind = "evolution"
                                  THEN countInbound(convs[c], delivery[d].seen.status, at)
                                  ELSE touchInbound(convs[c], at)]
            /\ Goto(d, SuccessStep(d), "stored")
       ELSE Goto(d, ErrorStep(d), "error") /\ UNCHANGED convs
    /\ UNCHANGED <<messages, deleted, notices, ops>>

-----------------------------------------------------------------------------
(* workflow: messages.service.ts save, conversations.service.ts getOrCreate *)

\* findInboundDuplicate: more than one live webhook event for the message, or
\* none although it is stored.  The existing row then gives the conversation.
EventsOf(m) ==
    {d \in Deliveries : /\ delivery[d].msg = m /\ m \in Identified
                        /\ delivery[d].log \in {"pending", "processed"}
                        /\ delivery[d].result # "ignored"}

findInboundDuplicate(d) ==
    LET m == delivery[d].msg
        events == Cardinality(EventsOf(m))
        existing == RowsWithId(m)
    IN
    /\ delivery[d].step = "events"
    /\ IF existing # {} /\ (events > 1 \/ events = 0)
       THEN \E row \in existing :
               delivery' = [delivery EXCEPT ![d].conv = row.conv, ![d].step = "duplicate"]
       ELSE delivery' = [delivery EXCEPT ![d].step = "tx"]
    /\ UNCHANGED <<convs, messages, deleted, notices, ops>>

-----------------------------------------------------------------------------
(* The transactions of ensureInboundConversation and getOrCreateForWhatsapp *)

\* The row of the contact is updated, which waits for the other transactions
\* of the contact; then an open conversation is looked up.
BeginTransaction(d) ==
    LET contact == From[delivery[d].msg] IN
    /\ delivery[d].step = "tx"
    /\ ~ContactLocked(contact)
    /\ \/ /\ OpenOf(contact) = {}
          /\ Goto(d, "commit", None)
       \/ \E c \in OpenOf(contact) :
             delivery' = [delivery EXCEPT ![d].conv = c, ![d].seen = convs[c],
                                          ![d].step = "commit"]
    /\ UNCHANGED <<convs, messages, deleted, notices, ops>>

\* n8n: the message and the conversation are written together.  The unique
\* index, or the removal of the conversation, aborts the whole transaction.
\* Then the row as updated and the AI policy of the company decide.
CommitInbound(d) ==
    LET m == delivery[d].msg
        seen == delivery[d].seen
        created == delivery[d].conv = None
    IN
    /\ At(d, "commit", "n8n")
    /\ IF ViolatesUniqueIndex(m) \/ (~created /\ ~Exists(convs[delivery[d].conv]))
       THEN Goto(d, "fail", "error") /\ UNCHANGED <<convs, messages>>
       ELSE \E c \in IF created THEN Fresh ELSE {delivery[d].conv}, aiEnabled \in BOOLEAN :
              LET before == IF created THEN NewRow(From[m], EventAt[m]) ELSE convs[c]
                  after == receiveInbound(before, ~created /\ shouldResumeAiAutomation(seen),
                                          EventAt[m])
                  blocked == isHumanTakeoverActive(after) \/ ~aiEnabled
              IN /\ convs' = [convs EXCEPT ![c] = after]
                 /\ messages' = messages \cup {[by |-> d, msg |-> m, conv |-> c]}
                 /\ delivery' = [delivery EXCEPT
                                   ![d].conv = c, ![d].seen = NoRow,
                                   ![d].step = IF blocked THEN "notice_find" ELSE "ai",
                                   ![d].result = IF blocked THEN "blocked" ELSE None]
    /\ UNCHANGED <<deleted, notices, ops>>

\* workflow: the conversation alone, from the row as read.  The caller either
\* asked for the conversation (POST /conversations/get-or-create) or is save.
CommitConversation(d) ==
    LET m == delivery[d].msg
        created == delivery[d].conv = None
    IN
    /\ At(d, "commit", "workflow")
    /\ IF ~created /\ ~Exists(convs[delivery[d].conv])
       THEN Goto(d, "done", "error") /\ UNCHANGED convs
       ELSE \E c \in IF created THEN Fresh ELSE {delivery[d].conv} :
              /\ convs' = [convs EXCEPT
                             ![c] = IF created THEN NewRow(From[m], EventAt[m])
                                    ELSE refreshForWhatsapp(@, delivery[d].seen, EventAt[m])]
              /\ \/ Goto(d, "done", "resolved")
                 \/ delivery' = [delivery EXCEPT
                       ![d].conv = c, ![d].seen = NoRow,
                       ![d].step = IF m \in Identified THEN "duplicate" ELSE "store"]
    /\ UNCHANGED <<messages, deleted, notices, ops>>

-----------------------------------------------------------------------------
(* n8n: the decision and its notification *)

\* generateReply reads the conversation again: a removed one gets no reply, one
\* taken over by a human is handed off, and otherwise the knowledge base and
\* the models decide.  A handoff is answered, not written in the conversation.
DecideReply(d) ==
    LET row == convs[delivery[d].conv]
        decisions == IF ~Exists(row) THEN {"no_reply"}
                     ELSE IF isHumanTakeoverActive(row) THEN {"handoff"}
                     ELSE {"reply", "handoff", "no_reply"}
    IN
    /\ delivery[d].step = "ai"
    /\ \E decision \in decisions :
          Goto(d, IF decision = "handoff" THEN "notice_find" ELSE "mark", decision)
    /\ UNCHANGED <<convs, messages, deleted, notices, ops>>

\* Mutant: any unread notice of the company is enough.
FindNotice_AnyConversation(d) ==
    /\ delivery[d].step = "notice_find"
    /\ IF \E c \in ConvIds : notices[c] > 0
       THEN Goto(d, "mark", delivery[d].result)
       ELSE delivery' = [delivery EXCEPT ![d].step = "notice_create"]
    /\ UNCHANGED <<convs, messages, deleted, notices, ops>>

\* notifyInternalHandoff: nothing more when an unread notice is found...
FindNotice(d) ==
    /\ delivery[d].step = "notice_find"
    /\ IF notices[delivery[d].conv] > 0
       THEN Goto(d, "mark", delivery[d].result)
       ELSE delivery' = [delivery EXCEPT ![d].step = "notice_create"]
    /\ UNCHANGED <<convs, messages, deleted, notices, ops>>

\* ... and a new notice otherwise, whose audit log may then fail.
CreateNotice(d) ==
    LET c == delivery[d].conv IN
    /\ delivery[d].step = "notice_create"
    /\ IF Exists(convs[c])
       THEN /\ notices' = [notices EXCEPT ![c] = @ + 1]
            /\ Goto(d, "mark", delivery[d].result) \/ Goto(d, "fail", "error")
       ELSE Goto(d, "fail", "error") /\ UNCHANGED notices
    /\ UNCHANGED <<convs, messages, deleted, ops>>

-----------------------------------------------------------------------------
(* The end of a delivery *)

markProcessed(d) ==
    /\ delivery[d].step = "mark"
    /\ delivery' = [delivery EXCEPT ![d].step = "done", ![d].log = "processed"]
    /\ UNCHANGED <<convs, messages, deleted, notices, ops>>

markFailed(d) ==
    /\ delivery[d].step = "fail"
    /\ delivery' = [delivery EXCEPT ![d].step = "done", ![d].log = "failed"]
    /\ UNCHANGED <<convs, messages, deleted, notices, ops>>

\* A database call or a provider throws.  When markFailed itself throws, the
\* event stays pending.
Throw(d) ==
    /\ delivery[d].step \notin {"idle"} \cup EndSteps
    /\ Goto(d, IF delivery[d].step = "fail" THEN "done" ELSE ErrorStep(d), "error")
    /\ UNCHANGED <<convs, messages, deleted, notices, ops>>

\* The server stops while it serves d: an open transaction is rolled back, what
\* was written before stays.
Crash(d) ==
    /\ Cardinality({e \in Deliveries : delivery[e].step = "crashed"}) < MaxCrashes
    /\ delivery[d].step \notin {"idle"} \cup EndSteps
    /\ delivery' = [delivery EXCEPT ![d].step = "crashed", ![d].result = None,
                                    ![d].conv = None, ![d].seen = NoRow]
    /\ UNCHANGED <<convs, messages, deleted, notices, ops>>

-----------------------------------------------------------------------------
(* Agents, the workflow and conversation events: single UPDATEs of one row *)

Writes(c) ==
    LET row == convs[c] IN
    [close      |-> {updateStatus(row, "closed")},
     status     |-> {updateStatus(row, s) : s \in OpenStatuses},
     assign     |-> {assign(row, a) : a \in Agents},
     handoff    |-> {handoffForWorkflow(row, r, a) : r \in BOOLEAN, a \in Agents \cup {None}},
     reactivate |-> {reactivateBot(row, b) : b \in BOOLEAN},
     update     |-> {update(row, s, a, b) : s \in Statuses \cup {None},
                        a \in Agents \cup {None}, b \in BOOLEAN \cup {None}},
     event      |-> {conversationEvent(row, s) :
                        s \in {"closed", "human_assigned", "bot_active"}}]

Operate(c, op) ==
    /\ ops < MaxOps
    /\ op \in DOMAIN Writes(c)
    /\ Exists(convs[c])
    /\ \E row \in Writes(c)[op] \ {convs[c]} : convs' = [convs EXCEPT ![c] = row]
    /\ ops' = ops + 1
    /\ UNCHANGED <<messages, deleted, notices, delivery>>

\* POST /conversations.  A conversation created with a last message gets one
\* inbound row (no external identifier, no delivery) and an open window.
CreateByAgent(contact, status, assignee, botActive, withMessage) ==
    /\ ops < MaxOps
    /\ "create" \in Ops
    /\ \E c \in Fresh : convs' = [convs EXCEPT ![c] =
          create(contact, status, assignee, botActive, IF withMessage THEN AgentTime ELSE 0)]
    /\ ops' = ops + 1
    /\ UNCHANGED <<messages, deleted, notices, delivery>>

\* DELETE /messages/:id, which leaves the unread counter as it is.
DeleteMessage(row) ==
    /\ ops < MaxOps
    /\ "delete_message" \in Ops
    /\ messages' = messages \ {row}
    /\ deleted' = deleted \cup {row}
    /\ ops' = ops + 1
    /\ UNCHANGED <<convs, notices, delivery>>

\* DELETE /conversations/:id, with its messages.
RemoveConversation(c) ==
    /\ ops < MaxOps
    /\ "remove" \in Ops
    /\ Exists(convs[c])
    /\ convs' = [convs EXCEPT ![c] = remove(@)]
    /\ messages' = {row \in messages : row.conv # c}
    /\ deleted' = deleted \cup (messages \ messages')
    /\ notices' = [notices EXCEPT ![c] = 0]
    /\ ops' = ops + 1
    /\ UNCHANGED delivery

\* markAsRead and markAllAsRead.
ReadNotices(c) ==
    /\ ops < MaxOps
    /\ "read_notices" \in Ops
    /\ notices[c] > 0
    /\ \E unread \in 0 .. notices[c] - 1 : notices' = [notices EXCEPT ![c] = unread]
    /\ ops' = ops + 1
    /\ UNCHANGED <<convs, messages, deleted, delivery>>

-----------------------------------------------------------------------------

Step(d) ==
    \/ \E kind \in Kinds, m \in Messages, ignored \in BOOLEAN : Receive(d, kind, m, ignored)
    \/ \E m \in Messages, c \in ConvIds : ReceiveForConversation(d, m, c)
    \/ FindConversation(d) \/ CreateConversation(d) \/ FindDuplicate(d)
    \/ StoreMessage(d) \/ CountMessage(d)
    \/ findInboundDuplicate(d) \/ BeginTransaction(d)
    \/ CommitInbound(d) \/ CommitConversation(d)
    \/ DecideReply(d) \/ FindNotice(d) \/ CreateNotice(d)
    \/ markProcessed(d) \/ markFailed(d) \/ Throw(d) \/ Crash(d)

Agent(c) ==
    \/ \E op \in Ops : Operate(c, op)
    \/ RemoveConversation(c) \/ ReadNotices(c)

AgentCreates ==
    \E contact \in Contacts, status \in Statuses, assignee \in Agents \cup {None},
       botActive \in BOOLEAN, withMessage \in BOOLEAN :
          CreateByAgent(contact, status, assignee, botActive, withMessage)

\* Every delivery has ended; agents may still act.
Rest ==
    /\ \A d \in Deliveries : delivery[d].step \in EndSteps
    /\ UNCHANGED vars

Next ==
    \/ Rest
    \/ \E d \in Deliveries : Step(d)
    \/ \E c \in ConvIds : Agent(c)
    \/ AgentCreates
    \/ \E row \in messages : DeleteMessage(row)

Spec == Init /\ [][Next]_vars

-----------------------------------------------------------------------------
(* Properties *)

\* The inbound rows that a conversation ever had, and those whose delivery has
\* not counted them in unreadCount: it is about to, it crashed or it failed.
InboundOf(c) == {row \in messages \cup deleted : row.conv = c}
Uncounted(c) ==
    {row \in InboundOf(c) : \/ delivery[row.by].step \in {"count", "crashed"}
                            \/ delivery[row.by].result = "error"}

\* The unread counter counts each message received once, whatever was retried,
\* delivered twice or counted concurrently; it misses only messages whose
\* delivery stopped between message.create and the update of the conversation.
UnreadAccountsForInbound ==
    \A c \in ConvIds : Exists(convs[c]) =>
        /\ convs[c].unreadCount <= Cardinality(InboundOf(c))
        /\ Cardinality(InboundOf(c) \ Uncounted(c)) <= convs[c].unreadCount

\* A stored message is in a conversation of the contact that sent it, whatever
\* entry stored it and however the conversation was found.
MessageInSendersConversation ==
    \A row \in messages : convs[row.conv].contact = From[row.msg] /\ Exists(convs[row.conv])

DeletedByAgent(m) == \E row \in deleted : row.msg = m

\* An event is marked processed only when its message is stored, by this
\* delivery or by the one that was found first: a swallowed duplicate or a
\* rolled back transaction loses no message.  (An agent may delete it later.)
ProcessedMeansStored ==
    \A d \in Deliveries :
        /\ delivery[d].log = "processed"
        /\ delivery[d].kind # "persist" /\ delivery[d].result # "ignored"
        => DeletedByAgent(delivery[d].msg) \/ \E row \in messages : row.msg = delivery[d].msg

\* An identified message gets at most one decision from the n8n entry, however
\* often it is delivered: no customer is answered twice.  A row that an agent
\* deletes, and which is then forgotten, is the exception.
AtMostOneDecision ==
    \A d, e \in Deliveries :
        /\ delivery[d].result \in Decisions /\ delivery[e].result \in Decisions
        /\ delivery[d].msg = delivery[e].msg /\ delivery[d].msg \in Identified
        => d = e \/ DeletedByAgent(delivery[d].msg)

\* The customer-service window of a conversation is opened by a message of its
\* own contact that some delivery has brought, unless an agent has created the
\* conversation with a message of his own.
WindowFromCustomer ==
    \A c \in ConvIds : Exists(convs[c]) =>
        \/ convs[c].lastCustomerMessageAt \in {0, AgentTime}
        \/ \E d \in Deliveries :
              /\ delivery[d].msg # None
              /\ From[delivery[d].msg] = convs[c].contact
              /\ EventAt[delivery[d].msg] = convs[c].lastCustomerMessageAt

\* A customer who gets no automatic answer because a human has to act is
\* signalled: when the request goes on, an unread notice of that very
\* conversation exists (notifyInternalHandoff).
BlockedIsSignalled ==
    [][\A d \in Deliveries :
         /\ delivery[d].step \in {"notice_find", "notice_create"}
         /\ delivery'[d].step = "mark"
         => notices'[delivery[d].conv] > 0]_vars

\* A takeover that only the status records: a conversation event or an edit set it.
OnlyStatusSaysSo(row) ==
    /\ row.status = "human_assigned" /\ row.assignedTo = None
    /\ ~row.botPaused /\ ~row.handoffRequired

\* No delivery ends a takeover by a human.  Deliveries write the status and the
\* pause of the conversation from a row read some steps earlier, and the rule of
\* ensureInboundConversation resumes the bot; what agents and the workflow wrote
\* meanwhile in botPaused, handoffRequired or assignedTo still stops the automation.
\* (A takeover in the status alone is lost when an older status is written back.)
TakeoverOutlivesDeliveries ==
    [][\A c \in ConvIds :
         /\ ops' = ops
         /\ Exists(convs[c]) /\ isHumanTakeoverActive(convs[c])
         => isHumanTakeoverActive(convs'[c]) \/ OnlyStatusSaysSo(convs[c])]_vars

\* No message has come through the handler that creates conversations outside of the
\* transactions.
OpenedInTransactions == \A d \in Deliveries : delivery[d].kind # "evolution"

\* A contact has at most one open conversation as long as every entry that has been
\* used creates one in a transaction that has first locked the row of the contact,
\* and nobody reopens a closed conversation.
OneOpenConversation ==
    OpenedInTransactions =>
        \A c, e \in ConvIds :
            /\ Open(convs[c]) /\ Open(convs[e]) /\ convs[c].contact = convs[e].contact
            => c = e
=============================================================================
