---------------------------- MODULE Conversations ----------------------------
(***************************************************************************)
(* One row of the conversations table, seen as a state machine.            *)
(*                                                                         *)
(* Four columns decide who answers the customer: status, assignedTo,       *)
(* botPaused and handoffRequired.  They are written by a dozen endpoints of *)
(* conversations.service.ts and by the webhook handlers, and no constraint *)
(* of the database relates them.  This module translates each write into a *)
(* function on the row; the modules that compose them add the interleaving. *)
(***************************************************************************)
EXTENDS Integers

CONSTANTS
    Contacts,  \* contacts of the company, by phone number
    Agents,    \* human agents
    None       \* SQL NULL

ASSUME ConversationsAssumption ==
    /\ None \notin Contacts /\ None \notin Agents

\* ConversationStatus of the schema, and rows not yet created or deleted.
OpenStatuses == {"bot_active", "waiting_customer", "human_assigned"}
Statuses == OpenStatuses \cup {"closed"}
AbsentStatuses == {"none", "removed"}

\* The columns of a row that the code reads and writes here.  Times are event
\* times; 0 is NULL.
Rows == [contact : Contacts \cup {None},
         status : Statuses \cup AbsentStatuses,
         assignedTo : Agents \cup {None},
         botPaused : BOOLEAN,
         handoffRequired : BOOLEAN,
         unreadCount : Nat,
         lastCustomerMessageAt : Nat]

NoRow == [contact |-> None, status |-> "none", assignedTo |-> None, botPaused |-> FALSE,
          handoffRequired |-> FALSE, unreadCount |-> 0, lastCustomerMessageAt |-> 0]

Exists(row) == row.status \in Statuses
Open(row) == row.status \in OpenStatuses

\* Mutant: the seconds of the provider are taken for milliseconds.
NewRow_Milliseconds(contact, at) ==
    [NoRow EXCEPT !.contact = contact, !.status = "bot_active",
                  !.lastCustomerMessageAt = at * 1000]

\* conversation.create of the inbound handlers.
NewRow(contact, at) ==
    [contact |-> contact, status |-> "bot_active", assignedTo |-> None, botPaused |-> FALSE,
     handoffRequired |-> FALSE, unreadCount |-> 0, lastCustomerMessageAt |-> at]

\* conversation.create of POST /conversations, after normalizeStatus; 0 when the
\* request has no last message.
create(contact, status, assignee, botActive, at) ==
    [contact |-> contact, status |-> status, assignedTo |-> assignee,
     botPaused |-> status = "human_assigned" \/ ~botActive,
     handoffRequired |-> status = "human_assigned",
     unreadCount |-> 0, lastCustomerMessageAt |-> at]

-----------------------------------------------------------------------------
(* Who answers *)

\* hasHumanAssignment of webhooks.service.ts.
hasHumanAssignment(row) == row.status = "human_assigned" \/ row.assignedTo # None

\* isHumanTakeoverActive of the AI and of the sender, shouldPauseBotForConversation
\* of the conversations service, automationBlocked of the n8n webhook: the same
\* disjunction, written four times.
isHumanTakeoverActive(row) ==
    row.botPaused \/ row.handoffRequired \/ hasHumanAssignment(row)

\* The rule of ensureInboundConversation for a conversation that waits for an agent.
shouldResumeAiAutomation(row) ==
    row.status = "human_assigned" /\ row.assignedTo = None /\ row.handoffRequired

-----------------------------------------------------------------------------
(* The writes of conversations.service.ts *)

\* PATCH :id/status, after normalizeStatus.
updateStatus(row, status) ==
    LET human == status \in {"human_assigned", "waiting_customer"} IN
    [row EXCEPT !.status = status,
                !.botPaused = human,
                !.handoffRequired = human,
                !.assignedTo = IF human THEN @ ELSE None]

\* PATCH :id/assign and PATCH :id/handoff.
assign(row, agent) ==
    [row EXCEPT !.assignedTo = agent, !.status = "human_assigned",
                !.botPaused = TRUE, !.handoffRequired = TRUE]

\* The n8n workflow's handoff: it replaces or clears the assignment it finds.
handoffForWorkflow(row, required, assignee) ==
    [row EXCEPT !.assignedTo = IF required THEN assignee ELSE None,
                !.status = IF required THEN "waiting_customer" ELSE "bot_active",
                !.botPaused = required,
                !.handoffRequired = required]

\* PATCH :id/reactivate-bot.
reactivateBot(row, botActive) ==
    [row EXCEPT !.botPaused = ~botActive,
                !.status = IF botActive THEN "bot_active" ELSE "waiting_customer",
                !.handoffRequired = ~botActive,
                !.assignedTo = IF botActive THEN None ELSE @]

\* PATCH :id: every field is optional (None) and independent of the others.
update(row, status, assignee, botActive) ==
    [row EXCEPT !.status = IF status = None THEN @ ELSE status,
                !.assignedTo = IF assignee = None THEN @ ELSE assignee,
                !.botPaused = IF botActive = None THEN @ ELSE ~botActive,
                !.handoffRequired = IF botActive = None THEN @ ELSE ~botActive]

\* Mutant: the event's word is stored as the status.
conversationEvent_RawStatus(row, status) ==
    [row EXCEPT !.status = IF status = "bot_active" THEN "open" ELSE status]

\* conversation-event.handler.ts: only the status follows the event.
conversationEvent(row, status) == [row EXCEPT !.status = status]

\* DELETE :id.
remove(row) == [NoRow EXCEPT !.status = "removed"]

-----------------------------------------------------------------------------
(* The writes of the inbound paths *)

\* inbound-message.handler.ts writes back the status it has read earlier.
countInbound(row, seenStatus, at) ==
    [row EXCEPT !.status = IF seenStatus = "closed" THEN "waiting_customer" ELSE seenStatus,
                !.unreadCount = @ + 1,
                !.lastCustomerMessageAt = at]

\* ensureInboundConversation, with the resume rule decided on the row as read.
receiveInbound(row, resume, at) ==
    [row EXCEPT !.status = IF resume THEN "waiting_customer" ELSE @,
                !.botPaused = IF resume THEN FALSE ELSE @,
                !.unreadCount = @ + 1,
                !.lastCustomerMessageAt = at]

\* Mutant: the pause is taken from the assignment alone.
refreshForWhatsapp_AssignmentOnly(row, seen, at) ==
    [row EXCEPT !.botPaused = hasHumanAssignment(seen),
                !.lastCustomerMessageAt = IF at > seen.lastCustomerMessageAt THEN at ELSE @]

\* getOrCreateForWhatsapp refreshes a conversation from the row it has read.
refreshForWhatsapp(row, seen, at) ==
    [row EXCEPT !.botPaused = isHumanTakeoverActive(seen),
                !.lastCustomerMessageAt = IF at > seen.lastCustomerMessageAt THEN at ELSE @]

\* touchConversation of messages.repository.ts, for an inbound message.
touchInbound(row, at) ==
    [row EXCEPT !.unreadCount = @ + 1, !.lastCustomerMessageAt = at]
=============================================================================
