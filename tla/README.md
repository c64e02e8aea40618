# A TLA+ verification of Backend-Dashboard

Backend-Dashboard is a NestJS backend for customer support over WhatsApp. Companies connect a
WhatsApp instance (Evolution API); inbound messages become conversations; an AI pipeline answers
them from the company's knowledge base or hands them to a human agent; administrators feed the
knowledge base, in particular by reviewing the drafts extracted from a PDF. State lives in a
PostgreSQL database behind Prisma. Requests run concurrently, and almost every operation is a
sequence of database calls separated by `await`, only some of them inside a transaction.

This directory holds TLA+ models of the parts where that interleaving matters, the TLC runs that
check them on small instances, and TLAPS proofs. Paths below are relative to `src/src/modules`
unless they say otherwise.

## 1. Inventory

| Component | State | Operations | Hard behaviour | What makes it correct |
|---|---|---|---|---|
| PDF import review (`knowledge-base/pdf-import.*`) | `PdfImportDraft.status`; `PdfDraftArticle.status, reviewedBy, reviewedAt, kbArticleId` | upload, claim, approve, edit, reject, compensation | concurrent reviewers, ten-minute lease, compensation, crash | exclusive claims, final decisions, true answers, nothing unapproved is served |
| Inbound webhooks (`webhooks/`) | `WebhookEvent.processingStatus` | Evolution webhook, n8n message, n8n log, delivery status, conversation event | duplicated and retried deliveries, four entries for one message | stored, counted and answered at most once; processed means stored |
| Conversations (`conversations/`) | status, assignedTo, botPaused, handoffRequired, unreadCount, lastCustomerMessageAt | create, update, status, assign, hand-off, reactivate, remove, get-or-create | a dozen writers, no constraint between the columns, stale reads | one open conversation per contact, a window opened by the customer |
| Messages (`messages/`) | message rows, unique by (company, external id) | save, saveIncoming, remove, touchConversation | create and touch are two calls | unread counter accounts for the rows |
| Notifications (`notifications/`) | unread notices | create, read, read all | check then create | a blocked customer is signalled |
| Workflow AI (`ai/`) | runs, last decision | generateReply | provider fallback, reads before long awaits | no automatic answer during a takeover |
| WhatsApp sender (`whatsapp/`) | outbound messages, instance status | reply, sendMessage, sendWorkflowMessage, connect, status | takeover and window checked before sending, record after it | no send outside the window, no double send |
| Knowledge base (`knowledge-base/kb-articles.service.ts`) | article status, chunks | create, update, publish, remove, suggestions, ingest, reindex | article and chunks written separately | published means indexed (`src/README.md:37`) |
| Ingestion and RAG (`knowledge-base/ingestion`, `rag/`) | chunks | chunking, retrieval policy, deduplication | boundaries | chunks cover the text; results respect the policy |
| Company and agent registration | requests, companies, users | request, approve, reject, more info | status checked outside the transaction | a request is decided once |
| Auth, users, companies, admin, settings, subscriptions, contacts, notes, tags, products, analytics, audit logs, mail, health | rows | CRUD, queries | little concurrency of their own | scoping by company |
| Integrations, gateways, jobs, config | none | clients, WebSocket emission, wiring | failures of remote calls | their failures are handled by the callers |

Interactions. The webhooks module calls conversations (through its own transaction), messages,
notifications and the AI; the n8n workflow, outside this repository, calls the webhooks, the
messages and the conversations endpoints and then the sender. Agents write conversations and
messages while deliveries are in progress. The PDF review calls the article service, which writes
articles and chunks. `jobs/` declares BullMQ queues but `JobsModule` is imported nowhere, so it
does not run.

The list of hazards, each at its line with the properties that cover it or the reason why none
does yet, is in `PROJECT.json`.

## 2. Modules

| Module | Models | Role |
|---|---|---|
| `PdfImport` | `pdf-import.service.ts`, `pdf-import.repository.ts`, `createFromPdfDraft` and `rollbackPdfDraftPublication` of `kb-articles.service.ts` | reviews of the drafts of one import |
| `Conversations` | the writes of `conversations.service.ts` and of the webhook handlers | functions on one conversation row |
| `InboundPipeline` | `webhooks.service.ts`, its handlers, the inbound part of `messages.service.ts`, `getOrCreateForWhatsapp`, `notifyInternalHandoff` | deliveries, agents and the tables they share; extends `Conversations` |
| `AutomaticReplies` | what the sender promises about take-overs | abstract specification |
| `WhatsappSender` | `whatsapp.service.ts`, `conversation-window.service.ts`, the outbound part of `messages.service.ts`, `delivery-status.handler.ts`, the provider as seen through `whatsapp-provider.interface.ts` | outbound texts of one conversation; extends `Conversations`, implements `AutomaticReplies` |
| `KbArticles` | `kb-articles.service.ts` over `kb.repository.ts`, `buildWhere` of the retriever | articles, chunks and suggestions of one company |
| `Onboarding` | `company-registration`, `agent-registration`, the operations of `admin` and `companies` on the same rows, `assertUserCanLogin`, the JWT strategy | who gets access, and loses it |
| `WorkflowAi` | `workflow-ai.service.ts`, `ai-provider.service.ts`, the outcome of `rag.service.ts`, the creation of an AI run | one conversation's requests for a reply |
| `ContactTags` | the tags in `prepareCustomerRequest`, `prepareOrderIntentForWorkflow` and `contacts.repository.ts` | calls that read and write the tags of one contact |
| `PdfImportProofs`, `OnboardingProofs`, `WhatsappSenderProofs`, `WhatsappSenderSafetyProofs`, `InboundPipelineProofs`, `WorkflowAiProofs`, `KbArticlesProofs`, `ContactTagsProofs` | | theorems about the module of the name (the sender has two: its refinement and its invariants) |
| `MCPdfImport`, `MCInboundPipeline`, `MCWhatsappSender`, `MCKbArticles`, `MCOnboarding`, `MCWorkflowAi`, `MCContactTags` | | TLC instances |

A definition whose name ends with `_Something` and whose comment begins with "Mutant:" is a
plausible bug in the definition after it. No model uses it; it shows that a property can fail.

In every module a call, a request or a delivery is a process with a record of its own. Its `step`
is the next `await`: the action of that step does what the code does up to the next one.

### PdfImport

A call of `reviewArticle` is a process. Its `step` is the next database call it will make, so that
every `await` is a point of interleaving:

    idle -> claim -> find -> create -> refind -> index -> publish -> confirm -> complete -> commit -> ok
                 \-> recheck -> ok | conflict        (an error inside the try block -> rollback -> release -> failed)

- `claimPendingArticle` is one conditional UPDATE, hence one action. The claim compares the time
  taken by `Begin` with the lease; `Tick` is disabled while a call is between `new Date()` and its
  UPDATE, because a tick stands for minutes and the connection pool gives up after seconds.
- `completeClaimedArticle` is a READ COMMITTED transaction in two actions.
  `CompleteInTransaction` takes the row lock and counts the pending drafts as that transaction
  sees them; `Commit` publishes its writes. Other updates of the row wait (`Locked`).
- `Throw` is any failing call, `Crash` a stop of the server while it serves a call.
  `rollbackPdfDraftPublication` deletes the article, `RollbackFails` is the logged failure of that,
  and in both cases the release of the claim may fail too.
- The article `pdf-draft:<id>` is a status and whether it has chunks. Titles, bodies, embeddings
  and the reading of the PDF are not modelled, except the blank edit, which has a control path of
  its own (it is refused after the claim, outside the try block).
- `createImport` is `Init`. Other endpoints that may write the same article (publish, update,
  remove of the knowledge base) are not in this model.

### Conversations and InboundPipeline

`Conversations` translates each UPDATE of a conversation to a function on the row. The n8n hand-off
replaces an assignment it finds, the conversation event writes the status only, and the Evolution
handler writes back the status it had read: the functions keep these differences.

`InboundPipeline` has one process per request, with one step per database call or transaction:

- *evolution*: look up the conversation, create it, look for a duplicate, create the message,
  update the conversation. No transaction.
- *n8n*: look for a duplicate; one transaction (`BeginTransaction`, `CommitInbound`) that updates the
  contact, finds or creates the conversation, creates the message and updates the conversation;
  then the decision, and a notice if a human has to act.
- *persist*: the event is logged and marked processed.
- *workflow*: `POST /messages/incoming` and `/messages/save`. The duplicate rule on webhook
  events, the transaction of `getOrCreateForWhatsapp`, a second look-up, the message, the touch.
  `POST /conversations/get-or-create` is the same transaction alone.

`ContactLocked` is the lock of the contact row, which both transactions update first. Two
transactions that create the same contact wait for one another on the unique index (company,
phone) and the second fails, which is a `Throw`. A contact is its phone number: two spellings of
one number that the code keeps apart are two contacts here.

`generateReply` is its take-over check and a free choice among its outcomes; the policy
`aiPolicy.enabled` of the company is a free choice at every decision. `findFirst` orders by
`updatedAt`, a column that mixes times of events with times of the server, so it may return any
open conversation of the contact. `deleted` is a history variable: it remembers the rows that
agents deleted, and no action reads it.

### AutomaticReplies and WhatsappSender

`AutomaticReplies` states the promise without the mechanism: a reply is authorised while no human
holds the conversation, only an authorised reply is delivered, and once. A take-over after the
authorisation does not recall it; that gap is explicit in the abstract specification, because it
is there in the code.

`WhatsappSender` has five entries: the workflow, the reply marked automated, the plain send, the
inbox, and the two endpoints that record a text without sending it. `Begin` is the read of the
conversation with the take-over check; then the window, the instance, the duplicate check of the
last five minutes, the provider, the record, the touch and the suggestion, each a step:

    idle -> instance -> duplicate -> provider -> record -> (touch ->) question -> suggest -> (reload ->) done
    idle -> save_find -> save_near -> save_create -> (touch -> question -> suggest ->) done

- The provider is external. It may deliver the text and lose its answer, or answer without an
  identifier; what it delivered is in `sent`. Delivery statuses come back in any order, several for
  one text, and for texts whose record does not exist (yet).
- The customer writes at any time and with an older timestamp; agents take over, assign, hand off
  or delete a message or the conversation. `Tick` advances the clock between a check and a send.
- A request that is not given a conversation (`known` is FALSE) checks no take-over and no window
  date, as in the code.
- The refinement `Promise == INSTANCE AutomaticReplies` maps `held` to the columns that
  `isHumanTakeoverActive` reads, `authorised` to the automatic requests past their check that may
  still deliver, and `delivered` to the ones whose text the provider has accepted.

### KbArticles

An article is a status and the identity of a text; its chunks are the identity of the text they were
made from. So "the retriever serves a stale text" is `chunks[a] # article[a].body`. Every operation is a
chain of database calls: `update` writes the row, reads it again, embeds, replaces the chunks and
writes the status; a failure runs `rollbackCreatedArticle` or `restoreArticleSnapshot`, either of
which may fail in turn (`LeftHalfDone`). `rebuildCompanyKb` deletes every chunk of the company first
and indexes the articles one by one; a failure on one is reported and the loop goes on.
`reindexCompanyKb` has no caller and is left out. `source` and `unrestored` are history variables.

### Onboarding

Registrations and reviews read outside a transaction and write inside one; hence two actions, one
`Begin...` and one per transaction. The unique constraints on users' and companies' emails and on
companies' names are the database's: a transaction that would break one throws (`Refused`).
Administrators' operations are one step, or two where the code has two writes
(`activateCompanyAdmins`). `touched`, `removed` and `overwritten` are history variables.

Things the model makes visible, all faithful to the source and none promised otherwise:

- a company on trial may log in, and every request of its session is refused (`SessionFollowsLogin`
  has it as its exception);
- `approveCompany` leaves the user's `approvalStatus` as it was; it matters only for an address
  that lost an account;
- `requestMoreInfo` that overlaps with an approval overwrites APPROVED;
- `createPublicRequest` reads a company, hashes the password and then sets the company to PENDING: a
  company put in use meanwhile is demoted (`company-registration.service.ts:221`-`237`);
- `rejectRequest` suspends whichever company has the name or the email of the request;
- `activateCompanyAdmins` activates the administrators whose registration was refused too;
- within the model, an address that was refused registers again only after its account is deleted:
  the branch of `assertEmailIsAvailable` that would admit it is never taken (this is
  `OneRegistrationPerAddress`). In the program an administrator may also give the account another
  email (`admin.service.ts:816`) or delete its company, which the model leaves out.

Left out: the deletion of companies, the changes of a user's role, company or email, the rate limit,
passwords, tokens and mails.

### WorkflowAi

`generateReply` reads the conversation once (`Begin`), asks the model to understand the message, searches,
asks again with the evidence, passes the decision through the guards, saves the order and logs the
run. The model is arbitrary: any order, any sources (invented ones too), any text, or no answer at
all. A text is its origin (the model's answer, the evidence, or one of the code's own sentences); an
order is its kind and which details are known. `NextProvider` and `NextAttempt` are the fallback: two
attempts, each over the providers in turn, for both phases; an answer that is not JSON starts the
next attempt at the first provider again.

Visible in the model: a cancellation loses to `retainPreviouslyGroundedFacts`, which runs after
`applyExplicitCorrections`; an order intent found only in the grounded answer replaces the saved order
without its earlier details; two overlapping requests lose each other's order (`overtaken`, the
exception of `OrderDetailsKept`); `sanitizeReply` may empty a text and leave neither a reply nor a
hand-off; when the log of the run fails the order is saved and the caller gets an error.

The tags that a prepared order gives to the contact have three more writers and are in `ContactTags`.

### ContactTags

`contacts.tags` is a list in one column; `conversation_tags` has a row per tag. Preparing an order adds the
tags of its kind to both, in one transaction, but the list that it writes was read before. The assistant
(`prepareCustomerRequest`) reads it through `stringArray`, which keeps the first twelve (`TagLimit`); the
entry of the n8n workflow (`prepareOrderIntentForWorkflow`) reads all of it. An agent's update writes the
list it is given, the empty list (an upsert without tags) or, when it changes something else, the list of
the row that it has read (`contacts.repository.ts:246`). Each call has a reading step and a writing step,
and its slot is used again, so that histories of any length are reached.

The tag of an order can therefore get lost in three ways, which `TagsKept` names: an agent's list leaves it
out (`takenAway`), a call writes a list that another has replaced (`overwritten`), or the contact has
reached the limit: the next order of the assistant then drops the tags beyond it, one call after the other
and without any overlap, while the rows of `conversation_tags` stay. Agents' own labels on conversations are
another table's business and left out.

## 3. Runs

| Run | Instance | What it shows |
|---|---|---|
| `pdf_import` | 2 drafts, 3 reviews, 1 administrator, lease 1, clock 0..2, 1 crash | all the properties of `PdfImport` below that hold |
| `pdf_superseded` | the same without crash | `ApprovedStaysPublished` is violated |
| `pdf_import_status` | the same without crash | `AllDecidedIsCompleted` is violated |
| `inbound_agents` | 2 deliveries of 2 messages of 2 customers (one without identifier), 2 conversations, 1 agent, every operation, 1 operation, 1 crash | deliveries against agents |
| `inbound_retries` | 3 deliveries of 2 messages of 1 customer by the entries that look a conversation up, 3 conversations, 1 closing, 1 crash | duplicates and retries; one open conversation |
| `sender` | 2 requests by 3 entries, 1 text, 2 customer messages, window 1, clock 1..2, 1 operation or failure, 1 status | answers, repetitions, windows, suggestions, statuses; the refinement |
| `sender_takeover` | 1 automatic reply | `NoReplyDuringHandoff` is violated |
| `kb_articles` | 2 calls of any kind, 2 articles, 3 texts (one blank), 1 suggestion, 2 failures | the index follows the text; errors leave nothing |
| `kb_suggestions` | 3 calls around approvals, 2 articles, 1 text, 1 suggestion, 1 failure, fairness | suggestions; a rebuild restores the index |
| `onboarding` | 3 calls of any kind, 3 accounts, 3 companies, 2 addresses, 2 names | access, login and sessions |
| `workflow_ai` | 2 requests (any message, then one of business), 2 providers, 1 chunk and 1 invented source, 1 kind of order, 1 detail, 1 failure, fairness | groundedness, orders, termination |
| `contact_tags` | 2 calls at once, any number in sequence, limit 4, 2 kinds of order, 2 tags and 3 lists of agents, upserts without tags | the tags of orders |

Bounds and why they are enough:

- *pdf*: three reviews are needed for a claim, a take-over and a late call; two drafts for the status
  of the import. With lease 1 and a clock up to 2 a claim is fresh, at the boundary, and expired. One
  administrator is the hard case: two reviews by the same person differ by the time of the claim
  alone, which `DecisionIsFinal` needs to tell them apart. The proofs remove all these bounds.
- *inbound*: two deliveries of one message are a duplicate; the third is a retry after the first
  failed or crashed, concurrent with the second. A message without identifier has no protection by
  the index, and is in both instances. The entry that only logs an event (`persist`) stores nothing and
  is in `inbound_agents` alone. `MaxOps = 1` lets one write of an agent fall between any two
  steps; sequences of writes of agents are not covered by these runs. `MaxCrashes` bounds calls cut
  short; errors (`Throw`) are not bounded. `AgentTime` is the one time at which agents create
  conversations.
- *sender*: two requests are what a repetition, a race and a mixed-up status need; two customer
  messages, one to open the window and one that arrives late or between an answer and its question.
  Window 1 with a clock up to 2 is inside and at the boundary. With `Recent = Near = 0` "recent" is
  "within the same tick", so that a repetition may fall inside the interval and outside it.
- *kb*: two calls overlap in every way; the second failure is the one of the compensation. The two
  non-blank texts tell an old text from a new one. `kb_suggestions` needs a third call, because a
  second publication takes an approval, a rejection and another approval; there a call's kinds are
  restricted, since any three calls exceed the time of a run.
- *onboarding*: three calls are a registration, and two reviews or operations that overlap. At the start
  there is a company in use, alone or beside a company whose registration is pending. The proofs
  remove the bounds.
- *workflow_ai*: two overlapping requests lose updates; two providers give both the fallback and the
  end of the list; one chunk and one invented source tell evidence from none.
- *contact_tags*: with limit 4, two tags of agents and the three that orders add, the list is below
  the limit, at it and beyond it. Two overlapping calls overwrite each other; the run has no bound on
  the number of calls one after the other. The proof removes the bounds.

Symmetry is used in runs that check safety only. The deadlock check is on in every run: `Rest` is
enabled only when every call has ended, so a call that could never end would be reported. In
`contact_tags` calls are used again and it has nothing to find.

### Fairness

`kb_suggestions` and `workflow_ai` assume weak fairness of `Work(c)`: a call that has begun takes its
next step. That is what the Node event loop gives to a pending promise, and every promise awaited is
settled: database calls answer or throw, and a call of a language model has a timeout
(`ai-provider.service.ts:182`). Nobody is obliged to send a call, failures and crashes are not fair,
and no choice among outcomes is (the model may fail for ever). The other runs assume none.

### Properties

`PdfImport`: `ClaimExclusive`, `WorkingHoldsLease` (claims and leases), `DecisionIsFinal` (an action
property), `SuccessMeansDecided` (idempotent answers), `ImportStatusSound` (concurrent
recalculation), `ServedOnlyWhenApproved` (compensation; a crash or a failed rollback is its
exception, since nothing in the code repairs what they leave).

`InboundPipeline`: `UnreadAccountsForInbound` (the counter is at most the messages received, and
misses only those whose delivery stopped between the message and the counter),
`MessageInSendersConversation`, `ProcessedMeansStored`, `AtMostOneDecision`, `WindowFromCustomer`,
`BlockedIsSignalled` and `TakeoverOutlivesDeliveries` (action properties), `OneOpenConversation`.
Deliveries write the status and the pause of a conversation from rows they read before; the second
action property says that this never ends a takeover which `botPaused`, `handoffRequired` or
`assignedTo` records. One recorded in the status alone (by a conversation event, or an edit of the
status) is its exception: the Evolution handler writes an older status back. The property also shows
that the rule of `ensureInboundConversation` that resumes the bot (`webhooks.service.ts:916`) does not
unblock a conversation by itself: it leaves `handoffRequired` as it was. Rows that an agent deletes are
forgotten by the duplicate check, so `AtMostOneDecision` and `ProcessedMeansStored` make an exception
for them. The exception is real: after `DELETE /messages/:id` a late retry of the same message is
stored and answered again. `OneOpenConversation` speaks of the behaviours in which no message has come
through the Evolution handler (`OpenedInTransactions`); that handler, the creation by an agent and the
reopening of a closed conversation may each open a second one.

`WhatsappSender`: `AnswerIsTrue` ("sent" means delivered once and recorded, "skipped" means not
delivered; "error" says nothing, and a retry after it may send again), `RepeatedReplyExplained` (what
the duplicate check does and does not catch), `WindowHonoured`, `SuggestionAnswersEarlierQuestion`,
`StatusOfItsOwnText`, `RepliesAuthorised` (the refinement).

`KbArticles`: `IndexFollowsBody`, `ErrorLeavesNoTrace` (an action property), `ApprovedIsServed`,
`OneArticlePerAnswer`, `RebuildRestoresIndex` (liveness). The exceptions name what the code lets
happen: overlapping calls on one article, a compensation cut short, an article reported by a rebuild.

`Onboarding`: `AccountFollowsRequest`, `OneRegistrationPerAddress`, `SessionFollowsLogin`,
`InUseUntilWithdrawn` (an action property).

`WorkflowAi`: `GroundedAnswer`, `OrderDetailsKept` (an action property), `EveryRequestEnds` (liveness).

`ContactTags`: `TagsKept`. Its types are the theorem `TypeCorrect` of `ContactTagsProofs`.

### Three disagreements

- *`ApprovedStaysPublished`* (`pdf_superseded`). Review A claims a draft and stalls beyond its lease;
  review B takes the claim over, publishes and approves. A then fails to complete, and its catch
  block deletes the article that B's approval names. `src/README.md:13` promises an idempotent
  publication.
- *`AllDecidedIsCompleted`* (`pdf_import_status`). The completions of the last two drafts overlap;
  each transaction counts the other draft PENDING; the import stays PARTIALLY_DONE.
  `src/test/security-regression-test.ts:279` asserts COMPLETED for two decided drafts.
- *`NoReplyDuringHandoff`* (`sender_takeover`). A human takes the conversation over between the check
  of `sendWorkflowMessage` (`whatsapp.service.ts:177`) and the call of the provider; the customer gets
  the automatic reply although `whatsapp.service.ts:188` says "Automatic reply blocked while a human
  handoff is active."

## 4. Proofs

The theorems hold for every value of the constants that satisfies the module's assumption.

### PdfImportProofs

`PdfImportProofs` proves, for every set of drafts, reviews and administrators, every lease and
every bound on the clock and on crashes, the seven properties of the run `pdf_import`:
`TypeCorrect`, `ClaimIsExclusive`, `LeaseIsKept`, `SuccessIsTrue`, `DecisionsAreFinal`,
`ImportStatusIsSound` and `ServedIsAnsweredFor`. The only assumption is `PdfImportAssumption`: the
bounds are naturals, there is a draft, and NULL is neither an administrator, a number nor a draft.

The argument has four layers, each an inductive invariant that uses the one before:

1. `TInv`: types, and that a call that has begun knows its draft, action and administrator.
2. `CInv`: claims. `StepShape` first reduces the actions to six shapes (a call begins, claims,
   enters its commit, decides, releases, or leaves the drafts alone). The strengthening is
   `ClaimIsFresh` (a call about to claim took its time in the present tick), so that a new claim
   differs from every expired one, and `CommitHasClaim` (a call that holds the row lock still
   has the claim), so that a commit decides a draft that is PENDING.
3. `StInv`: a transaction that is about to commit has counted a superset of the drafts that will be
   PENDING when it does. The import status is sound although the counts may be old, because a
   decided draft never becomes PENDING again.
4. `PInv`: whoever is publishing asked for an approval, and a published article without approval has
   a call that answers for it. That call may lose its claim; it then compensates.

### OnboardingProofs

`TypeCorrect`, `AddressRegistersOnce`, `AccessFollowsDecision`, `SessionsFollowLogin` and
`UseIsWithdrawn` (`InUseUntilWithdrawn`, an action property), from `OnboardingAssumption` alone: the kinds are entries of the module, and `None` is no identifier,
address or name. Nothing is assumed about how many calls, accounts or companies there are.

None of the three safety properties is inductive. `IInv` adds:

- what the tables know of each other (`RequestsKnow`: a request names rows that are there), and that
  emails are unique;
- `RequestsHaveAccounts` and `UsersOfRequests`: a registration that was kept has an account of its address, and
  the user it names is that account. A second registration of an address would need a second account
  of it, which the unique email refuses; so the uniqueness of accounts carries over to registrations;
- `AdminsApproved` and `ActiveApproved`: an active account is an approved one, though the review
  of a company never writes `approvalStatus`; it holds since the account of a registration is
  created approved, and login and session agree because of it;
- `CallsKnow`: what a call remembers from its reads is still true when it writes. The relation
  `Stable` says which facts a step of another call can not undo (a request keeps its kind, email and
  name; an account keeps its email, or goes), so that each transaction is looked at once.

`UseIsWithdrawn` needs an invariant of its own, `LinkInv`: when a registration is about to write a
company that is in use, another call, which had not ended when the registration began, has put it in
use since. It is inductive because such a call has not ended at that moment, and `ended` holds only
calls that have. The proof reduces every action to `Step`: one call moves (`CallMoves`), only a
registration keeps a company for later (`Links`), and who puts a company in use or takes it out of
use (`Moves`).

### WhatsappSenderProofs

`SenderKeepsPromise`: `Spec => Promise!Spec`, from `SenderAssumption` and the assumption of
`Conversations`. The proof sorts the steps by what they do to the refinement: a request that `Begins`
(authorises, if it is automatic and the row was free), one that `Proceeds` (stays, or withdraws when it
ends without a delivery), one that `Delivers`, and the steps of agents and the customer, which either
toggle `held` or stutter. The invariant `Shape /\ Quiet` is needed because a text may be delivered only
from the step `provider` and only once: a request before that step has no delivery (`Quiet`), so a
request that is given up was not delivered, and `Withdraw` is enabled.

### WhatsappSenderSafetyProofs

The six invariants of the run `sender` (`TypeCorrect`, `AnswersAreTrue`, `RepetitionsAreExplained`,
`WindowIsHonoured`, `QuestionsComeFirst`, `StatusesAreTheirOwn`), for any number of requests, texts, messages of
the customer, reports and operations, and any window. Assumed are `SenderAssumption` and
`ConversationsAssumption`: the types of the constants, that NULL is none of the values it is compared with, and
that a message is the customer's or of a request, never both.

`IInv` is the inductive invariant. Its parts beside the properties:

- `Knows` and `Holds`: what the step of a request says of its message and of the customer (not yet delivered up
  to the provider, delivered before it is recorded, stored or deleted after that), and what its answer says.
  This is why "sent" is true although the record, its refusal and the deletion of the row are separate steps.
- `UniqueRows`, `RowsMatch`: a request has one message at most, with its text and its sender, and it is stored
  after the text was delivered. So a text delivered within the 5 minutes has a row within the 5 minutes, and if
  that row is the latest message, the duplicate check finds it.
- `WindowInv`: the date in the conversation's row, and the date a request keeps of it, are dates of messages of
  the customer; that is what a late message, which moves the date back, does not break.
- `QuestionInv`: a request about to write a suggestion still has its question before its answer, unless one of
  the two was deleted; then the foreign keys refuse the suggestion.
- `RepeatInv`: `RepeatedReplyExplained` for the request at the provider already, where nothing is delivered yet.
  A request that ended stays as it was, so a repetition seen after a step was one before it.

The order of the messages is the hard part. `Inserted` and `Removed` say what the library's `InsertAt` and
`RemoveAt` do to each position; `InsertionMoves`, `RemovalMoves`, `StatusMoves` and `ClearingMoves` derive
`TableStep`: a step keeps the order of the messages that stay, and whoever leaves is among the deleted. Everything
else uses `TableStep` and never a position. The steps are then of five shapes: a request begins, proceeds, delivers or records
(`StepShape`), or the rest of the system moves (`Environment`).

### InboundPipelineProofs

The seven invariants of the runs `inbound_agents` and `inbound_retries`, and the action
properties `BlockedIsSignalled` and `TakeoverOutlivesDeliveries`, for any number of deliveries, contacts, messages, agents, retries and
crashes. Assumed are `InboundAssumption` and `ConversationsAssumption`: the types of the constants, and that
NULL is none of the values it is compared with.

`IInv` is the inductive invariant. Its parts beside the properties:

- `Knows`, `FoundItsSenders`, `HasStored`: what a delivery remembers at each step is still so, though agents
  may remove the conversation at any time. A conversation changes its contact only by being removed; a row
  that was stored stays in `messages \cup deleted`. Hence `StoredWithItsSender` and `ProcessedIsStored`.
- `RowsOfDeliveries`, `UniqueIds`: a delivery stores one row at most and has left the look-ups when it has. A
  second decision about a message would need a second row of it, which the unique index refuses to an
  identified message. Hence `DecidedOnce`.
- `CounterBounds`: the counter of unread messages lies between two cardinalities, of the rows that are
  `Surely` counted and of those that are `Perhaps` counted. The property alone is not inductive: the
  Evolution handler stores and counts in two steps, and a crash between them loses the count for ever.

`OneOpenPerContact` has a hypothesis, `Serial`: agents neither create nor reopen conversations. The run
`inbound_retries` is an instance of it. It is needed, like the property's own condition: an agent may open a
second conversation, and an Evolution delivery looks up and creates without a transaction. An entry once used
stays used (`EntriesStay`), so what follows need only hold until an Evolution delivery arrives. `SerialInv` says that at most one transaction holds the lock of a contact's row
(`LockExclusive`), that what the holder has read of the contact's open conversations is still so
(`LockKnowsOpen`), and that no conversation waits for an agent, since a message that finds one so and
resumes the automation would reopen it if it was closed meanwhile (`NobodyWaits`).

`TakeoverIsKept` needs no such hypothesis, but an invariant of its own. A transaction that has read a
conversation writes `botPaused` from the row read, which takes a takeover away if `botPaused` is by then the
only column that records it. `PauseInv` says that this cannot be: a conversation that a transaction has read,
and that is paused without a required hand-off, was taken over when it was read and did not wait for an agent
(`SeenTakeover`). Agents set `botPaused` and `handoffRequired` alike or neither (`AgentsPauseBoth`), the
deliveries outside transactions set none (`DeliveryWritesPause`), and other transactions of the same
conversation are excluded by the lock (`LockExclusive`, here for all entries).

### WorkflowAiProofs

`TypeCorrect`, `AnswersAreGrounded` and `OrderDetailsAreKept`, for every behaviour of the model and of its
providers, from `WorkflowAiAssumption`. Nothing is assumed of what the model answers.

`AnswerInv` holds request by request: from the guards on, a decision whose text is the model's or the
evidence's has sources, and they are among those the search returned. Each guard is a function on decisions, and
a lemma says that it keeps this (`Keeps`); `applyFinalKnowledgeGuards` and `buildRagEvidenceFallbackDecision`
are where it becomes true. `OrderInv` relates a request to the saved row: as long as nobody has overtaken it,
the order it read is the saved one, and its decision has every detail that it continues.

### ContactTagsProofs

`TypeCorrect` and `TagsAreKept`, for any number of calls, any lists of the agents and any limit, from
`ContactTagsAssumption`. The types and `TagsKept` are inductive together. `MergedKeeps` says that an order
keeps the tags of the list it starts from and never shortens it, `ReadOrCut` that the assistant starts from
the whole list or from as many tags as the limit: in that case the contact is at the limit again, which is
why the third exception needs no history.

### KbArticlesProofs

The invariants `TypeOK`, `IndexFollowsBody`, `ApprovedIsServed`, `OneArticlePerAnswer` and the action property
`ErrorLeavesNoTrace`, from `KbAssumption` alone. It has three layers:

1. `Core`: types, and what a call knows at each step (`Knows`). One effect lemma per action shows `Good`: the
   step changes the call's own row, a row of the articles that it works on, and nothing elsewhere.
2. `IndexInv`. An article whose calls overlap is exempt (`Contended`), and the exemption only grows. So only one
   case needs an invariant: nobody is at work on the article, and it is `Safe`, or exactly one call is, and the
   article is `Covered`: `HoldsOn` says how far that call has brought it, step by step. In the middle of a
   compensation or a rebuilding the article is not safe (`Unsettled`); a call cut short there puts it in
   `unrestored`. What a failed creation or update leaves (`NoTrace`) is read off the same lemmas.
3. `SuggestionInv`: an article has the approval that made it, alone (`CreatedOnce`, `MadeByApproval`); how far an
   approval has brought its article (`Approving`); an approval that succeeded keeps a later one from creating
   another article (`ApprovalKept`), unless a rejection came between; an answer is suggested once unless two
   requests to learn it overlapped (`OneSuggestion`).

### What is only model-checked

- Liveness (`RebuildRestoresIndex`, `EveryRequestEnds`): ENABLED and fairness are outside the prover.

## 5. Not modelled, and what is left

- *Whatsapp instances* (connect, reset, status): a mirror of the provider's state; sending reads only
  whether an instance exists.
- *Pure algorithms over texts* (chunker, retrieval scoring, deduplication, structure analyser, the
  detection of intents): the models know a text by its identity or its origin. What these functions
  compute is left to unit tests.
- *CRUD without concurrency of its own*: settings, subscriptions, products, notes, the edition of
  contacts but for their tags; queries, analytics, audit logs, mail, health, configuration.
- *`users.service.ts`* works on a repository in memory, apart from the database.
- *`JobsModule`* (BullMQ queues) is imported by no module and does not run.
- *The generated Prisma client*: some 57,000 of the repository's 96,000 lines are generated, and their
  meaning is the schema's, which the models use. Of the hand-written lines, controllers, DTOs, prompts,
  word lists, formatting and logging are most of the rest. The share of lines that the models stand
  for is therefore small; the share of the concurrent writes is not.

## 6. Running

    tlc -config pdf_import.cfg MCPdfImport.tla
    tlc -config inbound_agents.cfg MCInboundPipeline.tla
    tlc -config sender.cfg MCWhatsappSender.tla
    tlc -config kb_suggestions.cfg MCKbArticles.tla
    tlc -config onboarding.cfg MCOnboarding.tla
    tlc -config workflow_ai.cfg MCWorkflowAi.tla
    tlc -config contact_tags.cfg MCContactTags.tla
    tlapm PdfImportProofs.tla
    tlapm OnboardingProofs.tla
    tlapm WhatsappSenderProofs.tla
    tlapm WhatsappSenderSafetyProofs.tla
    tlapm InboundPipelineProofs.tla
    tlapm WorkflowAiProofs.tla
    tlapm KbArticlesProofs.tla
    tlapm ContactTagsProofs.tla
