------------------------------ MODULE WorkflowAi ------------------------------
(***************************************************************************)
(* How the assistant makes a reply: generateReply of workflow-ai.service.ts *)
(* over ai-provider.service.ts, rag.service.ts and the AI runs.            *)
(*                                                                         *)
(* A request reads its conversation once, asks a language model to         *)
(* understand the message, searches the knowledge base, asks the model     *)
(* again with the evidence, passes its decision through guards, saves the  *)
(* order it is about and logs the run.  Nothing locks the conversation, so *)
(* the order that a request saves is built on the one it read at the start. *)
(* The tags that are saved with the order are in the module ContactTags.   *)
(*                                                                         *)
(* The model's answers are arbitrary.  Of a text only its origin is kept,  *)
(* of an order its kind and which details are known, of the evidence the   *)
(* identifiers of the chunks.                                              *)
(***************************************************************************)
EXTENDS Integers

CONSTANTS
    Requests,     \* the requests for a reply, all of one conversation
    KindsOf,      \* what the message of each request may be
    Chunks,       \* the chunks of the knowledge base
    Invented,     \* sources that a model names and that do not exist
    OrderKinds,   \* the kinds of order, "reservation" among them
    Fields,       \* the details that an order needs
    HotelFields,  \* those of a stay
    Providers,    \* the number of providers in the fallback order
    MaxFailures,  \* bound on the failing database calls
    None

\* Messages that need no model, and those that are understood by it.
PlainKinds == {"held", "own", "media", "frustrated", "out_of_scope"}
Kinds == PlainKinds \cup {"social", "business", "other"}

ASSUME WorkflowAiAssumption ==
    /\ KindsOf \in [Requests -> SUBSET Kinds]
    /\ HotelFields \subseteq Fields /\ "reservation" \in OrderKinds
    /\ None \notin OrderKinds \cup Kinds
    /\ Providers \in Nat \ {0} /\ MaxFailures \in Nat

VARIABLES
    request,      \* what each request knows, and its next step
    order,        \* the order saved in the conversation (lastAiDecision)
    failures      \* the number of failures so far

vars == <<request, order, failures>>

Actions == OrderKinds \cup {None}
Steps == {"idle", "understand", "retrieve", "ground", "guard", "prepare", "log", "done"}

\* Texts of the model or of the knowledge base, which sanitizeReply may empty, and
\* the texts that the code itself writes.
FreeTexts == {"none", "answer", "evidence"}
FixedTexts == {"social", "verification", "clarification", "transfer"}

Orders == [saved : BOOLEAN, action : Actions, known : SUBSET Fields]
NoOrder == [saved |-> FALSE, action |-> None, known |-> {}]

Decisions == [order : BOOLEAN, action : Actions, known : SUBSET Fields, handoff : BOOLEAN,
              text : FreeTexts \cup FixedTexts, sources : SUBSET (Chunks \cup Invented)]

\* What a model may answer (parseDecision): any order, any sources, a text that is
\* useful or none.
ModelAnswers(texts, sources) ==
    [order : BOOLEAN, action : Actions, known : SUBSET Fields, handoff : BOOLEAN,
     text : texts, sources : sources]

\* buildNoReplyResponse and the answers made of a fixed text.
Reply(text, handoff) == [order |-> FALSE, action |-> None, known |-> {}, handoff |-> handoff,
                         text |-> text, sources |-> {}]

\* The database at rest, and what generateReply remembers of a request.
TypeOK ==
    /\ request \in [Requests -> [step : Steps, kind : Kinds \cup {None}, seen : Orders,
                                 attempt : 1 .. 2, provider : 1 .. Providers,
                                 decision : Decisions, searched : BOOLEAN,
                                 rag : SUBSET Chunks, sends : BOOLEAN,
                                 result : {"ok", "error", None},
                                 continued : BOOLEAN, overtaken : BOOLEAN]]
    /\ order \in Orders
    /\ failures \in 0 .. MaxFailures

NewRequest == [step |-> "idle", kind |-> None, seen |-> NoOrder, attempt |-> 1, provider |-> 1,
               decision |-> Reply("none", FALSE), searched |-> FALSE, rag |-> {},
               sends |-> FALSE, result |-> None, continued |-> FALSE, overtaken |-> FALSE]

Init ==
    /\ request = [r \in Requests |-> NewRequest]
    /\ order = NoOrder
    /\ failures = 0

Becomes(r, new) == request' = [request EXCEPT ![r] = new]

\* What a request without an order to prepare keeps: what it answers and from which evidence.
Forgotten(d) == [d EXCEPT !.order = FALSE, !.action = None, !.known = {}]
Ended(q) == [q EXCEPT !.step = "done", !.continued = FALSE, !.overtaken = FALSE]

-----------------------------------------------------------------------------
(* The request is read *)

\* What is answered without the model: nothing while a human holds the conversation,
\* to a message of the company or out of its scope, a question about an attachment
\* that cannot be read, and the transfer of a customer who is angry or asks for it.
PlainReply(kind) ==
    CASE kind \in {"held", "out_of_scope"} -> Reply("none", TRUE)
      [] kind = "own" -> Reply("none", FALSE)
      [] kind = "media" -> Reply("clarification", FALSE)
      [] kind = "frustrated" -> Reply("transfer", TRUE)

\* generateReply up to the first prompt.  A request out of scope is not logged.
Begin(r, kind) ==
    LET q == request[r] IN
    /\ request[r].step = "idle" /\ kind \in KindsOf[r]
    /\ Becomes(r, IF kind = "out_of_scope"
                  THEN [q EXCEPT !.step = "done", !.result = "ok", !.decision = PlainReply(kind)]
                  ELSE IF kind \in PlainKinds
                  THEN [q EXCEPT !.step = "log", !.decision = PlainReply(kind)]
                  ELSE [q EXCEPT !.kind = kind, !.step = "understand", !.seen = order])
    /\ UNCHANGED <<order, failures>>

-----------------------------------------------------------------------------
(* The guards on a decision; each returns the decisions that it may make *)

NonEmpty(rag) == (SUBSET rag) \ {{}}

Evidence(d, sources) ==
    [d EXCEPT !.text = "evidence", !.sources = sources]
Asking(d, sources) ==
    [d EXCEPT !.text = "clarification", !.handoff = FALSE, !.sources = sources]

buildMissingKnowledgeDecision(d) ==
    [d EXCEPT !.text = "verification", !.handoff = TRUE, !.sources = {}]

\* The evidence itself is the reply, unless none of it is relevant.
buildRagEvidenceFallbackDecision(d, rag) ==
    {Evidence(d, S) : S \in NonEmpty(rag)} \cup {buildMissingKnowledgeDecision(d)}

\* Some detail that the kind of order needs is unknown (finalizeOrderDetails).
Missing(d) == d.known # Fields

\* A hotel asks for what it misses before anything else.  Only the kinds of order that
\* the code knows have their missing details computed; of the others the model's own
\* list is taken, which may be empty or not.
ensureHospitalityBookingGuidance(d, rag) ==
    LET booking == (d.order /\ d.action = "reservation") \/ rag # {}
        e == [d EXCEPT !.action = IF @ = None THEN "reservation" ELSE @]
    IN {d} \cup IF ~booking THEN {}
                ELSE (IF Missing(e) \/ e.action # "reservation" THEN {Asking(e, e.sources)} ELSE {})
                       \cup (IF Missing(e) /\ e.action = "reservation" THEN {} ELSE {e})

\* After a search: a question when the request is too vague, no answer when it is
\* specific and nothing relevant was found, prices and rooms straight from the
\* evidence, and the evidence when nothing is left of the model's text.
applyFinalKnowledgeGuards(d, searched, rag) ==
    IF ~searched THEN {d}
    ELSE {Asking(d, {}), buildMissingKnowledgeDecision(d)}
         \cup {[Evidence(d, S) EXCEPT !.handoff = FALSE] : S \in NonEmpty(rag)}
         \cup {[d EXCEPT !.sources = IF @ = {} THEN S ELSE @] : S \in SUBSET rag}
         \cup (IF d.text \in {"answer", "evidence"}
               THEN buildRagEvidenceFallbackDecision(d, rag) ELSE {})

\* The total of a complete reservation is computed from the rates of the evidence.
applyGroundedHotelPricing(d, rag) ==
    {d} \cup IF rag = {} \/ d.action # "reservation" \/ Missing(d) THEN {}
             ELSE UNION {{[Evidence(d, S) EXCEPT !.handoff = FALSE], Asking(d, S)} :
                           S \in NonEmpty(rag)}

Guarded(d, searched, rag) ==
    UNION {UNION {applyGroundedHotelPricing(f, rag) :
                    f \in applyFinalKnowledgeGuards(e, searched, rag)} :
             e \in ensureHospitalityBookingGuidance(d, rag)}

\* The request has one of these decisions, and goes on to the guards.
Decide(r, q, decisions) ==
    \E d \in decisions :
      Becomes(r, [q EXCEPT !.decision = d, !.seen = NoOrder, !.attempt = 1, !.provider = 1,
                           !.kind = IF @ = "business" THEN @ ELSE None, !.step = "guard"])

\* The end of generateReply, once the domain of the company is known: an order is
\* prepared, then the run is logged.
Guard(r) ==
    /\ request[r].step = "guard"
    /\ \E d \in Guarded(request[r].decision, request[r].searched, request[r].rag) :
         Becomes(r, [request[r] EXCEPT !.decision = IF d.order THEN d ELSE Forgotten(d),
                                       !.step = IF d.order THEN "prepare" ELSE "log"])
    /\ UNCHANGED <<order, failures>>

-----------------------------------------------------------------------------
(* The language model *)

\* Both attempts of a phase failed: an apology and a transfer, or the bare evidence.
GiveUp(r) ==
    \/ /\ request[r].step = "understand"
       /\ Becomes(r, [request[r] EXCEPT !.step = "log", !.decision = Reply("transfer", TRUE),
                                        !.seen = NoOrder, !.attempt = 1, !.provider = 1])
    \/ /\ request[r].step = "ground"
       /\ Decide(r, request[r],
                   buildRagEvidenceFallbackDecision(request[r].decision, request[r].rag))

\* Mutant: the attempt is not counted.
NextAttempt_Uncounted(r) ==
    Becomes(r, [request[r] EXCEPT !.provider = 1])

\* generateDecisionWithRetry: a second attempt, from the first provider again.
NextAttempt(r) ==
    IF request[r].attempt = 1
    THEN Becomes(r, [request[r] EXCEPT !.attempt = 2, !.provider = 1])
    ELSE GiveUp(r)

\* Mutant: one provider too many.
NextProvider_OffByOne(r) ==
    IF request[r].provider <= Providers
    THEN Becomes(r, [request[r] EXCEPT !.provider = @ + 1])
    ELSE NextAttempt(r)

\* generateWithFallback: the next provider of the list, if there is one.
NextProvider(r) ==
    IF request[r].provider < Providers
    THEN Becomes(r, [request[r] EXCEPT !.provider = @ + 1])
    ELSE NextAttempt(r)

\* A provider fails, answers with nothing or takes longer than its timeout.
ProviderFails(r) ==
    /\ request[r].step \in {"understand", "ground"}
    /\ NextProvider(r)
    /\ UNCHANGED <<order, failures>>

\* A provider answers, and its answer is not JSON: the others are not asked.
ProviderGarbles(r) ==
    /\ request[r].step \in {"understand", "ground"}
    /\ NextAttempt(r)
    /\ UNCHANGED <<order, failures>>

-----------------------------------------------------------------------------
(* Understanding the message *)

\* Mutant: only what the last message says is kept.
mergeOrderDetails_Final(initial, final) ==
    [initial EXCEPT !.action = final.action, !.known = final.known]

mergeOrderDetails(initial, final) ==
    [initial EXCEPT !.action = IF final.action # None THEN final.action ELSE @,
                    !.known = @ \cup final.known]

\* applyExplicitCorrections: a cancellation empties the order, a correction some of it.
applyExplicitCorrections(d) ==
    {[d EXCEPT !.action = None, !.known = {}]}
      \cup {[d EXCEPT !.known = K] : K \in SUBSET d.known}

\* retainPreviouslyGroundedFacts: the details of a stay come back whatever was corrected.
retainPreviouslyGroundedFacts(d, previous) ==
    [d EXCEPT !.known = @ \cup (previous.known \cap HotelFields)]

\* The saved order, unless the message is about another kind of order.
Reusable(previous, d) ==
    IF d.action # None /\ previous.action # None /\ d.action # previous.action
    THEN NoOrder ELSE previous

\* applyBusinessAndOrderGuards for an order begun or continued.
Accumulated(d, previous, corrected) ==
    LET old == Reusable(previous, d)
        merged == [mergeOrderDetails([d EXCEPT !.action = old.action, !.known = old.known], d)
                     EXCEPT !.order = TRUE]
    IN {retainPreviouslyGroundedFacts(e, old) :
          e \in IF corrected THEN applyExplicitCorrections(merged) ELSE {merged}}

\* What the first answer leaves for the search; its text and sources are not used.
\* The history variable continued says that it adds to the order that was read.
ToSearch(r, d, continued) ==
    Becomes(r, [request[r] EXCEPT !.step = "retrieve", !.attempt = 1, !.provider = 1,
                                  !.kind = None, !.seen = NoOrder, !.continued = continued,
                                  !.decision = [d EXCEPT !.text = "none", !.sources = {}]])

\* The first answer of the model, as the guards leave it: a social message needs
\* neither search nor order; an order and a question of business need the search.
Understand(r) ==
    /\ request[r].step = "understand"
    /\ \/ /\ request[r].kind = "social"
          /\ Decide(r, request[r], {Reply("social", FALSE)})
       \/ /\ request[r].kind # "social"
          /\ \E d \in ModelAnswers({"answer"}, {{}}), corrected \in BOOLEAN :
               LET old == Reusable(request[r].seen, d) IN
               /\ d.order \/ old.saved
               /\ \E e \in Accumulated(d, request[r].seen, corrected) :
                    ToSearch(r, e, old = request[r].seen /\ ~corrected)
       \/ /\ request[r].kind # "social"
          /\ \E d \in ModelAnswers({"answer"}, {{}}) : ~d.order /\ ToSearch(r, d, FALSE)
       \/ /\ request[r].kind = "other"
          /\ \E text \in {"answer", "none"}, handoff \in BOOLEAN :
               Decide(r, request[r], {Reply(text, handoff)})
    /\ UNCHANGED <<order, failures>>

-----------------------------------------------------------------------------
(* Searching the knowledge base and answering from it *)

\* ragService.query: the published chunks that match well enough, if any.
Search(r) ==
    /\ request[r].step = "retrieve"
    /\ \E rag \in SUBSET Chunks :
         LET q == [request[r] EXCEPT !.searched = TRUE, !.rag = rag] IN
         IF rag = {} THEN Decide(r, q, {buildMissingKnowledgeDecision(q.decision)})
         ELSE Becomes(r, [q EXCEPT !.step = "ground"])
    /\ UNCHANGED <<order, failures>>

\* Mutant: the sources that the model names are taken as they are.
mergeGroundedDecision_Trusting(initial, final, rag) ==
    [mergeOrderDetails(initial, final) EXCEPT
       !.order = initial.order \/ final.order,
       !.handoff = final.handoff, !.text = final.text, !.sources = final.sources]

\* mergeGroundedDecision: only sources that were retrieved count.
mergeGroundedDecision(initial, final, rag) ==
    [mergeOrderDetails(initial, final) EXCEPT
       !.order = initial.order \/ final.order,
       !.handoff = final.handoff, !.text = final.text, !.sources = final.sources \cap rag]

\* The second answer of the model.  Without a useful text or a source it is dropped
\* for the evidence and the decision of the first answer.
Ground(r) ==
    LET q == request[r]
        merged == {mergeGroundedDecision(q.decision, f, q.rag) :
                     f \in ModelAnswers({"answer"}, SUBSET (Chunks \cup Invented))}
    IN /\ q.step = "ground"
       /\ Decide(r, q, {d \in merged : d.sources # {}}
                          \cup buildRagEvidenceFallbackDecision(q.decision, q.rag))
       /\ UNCHANGED <<order, failures>>

-----------------------------------------------------------------------------
(* Preparing the order and logging the run *)

\* prepareCustomerRequest: the contact is read, and a transaction saves the order (and
\* the tags).  The requests that are still at work from then on use an order that was
\* read before.
Prepare(r) ==
    LET d == request[r].decision IN
    /\ request[r].step = "prepare"
    /\ order' = [saved |-> TRUE, action |-> d.action, known |-> d.known]
    /\ request' = [q \in Requests |->
         IF q = r THEN [request[q] EXCEPT !.step = "log", !.decision = Forgotten(@)]
         ELSE IF request[q].step \in {"idle", "log", "done"} THEN request[q]
         ELSE [request[q] EXCEPT !.overtaken = TRUE]]
    /\ UNCHANGED failures

\* It failed, or the contact is gone: the reply is not held up.
PrepareFails(r) ==
    /\ failures < MaxFailures /\ failures' = failures + 1
    /\ request[r].step = "prepare"
    /\ Becomes(r, [request[r] EXCEPT !.step = "log", !.decision = Forgotten(@)])
    /\ UNCHANGED order

\* sanitizeReply: a free text that looks like JSON or speaks of the system is emptied.
Sendable(text) ==
    CASE text = "none" -> {FALSE}
      [] text \in FixedTexts -> {TRUE}
      [] OTHER -> BOOLEAN

\* buildResponse and persistResponse.
Log(r) ==
    /\ request[r].step = "log"
    /\ \E sends \in Sendable(request[r].decision.text) :
         Becomes(r, Ended([request[r] EXCEPT !.result = "ok", !.sends = sends]))
    /\ UNCHANGED <<order, failures>>

\* A read or the creation of the AI run fails: the caller gets the error.
Throw(r) ==
    /\ failures < MaxFailures /\ failures' = failures + 1
    /\ request[r].step \in {"understand", "retrieve", "ground", "guard", "log"}
    /\ Becomes(r, Ended([NewRequest EXCEPT !.result = "error"]))
    /\ UNCHANGED order

-----------------------------------------------------------------------------

\* The steps that the server takes once a request is there.  A call of a provider
\* ends: it has a timeout.
Work(r) ==
    \/ ProviderFails(r) \/ ProviderGarbles(r) \/ Understand(r) \/ Search(r) \/ Ground(r) \/ Guard(r)
    \/ Prepare(r) \/ Log(r)

Rest == (\A r \in Requests : request[r].step = "done") /\ UNCHANGED vars

Next ==
    \/ \E r \in Requests :
         \/ \E kind \in Kinds : Begin(r, kind)
         \/ Work(r)
         \/ PrepareFails(r) \/ Throw(r)
    \/ Rest

Spec == Init /\ [][Next]_vars

\* No request is obliged to arrive; one that has arrived goes on.
Fairness == \A r \in Requests : WF_vars(Work(r))

FairSpec == Spec /\ Fairness

-----------------------------------------------------------------------------
(* Properties *)

Answered(r) == request[r].step = "done" /\ request[r].result = "ok"

\* A question of business, or one that the knowledge base was searched for, is never
\* answered to the customer with a text of the model alone: what is sent without a
\* hand-off names chunks, and only chunks that this search has returned.
GroundedAnswer ==
    \A r \in Requests :
      LET q == request[r] IN
      /\ Answered(r) /\ q.sends /\ ~q.decision.handoff
      /\ q.decision.text \in FreeTexts
      /\ q.kind = "business" \/ q.searched
      => /\ q.searched
         /\ q.decision.sources # {} /\ q.decision.sources \subseteq q.rag

\* A saved order loses a detail only when the message corrects the order or is about
\* another kind of order, when the intent was found only in the second answer, or when
\* another request has saved the order since this one read it.
OrderDetailsKept ==
    [][\A r \in Requests :
         /\ request[r].step = "prepare" /\ request'[r].step = "log"
         /\ request[r].continued /\ ~request[r].overtaken
         => order.known \subseteq order'.known]_vars

\* Every request ends: with an error, with something sent or with a hand-off.  Only a
\* text of the model or of the knowledge base, emptied by sanitizeReply, may leave the
\* customer with neither.  Time and again all requests are at rest.
EveryRequestEnds ==
    []<>(\A r \in Requests :
           \/ request[r].step = "idle"
           \/ /\ request[r].step = "done"
              /\ \/ request[r].result = "error"
                 \/ request[r].sends
                 \/ request[r].decision.handoff
                 \/ request[r].decision.text \in FreeTexts)
=============================================================================
