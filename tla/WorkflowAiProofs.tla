---------------------------- MODULE WorkflowAiProofs ----------------------------
(***************************************************************************)
(* What holds of the assistant's replies for every set of requests, every  *)
(* knowledge base, every kind of order and every number of providers.      *)
(***************************************************************************)
EXTENDS WorkflowAi, TLAPS

\* The rows of the requests, as TypeOK types them.
RequestRows == [step : Steps, kind : Kinds \cup {None}, seen : Orders,
                attempt : 1 .. 2, provider : 1 .. Providers,
                decision : Decisions, searched : BOOLEAN,
                rag : SUBSET Chunks, sends : BOOLEAN,
                result : {"ok", "error", None},
                continued : BOOLEAN, overtaken : BOOLEAN]

\* A text of the model, or of the evidence, is given without a hand-off only with sources
\* of the search.
Grounded(d, rag) ==
    d.text \in {"answer", "evidence"} /\ ~d.handoff => d.sources # {} /\ d.sources \subseteq rag

\* From the guards on, the decision is the one that will be sent.
Decided == {"guard", "prepare", "log", "done"}

\* A question of business leaves the first prompt for the search, and is no longer
\* marked as one, or for the transfer to a human.
AnswerInv(q) ==
    /\ q.step = "idle" => ~q.sends
    /\ q.step \in {"idle", "understand"} => ~q.searched
    /\ q.kind = "business" => \/ q.step = "understand"
                              \/ q.step \in {"log", "done"} /\ q.decision.text = "transfer"
    /\ q.step \in Decided /\ q.searched => Grounded(q.decision, q.rag)
    /\ q.step = "done" /\ q.sends => q.decision.text # "none"

\* A request that no other has overtaken has read the saved order, and one that continues
\* it still has all its details.
OrderInv(q) ==
    /\ q.step \in {"idle", "understand"} => ~q.continued
    /\ q.step = "understand" /\ ~q.overtaken => q.seen = order
    /\ q.step \in {"retrieve", "ground", "guard", "prepare"}
          /\ q.continued /\ ~q.overtaken
       => order.known \subseteq q.decision.known

RequestInv(q) == AnswerInv(q) /\ OrderInv(q)

IInv == TypeOK /\ \A r \in Requests : RequestInv(request[r])

-----------------------------------------------------------------------------
(* The guards on a decision *)

\* What the functions on decisions keep: the type, the details of the order, and the
\* answer's sources once the knowledge base was searched.
Keeps(new, d, searched, rag) ==
    /\ new \in Decisions /\ new.known = d.known
    /\ searched => Grounded(new, rag)

LEMMA ReplyTyped ==
    ASSUME NEW text \in FreeTexts \cup FixedTexts, NEW handoff \in BOOLEAN
    PROVE  /\ Reply(text, handoff) \in Decisions
           /\ Reply(text, handoff).text = text /\ Reply(text, handoff).known = {}
BY DEF Reply, Decisions, Actions

LEMMA EvidenceKeeps ==
    ASSUME NEW d \in Decisions, NEW rag \in SUBSET Chunks, NEW S \in NonEmpty(rag),
           NEW searched \in BOOLEAN
    PROVE  /\ Keeps(Evidence(d, S), d, searched, rag)
           /\ Keeps([Evidence(d, S) EXCEPT !.handoff = FALSE], d, searched, rag)
<1>1. S # {} /\ S \subseteq rag /\ S \subseteq Chunks \cup Invented
  BY DEF NonEmpty
<1>2. "evidence" \in FreeTexts \cup FixedTexts
  BY DEF FreeTexts
<1>3. Evidence(d, S) = [d EXCEPT !.text = "evidence", !.handoff = d.handoff, !.sources = S]
  BY DEF Evidence, Decisions
<1>4. [Evidence(d, S) EXCEPT !.handoff = FALSE]
        = [d EXCEPT !.text = "evidence", !.handoff = FALSE, !.sources = S]
  BY DEF Evidence, Decisions
<1>5. d.handoff \in BOOLEAN
  BY DEF Decisions
<1>6. ASSUME NEW handoff \in BOOLEAN
      PROVE  Keeps([d EXCEPT !.text = "evidence", !.handoff = handoff, !.sources = S], d, searched, rag)
  <2> DEFINE new == [d EXCEPT !.text = "evidence", !.handoff = handoff, !.sources = S]
  <2>1. new \in Decisions /\ new.known = d.known /\ new.sources = S
    BY <1>1, <1>2 DEF Decisions
  <2> HIDE DEF new
  <2>2. Keeps(new, d, searched, rag)
    BY <1>1, <2>1 DEF Keeps, Grounded
  <2>3. QED
    BY <2>2 DEF new
<1>7. QED
  BY <1>3, <1>4, <1>5, <1>6

LEMMA AskingKeeps ==
    ASSUME NEW d \in Decisions, NEW rag \in SUBSET Chunks, NEW searched \in BOOLEAN,
           NEW S \in SUBSET (Chunks \cup Invented)
    PROVE  Keeps(Asking(d, S), d, searched, rag)
<1> DEFINE new == [d EXCEPT !.text = "clarification", !.handoff = FALSE, !.sources = S]
<1>1. Asking(d, S) = new
  BY DEF Asking
<1>2. "clarification" \in FreeTexts \cup FixedTexts
  BY DEF FixedTexts
<1>3. new \in Decisions /\ new.known = d.known /\ new.text = "clarification"
  BY <1>2 DEF Decisions
<1> HIDE DEF new
<1>4. QED
  BY <1>1, <1>3 DEF Keeps, Grounded

LEMMA MissingKnowledgeKeeps ==
    ASSUME NEW d \in Decisions, NEW rag \in SUBSET Chunks, NEW searched \in BOOLEAN
    PROVE  Keeps(buildMissingKnowledgeDecision(d), d, searched, rag)
<1> DEFINE new == [d EXCEPT !.text = "verification", !.handoff = TRUE, !.sources = {}]
<1>1. buildMissingKnowledgeDecision(d) = new
  BY DEF buildMissingKnowledgeDecision
<1>2. "verification" \in FreeTexts \cup FixedTexts
  BY DEF FixedTexts
<1>3. new \in Decisions /\ new.known = d.known /\ new.text = "verification"
  BY <1>2 DEF Decisions
<1> HIDE DEF new
<1>4. QED
  BY <1>1, <1>3 DEF Keeps, Grounded

LEMMA FallbackKeeps ==
    ASSUME NEW d \in Decisions, NEW rag \in SUBSET Chunks, NEW searched \in BOOLEAN,
           NEW new \in buildRagEvidenceFallbackDecision(d, rag)
    PROVE  Keeps(new, d, searched, rag)
BY EvidenceKeeps, MissingKnowledgeKeeps DEF buildRagEvidenceFallbackDecision

LEMMA GuidanceKeeps ==
    ASSUME NEW d \in Decisions, NEW rag \in SUBSET Chunks, NEW searched \in BOOLEAN,
           searched => Grounded(d, rag), NEW new \in ensureHospitalityBookingGuidance(d, rag)
    PROVE  Keeps(new, d, searched, rag)
<1> DEFINE action == IF d.action = None THEN "reservation" ELSE d.action
           e == [d EXCEPT !.action = action]
<1>1. new \in {d, e, Asking(e, e.sources)}
  <2>1. e = [d EXCEPT !.action = IF @ = None THEN "reservation" ELSE @]
    BY DEF Decisions
  <2> HIDE DEF e
  <2>2. QED
    BY <2>1 DEF ensureHospitalityBookingGuidance
<1>2. action \in Actions
  BY WorkflowAiAssumption DEF Actions, Decisions
<1> HIDE DEF action
<1>3. /\ e \in Decisions /\ e.known = d.known /\ e.text = d.text /\ e.handoff = d.handoff
      /\ e.sources = d.sources /\ e.sources \in SUBSET (Chunks \cup Invented)
  BY <1>2 DEF Decisions
<1> HIDE DEF e
<1>4. Keeps(d, d, searched, rag)
  BY DEF Keeps
<1>5. Keeps(e, d, searched, rag)
  BY <1>3 DEF Keeps, Grounded
<1>6. Keeps(Asking(e, e.sources), d, searched, rag)
  BY <1>3, AskingKeeps DEF Keeps
<1>7. QED
  BY <1>1, <1>4, <1>5, <1>6

LEMMA KnowledgeGuardsKeep ==
    ASSUME NEW d \in Decisions, NEW rag \in SUBSET Chunks, NEW searched \in BOOLEAN,
           searched => Grounded(d, rag), NEW new \in applyFinalKnowledgeGuards(d, searched, rag)
    PROVE  Keeps(new, d, searched, rag)
<1>1. CASE ~searched
  BY <1>1 DEF applyFinalKnowledgeGuards, Keeps
<1>2. CASE searched
  <2>1. ASSUME NEW S \in SUBSET rag
        PROVE  Keeps([d EXCEPT !.sources = IF @ = {} THEN S ELSE @], d, searched, rag)
    <3> DEFINE sources == IF d.sources = {} THEN S ELSE d.sources
               e == [d EXCEPT !.sources = sources]
    <3>1. e = [d EXCEPT !.sources = IF @ = {} THEN S ELSE @]
      BY DEF Decisions
    <3>2. sources \in SUBSET (Chunks \cup Invented) /\ (d.sources # {} => sources = d.sources)
      BY DEF Decisions
    <3> HIDE DEF sources
    <3>3. e \in Decisions /\ e.known = d.known /\ e.text = d.text /\ e.handoff = d.handoff /\ e.sources = sources
      BY <3>2 DEF Decisions
    <3> HIDE DEF e
    <3>4. Keeps(e, d, searched, rag)
      BY <1>2, <3>2, <3>3 DEF Keeps, Grounded
    <3>5. QED
      BY <3>1, <3>4
  <2>2. Keeps(Asking(d, {}), d, searched, rag) /\ Keeps(buildMissingKnowledgeDecision(d), d, searched, rag)
    BY AskingKeeps, MissingKnowledgeKeeps
  <2>3. QED
    BY <1>2, <2>1, <2>2, EvidenceKeeps, FallbackKeeps DEF applyFinalKnowledgeGuards
<1>3. QED
  BY <1>1, <1>2

LEMMA PricingKeeps ==
    ASSUME NEW d \in Decisions, NEW rag \in SUBSET Chunks, NEW searched \in BOOLEAN,
           searched => Grounded(d, rag), NEW new \in applyGroundedHotelPricing(d, rag)
    PROVE  Keeps(new, d, searched, rag)
<1>1. Keeps(d, d, searched, rag)
  BY DEF Keeps
<1>2. ASSUME NEW S \in NonEmpty(rag)
      PROVE  /\ Keeps([Evidence(d, S) EXCEPT !.handoff = FALSE], d, searched, rag)
             /\ Keeps(Asking(d, S), d, searched, rag)
  <2>1. S \in SUBSET (Chunks \cup Invented)
    BY DEF NonEmpty
  <2>2. QED
    BY <2>1, EvidenceKeeps, AskingKeeps
<1>3. new = d \/ \E S \in NonEmpty(rag) : new \in {[Evidence(d, S) EXCEPT !.handoff = FALSE], Asking(d, S)}
  BY DEF applyGroundedHotelPricing
<1>4. QED
  BY <1>1, <1>2, <1>3

\* The guards lose no detail of the order, and leave a grounded answer grounded.
LEMMA GuardedKeeps ==
    ASSUME NEW d \in Decisions, NEW rag \in SUBSET Chunks, NEW searched \in BOOLEAN,
           searched => Grounded(d, rag), NEW new \in Guarded(d, searched, rag)
    PROVE  Keeps(new, d, searched, rag)
<1>1. PICK e \in ensureHospitalityBookingGuidance(d, rag) :
        \E f \in applyFinalKnowledgeGuards(e, searched, rag) : new \in applyGroundedHotelPricing(f, rag)
  BY DEF Guarded
<1>2. PICK f \in applyFinalKnowledgeGuards(e, searched, rag) : new \in applyGroundedHotelPricing(f, rag)
  BY <1>1
<1>3. Keeps(e, d, searched, rag)
  BY GuidanceKeeps
<1>4. Keeps(f, e, searched, rag)
  BY <1>3, KnowledgeGuardsKeep DEF Keeps
<1>5. Keeps(new, f, searched, rag)
  BY <1>2, <1>4, PricingKeeps DEF Keeps
<1>6. QED
  BY <1>3, <1>4, <1>5 DEF Keeps

-----------------------------------------------------------------------------
(* The step of one request *)

LEMMA Before ==
    ASSUME IInv, NEW r \in Requests
    PROVE  /\ TypeOK /\ request[r] \in RequestRows /\ request \in [Requests -> RequestRows]
           /\ AnswerInv(request[r]) /\ OrderInv(request[r])
BY DEF IInv, TypeOK, RequestRows, RequestInv

LEMMA NoOrderTyped == NoOrder \in Orders
BY DEF NoOrder, Orders, Actions

LEMMA FirstProvider == 1 \in 1 .. Providers
BY WorkflowAiAssumption

\* Where a request may go, when it leaves the order alone.
GoesOn(new) ==
    new \in RequestRows /\ RequestInv(new)

LEMMA OwnStep ==
    ASSUME IInv, NEW r \in Requests, NEW new, Becomes(r, new), GoesOn(new),
           UNCHANGED order, failures' \in 0 .. MaxFailures
    PROVE  IInv'
<1>1. /\ TypeOK /\ request \in [Requests -> RequestRows]
      /\ \A x \in Requests : RequestInv(request[x])
  BY DEF IInv, TypeOK, RequestRows
<1>2. request' = [request EXCEPT ![r] = new] /\ new \in RequestRows /\ RequestInv(new)
  BY DEF Becomes, GoesOn
<1>3. request'[r] = new /\ \A x \in Requests : x # r => request'[x] = request[x]
  BY <1>1, <1>2
<1>4. request' \in [Requests -> RequestRows]
  BY <1>1, <1>2
<1>5. TypeOK'
  BY <1>1, <1>4 DEF TypeOK, RequestRows
<1>6. ASSUME NEW x \in Requests
      PROVE  RequestInv(request[x])'
  <2>1. RequestInv(request'[x])
    BY <1>1, <1>2, <1>3
  <2>2. QED
    BY <2>1 DEF RequestInv, AnswerInv, OrderInv
<1>7. QED
  BY <1>5, <1>6 DEF IInv

\* A decision is made: the request goes on to the guards.
LEMMA DecideStep ==
    ASSUME IInv, NEW r \in Requests, NEW q \in RequestRows, NEW decisions \in SUBSET Decisions,
           Decide(r, q, decisions), UNCHANGED <<order, failures>>,
           q.overtaken = request[r].overtaken,
           q.kind # "business",
           \A d \in decisions :
              /\ q.searched => Grounded(d, q.rag)
              /\ q.continued /\ ~q.overtaken => order.known \subseteq d.known
    PROVE  IInv'
<1>1. PICK d \in decisions :
        Becomes(r, [q EXCEPT !.decision = d, !.seen = NoOrder, !.attempt = 1, !.provider = 1,
                             !.kind = IF @ = "business" THEN @ ELSE None, !.step = "guard"])
  BY DEF Decide
<1>2. d \in Decisions
  OBVIOUS
<1> DEFINE new == [q EXCEPT !.decision = d, !.seen = NoOrder, !.attempt = 1, !.provider = 1,
                            !.kind = None, !.step = "guard"]
<1>3. Becomes(r, new)
  BY <1>1 DEF RequestRows
<1>4. /\ new \in RequestRows /\ new.step = "guard" /\ new.kind = None /\ new.decision = d
      /\ new.searched = q.searched /\ new.rag = q.rag /\ new.continued = q.continued
      /\ new.overtaken = q.overtaken
  <2>1. PICK attempt \in 1 .. 2, provider \in 1 .. Providers : attempt = 1 /\ provider = 1
    BY FirstProvider
  <2>2. PICK continued \in BOOLEAN, step \in Steps, kind \in Kinds \cup {None}, seen \in Orders :
          continued = q.continued /\ step = "guard" /\ kind = None /\ seen = NoOrder
    BY NoOrderTyped DEF RequestRows, Steps
  <2>3. new = [q EXCEPT !.decision = d, !.kind = kind, !.seen = seen, !.attempt = attempt,
                        !.provider = provider, !.step = step, !.continued = continued]
    BY <2>1, <2>2 DEF RequestRows
  <2> HIDE DEF new
  <2>4. QED
    BY <1>2, <2>2, <2>3 DEF RequestRows
<1> HIDE DEF new
<1>5. AnswerInv(new)
  BY <1>4, WorkflowAiAssumption DEF AnswerInv, Kinds
<1>6. OrderInv(new)
  BY <1>4 DEF OrderInv
<1>7. failures' \in 0 .. MaxFailures
  BY DEF IInv, TypeOK
<1>8. QED
  BY <1>3, <1>4, <1>5, <1>6, <1>7, OwnStep DEF GoesOn, RequestInv

LEMMA BeginStep ==
    ASSUME IInv, NEW r \in Requests, NEW kind \in Kinds, Begin(r, kind)
    PROVE  IInv'
<1>1. /\ TypeOK /\ request[r] \in RequestRows /\ request[r].step = "idle"
      /\ AnswerInv(request[r]) /\ OrderInv(request[r])
      /\ UNCHANGED <<order, failures>>
  BY Before DEF Begin
<1>2. /\ ~request[r].sends /\ ~request[r].searched /\ ~request[r].continued
      /\ request[r].kind # "business"
  BY <1>1 DEF AnswerInv, OrderInv
<1>3. failures' \in 0 .. MaxFailures /\ order \in Orders
  BY <1>1 DEF TypeOK
<1> DEFINE plain == PlainReply(kind)
<1>4. ASSUME kind \in PlainKinds
      PROVE  plain \in Decisions
  BY <1>4, ReplyTyped DEF PlainKinds, PlainReply, FreeTexts, FixedTexts
<1>5. CASE kind = "out_of_scope"
  <2> DEFINE new == [request[r] EXCEPT !.step = "done", !.result = "ok", !.decision = plain]
  <2>1. Becomes(r, new)
    BY <1>5 DEF Begin
  <2>2. plain \in Decisions
    BY <1>4, <1>5 DEF PlainKinds
  <2> HIDE DEF plain
  <2>3. /\ new \in RequestRows /\ new.step = "done" /\ new.sends = request[r].sends
        /\ new.searched = request[r].searched /\ new.kind = request[r].kind
        /\ new.overtaken = request[r].overtaken
    BY <1>1, <2>2 DEF RequestRows, Steps
  <2> HIDE DEF new
  <2>4. AnswerInv(new) /\ OrderInv(new)
    BY <1>2, <2>3 DEF AnswerInv, OrderInv
  <2>5. QED
    BY <1>1, <1>3, <2>1, <2>3, <2>4, OwnStep DEF GoesOn, RequestInv
<1>6. CASE kind \in PlainKinds \ {"out_of_scope"}
  <2> DEFINE new == [request[r] EXCEPT !.step = "log", !.decision = plain]
  <2>1. Becomes(r, new)
    BY <1>6 DEF Begin
  <2>2. plain \in Decisions
    BY <1>4, <1>6
  <2> HIDE DEF plain
  <2>3. /\ new \in RequestRows /\ new.step = "log"
        /\ new.searched = request[r].searched /\ new.kind = request[r].kind
        /\ new.overtaken = request[r].overtaken
    BY <1>1, <2>2 DEF RequestRows, Steps
  <2> HIDE DEF new
  <2>4. AnswerInv(new) /\ OrderInv(new)
    BY <1>2, <2>3 DEF AnswerInv, OrderInv
  <2>5. QED
    BY <1>1, <1>3, <2>1, <2>3, <2>4, OwnStep DEF GoesOn, RequestInv
<1>7. CASE kind \notin PlainKinds
  <2> DEFINE new == [request[r] EXCEPT !.kind = kind, !.step = "understand", !.seen = order]
  <2>1. Becomes(r, new)
    BY <1>7 DEF Begin, PlainKinds
  <2>2. /\ new \in RequestRows /\ new.step = "understand" /\ new.seen = order
        /\ new.searched = request[r].searched /\ new.continued = request[r].continued
        /\ new.overtaken = request[r].overtaken
    BY <1>1, <1>3 DEF RequestRows, Steps
  <2> HIDE DEF new
  <2>3. AnswerInv(new) /\ OrderInv(new)
    BY <1>2, <2>2 DEF AnswerInv, OrderInv, Decided
  <2>4. QED
    BY <1>1, <1>3, <2>1, <2>2, <2>3, OwnStep DEF GoesOn, RequestInv
<1>8. QED
  BY <1>5, <1>6, <1>7

LEMMA GuardStep ==
    ASSUME IInv, NEW r \in Requests, Guard(r)
    PROVE  IInv'
<1> DEFINE q == request[r]
<1>1. /\ TypeOK /\ q \in RequestRows /\ q.step = "guard"
      /\ AnswerInv(q) /\ OrderInv(q)
      /\ UNCHANGED <<order, failures>>
  BY Before DEF Guard
<1>2. PICK d \in Guarded(q.decision, q.searched, q.rag) :
        Becomes(r, [q EXCEPT !.decision = IF d.order THEN d ELSE Forgotten(d),
                             !.step = IF d.order THEN "prepare" ELSE "log"])
  BY DEF Guard
<1>3. /\ q.kind # "business"
      /\ q.searched => Grounded(q.decision, q.rag)
      /\ q.continued /\ ~q.overtaken => order.known \subseteq q.decision.known
  BY <1>1 DEF AnswerInv, OrderInv, Decided
<1>4. Keeps(d, q.decision, q.searched, q.rag)
  <2>1. q.decision \in Decisions /\ q.searched \in BOOLEAN /\ q.rag \in SUBSET Chunks
    BY <1>1 DEF RequestRows
  <2>2. QED
    BY <1>3, <2>1, GuardedKeeps
<1>5. failures' \in 0 .. MaxFailures
  BY <1>1 DEF TypeOK
<1> HIDE DEF q
<1>6. CASE d.order
  <2> DEFINE new == [q EXCEPT !.decision = d, !.step = "prepare"]
  <2>1. Becomes(r, new)
    BY <1>2, <1>6
  <2>2. /\ new \in RequestRows /\ new.step = "prepare" /\ new.decision = d /\ new.rag = q.rag
        /\ new.searched = q.searched /\ new.kind = q.kind /\ new.continued = q.continued
        /\ new.overtaken = q.overtaken
    BY <1>1, <1>4 DEF RequestRows, Steps, Keeps
  <2> HIDE DEF new
  <2>3. AnswerInv(new) /\ OrderInv(new)
    BY <1>3, <1>4, <2>2 DEF AnswerInv, OrderInv, Keeps
  <2>4. QED
    BY <1>1, <1>5, <2>1, <2>2, <2>3, OwnStep DEF GoesOn, RequestInv, q
<1>7. CASE ~d.order
  <2> DEFINE e == Forgotten(d)
             new == [q EXCEPT !.decision = e, !.step = "log"]
  <2>1. Becomes(r, new)
    BY <1>2, <1>7
  <2>2. e \in Decisions /\ e.text = d.text /\ e.handoff = d.handoff /\ e.sources = d.sources
    BY <1>4 DEF Keeps, Forgotten, Decisions, Actions
  <2> HIDE DEF e
  <2>3. /\ new \in RequestRows /\ new.step = "log" /\ new.decision = e /\ new.rag = q.rag
        /\ new.searched = q.searched /\ new.kind = q.kind /\ new.overtaken = q.overtaken
    BY <1>1, <2>2 DEF RequestRows, Steps
  <2> HIDE DEF new
  <2>4. AnswerInv(new) /\ OrderInv(new)
    BY <1>3, <1>4, <2>2, <2>3 DEF AnswerInv, OrderInv, Keeps, Grounded
  <2>5. QED
    BY <1>1, <1>5, <2>1, <2>3, <2>4, OwnStep DEF GoesOn, RequestInv, q
<1>8. QED
  BY <1>6, <1>7

-----------------------------------------------------------------------------
(* Understanding the message *)

LEMMA AnswersTyped ==
    ASSUME NEW texts \in SUBSET (FreeTexts \cup FixedTexts),
           NEW sources \in SUBSET (SUBSET (Chunks \cup Invented))
    PROVE  ModelAnswers(texts, sources) \subseteq Decisions
BY DEF ModelAnswers, Decisions

LEMMA MergedDetails ==
    ASSUME NEW initial \in Decisions, NEW final \in Decisions
    PROVE  /\ mergeOrderDetails(initial, final) \in Decisions
           /\ mergeOrderDetails(initial, final).known = initial.known \cup final.known
<1> DEFINE action == IF final.action # None THEN final.action ELSE initial.action
           known == initial.known \cup final.known
<1>1. action \in Actions /\ known \in SUBSET Fields
  BY DEF Decisions
<1>2. mergeOrderDetails(initial, final) = [initial EXCEPT !.action = action, !.known = known]
  BY DEF mergeOrderDetails, Decisions
<1> HIDE DEF action, known
<1>3. /\ [initial EXCEPT !.action = action, !.known = known] \in Decisions
      /\ [initial EXCEPT !.action = action, !.known = known].known = known
  BY <1>1 DEF Decisions
<1>4. QED
  BY <1>2, <1>3 DEF known

\* What a message adds to an order keeps the details of the order, unless it corrects them.
LEMMA AccumulatedKeeps ==
    ASSUME NEW d \in Decisions, NEW previous \in Orders, NEW corrected \in BOOLEAN,
           NEW e \in Accumulated(d, previous, corrected)
    PROVE  /\ e \in Decisions
           /\ Reusable(previous, d) = previous /\ ~corrected => previous.known \subseteq e.known
<1> DEFINE old == Reusable(previous, d)
           initial == [d EXCEPT !.action = old.action, !.known = old.known]
           merged == [mergeOrderDetails(initial, d) EXCEPT !.order = TRUE]
<1>1. old \in Orders /\ old.action \in Actions /\ old.known \in SUBSET Fields
  BY NoOrderTyped DEF Reusable, Orders
<1>2. PICK f \in IF corrected THEN applyExplicitCorrections(merged) ELSE {merged} :
        e = retainPreviouslyGroundedFacts(f, old)
  BY DEF Accumulated
<1> HIDE DEF old
<1>3. initial \in Decisions /\ initial.known = old.known
  BY <1>1 DEF Decisions
<1> HIDE DEF initial
<1>4. merged \in Decisions /\ old.known \subseteq merged.known
  <2> DEFINE sum == mergeOrderDetails(initial, d)
  <2>1. sum \in Decisions /\ sum.known = initial.known \cup d.known
    BY <1>3, MergedDetails
  <2>2. merged = [sum EXCEPT !.order = TRUE]
    OBVIOUS
  <2> HIDE DEF sum, merged
  <2>3. merged \in Decisions /\ merged.known = sum.known
    BY <2>1, <2>2 DEF Decisions
  <2>4. QED
    BY <1>3, <2>1, <2>3
<1> HIDE DEF merged
<1>5. f \in Decisions /\ (~corrected => f = merged)
  <2>1. CASE corrected
    <3>1. \/ f = [merged EXCEPT !.action = None, !.known = {}]
          \/ \E K \in SUBSET merged.known : f = [merged EXCEPT !.known = K]
      BY <1>2, <2>1 DEF applyExplicitCorrections
    <3>2. [merged EXCEPT !.action = None, !.known = {}] \in Decisions
      BY <1>4 DEF Decisions, Actions
    <3>3. ASSUME NEW K \in SUBSET merged.known
          PROVE  [merged EXCEPT !.known = K] \in Decisions
      <4>1. K \subseteq Fields
        BY <1>4 DEF Decisions
      <4>2. QED
        BY <1>4, <4>1 DEF Decisions
    <3>4. QED
      BY <2>1, <3>1, <3>2, <3>3
  <2>2. CASE ~corrected
    BY <1>2, <1>4, <2>2
  <2>3. QED
    BY <2>1, <2>2
<1>6. e \in Decisions /\ f.known \subseteq e.known
  <2> DEFINE known == f.known \cup (old.known \cap HotelFields)
  <2>1. known \in SUBSET Fields
    BY <1>1, <1>5 DEF Decisions
  <2>2. e = [f EXCEPT !.known = known]
    BY <1>2, <1>5 DEF retainPreviouslyGroundedFacts, Decisions
  <2>3. f.known \subseteq known
    OBVIOUS
  <2> HIDE DEF known
  <2>4. e \in Decisions /\ e.known = known
    BY <1>5, <2>1, <2>2 DEF Decisions
  <2>5. QED
    BY <2>3, <2>4
<1>7. QED
  BY <1>4, <1>5, <1>6 DEF old

LEMMA ToSearchStep ==
    ASSUME IInv, NEW r \in Requests, request[r].step = "understand",
           UNCHANGED <<order, failures>>,
           NEW d \in Decisions, NEW continued \in BOOLEAN, ToSearch(r, d, continued),
           continued => request[r].seen.known \subseteq d.known
    PROVE  IInv'
<1>1. /\ TypeOK /\ request[r] \in RequestRows
      /\ AnswerInv(request[r]) /\ OrderInv(request[r])
  BY Before
<1>2. ~request[r].overtaken => request[r].seen = order
  BY <1>1 DEF OrderInv
<1> DEFINE e == [d EXCEPT !.text = "none", !.sources = {}]
<1>3. e \in Decisions /\ e.known = d.known
  BY DEF Decisions, FreeTexts
<1> HIDE DEF e
<1>4. PICK attempt \in 1 .. 2, provider \in 1 .. Providers, kind \in Kinds \cup {None},
           seen \in Orders, step \in Steps :
        attempt = 1 /\ provider = 1 /\ kind = None /\ seen = NoOrder /\ step = "retrieve"
  BY FirstProvider, NoOrderTyped DEF Steps
<1> DEFINE new == [request[r] EXCEPT !.step = step, !.attempt = attempt, !.provider = provider,
                                     !.kind = kind, !.seen = seen, !.continued = continued,
                                     !.decision = e]
<1>5. Becomes(r, new)
  BY <1>4 DEF ToSearch, e
<1>6. /\ new \in RequestRows /\ new.step = step /\ new.kind = kind /\ new.decision = e
      /\ new.continued = continued /\ new.overtaken = request[r].overtaken
  BY <1>1, <1>3 DEF RequestRows
<1> HIDE DEF new
<1>7. AnswerInv(new)
  BY <1>4, <1>6, WorkflowAiAssumption DEF AnswerInv, Decided, Kinds
<1>8. OrderInv(new)
  BY <1>2, <1>3, <1>4, <1>6 DEF OrderInv
<1>9. failures' \in 0 .. MaxFailures
  BY <1>1 DEF TypeOK
<1>10. QED
  BY <1>2, <1>5, <1>6, <1>7, <1>8, <1>9, OwnStep DEF GoesOn, RequestInv

LEMMA UnderstandStep ==
    ASSUME IInv, NEW r \in Requests, Understand(r)
    PROVE  IInv'
<1> DEFINE q == request[r]
<1>1. /\ TypeOK /\ q \in RequestRows /\ q.step = "understand"
      /\ AnswerInv(q) /\ OrderInv(q)
      /\ UNCHANGED <<order, failures>>
  BY Before DEF Understand
<1>2. ~q.searched /\ ~q.continued
  BY <1>1 DEF AnswerInv, OrderInv
<1>3. ModelAnswers({"answer"}, {{}}) \subseteq Decisions
  <2>1. {"answer"} \in SUBSET (FreeTexts \cup FixedTexts) /\ {{}} \in SUBSET (SUBSET (Chunks \cup Invented))
    BY DEF FreeTexts
  <2>2. QED
    BY <2>1, AnswersTyped
<1>4. ASSUME NEW decisions \in SUBSET Decisions, q.kind \in {"social", "other"}, Decide(r, q, decisions)
      PROVE  IInv'
  BY <1>1, <1>2, <1>4, DecideStep
<1> DEFINE Social == q.kind = "social" /\ Decide(r, q, {Reply("social", FALSE)})
           Continues(d, corrected) ==
             LET old == Reusable(request[r].seen, d) IN
             /\ d.order \/ old.saved
             /\ \E e \in Accumulated(d, request[r].seen, corrected) :
                  ToSearch(r, e, old = request[r].seen /\ ~corrected)
           Asks(d) == ~d.order /\ ToSearch(r, d, FALSE)
           Other(text, handoff) == q.kind = "other" /\ Decide(r, q, {Reply(text, handoff)})
<1>5. CASE Social
  <2>1. Reply("social", FALSE) \in Decisions
    BY ReplyTyped DEF FixedTexts
  <2>2. QED
    BY <1>4, <1>5, <2>1
<1>6. ASSUME NEW d \in Decisions, NEW corrected \in BOOLEAN, Continues(d, corrected)
      PROVE  IInv'
  <2>1. PICK e \in Accumulated(d, q.seen, corrected) :
               ToSearch(r, e, Reusable(q.seen, d) = q.seen /\ ~corrected)
    BY <1>6
  <2>2. q.seen \in Orders
    BY <1>1 DEF RequestRows
  <2> DEFINE continued == Reusable(q.seen, d) = q.seen /\ ~corrected
  <2>3. e \in Decisions /\ (continued => q.seen.known \subseteq e.known)
    BY <2>2, AccumulatedKeeps
  <2>4. continued \in BOOLEAN /\ ToSearch(r, e, continued)
    BY <2>1
  <2> HIDE DEF continued
  <2>5. QED
    BY <1>1, <2>3, <2>4, ToSearchStep
<1>7. ASSUME NEW d \in Decisions, Asks(d)
      PROVE  IInv'
  <2> DEFINE continued == FALSE
  <2>1. ToSearch(r, d, continued) /\ continued \in BOOLEAN /\ ~continued
    BY <1>7
  <2> HIDE DEF continued
  <2>2. QED
    BY <1>1, <2>1, ToSearchStep
<1>8. ASSUME NEW text \in {"answer", "none"}, NEW handoff \in BOOLEAN, Other(text, handoff)
      PROVE  IInv'
  <2>1. Reply(text, handoff) \in Decisions
    BY ReplyTyped DEF FreeTexts
  <2>2. QED
    BY <1>4, <1>8, <2>1
<1>9. \/ Social \/ \E text \in {"answer", "none"}, handoff \in BOOLEAN : Other(text, handoff)
      \/ \E d \in ModelAnswers({"answer"}, {{}}), corrected \in BOOLEAN : Continues(d, corrected)
      \/ \E d \in ModelAnswers({"answer"}, {{}}) : Asks(d)
  BY DEF Understand
<1> HIDE DEF Social, Continues, Asks, Other
<1>10. QED
  BY <1>3, <1>5, <1>6, <1>7, <1>8, <1>9

-----------------------------------------------------------------------------
(* Searching, and answering from what was found *)

LEMMA SearchStep ==
    ASSUME IInv, NEW r \in Requests, Search(r)
    PROVE  IInv'
<1> DEFINE before == request[r]
<1>1. /\ TypeOK /\ before \in RequestRows /\ before.step = "retrieve"
      /\ AnswerInv(before) /\ OrderInv(before)
      /\ UNCHANGED <<order, failures>>
  BY Before DEF Search
<1>2. before.kind # "business"
  BY <1>1 DEF AnswerInv
<1>3. PICK rag \in SUBSET Chunks :
        LET q == [before EXCEPT !.searched = TRUE, !.rag = rag] IN
        IF rag = {} THEN Decide(r, q, {buildMissingKnowledgeDecision(q.decision)})
        ELSE Becomes(r, [q EXCEPT !.step = "ground"])
  BY DEF Search
<1> DEFINE q == [before EXCEPT !.searched = TRUE, !.rag = rag]
<1>4. /\ q \in RequestRows /\ q.searched /\ q.rag = rag /\ q.kind = before.kind
      /\ q.overtaken = before.overtaken /\ q.continued = before.continued
      /\ q.decision = before.decision /\ q.decision \in Decisions
  BY <1>1 DEF RequestRows
<1> HIDE DEF before
<1>5. CASE rag = {}
  <2> DEFINE d == buildMissingKnowledgeDecision(q.decision)
  <2>1. Decide(r, q, {d})
    BY <1>3, <1>5
  <2> HIDE DEF q
  <2>2. Keeps(d, q.decision, TRUE, rag)
    BY <1>4, MissingKnowledgeKeeps
  <2> HIDE DEF d
  <2>3. d \in Decisions /\ d.known = q.decision.known /\ Grounded(d, q.rag)
    BY <1>4, <2>2 DEF Keeps
  <2>4. q.continued /\ ~q.overtaken => order.known \subseteq d.known
    BY <1>1, <1>4, <2>3 DEF OrderInv
  <2>5. q.overtaken = request[r].overtaken
    BY <1>4 DEF before
  <2>6. QED
    BY <1>1, <1>2, <1>4, <2>1, <2>3, <2>4, <2>5, DecideStep
<1>6. CASE rag # {}
  <2> DEFINE new == [q EXCEPT !.step = "ground"]
  <2>1. Becomes(r, new)
    BY <1>3, <1>6
  <2> HIDE DEF q
  <2>2. /\ new \in RequestRows /\ new.step = "ground" /\ new.kind = q.kind
        /\ new.decision = q.decision /\ new.continued = q.continued /\ new.overtaken = q.overtaken
    BY <1>4 DEF RequestRows, Steps
  <2> HIDE DEF new
  <2>3. AnswerInv(new) /\ OrderInv(new)
    BY <1>1, <1>2, <1>4, <2>2 DEF AnswerInv, OrderInv, Decided
  <2>4. failures' \in 0 .. MaxFailures
    BY <1>1 DEF TypeOK
  <2>5. GoesOn(new)
    BY <1>2, <2>2, <2>3 DEF GoesOn, RequestInv, before
  <2>6. QED
    BY <1>1, <2>1, <2>4, <2>5, OwnStep
<1>7. QED
  BY <1>5, <1>6

\* Of the sources that the model names only those of the search are kept.
LEMMA MergedGrounded ==
    ASSUME NEW initial \in Decisions, NEW final \in Decisions, NEW rag \in SUBSET Chunks
    PROVE  /\ mergeGroundedDecision(initial, final, rag) \in Decisions
           /\ initial.known \subseteq mergeGroundedDecision(initial, final, rag).known
           /\ mergeGroundedDecision(initial, final, rag).sources \subseteq rag
<1> DEFINE sum == mergeOrderDetails(initial, final)
           isOrder == initial.order \/ final.order
           sources == final.sources \cap rag
           new == [sum EXCEPT !.order = isOrder, !.handoff = final.handoff,
                              !.text = final.text, !.sources = sources]
<1>1. mergeGroundedDecision(initial, final, rag) = new
  BY DEF mergeGroundedDecision
<1>2. sum \in Decisions /\ sum.known = initial.known \cup final.known
  BY MergedDetails
<1>3. isOrder \in BOOLEAN
  OBVIOUS
<1>4. sources \in SUBSET (Chunks \cup Invented) /\ sources \subseteq rag
  OBVIOUS
<1> HIDE DEF sum, isOrder, sources
<1>5. new \in Decisions /\ new.known = sum.known /\ new.sources = sources
  BY <1>2, <1>3, <1>4 DEF Decisions
<1> HIDE DEF new
<1>6. QED
  BY <1>1, <1>2, <1>4, <1>5

\* The decision of a grounded request is made from its evidence.
LEMMA GroundDecides ==
    ASSUME IInv, NEW r \in Requests, request[r].step = "ground",
           UNCHANGED <<order, failures>>,
           NEW decisions \in SUBSET Decisions, Decide(r, request[r], decisions),
           \A d \in decisions : /\ request[r].decision.known \subseteq d.known
                                /\ Grounded(d, request[r].rag)
    PROVE  IInv'
<1>1. /\ request[r] \in RequestRows
      /\ AnswerInv(request[r]) /\ OrderInv(request[r])
  BY Before
<1>2. /\ request[r].kind # "business"
      /\ request[r].continued /\ ~request[r].overtaken
           => order.known \subseteq request[r].decision.known
  BY <1>1 DEF AnswerInv, OrderInv
<1>3. \A d \in decisions :
         /\ request[r].searched => Grounded(d, request[r].rag)
         /\ request[r].continued /\ ~request[r].overtaken => order.known \subseteq d.known
  BY <1>2
<1>4. QED
  BY <1>1, <1>2, <1>3, DecideStep

LEMMA FallbackGrounded ==
    ASSUME NEW d \in Decisions, NEW rag \in SUBSET Chunks,
           NEW new \in buildRagEvidenceFallbackDecision(d, rag)
    PROVE  new \in Decisions /\ new.known = d.known /\ Grounded(new, rag)
<1> DEFINE searched == TRUE
<1>1. searched /\ searched \in BOOLEAN
  OBVIOUS
<1> HIDE DEF searched
<1>2. Keeps(new, d, searched, rag)
  BY <1>1, FallbackKeeps
<1>3. QED
  BY <1>1, <1>2 DEF Keeps

LEMMA GroundStep ==
    ASSUME IInv, NEW r \in Requests, Ground(r)
    PROVE  IInv'
<1> DEFINE q == request[r]
           answers == ModelAnswers({"answer"}, SUBSET (Chunks \cup Invented))
           merged == {mergeGroundedDecision(q.decision, f, q.rag) : f \in answers}
           fallback == buildRagEvidenceFallbackDecision(q.decision, q.rag)
           decisions == {d \in merged : d.sources # {}} \cup fallback
<1>1. /\ q \in RequestRows /\ q.step = "ground" /\ q.decision \in Decisions /\ q.rag \in SUBSET Chunks
      /\ UNCHANGED <<order, failures>> /\ Decide(r, q, decisions)
  BY Before DEF Ground, RequestRows
<1>2. answers \subseteq Decisions
  <2>1. {"answer"} \in SUBSET (FreeTexts \cup FixedTexts)
    BY DEF FreeTexts
  <2>2. QED
    BY <2>1, AnswersTyped
<1> HIDE DEF answers
<1>3. ASSUME NEW d \in merged, d.sources # {}
      PROVE  d \in Decisions /\ q.decision.known \subseteq d.known /\ Grounded(d, q.rag)
  <2>1. PICK f \in answers : d = mergeGroundedDecision(q.decision, f, q.rag)
    OBVIOUS
  <2>2. f \in Decisions
    BY <1>2
  <2> HIDE DEF q, merged
  <2>3. d \in Decisions /\ q.decision.known \subseteq d.known /\ d.sources \subseteq q.rag
    BY <1>1, <2>1, <2>2, MergedGrounded
  <2>4. QED
    BY <1>3, <2>3 DEF Grounded
<1>4. ASSUME NEW d \in fallback
      PROVE  d \in Decisions /\ q.decision.known \subseteq d.known /\ Grounded(d, q.rag)
  BY <1>1, FallbackGrounded
<1> HIDE DEF merged, fallback
<1>5. \A d \in decisions : d \in Decisions /\ q.decision.known \subseteq d.known /\ Grounded(d, q.rag)
  BY <1>3, <1>4
<1> HIDE DEF decisions
<1>6. QED
  BY <1>1, <1>5, GroundDecides

-----------------------------------------------------------------------------
(* The providers fail *)

\* Only the attempt and the provider change.
LEMMA AnotherTry ==
    ASSUME IInv, NEW r \in Requests, request[r].step \in {"understand", "ground"},
           NEW attempt \in 1 .. 2, NEW provider \in 1 .. Providers,
           Becomes(r, [request[r] EXCEPT !.attempt = attempt, !.provider = provider]),
           UNCHANGED <<order, failures>>
    PROVE  IInv'
<1> DEFINE q == request[r]
           new == [q EXCEPT !.attempt = attempt, !.provider = provider]
<1>1. TypeOK /\ q \in RequestRows /\ AnswerInv(q) /\ OrderInv(q) /\ Becomes(r, new)
  BY Before
<1> HIDE DEF q
<1>2. /\ new \in RequestRows /\ new.step = q.step /\ new.kind = q.kind /\ new.seen = q.seen
      /\ new.decision = q.decision /\ new.searched = q.searched /\ new.rag = q.rag
      /\ new.sends = q.sends /\ new.continued = q.continued
      /\ new.overtaken = q.overtaken
  BY <1>1 DEF RequestRows
<1> HIDE DEF new
<1>3. AnswerInv(new) /\ OrderInv(new)
  BY <1>1, <1>2 DEF AnswerInv, OrderInv
<1>4. failures' \in 0 .. MaxFailures
  BY <1>1 DEF TypeOK
<1>5. GoesOn(new)
  BY <1>2, <1>3 DEF GoesOn, RequestInv, q
<1>6. QED
  BY <1>1, <1>4, <1>5, OwnStep

LEMMA GiveUpStep ==
    ASSUME IInv, NEW r \in Requests, GiveUp(r),
           UNCHANGED <<order, failures>>
    PROVE  IInv'
<1> DEFINE q == request[r]
<1>1. TypeOK /\ q \in RequestRows /\ AnswerInv(q) /\ OrderInv(q)
  BY Before
<1>2. CASE /\ q.step = "understand"
           /\ Becomes(r, [q EXCEPT !.step = "log", !.decision = Reply("transfer", TRUE),
                                   !.seen = NoOrder, !.attempt = 1, !.provider = 1])
  <2>1. PICK d \in Decisions : d = Reply("transfer", TRUE) /\ d.text = "transfer"
    BY ReplyTyped DEF FixedTexts
  <2>2. PICK attempt \in 1 .. 2, provider \in 1 .. Providers, seen \in Orders, step \in Steps :
          attempt = 1 /\ provider = 1 /\ seen = NoOrder /\ step = "log"
    BY FirstProvider, NoOrderTyped DEF Steps
  <2> DEFINE new == [q EXCEPT !.step = step, !.decision = d, !.seen = seen, !.attempt = attempt,
                              !.provider = provider]
  <2>3. Becomes(r, new)
    BY <1>2, <2>1, <2>2
  <2>4. ~q.searched
    BY <1>1, <1>2 DEF AnswerInv
  <2> HIDE DEF q
  <2>5. /\ new \in RequestRows /\ new.step = step /\ new.kind = q.kind /\ new.decision = d
        /\ new.searched = q.searched /\ new.overtaken = q.overtaken
    BY <1>1 DEF RequestRows
  <2> HIDE DEF new
  <2>6. AnswerInv(new) /\ OrderInv(new)
    BY <1>1, <2>1, <2>2, <2>4, <2>5 DEF AnswerInv, OrderInv
  <2>7. failures' \in 0 .. MaxFailures
    BY <1>1 DEF TypeOK
  <2>8. GoesOn(new)
    BY <2>4, <2>5, <2>6 DEF GoesOn, RequestInv, q
  <2>9. QED
    BY <2>3, <2>7, <2>8, OwnStep
<1>3. CASE q.step = "ground" /\ Decide(r, q, buildRagEvidenceFallbackDecision(q.decision, q.rag))
  <2>1. q.decision \in Decisions /\ q.rag \in SUBSET Chunks
    BY <1>1 DEF RequestRows
  <2> DEFINE fallback == buildRagEvidenceFallbackDecision(q.decision, q.rag)
  <2>2. \A d \in fallback : d \in Decisions /\ q.decision.known \subseteq d.known /\ Grounded(d, q.rag)
    BY <2>1, FallbackGrounded
  <2>3. Decide(r, q, fallback)
    BY <1>3
  <2> HIDE DEF fallback
  <2>4. QED
    BY <1>3, <2>2, <2>3, GroundDecides
<1>4. QED
  BY <1>2, <1>3 DEF GiveUp

LEMMA NextAttemptStep ==
    ASSUME IInv, NEW r \in Requests, request[r].step \in {"understand", "ground"}, NextAttempt(r),
           UNCHANGED <<order, failures>>
    PROVE  IInv'
<1>1. CASE GiveUp(r)
  BY <1>1, GiveUpStep
<1>2. CASE Becomes(r, [request[r] EXCEPT !.attempt = 2, !.provider = 1])
  <2>1. PICK attempt \in 1 .. 2, provider \in 1 .. Providers : attempt = 2 /\ provider = 1
    BY FirstProvider
  <2>2. Becomes(r, [request[r] EXCEPT !.attempt = attempt, !.provider = provider])
    BY <1>2, <2>1
  <2>3. QED
    BY <2>2, AnotherTry
<1>3. QED
  BY <1>1, <1>2 DEF NextAttempt

LEMMA ProviderStep ==
    ASSUME IInv, NEW r \in Requests, ProviderFails(r) \/ ProviderGarbles(r)
    PROVE  IInv'
<1>1. /\ request[r].step \in {"understand", "ground"} /\ request[r] \in RequestRows
      /\ UNCHANGED <<order, failures>>
  BY Before DEF ProviderFails, ProviderGarbles
<1>2. CASE NextAttempt(r)
  BY <1>1, <1>2, NextAttemptStep
<1>3. CASE request[r].provider < Providers /\ Becomes(r, [request[r] EXCEPT !.provider = @ + 1])
  <2>1. request[r].attempt \in 1 .. 2 /\ request[r].provider \in 1 .. Providers
    BY <1>1 DEF RequestRows
  <2>2. request[r].provider + 1 \in 1 .. Providers
    BY <1>3, <2>1, WorkflowAiAssumption
  <2>3. PICK attempt \in 1 .. 2, provider \in 1 .. Providers :
          attempt = request[r].attempt /\ provider = request[r].provider + 1
    BY <2>1, <2>2
  <2>4. [request[r] EXCEPT !.provider = @ + 1]
          = [request[r] EXCEPT !.attempt = attempt, !.provider = provider]
    BY <1>1, <2>3 DEF RequestRows
  <2>5. Becomes(r, [request[r] EXCEPT !.attempt = attempt, !.provider = provider])
    BY <1>3, <2>4
  <2>6. QED
    BY <1>1, <2>5, AnotherTry
<1>4. QED
  BY <1>2, <1>3 DEF ProviderFails, ProviderGarbles, NextProvider

-----------------------------------------------------------------------------
(* Preparing the order and logging the run *)

LEMMA ForgottenKeeps ==
    ASSUME NEW d \in Decisions
    PROVE  /\ Forgotten(d) \in Decisions /\ Forgotten(d).text = d.text
           /\ Forgotten(d).handoff = d.handoff /\ Forgotten(d).sources = d.sources
BY DEF Forgotten, Decisions, Actions

\* A request whose order is prepared, or could not be, goes on to the log.
LEMMA Prepared ==
    ASSUME NEW q \in RequestRows, AnswerInv(q), q.step = "prepare", NEW new,
           new = [q EXCEPT !.step = "log", !.decision = Forgotten(@)]
    PROVE  /\ new \in RequestRows /\ RequestInv(new)
           /\ new.step = "log"
<1>1. q.decision \in Decisions
  BY DEF RequestRows
<1>2. PICK d \in Decisions : d = Forgotten(q.decision)
  BY <1>1, ForgottenKeeps
<1>3. new = [q EXCEPT !.step = "log", !.decision = d]
  BY <1>2
<1>4. d.text = q.decision.text /\ d.handoff = q.decision.handoff /\ d.sources = q.decision.sources
  BY <1>1, <1>2, ForgottenKeeps
<1>5. /\ new \in RequestRows /\ new.step = "log" /\ new.kind = q.kind /\ new.decision = d
      /\ new.searched = q.searched /\ new.rag = q.rag /\ new.overtaken = q.overtaken
  BY <1>3 DEF RequestRows, Steps
<1>6. AnswerInv(new)
  BY <1>4, <1>5 DEF AnswerInv, Decided, Grounded
<1>7. QED
  BY <1>5, <1>6 DEF RequestInv, OrderInv

LEMMA PrepareFailsStep ==
    ASSUME IInv, NEW r \in Requests, PrepareFails(r)
    PROVE  IInv'
<1> DEFINE new == [request[r] EXCEPT !.step = "log", !.decision = Forgotten(@)]
<1>1. /\ TypeOK /\ request[r] \in RequestRows /\ AnswerInv(request[r])
      /\ request[r].step = "prepare" /\ Becomes(r, new)
      /\ failures < MaxFailures /\ failures' = failures + 1 /\ UNCHANGED order
  BY Before DEF PrepareFails
<1>2. failures' \in 0 .. MaxFailures
  BY <1>1, WorkflowAiAssumption DEF TypeOK
<1> HIDE DEF new
<1>3. new \in RequestRows /\ RequestInv(new)
  BY <1>1, Prepared DEF new
<1>4. QED
  BY <1>1, <1>2, <1>3, OwnStep DEF GoesOn

\* What the other requests become when one saves its order.
LEMMA Marked ==
    ASSUME NEW q \in RequestRows, NEW over \in BOOLEAN, NEW new,
           new = [q EXCEPT !.overtaken = over]
    PROVE  /\ new \in RequestRows /\ new.overtaken = over
           /\ new.step = q.step /\ new.kind = q.kind /\ new.decision = q.decision
           /\ new.searched = q.searched /\ new.rag = q.rag /\ new.sends = q.sends
           /\ new.continued = q.continued /\ new.seen = q.seen
BY DEF RequestRows

LEMMA OthersPrepared ==
    ASSUME IInv, NEW r \in Requests, Prepare(r), NEW x \in Requests, x # r
    PROVE  /\ request'[x] \in RequestRows /\ RequestInv(request[x])'
           /\ request'[x].step = request[x].step
<1> DEFINE q == request[x]
           over == q.overtaken \/ q.step \notin {"idle", "log", "done"}
           new == [q EXCEPT !.overtaken = over]
<1>1. q \in RequestRows /\ AnswerInv(q) /\ OrderInv(q)
  BY Before
<1>2. request'[x] = IF q.step \in {"idle", "log", "done"} THEN q ELSE [q EXCEPT !.overtaken = TRUE]
  BY DEF Prepare
<1>3. request'[x] = new
  <2>1. CASE q.step \in {"idle", "log", "done"}
    <3>1. over = q.overtaken
      BY <1>1, <2>1 DEF RequestRows
    <3>2. QED
      BY <1>1, <1>2, <2>1, <3>1 DEF RequestRows
  <2>2. CASE q.step \notin {"idle", "log", "done"}
    BY <1>2, <2>2
  <2>3. QED
    BY <2>1, <2>2
<1>4. over \in BOOLEAN /\ (q.step \notin {"idle", "log", "done"} => over)
  OBVIOUS
<1> HIDE DEF q, over
<1>5. /\ new \in RequestRows /\ new.overtaken = over
      /\ new.step = q.step /\ new.kind = q.kind /\ new.decision = q.decision
      /\ new.searched = q.searched /\ new.rag = q.rag /\ new.sends = q.sends
      /\ new.continued = q.continued
  BY <1>1, <1>4, Marked
<1> HIDE DEF new
<1>6. AnswerInv(request[x])'
  BY <1>1, <1>3, <1>5 DEF AnswerInv
<1>7. OrderInv(request[x])'
  BY <1>1, <1>3, <1>4, <1>5 DEF OrderInv
<1>8. QED
  BY <1>3, <1>5, <1>6, <1>7 DEF RequestInv, q

LEMMA PrepareStep ==
    ASSUME IInv, NEW r \in Requests, Prepare(r)
    PROVE  IInv'
<1> DEFINE q == request[r]
           d == q.decision
           new == [q EXCEPT !.step = "log", !.decision = Forgotten(@)]
<1>1. /\ TypeOK /\ q \in RequestRows /\ AnswerInv(q) /\ q.step = "prepare"
      /\ request[r] = q /\ failures' = failures
  BY Before DEF Prepare
<1>2. order' = [saved |-> TRUE, action |-> d.action, known |-> d.known]
  BY DEF Prepare
<1>3. request'[r] = new
  BY DEF Prepare
<1>4. d \in Decisions
  BY <1>1 DEF RequestRows
<1> HIDE DEF q, new, d
<1>5. new \in RequestRows /\ RequestInv(new) /\ new.step = "log"
  BY <1>1, Prepared DEF new
<1>6. \A x \in Requests \ {r} : request'[x] \in RequestRows /\ RequestInv(request[x])'
  BY OthersPrepared
<1>7. request' \in [Requests -> RequestRows]
  <2>1. \A x \in Requests : request'[x] \in RequestRows
    BY <1>3, <1>5, <1>6
  <2>2. DOMAIN request' = Requests /\ request' = [x \in DOMAIN request' |-> request'[x]]
    BY DEF Prepare
  <2>3. QED
    BY <2>1, <2>2
<1>8. order' \in Orders
  BY <1>2, <1>4 DEF Orders, Decisions
<1>9. TypeOK'
  BY <1>1, <1>7, <1>8 DEF TypeOK, RequestRows
<1>10. RequestInv(request[r])'
  BY <1>3, <1>5 DEF RequestInv, AnswerInv, OrderInv
<1>11. QED
  BY <1>6, <1>9, <1>10 DEF IInv

LEMMA EndedKeeps ==
    ASSUME NEW q \in RequestRows, NEW new, new = Ended(q)
    PROVE  /\ new \in RequestRows /\ new.step = "done" /\ ~new.continued
           /\ new.kind = q.kind /\ new.decision = q.decision /\ new.sends = q.sends
           /\ new.searched = q.searched /\ new.rag = q.rag
<1>1. PICK step \in Steps, no \in BOOLEAN : step = "done" /\ ~no
  BY DEF Steps
<1>2. new = [q EXCEPT !.step = step, !.continued = no, !.overtaken = no]
  BY <1>1 DEF Ended
<1>3. QED
  BY <1>1, <1>2 DEF RequestRows

LEMMA LogStep ==
    ASSUME IInv, NEW r \in Requests, Log(r)
    PROVE  IInv'
<1> DEFINE q == request[r]
<1>1. /\ TypeOK /\ q \in RequestRows /\ AnswerInv(q) /\ q.step = "log"
      /\ UNCHANGED <<order, failures>>
  BY Before DEF Log
<1>2. PICK sends \in Sendable(q.decision.text) :
        Becomes(r, Ended([q EXCEPT !.result = "ok", !.sends = sends]))
  BY DEF Log
<1>3. sends \in BOOLEAN /\ (sends => q.decision.text # "none")
  <2>1. CASE q.decision.text = "none"
    <3>1. Sendable(q.decision.text) = {FALSE}
      BY <2>1 DEF Sendable, FixedTexts
    <3>2. sends = FALSE
      BY <3>1
    <3>3. QED
      BY <3>2
  <2>2. CASE q.decision.text # "none"
    <3>1. Sendable(q.decision.text) \in {{TRUE}, BOOLEAN}
      BY <2>2 DEF Sendable
    <3>2. QED
      BY <2>2, <3>1
  <2>3. QED
    BY <2>1, <2>2
<1> DEFINE last == [q EXCEPT !.result = "ok", !.sends = sends]
           new == Ended(last)
<1>4. Becomes(r, new)
  BY <1>2
<1> HIDE DEF q
<1>5. /\ last \in RequestRows /\ last.sends = sends /\ last.kind = q.kind
      /\ last.decision = q.decision /\ last.searched = q.searched /\ last.rag = q.rag
  BY <1>1, <1>3 DEF RequestRows
<1> HIDE DEF last
<1>6. /\ new \in RequestRows /\ new.step = "done" /\ ~new.continued
      /\ new.kind = q.kind /\ new.decision = q.decision /\ new.sends = sends
      /\ new.searched = q.searched /\ new.rag = q.rag
  BY <1>5, EndedKeeps
<1> HIDE DEF new
<1>7. AnswerInv(new) /\ OrderInv(new)
  BY <1>1, <1>3, <1>6 DEF AnswerInv, OrderInv, Decided
<1>8. failures' \in 0 .. MaxFailures
  BY <1>1 DEF TypeOK
<1>9. GoesOn(new)
  BY <1>6, <1>7 DEF GoesOn, RequestInv, q
<1>10. QED
  BY <1>1, <1>4, <1>8, <1>9, OwnStep

LEMMA NewRequestTyped ==
    /\ NewRequest \in RequestRows /\ NewRequest.step = "idle" /\ NewRequest.kind = None
    /\ ~NewRequest.sends /\ ~NewRequest.searched /\ ~NewRequest.continued
    /\ ~NewRequest.overtaken
<1>1. PICK d \in Decisions : d = Reply("none", FALSE)
  BY ReplyTyped DEF FreeTexts
<1>2. PICK attempt \in 1 .. 2, provider \in 1 .. Providers, seen \in Orders :
        attempt = 1 /\ provider = 1 /\ seen = NoOrder
  BY FirstProvider, NoOrderTyped
<1>3. NewRequest = [step |-> "idle", kind |-> None, seen |-> seen, attempt |-> attempt,
                    provider |-> provider, decision |-> d, searched |-> FALSE, rag |-> {},
                    sends |-> FALSE, result |-> None, continued |-> FALSE,
                    overtaken |-> FALSE]
  BY <1>1, <1>2 DEF NewRequest
<1>4. QED
  BY <1>3 DEF RequestRows, Steps

LEMMA ThrowStep ==
    ASSUME IInv, NEW r \in Requests, Throw(r)
    PROVE  IInv'
<1> DEFINE q == request[r]
           last == [NewRequest EXCEPT !.result = "error"]
           new == Ended(last)
<1>1. /\ TypeOK /\ q \in RequestRows /\ Becomes(r, new)
      /\ failures < MaxFailures /\ failures' = failures + 1 /\ UNCHANGED order
  BY Before DEF Throw
<1>2. failures' \in 0 .. MaxFailures
  BY <1>1, WorkflowAiAssumption DEF TypeOK
<1>3. PICK fresh \in RequestRows : /\ fresh = NewRequest /\ fresh.kind = None
                                   /\ ~fresh.sends /\ ~fresh.searched
  BY NewRequestTyped
<1> HIDE DEF q
<1>4. /\ last \in RequestRows /\ last.sends = fresh.sends /\ last.kind = None
      /\ last.searched = fresh.searched
  <2>1. last = [fresh EXCEPT !.result = "error"]
    BY <1>3
  <2> HIDE DEF last
  <2>2. QED
    BY <1>3, <2>1 DEF RequestRows
<1> HIDE DEF last
<1>5. /\ new \in RequestRows /\ new.step = "done" /\ ~new.continued
      /\ new.kind = None /\ new.sends = fresh.sends /\ new.searched = fresh.searched
  BY <1>4, EndedKeeps
<1> HIDE DEF new
<1>6. AnswerInv(new) /\ OrderInv(new)
  BY <1>3, <1>5, WorkflowAiAssumption DEF AnswerInv, OrderInv, Kinds
<1>7. GoesOn(new)
  BY <1>5, <1>6 DEF GoesOn, RequestInv, q
<1>8. QED
  BY <1>1, <1>2, <1>7, OwnStep

-----------------------------------------------------------------------------
(* The inductive invariant *)

LEMMA InitInv == Init => IInv
<1> SUFFICES ASSUME Init
             PROVE  IInv
  OBVIOUS
<1>1. /\ request = [r \in Requests |-> NewRequest] /\ order = NoOrder /\ failures = 0
  BY DEF Init
<1>2. 0 \in 0 .. MaxFailures
  BY WorkflowAiAssumption
<1>3. TypeOK
  BY <1>1, <1>2, NewRequestTyped, NoOrderTyped DEF TypeOK, RequestRows
<1>4. RequestInv(NewRequest)
  BY NewRequestTyped, WorkflowAiAssumption DEF RequestInv, AnswerInv, OrderInv, Decided, Kinds
<1>5. QED
  BY <1>1, <1>3, <1>4 DEF IInv

LEMMA UnchangedInv ==
    ASSUME IInv, UNCHANGED vars
    PROVE  IInv'
<1>1. request' = request /\ order' = order /\ failures' = failures
  BY DEF vars
<1>2. TypeOK'
  BY <1>1 DEF IInv, TypeOK
<1>3. \A r \in Requests : RequestInv(request[r])'
  BY <1>1 DEF IInv, RequestInv, AnswerInv, OrderInv
<1>4. QED
  BY <1>2, <1>3 DEF IInv

LEMMA WorkInv ==
    ASSUME IInv, NEW r \in Requests, Work(r)
    PROVE  IInv'
BY ProviderStep, UnderstandStep, SearchStep, GroundStep, GuardStep, PrepareStep, LogStep DEF Work

LEMMA NextInv ==
    ASSUME IInv, [Next]_vars
    PROVE  IInv'
<1>1. ASSUME NEW r \in Requests, \/ \E kind \in Kinds : Begin(r, kind)
                                 \/ Work(r) \/ PrepareFails(r) \/ Throw(r)
      PROVE  IInv'
  BY <1>1, BeginStep, WorkInv, PrepareFailsStep, ThrowStep
<1>2. CASE UNCHANGED vars
  BY <1>2, UnchangedInv
<1>3. QED
  BY <1>1, <1>2 DEF Next, Rest

\* The inductive invariant holds in every state: where a decision's text comes from at each
\* step, and what a request that continues an order still knows of it.
THEOREM Invariant == Spec => []IInv
<1>1. Init => IInv
  BY InitInv
<1>2. IInv /\ [Next]_vars => IInv'
  BY NextInv
<1>3. QED
  BY <1>1, <1>2, PTL DEF Spec

-----------------------------------------------------------------------------
(* The properties of the runs *)

\* Every variable keeps its type.
THEOREM TypeCorrect == Spec => []TypeOK
<1>1. IInv => TypeOK
  BY DEF IInv
<1>2. QED
  BY <1>1, Invariant, PTL

LEMMA GroundedIsSent == IInv => GroundedAnswer
<1> SUFFICES ASSUME IInv, NEW r \in Requests,
                    Answered(r), request[r].sends, ~request[r].decision.handoff,
                    request[r].decision.text \in FreeTexts,
                    request[r].kind = "business" \/ request[r].searched
             PROVE  /\ request[r].searched
                    /\ request[r].decision.sources # {}
                    /\ request[r].decision.sources \subseteq request[r].rag
  BY DEF GroundedAnswer
<1>1. AnswerInv(request[r]) /\ request[r].step = "done"
  BY Before DEF Answered
<1>2. request[r].decision.text \in {"answer", "evidence"}
  BY <1>1 DEF AnswerInv, FreeTexts
<1>3. request[r].kind # "business"
  BY <1>1, <1>2 DEF AnswerInv
<1>4. request[r].searched
  BY <1>3
<1>5. Grounded(request[r].decision, request[r].rag)
  BY <1>1, <1>4 DEF AnswerInv, Decided
<1>6. QED
  BY <1>2, <1>4, <1>5 DEF Grounded

\* A customer never gets a text of the model alone as the answer to a question of business or
\* to one that was searched for: without a hand-off it names chunks that the search returned,
\* whatever the model and the providers answer and whichever guards apply.
THEOREM AnswersAreGrounded == Spec => []GroundedAnswer
<1>1. QED
  BY GroundedIsSent, Invariant, PTL

\* Only the transaction of prepareCustomerRequest writes the order, and it takes the request
\* that made it to the log.
LEMMA OrderWritten ==
    ASSUME [Next]_vars, order' # order
    PROVE  \E x \in Requests : Prepare(x)
<1>1. ASSUME NEW r \in Requests, \/ \E kind \in Kinds : Begin(r, kind)
                                 \/ Work(r) \/ PrepareFails(r) \/ Throw(r)
      PROVE  \E x \in Requests : Prepare(x)
  BY <1>1 DEF Begin, Work, ProviderFails, ProviderGarbles, Understand, Search, Ground, Guard,
              Log, PrepareFails, Throw
<1>2. QED
  BY <1>1 DEF Next, Rest, vars

LEMMA DetailsKeptStep ==
    ASSUME IInv, [Next]_vars, NEW r \in Requests,
           request[r].step = "prepare", request'[r].step = "log",
           request[r].continued, ~request[r].overtaken
    PROVE  order.known \subseteq order'.known
<1>1. CASE order' = order
  BY <1>1
<1>2. CASE order' # order
  <2>1. PICK x \in Requests : Prepare(x)
    BY <1>2, OrderWritten
  <2>2. x = r
    BY <2>1, OthersPrepared
  <2>3. order'.known = request[r].decision.known
    BY <2>1, <2>2 DEF Prepare
  <2>4. OrderInv(request[r])
    BY Before
  <2>5. QED
    BY <2>3, <2>4 DEF OrderInv
<1>3. QED
  BY <1>1, <1>2

\* A saved order loses a detail only where the message corrects it or changes the kind of
\* order, or where another request has saved the order in between: what mergeOrderDetails and
\* every later guard keep, from the first prompt to the transaction.
THEOREM OrderDetailsAreKept == Spec => OrderDetailsKept
<1>1. IInv /\ [Next]_vars =>
        [\A r \in Requests :
           /\ request[r].step = "prepare" /\ request'[r].step = "log"
           /\ request[r].continued /\ ~request[r].overtaken
           => order.known \subseteq order'.known]_vars
  BY DetailsKeptStep
<1>2. QED
  BY <1>1, Invariant, PTL DEF Spec, OrderDetailsKept
=============================================================================
