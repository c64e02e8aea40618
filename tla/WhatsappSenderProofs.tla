------------------------- MODULE WhatsappSenderProofs -------------------------
(***************************************************************************)
(* WhatsappSender implements AutomaticReplies, for any number of requests  *)
(* and any faults: what a human takeover may still expect of the replies   *)
(* that are under way.                                                     *)
(***************************************************************************)
EXTENDS WhatsappSender, SequenceTheorems, TLAPS

Fields == {"step", "kind", "sender", "text", "known", "seen", "ext", "checked", "question",
           "ended", "result"}
SentRows == [by : Sends, at : Nat, checked : Nat]

\* As much of the types as the argument needs.
Shape ==
    /\ clock \in Nat
    /\ sent \in Seq(SentRows)
    /\ DOMAIN request = Sends
    /\ \A s \in Sends : DOMAIN request[s] = Fields /\ request[s].checked \in Nat

BeforeProvider == {"idle", "instance", "duplicate", "provider"}

\* A request that has not passed the provider has delivered nothing, and one that has
\* not begun is nobody's reply.
Quiet ==
    \A s \in Sends : /\ request[s].step \in BeforeProvider => DeliveriesOf(s) = {}
                     /\ request[s].step = "idle" => request[s].known = FALSE

IInv == Shape /\ Quiet

-----------------------------------------------------------------------------
(* The three things that a step of a request may be *)

Others(s) ==
    /\ DOMAIN request' = Sends
    /\ \A q \in Sends : q # s => request'[q] = request[q]
    /\ DOMAIN request'[s] = Fields /\ request'[s].checked \in Nat

\* What is fixed when a request begins.
SameCaller(s) ==
    /\ request'[s].kind = request[s].kind /\ request'[s].sender = request[s].sender
    /\ request'[s].known = request[s].known

\* It begins, and if it goes on past the takeover check nobody holds the conversation.
Begins(s) ==
    /\ request[s].step = "idle" /\ Others(s)
    /\ request'[s].step \in {"done", "save_find", "instance"}
    /\ request'[s].step # "done" /\ request'[s].known
         /\ checksTakeover(request'[s].kind, request'[s].sender) => ~isHumanTakeoverActive(conv)
    /\ UNCHANGED <<clock, conv, sent>>

\* It goes on, and nothing is delivered.
Proceeds(s) ==
    /\ request[s].step \notin {"idle", "done"} /\ Others(s) /\ SameCaller(s)
    /\ request'[s].step # "idle"
    /\ request'[s].step \in BeforeProvider => request[s].step \in BeforeProvider
    /\ UNCHANGED <<clock, conv, sent>>

\* The provider accepts its text.
Delivers(s) ==
    /\ request[s].step = "provider" /\ Others(s) /\ SameCaller(s)
    /\ request'[s].step \in {"record", "done"}
    /\ sent' = Append(sent, [by |-> s, at |-> clock, checked |-> request[s].checked])
    /\ UNCHANGED <<clock, conv>>

LEMMA EndEffect ==
    ASSUME Shape, NEW s \in Sends, NEW result, End(s, result)
    PROVE  Others(s) /\ SameCaller(s) /\ request'[s].step = "done"
<1> DEFINE row == [request[s] EXCEPT !.step = "done", !.result = result, !.seen = NoContext,
                                     !.ext = None, !.question = None, !.checked = 0]
<1>1. DOMAIN request = Sends /\ DOMAIN request[s] = Fields
  BY DEF Shape
<1>2. request' = [request EXCEPT ![s] = row]
  BY <1>1 DEF End
<1>3. /\ DOMAIN row = Fields /\ row.step = "done" /\ row.checked = 0
      /\ row.kind = request[s].kind /\ row.sender = request[s].sender
      /\ row.known = request[s].known
  BY <1>1 DEF Fields
<1> HIDE DEF row
<1>4. QED
  BY <1>1, <1>2, <1>3 DEF Others, SameCaller

LEMMA GotoEffect ==
    ASSUME Shape, NEW s \in Sends, NEW step, Goto(s, step)
    PROVE  Others(s) /\ SameCaller(s) /\ request'[s].step = step
<1> DEFINE row == [request[s] EXCEPT !.step = step]
<1>1. DOMAIN request = Sends /\ DOMAIN request[s] = Fields /\ request[s].checked \in Nat
  BY DEF Shape
<1>2. request' = [request EXCEPT ![s] = row]
  BY <1>1 DEF Goto
<1>3. /\ DOMAIN row = Fields /\ row.step = step /\ row.checked = request[s].checked
      /\ row.kind = request[s].kind /\ row.sender = request[s].sender
      /\ row.known = request[s].known
  BY <1>1 DEF Fields
<1> HIDE DEF row
<1>4. QED
  BY <1>1, <1>2, <1>3 DEF Others, SameCaller

LEMMA BeginStep ==
    ASSUME Shape, NEW s \in Sends, NEW kind, NEW sender, NEW text, NEW known, NEW given,
           Begin(s, kind, sender, text, known, given)
    PROVE  Begins(s)
<1> DEFINE skipped == blockedByHuman(kind, sender, known) \/ (kind = "workflow" /\ given = "empty")
           refused == (known /\ ~Exists(conv)) \/ given # "fine"
           ends == refused \/ skipped
           step == IF ends THEN "done" ELSE IF kind = "save" THEN "save_find" ELSE "instance"
           seen == IF ends \/ ~known \/ kind = "save" THEN NoContext
                   ELSE [lastCustomerMessageAt |-> conv.lastCustomerMessageAt,
                         handoffRequired |-> conv.handoffRequired]
           result == IF known /\ ~Exists(conv) THEN "error"
                     ELSE IF skipped THEN "skipped" ELSE IF refused THEN "error" ELSE None
           row == [step |-> step, kind |-> kind, sender |-> sender, text |-> text,
                   known |-> known, seen |-> seen, ext |-> None, checked |-> 0,
                   question |-> None, ended |-> Ended, result |-> result]
<1>1. /\ request[s].step = "idle" /\ request' = [request EXCEPT ![s] = row]
      /\ UNCHANGED <<clock, conv, sent>>
  BY DEF Begin
<1>2. step \in {"done", "save_find", "instance"} /\ (step # "done" => ~skipped)
  OBVIOUS
<1>3. known /\ checksTakeover(kind, sender) /\ ~skipped => ~isHumanTakeoverActive(conv)
  BY DEF blockedByHuman
<1> HIDE DEF step, seen, result, skipped
<1>4. /\ DOMAIN row = Fields /\ row.step = step /\ row.kind = kind /\ row.sender = sender
      /\ row.known = known /\ row.checked = 0
  BY DEF Fields
<1> HIDE DEF row
<1>5. DOMAIN request' = Sends /\ request'[s] = row /\ \A q \in Sends : q # s => request'[q] = request[q]
  BY <1>1 DEF Shape
<1>6. QED
  BY <1>1, <1>2, <1>3, <1>4, <1>5 DEF Begins, Others

\* A step that ends a request under way, or moves it past the provider or towards it.
LEMMA EndProceeds ==
    ASSUME Shape, NEW s \in Sends, NEW result, End(s, result), UNCHANGED <<clock, conv, sent>>,
           request[s].step \notin {"idle", "done"}
    PROVE  Proceeds(s)
BY EndEffect DEF Proceeds, BeforeProvider

LEMMA GotoProceeds ==
    ASSUME Shape, NEW s \in Sends, NEW step, Goto(s, step), UNCHANGED <<clock, conv, sent>>,
           request[s].step \notin {"idle", "done"}, step # "idle",
           step \in BeforeProvider => request[s].step \in BeforeProvider
    PROVE  Proceeds(s)
BY GotoEffect DEF Proceeds

LEMMA AfterRecordProceeds ==
    ASSUME Shape, NEW s \in Sends, AfterRecord(s), UNCHANGED <<clock, conv, sent>>,
           request[s].step \notin {"idle", "done"}
    PROVE  Proceeds(s)
<1>1. Goto(s, "reload") \/ End(s, Stored(s))
  BY DEF AfterRecord
<1>2. QED
  BY <1>1, EndProceeds, GotoProceeds DEF BeforeProvider

LEMMA resolveInstanceStep ==
    ASSUME Shape, NEW s \in Sends, NEW found, resolveInstance(s, found)
    PROVE  Proceeds(s)
<1> DEFINE step == IF request[s].known /\ request[s].sender = "bot" THEN "duplicate" ELSE "provider"
           seen == IF request[s].sender = "human_agent"
                   THEN [request[s].seen EXCEPT !.lastCustomerMessageAt = 0] ELSE NoContext
           row == [request[s] EXCEPT !.checked = clock, !.seen = seen, !.step = step]
<1>1. request[s].step = "instance" /\ UNCHANGED <<clock, conv, sent>>
  BY DEF resolveInstance
<1>2. DOMAIN request = Sends /\ DOMAIN request[s] = Fields /\ clock \in Nat
  BY DEF Shape
<1>3. \/ End(s, "skipped") \/ End(s, "error")
      \/ request' = [request EXCEPT
                ![s].checked = clock,
                ![s].seen = IF request[s].sender = "human_agent"
                            THEN [@ EXCEPT !.lastCustomerMessageAt = 0] ELSE NoContext,
                ![s].step = IF request[s].known /\ request[s].sender = "bot" THEN "duplicate"
                            ELSE "provider"]
  BY DEF resolveInstance
<1>4. CASE End(s, "skipped") \/ End(s, "error")
  BY <1>1, <1>4, EndProceeds
<1>5. CASE ~(End(s, "skipped") \/ End(s, "error"))
  <2>1. request' = [request EXCEPT ![s] = row]
    BY <1>2, <1>3, <1>5 DEF Fields
  <2> HIDE DEF seen
  <2>2. step \in {"duplicate", "provider"}
    OBVIOUS
  <2> HIDE DEF step
  <2>3. /\ DOMAIN row = Fields /\ row.step = step /\ row.checked = clock
        /\ row.kind = request[s].kind /\ row.sender = request[s].sender
        /\ row.known = request[s].known
    BY <1>2 DEF Fields
  <2> HIDE DEF row
  <2>4. DOMAIN request' = Sends /\ request'[s] = row /\ \A q \in Sends : q # s => request'[q] = request[q]
    BY <1>2, <2>1
  <2>5. QED
    BY <1>1, <1>2, <2>2, <2>3, <2>4 DEF Proceeds, Others, SameCaller, BeforeProvider
<1>6. QED
  BY <1>4, <1>5

LEMMA sendTextMessageStep ==
    ASSUME Shape, NEW s \in Sends, NEW identified, NEW answered, sendTextMessage(s, identified, answered)
    PROVE  Delivers(s)
<1> DEFINE ext == IF identified THEN s ELSE None
           row == [request[s] EXCEPT !.ext = ext, !.checked = 0, !.step = "record"]
<1>1. /\ request[s].step = "provider" /\ UNCHANGED <<clock, conv>>
      /\ sent' = Append(sent, [by |-> s, at |-> clock, checked |-> request[s].checked])
  BY DEF sendTextMessage
<1>2. DOMAIN request = Sends /\ DOMAIN request[s] = Fields
  BY DEF Shape
<1>3. \/ End(s, "error") \/ End(s, "sent")
      \/ request' = [request EXCEPT ![s].ext = IF identified THEN s ELSE None,
                                    ![s].checked = 0, ![s].step = "record"]
  BY DEF sendTextMessage
<1>4. CASE End(s, "error") \/ End(s, "sent")
  BY <1>1, <1>4, EndEffect DEF Delivers
<1>5. CASE ~(End(s, "error") \/ End(s, "sent"))
  <2>1. request' = [request EXCEPT ![s] = row]
    BY <1>2, <1>3, <1>5
  <2> HIDE DEF ext
  <2>2. /\ DOMAIN row = Fields /\ row.step = "record" /\ row.checked = 0
        /\ row.kind = request[s].kind /\ row.sender = request[s].sender
        /\ row.known = request[s].known
    BY <1>2 DEF Fields
  <2> HIDE DEF row
  <2>3. DOMAIN request' = Sends /\ request'[s] = row /\ \A q \in Sends : q # s => request'[q] = request[q]
    BY <1>2, <2>1
  <2>4. QED
    BY <1>1, <2>2, <2>3 DEF Delivers, Others, SameCaller
<1>6. QED
  BY <1>4, <1>5

LEMMA findSavedStep ==
    ASSUME Shape, NEW s \in Sends, NEW ext, findSaved(s, ext)
    PROVE  Proceeds(s)
<1> DEFINE step == IF ext = None THEN "save_near" ELSE "save_create"
           row == [request[s] EXCEPT !.ext = ext, !.step = step]
<1>1. request[s].step = "save_find" /\ UNCHANGED <<clock, conv, sent>>
  BY DEF findSaved
<1>2. DOMAIN request = Sends /\ DOMAIN request[s] = Fields /\ request[s].checked \in Nat
  BY DEF Shape
<1>3. CASE End(s, "skipped")
  BY <1>1, <1>3, EndProceeds
<1>4. CASE ~End(s, "skipped")
  <2>1. request' = [request EXCEPT ![s] = row]
    BY <1>2, <1>4 DEF findSaved
  <2>2. step \in {"save_near", "save_create"}
    OBVIOUS
  <2> HIDE DEF step
  <2>3. /\ DOMAIN row = Fields /\ row.step = step /\ row.checked = request[s].checked
        /\ row.kind = request[s].kind /\ row.sender = request[s].sender
        /\ row.known = request[s].known
    BY <1>2 DEF Fields
  <2> HIDE DEF row
  <2>4. DOMAIN request' = Sends /\ request'[s] = row /\ \A q \in Sends : q # s => request'[q] = request[q]
    BY <1>2, <2>1
  <2>5. QED
    BY <1>1, <1>2, <2>2, <2>3, <2>4 DEF Proceeds, Others, SameCaller, BeforeProvider
<1>5. QED
  BY <1>3, <1>4

LEMMA findQuestionStep ==
    ASSUME Shape, NEW s \in Sends, NEW handedOffByAi, findQuestion(s, handedOffByAi)
    PROVE  Proceeds(s)
<1> DEFINE question == messages[Max(EarlierQuestions(s))].by
           row == [request[s] EXCEPT !.question = question, !.step = "suggest"]
<1>1. request[s].step = "question" /\ UNCHANGED <<clock, conv, sent>>
  BY DEF findQuestion
<1>2. DOMAIN request = Sends /\ DOMAIN request[s] = Fields /\ request[s].checked \in Nat
  BY DEF Shape
<1>3. CASE AfterRecord(s)
  BY <1>1, <1>3, AfterRecordProceeds
<1>4. CASE ~AfterRecord(s)
  <2>1. request' = [request EXCEPT ![s].question = question, ![s].step = "suggest"]
    BY <1>4 DEF findQuestion
  <2> HIDE DEF question
  <2>2. request' = [request EXCEPT ![s] = row]
    BY <1>2, <2>1
  <2>3. /\ DOMAIN row = Fields /\ row.step = "suggest" /\ row.checked = request[s].checked
        /\ row.kind = request[s].kind /\ row.sender = request[s].sender
        /\ row.known = request[s].known
    BY <1>2 DEF Fields
  <2> HIDE DEF row
  <2>4. DOMAIN request' = Sends /\ request'[s] = row /\ \A q \in Sends : q # s => request'[q] = request[q]
    BY <1>2, <2>2
  <2>5. QED
    BY <1>1, <1>2, <2>3, <2>4 DEF Proceeds, Others, SameCaller, BeforeProvider
<1>5. QED
  BY <1>3, <1>4

LEMMA RequestStep ==
    ASSUME Shape, NEW s \in Sends, Step(s)
    PROVE  Begins(s) \/ Proceeds(s) \/ Delivers(s)
<1> USE DEF BeforeProvider
<1>1. CASE \E caller \in Callers, text \in Texts, given \in {"fine", "empty", "refused"} :
              Begin(s, caller[1], caller[2], text, caller[3], given)
  BY <1>1, BeginStep
<1>2. CASE \E found \in BOOLEAN : resolveInstance(s, found)
  BY <1>2, resolveInstanceStep
<1>3. CASE findRecentDuplicateBotReply(s)
  <2>1. End(s, "skipped") \/ Goto(s, "provider")
    BY <1>3 DEF findRecentDuplicateBotReply
  <2>2. request[s].step = "duplicate" /\ UNCHANGED <<clock, conv, sent>>
    BY <1>3 DEF findRecentDuplicateBotReply
  <2>3. QED
    BY <2>1, <2>2, EndProceeds, GotoProceeds
<1>4. CASE \E identified \in BOOLEAN, answered \in BOOLEAN : sendTextMessage(s, identified, answered)
  BY <1>4, sendTextMessageStep
<1>5. CASE recordOutboundMessage(s)
  <2>1. End(s, "error") \/ Goto(s, "touch")
    BY <1>5 DEF recordOutboundMessage
  <2>2. request[s].step = "record" /\ UNCHANGED <<clock, conv, sent>>
    BY <1>5 DEF recordOutboundMessage
  <2>3. QED
    BY <2>1, <2>2, EndProceeds, GotoProceeds
<1>6. CASE touchOutbound(s)
  <2>1. End(s, "error") \/ Goto(s, "question") \/ AfterRecord(s)
    BY <1>6 DEF touchOutbound
  <2>2. request[s].step = "touch" /\ UNCHANGED <<clock, conv, sent>>
    BY <1>6 DEF touchOutbound
  <2>3. QED
    BY <2>1, <2>2, EndProceeds, GotoProceeds, AfterRecordProceeds
<1>7. CASE reload(s)
  BY <1>7, EndProceeds DEF reload
<1>8. CASE \E ext \in Sends \cup {None} : findSaved(s, ext)
  BY <1>8, findSavedStep
<1>9. CASE findNearDuplicate(s)
  <2>1. End(s, "skipped") \/ Goto(s, "save_create")
    BY <1>9 DEF findNearDuplicate
  <2>2. request[s].step = "save_near" /\ UNCHANGED <<clock, conv, sent>>
    BY <1>9 DEF findNearDuplicate
  <2>3. QED
    BY <2>1, <2>2, EndProceeds, GotoProceeds
<1>10. CASE createSaved(s)
  <2>1. End(s, "error") \/ End(s, "skipped") \/ Goto(s, "touch")
    BY <1>10 DEF createSaved
  <2>2. request[s].step = "save_create" /\ UNCHANGED <<clock, conv, sent>>
    BY <1>10 DEF createSaved
  <2>3. QED
    BY <2>1, <2>2, EndProceeds, GotoProceeds
<1>11. CASE \E handedOffByAi \in BOOLEAN : findQuestion(s, handedOffByAi)
  BY <1>11, findQuestionStep
<1>12. CASE createSuggestion(s)
  <2>1. AfterRecord(s) \/ End(s, "error")
    BY <1>12 DEF createSuggestion
  <2>2. request[s].step = "suggest" /\ UNCHANGED <<clock, conv, sent>>
    BY <1>12 DEF createSuggestion
  <2>3. QED
    BY <2>1, <2>2, EndProceeds, AfterRecordProceeds
<1>13. CASE Throw(s)
  BY <1>13, EndProceeds DEF Throw
<1>14. QED
  BY <1>1, <1>2, <1>3, <1>4, <1>5, <1>6, <1>7, <1>8, <1>9, <1>10, <1>11, <1>12, <1>13 DEF Step

\* The other actions leave the requests and the deliveries alone.
LEMMA NextSteps ==
    ASSUME Shape, [Next]_vars
    PROVE  \/ \E s \in Sends : Begins(s) \/ Proceeds(s) \/ Delivers(s)
           \/ UNCHANGED <<request, sent>> /\ clock' \in Nat
<1>0. clock \in Nat
  BY DEF Shape
<1>1. CASE UNCHANGED vars
  BY <1>0, <1>1 DEF vars
<1>2. CASE Rest \/ Tick \/ Operate \/ RemoveConversation
  <2>1. CASE Rest
    BY <1>0, <2>1 DEF Rest, vars
  <2>2. CASE Tick
    BY <1>0, <2>2 DEF Tick
  <2>3. CASE Operate
    BY <1>0, <2>3 DEF Operate
  <2>4. CASE RemoveConversation
    BY <1>0, <2>4 DEF RemoveConversation
  <2>5. QED
    BY <1>2, <2>1, <2>2, <2>3, <2>4
<1>3. CASE \E s \in Sends : Step(s)
  BY <1>3, RequestStep
<1>4. CASE \E ext \in Sends, status \in ReportedStatuses : handleStatus(ext, status)
  BY <1>0, <1>4 DEF handleStatus
<1>5. CASE \E i \in Inbound, late \in BOOLEAN : Customer(i, late)
  BY <1>0, <1>5 DEF Customer
<1>6. CASE \E row \in Range(messages), status \in ReportedStatuses : updateStatusOf(row, status)
  BY <1>0, <1>6 DEF updateStatusOf
<1>7. CASE \E i \in DOMAIN messages : DeleteMessage(i)
  BY <1>0, <1>7 DEF DeleteMessage
<1>8. QED
  BY <1>1, <1>2, <1>3, <1>4, <1>5, <1>6, <1>7 DEF Next

\* A delivery is added to those of its own request.
LEMMA DeliveryEffect ==
    ASSUME Shape, NEW s \in Sends, Delivers(s)
    PROVE  /\ sent' \in Seq(SentRows)
           /\ DeliveriesOf(s)' # {}
           /\ \A q \in Sends : q # s => DeliveriesOf(q)' = DeliveriesOf(q)
           /\ \A q \in Sends : DeliveriesOf(q) \subseteq DeliveriesOf(q)'
<1> DEFINE row == [by |-> s, at |-> clock, checked |-> request[s].checked]
           n == Len(sent) + 1
<1>1. row \in SentRows /\ row.by = s
  BY DEF SentRows, Shape
<1>2. sent \in Seq(SentRows) /\ sent' = Append(sent, row)
  BY DEF Shape, Delivers
<1> HIDE DEF row
<1>3. Len(sent) \in Nat /\ DOMAIN sent = 1..Len(sent)
  BY <1>2, LenProperties
<1>4. /\ sent' \in Seq(SentRows) /\ Len(sent') = n /\ sent'[n] = row
      /\ \A i \in 1..Len(sent) : sent'[i] = sent[i]
  BY <1>1, <1>2, <1>3
<1>5. DOMAIN sent' = 1..n
  BY <1>4, LenProperties
<1>6. DOMAIN sent' = DOMAIN sent \cup {n} /\ n \notin DOMAIN sent
  BY <1>3, <1>5
<1> HIDE DEF n
<1>7. \A q \in Sends : DeliveriesOf(q)' = DeliveriesOf(q) \cup (IF q = s THEN {n} ELSE {})
  BY <1>1, <1>3, <1>4, <1>6 DEF DeliveriesOf
<1>8. QED
  BY <1>4, <1>7

LEMMA InitIInv == Init => IInv
<1> SUFFICES ASSUME Init PROVE IInv
  OBVIOUS
<1> DEFINE row == [step |-> "idle", kind |-> None, sender |-> None, text |-> None,
                   known |-> FALSE, seen |-> NoContext, ext |-> None, checked |-> 0,
                   question |-> None, ended |-> {}, result |-> None]
<1>1. clock = 1 /\ sent = <<>> /\ request = [s \in Sends |-> row]
  BY DEF Init
<1>2. DOMAIN row = Fields /\ row.step = "idle" /\ row.known = FALSE /\ row.checked = 0
  BY DEF Fields
<1> HIDE DEF row
<1>3. DOMAIN request = Sends /\ \A s \in Sends : request[s] = row
  BY <1>1
<1>4. sent \in Seq(SentRows) /\ DOMAIN sent = {}
  BY <1>1
<1>5. \A s \in Sends : DeliveriesOf(s) = {}
  BY <1>4 DEF DeliveriesOf
<1>6. QED
  BY <1>1, <1>2, <1>3, <1>4, <1>5 DEF IInv, Shape, Quiet

LEMMA NextIInv == IInv /\ [Next]_vars => IInv'
<1> SUFFICES ASSUME IInv, [Next]_vars PROVE IInv'
  OBVIOUS
<1>0. Shape /\ Quiet
  BY DEF IInv
<1>1. CASE UNCHANGED <<request, sent>> /\ clock' \in Nat
  BY <1>0, <1>1 DEF IInv, Shape, Quiet, DeliveriesOf
<1>2. ASSUME NEW s \in Sends, Begins(s) \/ Proceeds(s) PROVE IInv'
  <2>1. Others(s) /\ UNCHANGED <<clock, sent>>
    BY <1>2 DEF Begins, Proceeds
  <2>2. Shape'
    BY <1>0, <2>1 DEF Shape, Others
  <2>3. \A q \in Sends : DeliveriesOf(q)' = DeliveriesOf(q)
    BY <2>1 DEF DeliveriesOf
  <2>4. request'[s].step # "idle" /\ (request'[s].step \in BeforeProvider => request[s].step \in BeforeProvider)
    BY <1>2 DEF Begins, Proceeds, BeforeProvider
  <2>5. Quiet'
    BY <1>0, <2>1, <2>3, <2>4 DEF Quiet, Others
  <2>6. QED
    BY <2>2, <2>5 DEF IInv
<1>3. ASSUME NEW s \in Sends, Delivers(s) PROVE IInv'
  <2>1. Others(s) /\ clock' = clock /\ request'[s].step \in {"record", "done"}
    BY <1>3 DEF Delivers
  <2>2. Shape'
    BY <1>0, <1>3, <2>1, DeliveryEffect DEF Shape, Others
  <2>3. Quiet'
    BY <1>0, <1>3, <2>1, DeliveryEffect DEF Quiet, Others, BeforeProvider
  <2>4. QED
    BY <2>2, <2>3 DEF IInv
<1>4. QED
  BY <1>0, <1>1, <1>2, <1>3, NextSteps

-----------------------------------------------------------------------------
(* The refinement *)

LEMMA InitPromise == Init => Promise!Init
<1> SUFFICES ASSUME Init PROVE Promise!Init
  OBVIOUS
<1>1. Quiet /\ \A s \in Sends : request[s].step = "idle"
  BY InitIInv DEF IInv, Init
<1>2. Automatic = {} /\ InFlight = {} /\ Received = {}
  BY <1>1 DEF Quiet, Automatic, InFlight, Received
<1>3. isHumanTakeoverActive(conv) \in BOOLEAN
  BY DEF isHumanTakeoverActive
<1>4. QED
  BY <1>2, <1>3 DEF Promise!Init

\* What becomes of the sets of the mapping when only request s moves.
LEMMA OthersMapped ==
    ASSUME NEW s \in Sends, Others(s),
           \A q \in Sends : q # s => DeliveriesOf(q)' = DeliveriesOf(q)
    PROVE  \A q \in Sends : q # s => /\ q \in InFlight' <=> q \in InFlight
                                     /\ q \in Received' <=> q \in Received
BY DEF Others, Automatic, InFlight, Received

LEMMA BeginsPromise ==
    ASSUME IInv, NEW s \in Sends, Begins(s)
    PROVE  [Promise!Next]_Promise!vars
<1>1. Others(s) /\ UNCHANGED <<conv, sent>>
  BY DEF Begins
<1>2. \A q \in Sends : DeliveriesOf(q)' = DeliveriesOf(q)
  BY <1>1 DEF DeliveriesOf
<1>3. DeliveriesOf(s) = {} /\ request[s].known = FALSE
  BY DEF IInv, Quiet, Begins, BeforeProvider
<1>4. s \notin Automatic /\ s \notin InFlight /\ s \notin Received /\ s \notin Received'
  BY <1>2, <1>3 DEF Automatic, InFlight, Received
<1>5. Received' = Received
  BY <1>1, <1>2, <1>4, OthersMapped DEF Received, Automatic
<1>6. InFlight' = InFlight \/ (InFlight' = InFlight \cup {s} /\ s \in InFlight')
  BY <1>1, <1>2, <1>4, OthersMapped DEF InFlight, Automatic
<1>7. CASE InFlight' = InFlight
  BY <1>1, <1>5, <1>7 DEF Promise!vars
<1>8. CASE InFlight' = InFlight \cup {s} /\ s \in InFlight'
  <2>1. ~isHumanTakeoverActive(conv)
    BY <1>8 DEF Begins, InFlight, Automatic
  <2>2. s \notin InFlight \cup Received
    BY <1>4
  <2>3. (InFlight \cup Received)' = (InFlight \cup Received) \cup {s}
    BY <1>5, <1>8
  <2>4. Promise!Authorise(s)
    BY <1>1, <1>5, <2>1, <2>2, <2>3 DEF Promise!Authorise
  <2>5. QED
    BY <2>4 DEF Promise!Next
<1>9. QED
  BY <1>6, <1>7, <1>8

LEMMA ProceedsPromise ==
    ASSUME IInv, NEW s \in Sends, Proceeds(s)
    PROVE  [Promise!Next]_Promise!vars
<1>1. Others(s) /\ SameCaller(s) /\ UNCHANGED <<conv, sent>> /\ request[s].step # "done"
  BY DEF Proceeds
<1>2. \A q \in Sends : DeliveriesOf(q)' = DeliveriesOf(q)
  BY <1>1 DEF DeliveriesOf
<1>3. s \in Automatic' <=> s \in Automatic
  BY <1>1 DEF Automatic, SameCaller
<1>4. s \in Received' <=> s \in Received
  BY <1>2, <1>3 DEF Received
<1>5. Received' = Received
  BY <1>1, <1>2, <1>4, OthersMapped DEF Received, Automatic
<1>6. InFlight' = InFlight \/ (InFlight' = InFlight \ {s} /\ s \in InFlight)
  <2>1. s \in InFlight' => s \in InFlight
    BY <1>1, <1>3 DEF InFlight
  <2>2. QED
    BY <1>1, <1>2, <2>1, OthersMapped DEF InFlight, Automatic
<1>7. CASE InFlight' = InFlight \/ s \in Received
  <2>1. (InFlight \cup Received)' = InFlight \cup Received
    BY <1>5, <1>6, <1>7
  <2>2. QED
    BY <1>1, <1>5, <2>1 DEF Promise!vars
<1>8. CASE InFlight' = InFlight \ {s} /\ s \in InFlight /\ s \notin Received
  <2>1. (InFlight \cup Received)' = (InFlight \cup Received) \ {s}
    BY <1>5, <1>8
  <2>2. Promise!Withdraw(s)
    BY <1>1, <1>5, <1>8, <2>1 DEF Promise!Withdraw
  <2>3. QED
    BY <2>2 DEF Promise!Next
<1>9. QED
  BY <1>6, <1>7, <1>8

LEMMA DeliversPromise ==
    ASSUME IInv, NEW s \in Sends, Delivers(s)
    PROVE  [Promise!Next]_Promise!vars
<1>1. Others(s) /\ SameCaller(s) /\ conv' = conv /\ request[s].step = "provider"
  BY DEF Delivers
<1>2. \A q \in Sends : q # s => DeliveriesOf(q)' = DeliveriesOf(q)
  BY DeliveryEffect DEF IInv
<1>3. DeliveriesOf(s) = {} /\ DeliveriesOf(s)' # {}
  BY <1>1, DeliveryEffect DEF IInv, Quiet, BeforeProvider
<1>4. s \in Automatic' <=> s \in Automatic
  BY <1>1 DEF Automatic, SameCaller
<1>5. \A q \in Sends : q # s => /\ q \in InFlight' <=> q \in InFlight
                                /\ q \in Received' <=> q \in Received
  BY <1>1, <1>2, OthersMapped
<1>6. InFlight \subseteq Sends /\ Received \subseteq Sends /\ InFlight' \subseteq Sends /\ Received' \subseteq Sends
  BY DEF InFlight, Received, Automatic
<1>7. s \notin Received
  BY <1>3 DEF Received
<1>8. CASE s \in Automatic
  <2>1. s \in InFlight /\ s \in Received'
    BY <1>1, <1>3, <1>4, <1>8 DEF InFlight, Received
  <2>2. Received' = Received \cup {s}
    BY <1>5, <1>6, <2>1
  <2>3. (InFlight \cup Received)' = InFlight \cup Received
    BY <1>5, <1>6, <2>1
  <2>4. Promise!Deliver(s)
    BY <1>1, <1>7, <2>1, <2>2, <2>3 DEF Promise!Deliver
  <2>5. QED
    BY <2>4 DEF Promise!Next
<1>9. CASE s \notin Automatic
  <2>1. s \notin InFlight /\ s \notin InFlight' /\ s \notin Received'
    BY <1>4, <1>9 DEF InFlight, Received
  <2>2. Received' = Received /\ InFlight' = InFlight
    BY <1>5, <1>6, <1>7, <2>1
  <2>3. QED
    BY <1>1, <2>2 DEF Promise!vars
<1>10. QED
  BY <1>8, <1>9

\* Agents, the customer and the provider's reports change at most who holds the row.
LEMMA QuietPromise ==
    ASSUME UNCHANGED <<request, sent>>
    PROVE  [Promise!Next]_Promise!vars
<1>1. InFlight' = InFlight /\ Received' = Received
  BY DEF InFlight, Received, Automatic, DeliveriesOf
<1>2. isHumanTakeoverActive(conv) \in BOOLEAN /\ isHumanTakeoverActive(conv)' \in BOOLEAN
  BY DEF isHumanTakeoverActive
<1>3. CASE isHumanTakeoverActive(conv)' = isHumanTakeoverActive(conv)
  BY <1>1, <1>3 DEF Promise!vars
<1>4. CASE isHumanTakeoverActive(conv)' = ~isHumanTakeoverActive(conv)
  BY <1>1, <1>4 DEF Promise!Next, Promise!Takeover
<1>5. QED
  BY <1>2, <1>3, <1>4

LEMMA NextPromise == IInv /\ [Next]_vars => [Promise!Next]_Promise!vars
<1> SUFFICES ASSUME IInv, [Next]_vars PROVE [Promise!Next]_Promise!vars
  OBVIOUS
<1>1. \/ \E s \in Sends : Begins(s) \/ Proceeds(s) \/ Delivers(s)
      \/ UNCHANGED <<request, sent>>
  BY NextSteps DEF IInv
<1>2. QED
  BY <1>1, BeginsPromise, ProceedsPromise, DeliversPromise, QuietPromise

-----------------------------------------------------------------------------

\* The sender implements AutomaticReplies: an automatic reply reaches the customer at
\* most once, and only when no human held the conversation at its takeover check
\* (sendWorkflowMessage and reply of whatsapp.service.ts).
THEOREM SenderKeepsPromise == Spec => RepliesAuthorised
<1>1. Spec => []IInv
  BY InitIInv, NextIInv, PTL DEF Spec
<1>2. QED
  BY <1>1, InitPromise, NextPromise, PTL DEF Spec, RepliesAuthorised, Promise!Spec
=============================================================================
