--------------------------- MODULE PdfImportProofs ---------------------------
(***************************************************************************)
(* The safety properties of PdfImport, for every set of drafts, calls and  *)
(* reviewers and every lease.                                              *)
(***************************************************************************)
EXTENDS PdfImport, TLAPS

Rows == [status : DraftStatuses, reviewedBy : Actors \cup {None},
         reviewedAt : Time \cup {None}, kbArticleId : Drafts \cup {None}]

Calls == [step : Steps, draft : Drafts \cup {None}, action : ReviewActions \cup {None},
          actor : Actors \cup {None}, claimedAt : Time, importStatus : ImportStatuses]

\* A call that has been received knows its draft, its action and its reviewer.
ReceivedKnows ==
    \A r \in Reviews :
        /\ review[r].step # "idle" => review[r].draft \in Drafts /\ review[r].action \in ReviewActions
        /\ review[r].step \notin {"idle"} \cup EndSteps => review[r].actor \in Actors

TInv == TypeOK /\ ReceivedKnows

-----------------------------------------------------------------------------

\* What Goto does to the call it moves, and that it moves no other.
LEMMA GotoEffect ==
    ASSUME TypeOK, NEW r \in Reviews, NEW s \in Steps, Goto(r, s)
    PROVE  /\ review' \in [Reviews -> Calls]
           /\ review'[r].step = s
           /\ review'[r].draft = review[r].draft
           /\ review'[r].action = review[r].action
           /\ s \notin EndSteps => /\ review'[r].actor = review[r].actor
                                   /\ review'[r].claimedAt = review[r].claimedAt
           /\ \A q \in Reviews : q # r => review'[q] = review[q]
<1>1. 0 \in Time
  BY PdfImportAssumption DEF Time
<1>2. review \in [Reviews -> Calls]
  BY DEF TypeOK, Calls
<1>3. Moved(review[r], s) \in Calls
  BY <1>1, <1>2 DEF Moved, Calls, ImportStatuses
<1>4. /\ review'[r] = Moved(review[r], s)
      /\ review' \in [Reviews -> Calls]
      /\ \A q \in Reviews : q # r => review'[q] = review[q]
  BY <1>2, <1>3 DEF Goto
<1>5. /\ Moved(review[r], s).step = s
      /\ Moved(review[r], s).draft = review[r].draft
      /\ Moved(review[r], s).action = review[r].action
      /\ s \notin EndSteps => /\ Moved(review[r], s).actor = review[r].actor
                              /\ Moved(review[r], s).claimedAt = review[r].claimedAt
  BY <1>2 DEF Moved, Calls
<1>6. QED
  BY <1>4, <1>5

\* A call that moves by Goto keeps ReceivedKnows when it was received.
LEMMA GotoKnows ==
    ASSUME TInv, NEW r \in Reviews, NEW s \in Steps, Goto(r, s),
           review[r].step \notin {"idle"} \cup EndSteps
    PROVE  ReceivedKnows'
BY GotoEffect DEF TInv, ReceivedKnows

-----------------------------------------------------------------------------
(* Types *)

Articles == [status : {"absent", "draft", "published"}, chunks : BOOLEAN]

\* TInv from the types of the five variables.
LEMMA TInvParts ==
    TypeOK <=> /\ now \in Time /\ draft \in [Drafts -> Rows] /\ importStatus \in ImportStatuses
               /\ kb \in [Drafts -> Articles] /\ review \in [Reviews -> Calls]
BY DEF TypeOK, Rows, Calls, Articles

LEMMA InitTInv == Init => TInv
<1> SUFFICES ASSUME Init PROVE TInv
  OBVIOUS
<1>1. 0 \in Time
  BY PdfImportAssumption DEF Time
<1>2. TypeOK
  BY <1>1, TInvParts DEF Init, Rows, Calls, Articles, ImportStatuses, DraftStatuses, Steps
<1>3. ReceivedKnows
  BY DEF Init, ReceivedKnows
<1>4. QED
  BY <1>2, <1>3 DEF TInv

\* The operators that compute statuses and steps stay in their types.
LEMMA HelperTypes ==
    /\ \A a \in ReviewActions : Wanted(a) \in FinalStatuses
    /\ \A st, a : resolveIdempotentResult(st, a) \in {"ok", "conflict"}
    /\ \A p : recalculateImportStatus(p) \in ImportStatuses
    /\ \A article : AfterFind(article) \in {"confirm", "index"}
    /\ \A a : Wanted(a) # "PENDING"
BY DEF Wanted, FinalStatuses, ReviewActions, resolveIdempotentResult, recalculateImportStatus,
       ImportStatuses, AfterFind

\* A step of a received call that writes none of the tables.
LEMMA GotoTInv ==
    ASSUME TInv, NEW r \in Reviews, NEW s \in Steps, Goto(r, s),
           review[r].step \notin {"idle"} \cup EndSteps,
           now' \in Time, draft' \in [Drafts -> Rows], kb' \in [Drafts -> Articles],
           importStatus' \in ImportStatuses
    PROVE  TInv'
<1>1. review' \in [Reviews -> Calls]
  BY GotoEffect DEF TInv
<1>2. ReceivedKnows'
  BY GotoKnows
<1>3. TypeOK'
  BY <1>1 DEF TypeOK, Rows, Calls, Articles
<1>4. QED
  BY <1>2, <1>3 DEF TInv

LEMMA BeginTInv ==
    ASSUME TInv, NEW r \in Reviews, NEW d \in Drafts, NEW action \in ReviewActions,
           NEW actor \in Actors, Begin(r, d, action, actor)
    PROVE  TInv'
<1> DEFINE step == IF draft[d].status = "PENDING" THEN "claim"
                   ELSE resolveIdempotentResult(draft[d].status, action)
           call == [review[r] EXCEPT !.draft = d, !.action = action, !.actor = actor,
                                     !.claimedAt = now, !.step = step]
<1>1. step \in Steps /\ step # "idle"
  BY HelperTypes DEF Steps, EndSteps
<1> HIDE DEF step
<1>2. review \in [Reviews -> Calls] /\ now \in Time
  BY DEF TInv, TypeOK, Calls
<1>3. /\ call \in Calls /\ call.step = step
      /\ call.draft = d /\ call.action = action /\ call.actor = actor
  BY <1>1, <1>2 DEF Calls
<1>4. review' = [review EXCEPT ![r] = call]
  BY DEF Begin, step
<1> HIDE DEF call
<1>5. /\ review' \in [Reviews -> Calls] /\ review'[r] = call
      /\ \A q \in Reviews : q # r => review'[q] = review[q]
  BY <1>2, <1>3, <1>4
<1>6. TypeOK'
  BY <1>5 DEF Begin, TypeOK, Calls, TInv
<1>7. ReceivedKnows'
  BY <1>3, <1>5 DEF ReceivedKnows, TInv
<1>8. QED
  BY <1>6, <1>7 DEF TInv

\* The rows that the writes of the code leave in the draft table.
LEMMA DraftRows ==
    ASSUME draft \in [Drafts -> Rows], NEW d \in Drafts
    PROVE  /\ \A by \in Actors \cup {None}, at \in Time \cup {None} :
                [draft EXCEPT ![d] = [@ EXCEPT !.reviewedBy = by, !.reviewedAt = at]]
                  \in [Drafts -> Rows]
           /\ \A st \in DraftStatuses, a \in Drafts \cup {None} :
                [draft EXCEPT ![d] = [@ EXCEPT !.status = st, !.kbArticleId = a]]
                  \in [Drafts -> Rows]
BY DEF Rows

LEMMA ArticleRows ==
    ASSUME kb \in [Drafts -> Articles], NEW d \in Drafts
    PROVE  /\ \A article \in Articles : [kb EXCEPT ![d] = article] \in [Drafts -> Articles]
           /\ [kb EXCEPT ![d].chunks = TRUE] \in [Drafts -> Articles]
           /\ [kb EXCEPT ![d].status = "published"] \in [Drafts -> Articles]
BY DEF Articles

LEMMA StepTInv ==
    ASSUME TInv, NEW r \in Reviews, Step(r)
    PROVE  TInv'
<1> USE TInvParts DEF TInv
<1>a. review[r].step # "idle" => review[r].draft \in Drafts /\ review[r].action \in ReviewActions
  BY DEF ReceivedKnows
<1>b. "claim" \in Steps /\ TrySteps \subseteq Steps /\ EndSteps \subseteq Steps
      /\ {"recheck", "rollback", "release"} \subseteq Steps
  BY DEF Steps
<1>1. CASE \E d \in Drafts, action \in ReviewActions, actor \in Actors : Begin(r, d, action, actor)
  BY <1>1, BeginTInv
<1>2. CASE claimPendingArticle(r)
  <2> DEFINE s == CASE review[r].action = "reject" -> "complete"
                    [] review[r].action = "blank" -> "failed"
                    [] OTHER -> "find"
  <2>1. review[r].step \notin {"idle"} \cup EndSteps
    BY <1>2 DEF claimPendingArticle, EndSteps
  <2>2. s \in Steps
    BY DEF Steps, TrySteps, EndSteps
  <2>3. review[r].actor \in Actors /\ review[r].claimedAt \in Time
    BY <2>1 DEF ReceivedKnows, Calls
  <2>4. CASE Goto(r, s) /\ draft' = [draft EXCEPT ![review[r].draft] =
                   [@ EXCEPT !.reviewedBy = review[r].actor, !.reviewedAt = review[r].claimedAt]]
    <3> HIDE DEF s
    <3>1. draft' \in [Drafts -> Rows]
      BY <1>a, <1>2, <2>3, <2>4, DraftRows DEF claimPendingArticle
    <3>2. QED
      BY <1>2, <2>1, <2>2, <2>4, <3>1, GotoTInv DEF claimPendingArticle
  <2>5. CASE Goto(r, "recheck") /\ UNCHANGED draft
    BY <1>b, <1>2, <2>1, <2>5, GotoTInv DEF claimPendingArticle
  <2>6. QED
    BY <1>2, <2>4, <2>5 DEF claimPendingArticle
<1>3. CASE Recheck(r)
  <2>1. PICK s \in {"ok", "conflict"} : Goto(r, s)
    BY <1>3, HelperTypes DEF Recheck
  <2>2. QED
    BY <1>b, <1>3, <2>1, GotoTInv DEF Recheck, EndSteps
<1>4. CASE FindArticle(r) \/ RefindArticle(r)
  <2>1. PICK s \in {"create", "rollback", "confirm", "index"} : Goto(r, s)
    BY <1>4, HelperTypes DEF FindArticle, RefindArticle
  <2>2. QED
    BY <1>b, <1>4, <2>1, GotoTInv DEF FindArticle, RefindArticle, EndSteps, TrySteps
<1>5. CASE CreateArticle(r)
  <2>1. [status |-> "draft", chunks |-> FALSE] \in Articles
    BY DEF Articles
  <2>2. kb' \in [Drafts -> Articles]
    BY <1>a, <1>5, <2>1, ArticleRows DEF CreateArticle
  <2>3. QED
    BY <1>b, <1>5, <2>2, GotoTInv DEF CreateArticle, EndSteps, TrySteps
<1>6. CASE reindexArticle(r) \/ PublishArticle(r)
  <2>1. PICK s \in {"rollback", "publish", "confirm"} : Goto(r, s)
    BY <1>6 DEF reindexArticle, PublishArticle
  <2>2. kb' \in [Drafts -> Articles]
    BY <1>a, <1>6, ArticleRows DEF reindexArticle, PublishArticle
  <2>3. QED
    BY <1>b, <1>6, <2>1, <2>2, GotoTInv DEF reindexArticle, PublishArticle, EndSteps, TrySteps
<1>7. CASE ConfirmArticle(r)
  <2>1. PICK s \in {"rollback", "complete"} : Goto(r, s)
    BY <1>7 DEF ConfirmArticle
  <2>2. QED
    BY <1>b, <1>7, <2>1, GotoTInv DEF ConfirmArticle, EndSteps, TrySteps
<1>8. CASE CompleteInTransaction(r)
  <2> DEFINE call == [review[r] EXCEPT !.step = "commit",
                            !.importStatus = recalculateImportStatus(PendingSeenBy(r))]
  <2>1. CASE UNCHANGED <<now, draft, importStatus, kb>> /\ review' = [review EXCEPT ![r] = call]
    <3>1. review \in [Reviews -> Calls] /\ "commit" \in Steps
      BY DEF Steps, TrySteps
    <3>2. /\ call \in Calls /\ call.draft = review[r].draft /\ call.action = review[r].action
          /\ call.actor = review[r].actor
      BY <3>1, HelperTypes DEF Calls
    <3> HIDE DEF call
    <3>3. /\ review' \in [Reviews -> Calls] /\ review'[r] = call
          /\ \A q \in Reviews : q # r => review'[q] = review[q]
      BY <2>1, <3>1, <3>2
    <3>4. TypeOK'
      BY <2>1, <3>3 DEF TypeOK, Calls
    <3>5. ReceivedKnows'
      BY <1>8, <3>2, <3>3 DEF ReceivedKnows, CompleteInTransaction, EndSteps
    <3>6. QED
      BY <3>4, <3>5
  <2>2. CASE UNCHANGED <<now, draft, importStatus, kb>>
             /\ (Goto(r, "conflict") \/ Goto(r, "rollback"))
    BY <1>b, <1>8, <2>2, GotoTInv DEF CompleteInTransaction, EndSteps
  <2>3. QED
    BY <1>8, <2>1, <2>2 DEF CompleteInTransaction
<1>9. CASE Commit(r)
  <2> DEFINE a == IF review[r].action = "reject" THEN None ELSE review[r].draft
  <2>1. Wanted(review[r].action) \in DraftStatuses /\ a \in Drafts \cup {None}
    BY <1>a, <1>9, HelperTypes DEF Commit, DraftStatuses
  <2>2. draft' = [draft EXCEPT ![review[r].draft] =
                   [@ EXCEPT !.status = Wanted(review[r].action), !.kbArticleId = a]]
    BY <1>9 DEF Commit
  <2> HIDE DEF a
  <2>3. draft' \in [Drafts -> Rows]
    <3>1. review[r].draft \in Drafts /\ draft \in [Drafts -> Rows]
      BY <1>a, <1>9 DEF Commit
    <3>2. QED
      BY <2>1, <2>2, <3>1, DraftRows
  <2>4. importStatus' \in ImportStatuses
    <3>1. review[r] \in Calls
      OBVIOUS
    <3>2. QED
      BY <1>9, <3>1 DEF Commit, Calls
  <2>5. QED
    BY <1>b, <1>9, <2>3, <2>4, GotoTInv DEF Commit, EndSteps
<1>10. CASE Throw(r)
  <2>1. PICK s \in {"rollback", "failed"} : Goto(r, s)
    BY <1>10 DEF Throw
  <2>2. review[r].step \notin {"idle"} \cup EndSteps
    BY <1>10 DEF Throw, TrySteps, EndSteps
  <2>3. QED
    BY <1>b, <1>10, <2>1, <2>2, GotoTInv DEF Throw, EndSteps
<1>11. CASE rollbackPdfDraftPublication(r)
  <2>1. [status |-> "absent", chunks |-> FALSE] \in Articles
    BY DEF Articles
  <2>2. kb' \in [Drafts -> Articles]
    BY <1>a, <1>11, <2>1, ArticleRows DEF rollbackPdfDraftPublication
  <2>3. QED
    BY <1>b, <1>11, <2>2, GotoTInv DEF rollbackPdfDraftPublication, EndSteps
<1>12. CASE releaseClaim(r) \/ RollbackFails(r)
  <2>1. PICK s \in {"failed", "rollback_failed"} : Goto(r, s)
    BY <1>12 DEF releaseClaim, RollbackFails
  <2>2. review[r].draft \in Drafts
    BY <1>a, <1>12 DEF releaseClaim, RollbackFails
  <2>3. [draft EXCEPT ![review[r].draft] = [@ EXCEPT !.reviewedBy = None, !.reviewedAt = None]]
          \in [Drafts -> Rows]
    BY <2>2, DraftRows
  <2>4. draft' \in [Drafts -> Rows]
    BY <1>12, <2>3 DEF releaseClaim, RollbackFails
  <2>5. QED
    BY <1>b, <1>12, <2>1, <2>4, GotoTInv DEF releaseClaim, RollbackFails, EndSteps
<1>13. CASE Crash(r)
  BY <1>b, <1>13, GotoTInv DEF Crash, EndSteps
<1>14. QED
  BY <1>1, <1>2, <1>3, <1>4, <1>5, <1>6, <1>7, <1>8, <1>9, <1>10, <1>11, <1>12, <1>13 DEF Step

LEMMA NextTInv == TInv /\ [Next]_vars => TInv'
<1> SUFFICES ASSUME TInv, [Next]_vars PROVE TInv'
  OBVIOUS
<1>1. CASE Tick
  BY <1>1, PdfImportAssumption DEF Tick, TInv, TypeOK, ReceivedKnows, Time
<1>2. CASE UNCHANGED vars \/ Rest
  BY <1>2 DEF vars, Rest, TInv, TypeOK, ReceivedKnows
<1>3. CASE \E r \in Reviews : Step(r)
  BY <1>3, StepTInv
<1>4. QED
  BY <1>1, <1>2, <1>3 DEF Next

\* The columns, the articles and the calls keep their types, and a received
\* call always knows its draft, its action and its reviewer (reviewArticle).
THEOREM TypeCorrect == Spec => []TypeOK
<1>1. TInv => TypeOK
  BY DEF TInv
<1>2. QED
  BY InitTInv, NextTInv, <1>1, PTL DEF Spec

-----------------------------------------------------------------------------
(* The shapes of a step: what it does to the draft table and to its call *)

\* Steps between a successful claim and the end of the call.
HoldSteps == TrySteps \cup {"rollback", "release"}

OthersKept(r) == \A q \in Reviews : q # r => review'[q] = review[q]
OtherRowsKept(d) == \A e \in Drafts : e # d => draft'[e] = draft[e]
SameRequest(r) == review'[r].draft = review[r].draft /\ review'[r].action = review[r].action
SameClaim(r) == review'[r].actor = review[r].actor /\ review'[r].claimedAt = review[r].claimedAt

\* A step that writes neither the draft table nor the status of the import.
Quiet(r) ==
    /\ draft' = draft /\ importStatus' = importStatus /\ now' = now
    /\ OthersKept(r) /\ SameRequest(r)
    /\ review[r].step \notin {"idle"} \cup EndSteps
    /\ review'[r].step \notin EndSteps => SameClaim(r)
    /\ review'[r].step \notin {"idle", "claim", "commit"}
    /\ review'[r].step \in HoldSteps => review[r].step \in HoldSteps
    /\ review'[r].step = "ok" => draft[review[r].draft].status = Wanted(review[r].action)

\* A successful claimPendingArticle.
Claims(r) ==
    LET d == review[r].draft IN
    /\ review[r].step = "claim" /\ ~Locked(d)
    /\ draft[d].status = "PENDING" /\ ClaimFree(draft[d], review[r].claimedAt)
    /\ draft'[d].status = "PENDING"
    /\ draft'[d].reviewedBy = review[r].actor /\ draft'[d].reviewedAt = review[r].claimedAt
    /\ draft'[d].kbArticleId = None
    /\ OtherRowsKept(d)
    /\ importStatus' = importStatus /\ now' = now
    /\ OthersKept(r) /\ SameRequest(r)
    /\ review'[r].step \in {"complete", "find", "failed"}
    /\ review'[r].step # "failed" => SameClaim(r)

\* A completeClaimedArticle whose conditional UPDATE finds the claim.
Enters(r) ==
    /\ review[r].step = "complete" /\ ~Locked(review[r].draft) /\ HasClaim(r)
    /\ draft' = draft /\ importStatus' = importStatus /\ now' = now
    /\ OthersKept(r) /\ SameRequest(r) /\ SameClaim(r)
    /\ review'[r].step = "commit"
    /\ review'[r].importStatus = recalculateImportStatus(PendingSeenBy(r))

\* The commit of that transaction.
Decides(r) ==
    LET d == review[r].draft IN
    /\ review[r].step = "commit"
    /\ draft'[d].status = Wanted(review[r].action)
    /\ OtherRowsKept(d)
    /\ importStatus' = review[r].importStatus /\ now' = now
    /\ OthersKept(r) /\ SameRequest(r)
    /\ review'[r].step = "ok"

\* A release that finds the claim.
Releases(r) ==
    LET d == review[r].draft IN
    /\ review[r].step \in {"rollback", "release"} /\ ~Locked(d) /\ HasClaim(r)
    /\ draft'[d].status = "PENDING" /\ draft'[d].reviewedBy = None
    /\ OtherRowsKept(d)
    /\ importStatus' = importStatus /\ now' = now
    /\ OthersKept(r) /\ SameRequest(r)
    /\ review'[r].step \in {"failed", "rollback_failed"}

\* A first step: the request is remembered.
Begins(r) ==
    /\ draft' = draft /\ importStatus' = importStatus /\ now' = now
    /\ OthersKept(r)
    /\ review[r].step = "idle"
    /\ review'[r].step \in {"claim", "ok", "conflict"}
    /\ review'[r].step = "claim" => review'[r].claimedAt = now
    /\ review'[r].step = "ok" =>
          draft[review'[r].draft].status = Wanted(review'[r].action)

\* A move by Goto that writes neither table is quiet.
LEMMA GotoQuiet ==
    ASSUME TInv, NEW r \in Reviews, NEW s \in Steps, Goto(r, s),
           draft' = draft, importStatus' = importStatus, now' = now,
           review[r].step \notin {"idle"} \cup EndSteps,
           s \notin {"idle", "claim", "commit"},
           s \in HoldSteps => review[r].step \in HoldSteps,
           s = "ok" => draft[review[r].draft].status = Wanted(review[r].action)
    PROVE  Quiet(r)
BY GotoEffect DEF TInv, Quiet, OthersKept, SameRequest, SameClaim

\* resolveIdempotentResult says "ok" only for the decision that was asked.
LEMMA IdempotentOk ==
    \A st, a : resolveIdempotentResult(st, a) = "ok" => st = Wanted(a)
BY DEF resolveIdempotentResult

\* What a write of the draft table by a call does to the rows.
LEMMA DraftEffect ==
    ASSUME draft \in [Drafts -> Rows], NEW d \in Drafts, NEW row, draft' = [draft EXCEPT ![d] = row]
    PROVE  draft'[d] = row /\ OtherRowsKept(d)
BY DEF OtherRowsKept

LEMMA StepShape ==
    ASSUME TInv, NEW r \in Reviews, Step(r)
    PROVE  Begins(r) \/ Quiet(r) \/ Claims(r) \/ Enters(r) \/ Decides(r) \/ Releases(r)
<1> DEFINE d == review[r].draft
<1>0. /\ draft \in [Drafts -> Rows] /\ review \in [Reviews -> Calls]
      /\ review[r].step # "idle" => d \in Drafts
      /\ TypeOK
  BY TInvParts DEF TInv, ReceivedKnows
<1>b. TrySteps \subseteq Steps /\ EndSteps \subseteq Steps
      /\ {"claim", "recheck", "rollback", "release"} \subseteq Steps
  BY DEF Steps
<1>c. TrySteps \subseteq HoldSteps /\ {"rollback", "release"} \subseteq HoldSteps
      /\ TrySteps \cap ({"idle"} \cup EndSteps) = {}
      /\ HoldSteps \cap ({"idle", "claim", "recheck"} \cup EndSteps) = {}
  BY DEF HoldSteps, TrySteps, EndSteps
<1>1. CASE \E e \in Drafts, action \in ReviewActions, actor \in Actors : Begin(r, e, action, actor)
  <2>1. PICK e \in Drafts, action \in ReviewActions, actor \in Actors : Begin(r, e, action, actor)
    BY <1>1
  <2> DEFINE step == IF draft[e].status = "PENDING" THEN "claim"
                     ELSE resolveIdempotentResult(draft[e].status, action)
             call == [review[r] EXCEPT !.draft = e, !.action = action, !.actor = actor,
                                       !.claimedAt = now, !.step = step]
  <2>2. /\ step \in {"claim", "ok", "conflict"}
        /\ step = "ok" => draft[e].status = Wanted(action)
    BY HelperTypes, IdempotentOk
  <2> HIDE DEF step
  <2>3. /\ call.step = step /\ call.draft = e /\ call.action = action /\ call.claimedAt = now
    BY <1>0 DEF Calls
  <2>4. review' = [review EXCEPT ![r] = call] /\ review[r].step = "idle"
        /\ draft' = draft /\ importStatus' = importStatus /\ now' = now
    BY <2>1 DEF Begin, step
  <2> HIDE DEF call
  <2>5. review'[r] = call /\ OthersKept(r)
    BY <1>0, <2>4 DEF OthersKept
  <2>6. Begins(r)
    BY <2>2, <2>3, <2>4, <2>5 DEF Begins
  <2>7. QED
    BY <2>6
<1>2. CASE claimPendingArticle(r)
  <2> DEFINE s == CASE review[r].action = "reject" -> "complete"
                    [] review[r].action = "blank" -> "failed"
                    [] OTHER -> "find"
             row == [draft[d] EXCEPT !.reviewedBy = review[r].actor,
                                     !.reviewedAt = review[r].claimedAt]
  <2>1. s \in {"complete", "find", "failed"} /\ s \in Steps
    BY DEF Steps, TrySteps, EndSteps
  <2>2. CASE /\ draft[d].status = "PENDING" /\ draft[d].kbArticleId = None
             /\ ClaimFree(draft[d], review[r].claimedAt)
    <3>1. Goto(r, s) /\ draft' = [draft EXCEPT ![d] = row]
      BY <1>2, <2>2 DEF claimPendingArticle
    <3> HIDE DEF s
    <3>2. /\ row.status = "PENDING" /\ row.kbArticleId = None
          /\ row.reviewedBy = review[r].actor /\ row.reviewedAt = review[r].claimedAt
      BY <1>0, <1>2, <2>2 DEF Rows, claimPendingArticle
    <3> HIDE DEF row
    <3>3. draft'[d] = row /\ OtherRowsKept(d)
      BY <1>0, <1>2, <3>1, DraftEffect DEF claimPendingArticle
    <3>4. OthersKept(r) /\ SameRequest(r) /\ review'[r].step = s
          /\ (s # "failed" => SameClaim(r))
      BY <1>0, <2>1, <3>1, GotoEffect DEF OthersKept, SameRequest, SameClaim, EndSteps
    <3>5. Claims(r)
      BY <1>2, <2>1, <2>2, <3>2, <3>3, <3>4 DEF Claims, claimPendingArticle
    <3>6. QED
      BY <3>5
  <2>3. CASE ~(/\ draft[d].status = "PENDING" /\ draft[d].kbArticleId = None
               /\ ClaimFree(draft[d], review[r].claimedAt))
    <3>1. Quiet(r)
      BY <1>2, <1>b, <1>c, <2>3, GotoQuiet DEF claimPendingArticle, EndSteps
    <3>2. QED
      BY <3>1
  <2>4. QED
    BY <2>2, <2>3
<1>3. CASE Recheck(r)
  <2> DEFINE s == IF draft[d].status = "PENDING" THEN "conflict"
                  ELSE resolveIdempotentResult(draft[d].status, review[r].action)
  <2>1. s \in {"ok", "conflict"} /\ (s = "ok" => draft[d].status = Wanted(review[r].action))
    BY HelperTypes, IdempotentOk
  <2>2. Goto(r, s)
    BY <1>3 DEF Recheck
  <2> HIDE DEF s
  <2>3. Quiet(r)
    BY <1>3, <1>b, <1>c, <2>1, <2>2, GotoQuiet DEF Recheck, EndSteps
  <2>4. QED
    BY <2>3
<1>4. CASE FindArticle(r) \/ RefindArticle(r)
  <2>1. PICK s \in {"create", "rollback", "confirm", "index"} : Goto(r, s)
    BY <1>4, HelperTypes DEF FindArticle, RefindArticle
  <2>2. Quiet(r)
    BY <1>b, <1>c, <1>4, <2>1, GotoQuiet DEF FindArticle, RefindArticle, EndSteps, TrySteps
  <2>3. QED
    BY <2>2
<1>5. CASE CreateArticle(r) \/ reindexArticle(r) \/ PublishArticle(r) \/ ConfirmArticle(r)
  <2>1. PICK s \in {"refind", "rollback", "publish", "confirm", "complete"} : Goto(r, s)
    BY <1>5 DEF CreateArticle, reindexArticle, PublishArticle, ConfirmArticle
  <2>2. Quiet(r)
    BY <1>b, <1>c, <1>5, <2>1, GotoQuiet DEF CreateArticle, reindexArticle, PublishArticle,
       ConfirmArticle, EndSteps, TrySteps
  <2>3. QED
    BY <2>2
<1>6. CASE CompleteInTransaction(r)
  <2> DEFINE call == [review[r] EXCEPT !.step = "commit",
                            !.importStatus = recalculateImportStatus(PendingSeenBy(r))]
  <2>1. CASE HasClaim(r)
    <3>1. /\ call.step = "commit" /\ call.draft = d /\ call.action = review[r].action
          /\ call.actor = review[r].actor /\ call.claimedAt = review[r].claimedAt
          /\ call.importStatus = recalculateImportStatus(PendingSeenBy(r))
      BY <1>0 DEF Calls
    <3>2. review' = [review EXCEPT ![r] = call]
      BY <1>6, <2>1 DEF CompleteInTransaction
    <3> HIDE DEF call
    <3>3. review'[r] = call /\ OthersKept(r)
      BY <1>0, <3>2 DEF OthersKept
    <3>4. Enters(r)
      BY <1>6, <2>1, <3>1, <3>3 DEF Enters, CompleteInTransaction, SameRequest, SameClaim
    <3>5. QED
      BY <3>4
  <2>2. CASE ~HasClaim(r)
    <3>1. PICK s \in {"conflict", "rollback"} : Goto(r, s)
      BY <1>6, <2>2 DEF CompleteInTransaction
    <3>2. Quiet(r)
      BY <1>b, <1>c, <1>6, <3>1, GotoQuiet DEF CompleteInTransaction, EndSteps, TrySteps
    <3>3. QED
      BY <3>2
  <2>3. QED
    BY <2>1, <2>2
<1>7. CASE Commit(r)
  <2> DEFINE row == [draft[d] EXCEPT !.status = Wanted(review[r].action),
                            !.kbArticleId = IF review[r].action = "reject" THEN None ELSE d]
  <2>1. row.status = Wanted(review[r].action) /\ d \in Drafts
    BY <1>0, <1>7 DEF Rows, Commit
  <2>2. draft' = [draft EXCEPT ![d] = row]
    BY <1>7 DEF Commit
  <2> HIDE DEF row
  <2>3. draft'[d] = row /\ OtherRowsKept(d)
    BY <1>0, <2>1, <2>2, DraftEffect
  <2>4. OthersKept(r) /\ SameRequest(r) /\ review'[r].step = "ok"
    BY <1>0, <1>b, <1>7, GotoEffect DEF Commit, EndSteps, OthersKept, SameRequest
  <2>5. Decides(r)
    BY <1>7, <2>1, <2>3, <2>4 DEF Decides, Commit
  <2>6. QED
    BY <2>5
<1>8. CASE Throw(r)
  <2>1. PICK s \in {"rollback", "failed"} :
            Goto(r, s) /\ (s = "rollback" => review[r].step \in TrySteps)
    BY <1>8 DEF Throw
  <2>2. review[r].step \notin {"idle"} \cup EndSteps
    BY <1>8, <1>c DEF Throw, EndSteps
  <2>3. Quiet(r)
    BY <1>b, <1>c, <1>8, <2>1, <2>2, GotoQuiet DEF Throw, EndSteps
  <2>4. QED
    BY <2>3
<1>9. CASE rollbackPdfDraftPublication(r)
  <2>1. Quiet(r)
    BY <1>b, <1>c, <1>9, GotoQuiet DEF rollbackPdfDraftPublication, EndSteps
  <2>2. QED
    BY <2>1
<1>10. CASE releaseClaim(r) \/ RollbackFails(r)
  <2> DEFINE row == [draft[d] EXCEPT !.reviewedBy = None, !.reviewedAt = None]
  <2>1. PICK s \in {"failed", "rollback_failed"} : Goto(r, s)
    BY <1>10 DEF releaseClaim, RollbackFails
  <2>2. CASE HasClaim(r) /\ draft' # draft
    <3>1. row.status = "PENDING" /\ row.reviewedBy = None /\ d \in Drafts
      BY <1>0, <1>10, <2>2 DEF Rows, HasClaim, releaseClaim, RollbackFails
    <3>2. draft' = [draft EXCEPT ![d] = row]
      BY <1>10, <2>2 DEF releaseClaim, RollbackFails
    <3> HIDE DEF row
    <3>3. draft'[d] = row /\ OtherRowsKept(d)
      BY <1>0, <3>1, <3>2, DraftEffect
    <3>4. OthersKept(r) /\ SameRequest(r) /\ review'[r].step = s
      BY <1>0, <1>b, <2>1, GotoEffect DEF EndSteps, OthersKept, SameRequest
    <3>5. Releases(r)
      BY <1>10, <2>2, <3>1, <3>3, <3>4 DEF Releases, releaseClaim, RollbackFails
    <3>6. QED
      BY <3>5
  <2>3. CASE ~HasClaim(r) \/ draft' = draft
    <3>1. Quiet(r)
      BY <1>b, <1>c, <1>10, <2>1, <2>3, GotoQuiet DEF releaseClaim, RollbackFails, EndSteps
    <3>2. QED
      BY <3>1
  <2>4. QED
    BY <2>2, <2>3
<1>11. CASE Crash(r)
  <2>1. Quiet(r)
    BY <1>b, <1>c, <1>11, GotoQuiet DEF Crash, EndSteps
  <2>2. QED
    BY <2>1
<1>12. QED
  BY <1>1, <1>2, <1>3, <1>4, <1>5, <1>6, <1>7, <1>8, <1>9, <1>10, <1>11 DEF Step

-----------------------------------------------------------------------------
(* Claims and decisions *)

\* A call that is about to claim takes its time from the present tick.
ClaimIsFresh == \A r \in Reviews : review[r].step = "claim" => review[r].claimedAt = now

\* WorkingHoldsLease and ClaimExclusive, up to the end of the compensation.
HoldsLease(r) ==
    review[r].step \in HoldSteps => HasClaim(r) \/ now > review[r].claimedAt + Lease
LeaseInv == \A r \in Reviews : HoldsLease(r)

ExclusiveInv ==
    \A r, q \in Reviews :
        /\ review[r].step \in HoldSteps /\ review[q].step \in HoldSteps
        /\ review[r].draft = review[q].draft
        /\ HasClaim(r) /\ HasClaim(q)
        => r = q

\* An open transaction has updated a row whose claim is its own.
CommitHasClaim == \A r \in Reviews : review[r].step = "commit" => HasClaim(r)

CInv == TInv /\ ClaimIsFresh /\ LeaseInv /\ ExclusiveInv /\ CommitHasClaim /\ SuccessMeansDecided

LEMMA InitCInv == Init => CInv
BY InitTInv DEF Init, CInv, ClaimIsFresh, LeaseInv, HoldsLease, ExclusiveInv, CommitHasClaim,
   SuccessMeansDecided, HoldSteps, TrySteps

\* The facts about one call that the lemmas below use.
LEMMA CallFacts ==
    ASSUME TInv, NEW r \in Reviews
    PROVE  /\ review[r].claimedAt \in Int /\ now \in Int /\ Lease \in Nat
           /\ review[r].step # "idle" => review[r].draft \in Drafts
           /\ review[r].step \in HoldSteps => review[r].actor \in Actors
           /\ review[r].step \in HoldSteps \cup {"ok"} => review[r].step # "idle"
           /\ None \notin Actors /\ None \notin Int
<1>1. review[r] \in Calls /\ now \in Time
  BY TInvParts DEF TInv
<1>2. HoldSteps \cap ({"idle"} \cup EndSteps) = {}
  BY DEF HoldSteps, TrySteps, EndSteps
<1>3. QED
  BY <1>1, <1>2, PdfImportAssumption DEF Calls, Time, TInv, ReceivedKnows

\* No call but r holds the claim that r writes: the present holders of a claim
\* on the same draft are older than the lease, the former ones too.
LEMMA ClaimIsNew ==
    ASSUME CInv, NEW r \in Reviews, Claims(r), NEW q \in Reviews, q # r,
           review[q].step \in HoldSteps, review[q].draft = review[r].draft
    PROVE  now > review[q].claimedAt + Lease
<1> DEFINE d == review[r].draft
<1>1. CASE HasClaim(q)
  <2>1. draft[d].reviewedAt = review[q].claimedAt
    BY <1>1 DEF HasClaim
  <2>2. review[q].claimedAt < review[r].claimedAt - Lease
    BY <2>1, CallFacts DEF Claims, ClaimFree, CInv
  <2>3. review[r].claimedAt = now
    BY DEF CInv, ClaimIsFresh, Claims
  <2>4. QED
    BY <2>2, <2>3, CallFacts DEF CInv
<1>2. CASE ~HasClaim(q)
  BY <1>2 DEF CInv, LeaseInv, HoldsLease
<1>3. QED
  BY <1>1, <1>2

\* Two open transactions, or a transaction and a holder of the same claim, are
\* on different drafts.
LEMMA HolderIsAlone ==
    ASSUME CInv, NEW r \in Reviews, NEW q \in Reviews, q # r,
           review[r].step \in HoldSteps, HasClaim(r),
           review[q].step \in HoldSteps, review[q].draft = review[r].draft
    PROVE  ~HasClaim(q) /\ now > review[q].claimedAt + Lease /\ review[q].step # "commit"
BY DEF CInv, ExclusiveInv, LeaseInv, HoldsLease, CommitHasClaim, HoldSteps, TrySteps

LEMMA LeaseStep ==
    ASSUME CInv, NEW r \in Reviews,
           Begins(r) \/ Quiet(r) \/ Claims(r) \/ Enters(r) \/ Decides(r) \/ Releases(r)
    PROVE  LeaseInv'
<1> SUFFICES ASSUME NEW q \in Reviews, review'[q].step \in HoldSteps
             PROVE  HasClaim(q)' \/ now' > review'[q].claimedAt + Lease
  BY DEF LeaseInv, HoldsLease
<1>e. HoldSteps \cap ({"idle", "claim"} \cup EndSteps) = {}
  BY DEF HoldSteps, TrySteps, EndSteps
<1>q. HoldsLease(q) /\ HoldsLease(r)
  BY DEF CInv, LeaseInv
<1>1. CASE Begins(r)
  BY <1>1, <1>e, <1>q DEF Begins, OthersKept, HoldsLease, HasClaim, EndSteps
<1>2. CASE Quiet(r)
  BY <1>2, <1>e, <1>q DEF Quiet, OthersKept, SameRequest, SameClaim, HoldsLease, HasClaim
<1>3. CASE Claims(r)
  <2>1. CASE q = r
    BY <1>3, <2>1, <1>e DEF Claims, SameRequest, SameClaim, HasClaim, EndSteps
  <2>2. CASE q # r /\ review[q].draft = review[r].draft
    BY <1>3, <2>2, ClaimIsNew DEF Claims, OthersKept
  <2>3. CASE q # r /\ review[q].draft # review[r].draft
    BY <1>3, <2>3, <1>q, CallFacts DEF Claims, OthersKept, OtherRowsKept, HoldsLease, HasClaim, CInv
  <2>4. QED
    BY <2>1, <2>2, <2>3
<1>4. CASE Enters(r)
  BY <1>4, <1>q DEF Enters, OthersKept, SameRequest, SameClaim, HoldsLease, HasClaim
<1>5. CASE Decides(r) \/ Releases(r)
  <2>1. HasClaim(r) /\ review[r].step \in HoldSteps /\ now' = now
    BY <1>5 DEF Decides, Releases, CInv, CommitHasClaim, HoldSteps, TrySteps
  <2>2. q # r /\ review'[q] = review[q] /\ OtherRowsKept(review[r].draft)
    BY <1>5, <1>e DEF Decides, Releases, OthersKept, EndSteps
  <2>3. CASE review[q].draft = review[r].draft
    BY <2>1, <2>2, <2>3, HolderIsAlone
  <2>4. CASE review[q].draft # review[r].draft
    BY <2>1, <2>2, <2>4, <1>q, CallFacts DEF OtherRowsKept, HoldsLease, HasClaim, CInv
  <2>5. QED
    BY <2>3, <2>4
<1>6. QED
  BY <1>1, <1>2, <1>3, <1>4, <1>5

LEMMA ExclusiveStep ==
    ASSUME CInv, NEW r \in Reviews,
           Begins(r) \/ Quiet(r) \/ Claims(r) \/ Enters(r) \/ Decides(r) \/ Releases(r)
    PROVE  ExclusiveInv'
<1> SUFFICES ASSUME NEW p \in Reviews, NEW q \in Reviews,
                    review'[p].step \in HoldSteps, review'[q].step \in HoldSteps,
                    review'[p].draft = review'[q].draft, HasClaim(p)', HasClaim(q)'
             PROVE  p = q
  BY DEF ExclusiveInv
<1>e. HoldSteps \cap ({"idle", "claim"} \cup EndSteps) = {}
  BY DEF HoldSteps, TrySteps, EndSteps
<1>i. /\ review[p].step \in HoldSteps /\ review[q].step \in HoldSteps
      /\ review[p].draft = review[q].draft /\ HasClaim(p) /\ HasClaim(q)
      => p = q
  BY DEF CInv, ExclusiveInv
<1>1. CASE Begins(r)
  BY <1>1, <1>e, <1>i DEF Begins, OthersKept, HasClaim, EndSteps
<1>2. CASE Quiet(r)
  BY <1>2, <1>e, <1>i DEF Quiet, OthersKept, SameRequest, SameClaim, HasClaim
<1>3. CASE Claims(r)
  <2> DEFINE d == review[r].draft
  <2>1. ASSUME NEW c \in Reviews, c # r, review'[c].step \in HoldSteps, review'[c].draft = d
        PROVE  ~HasClaim(c)'
    <3>1. now > review[c].claimedAt + Lease /\ review'[c] = review[c]
      BY <1>3, <2>1, ClaimIsNew DEF Claims, OthersKept
    <3>2. draft'[d].reviewedAt = now
      BY <1>3 DEF Claims, CInv, ClaimIsFresh
    <3>3. QED
      BY <2>1, <3>1, <3>2, CallFacts DEF HasClaim, CInv
  <2>2. CASE review'[p].draft = d
    BY <2>1, <2>2
  <2>3. CASE review'[p].draft # d
    BY <1>3, <2>3, <1>i, CallFacts
       DEF Claims, OthersKept, SameRequest, OtherRowsKept, HasClaim, CInv
  <2>4. QED
    BY <2>2, <2>3
<1>4. CASE Enters(r)
  <2>1. review[r].step \in HoldSteps
    BY <1>4 DEF Enters, HoldSteps, TrySteps
  <2>2. QED
    BY <1>4, <2>1, <1>i DEF Enters, OthersKept, SameRequest, SameClaim, HasClaim
<1>5. CASE Decides(r) \/ Releases(r)
  <2> DEFINE d == review[r].draft
  <2>1. p # r /\ q # r /\ review'[p] = review[p] /\ review'[q] = review[q] /\ OtherRowsKept(d)
    BY <1>5, <1>e DEF Decides, Releases, OthersKept, EndSteps
  <2>2. review[p].draft # d
    <3>1. SUFFICES ASSUME review[p].draft = d PROVE FALSE
      OBVIOUS
    <3>2. CASE Decides(r)
      <4>1. review[r].action \in ReviewActions
        BY <3>2 DEF Decides, CInv, TInv, ReceivedKnows
      <4>2. draft'[d].status # "PENDING"
        BY <3>2, <4>1, HelperTypes DEF Decides
      <4>3. QED
        BY <2>1, <3>1, <4>2 DEF HasClaim
    <3>3. CASE Releases(r)
      BY <2>1, <3>1, <3>3, CallFacts DEF Releases, HasClaim, CInv
    <3>4. QED
      BY <1>5, <3>2, <3>3
  <2>3. QED
    BY <2>1, <2>2, <1>i, CallFacts DEF OtherRowsKept, HasClaim, CInv
<1>6. QED
  BY <1>1, <1>2, <1>3, <1>4, <1>5

LEMMA CommitStep ==
    ASSUME CInv, NEW r \in Reviews,
           Begins(r) \/ Quiet(r) \/ Claims(r) \/ Enters(r) \/ Decides(r) \/ Releases(r)
    PROVE  CommitHasClaim'
<1> SUFFICES ASSUME NEW q \in Reviews, review'[q].step = "commit" PROVE HasClaim(q)'
  BY DEF CommitHasClaim
<1>h. "commit" \in HoldSteps /\ "commit" \notin {"idle", "claim"} \cup EndSteps
  BY DEF HoldSteps, TrySteps, EndSteps
<1>q. review[q].step = "commit" => HasClaim(q) /\ review[q].draft \in Drafts
  BY <1>h, CallFacts DEF CInv, CommitHasClaim
<1>1. CASE Begins(r) \/ Quiet(r) \/ Enters(r)
  BY <1>1, <1>q DEF Begins, Quiet, Enters, OthersKept, SameRequest, SameClaim, HasClaim
<1>2. CASE Claims(r) \/ Decides(r) \/ Releases(r)
  <2>1. q # r /\ review'[q] = review[q] /\ OtherRowsKept(review[r].draft)
    BY <1>2 DEF Claims, Decides, Releases, OthersKept
  <2>2. review[q].draft # review[r].draft
    <3>1. CASE Claims(r) \/ Releases(r)
      BY <2>1, <3>1 DEF Claims, Releases, Locked
    <3>2. CASE Decides(r)
      BY <1>h, <2>1, <3>2, HolderIsAlone DEF Decides, CInv, CommitHasClaim
    <3>3. QED
      BY <1>2, <3>1, <3>2
  <2>3. QED
    BY <1>q, <2>1, <2>2 DEF OtherRowsKept, HasClaim
<1>3. QED
  BY <1>1, <1>2

\* The status of a draft that is no longer PENDING is final.
LEMMA StatusIsFinal ==
    ASSUME CInv, NEW r \in Reviews, NEW d \in Drafts, draft[d].status # "PENDING",
           Begins(r) \/ Quiet(r) \/ Claims(r) \/ Enters(r) \/ Decides(r) \/ Releases(r)
    PROVE  draft'[d] = draft[d]
<1>1. CASE Begins(r) \/ Quiet(r) \/ Enters(r)
  BY <1>1 DEF Begins, Quiet, Enters
<1>2. CASE Claims(r) \/ Decides(r) \/ Releases(r)
  <2>1. draft[review[r].draft].status = "PENDING"
    BY <1>2 DEF Claims, Decides, Releases, CInv, CommitHasClaim, HasClaim
  <2>2. QED
    BY <1>2, <2>1 DEF Claims, Decides, Releases, OtherRowsKept
<1>3. QED
  BY <1>1, <1>2

LEMMA SuccessStep ==
    ASSUME CInv, NEW r \in Reviews,
           Begins(r) \/ Quiet(r) \/ Claims(r) \/ Enters(r) \/ Decides(r) \/ Releases(r)
    PROVE  SuccessMeansDecided'
<1> SUFFICES ASSUME NEW q \in Reviews, review'[q].step = "ok"
             PROVE  draft'[review'[q].draft].status = Wanted(review'[q].action)
  BY DEF SuccessMeansDecided
<1>1. CASE q # r
  <2>1. review'[q] = review[q]
    BY <1>1 DEF Begins, Quiet, Claims, Enters, Decides, Releases, OthersKept
  <2>2. /\ review[q].draft \in Drafts
        /\ draft[review[q].draft].status = Wanted(review[q].action)
        /\ Wanted(review[q].action) # "PENDING"
    BY <2>1, CallFacts, HelperTypes DEF CInv, SuccessMeansDecided, TInv, ReceivedKnows
  <2>3. QED
    BY <2>1, <2>2, StatusIsFinal
<1>2. CASE q = r
  BY <1>2 DEF Begins, Quiet, Claims, Enters, Decides, Releases, SameRequest
<1>3. QED
  BY <1>1, <1>2

LEMMA FreshStep ==
    ASSUME CInv, NEW r \in Reviews,
           Begins(r) \/ Quiet(r) \/ Claims(r) \/ Enters(r) \/ Decides(r) \/ Releases(r)
    PROVE  ClaimIsFresh'
BY DEF Begins, Quiet, Claims, Enters, Decides, Releases, OthersKept, CInv, ClaimIsFresh

LEMMA NextCInv == CInv /\ [Next]_vars => CInv'
<1> SUFFICES ASSUME CInv, [Next]_vars PROVE CInv'
  OBVIOUS
<1>0. TInv'
  BY NextTInv DEF CInv
<1>1. CASE Tick
  <2>1. \A r \in Reviews : HoldsLease(r)'
    <3>1. TAKE r \in Reviews
    <3>2. HoldsLease(r)
      BY DEF CInv, LeaseInv
    <3>3. QED
      BY <1>1, <3>2, CallFacts DEF CInv, HoldsLease, Tick, HasClaim
  <2>2. QED
    BY <1>0, <1>1, <2>1 DEF CInv, Tick, ClaimIsFresh, LeaseInv, ExclusiveInv, CommitHasClaim,
       SuccessMeansDecided, HasClaim
<1>2. CASE UNCHANGED vars \/ Rest
  BY <1>0, <1>2 DEF vars, Rest, CInv, ClaimIsFresh, LeaseInv, HoldsLease, ExclusiveInv,
     CommitHasClaim, SuccessMeansDecided, HasClaim
<1>3. CASE \E r \in Reviews : Step(r)
  <2>1. PICK r \in Reviews :
           Begins(r) \/ Quiet(r) \/ Claims(r) \/ Enters(r) \/ Decides(r) \/ Releases(r)
    BY <1>3, StepShape DEF CInv
  <2>2. QED
    BY <1>0, <2>1, LeaseStep, ExclusiveStep, CommitStep, SuccessStep, FreshStep DEF CInv
<1>4. QED
  BY <1>1, <1>2, <1>3 DEF Next

LEMMA ClaimsInvariant == Spec => []CInv
BY InitCInv, NextCInv, PTL DEF Spec

\* Two reviews of one draft never both hold its claim (claimPendingArticle).
THEOREM ClaimIsExclusive == Spec => []ClaimExclusive
<1>1. CInv => ClaimExclusive
  BY DEF CInv, ExclusiveInv, ClaimExclusive, HoldSteps
<1>2. QED
  BY ClaimsInvariant, <1>1, PTL

\* A review loses its claim only after its lease (the OR of claimPendingArticle).
THEOREM LeaseIsKept == Spec => []WorkingHoldsLease
<1>1. CInv => WorkingHoldsLease
  BY DEF CInv, LeaseInv, HoldsLease, WorkingHoldsLease, HoldSteps
<1>2. QED
  BY ClaimsInvariant, <1>1, PTL

\* A successful answer tells the status of the draft, for good (reviewArticle).
THEOREM SuccessIsTrue == Spec => []SuccessMeansDecided
<1>1. CInv => SuccessMeansDecided
  BY DEF CInv
<1>2. QED
  BY ClaimsInvariant, <1>1, PTL

\* No step changes a decided draft (completeClaimedArticle and releaseClaim ask
\* for PENDING and for the claim).
THEOREM DecisionsAreFinal == Spec => DecisionIsFinal
<1>1. CInv /\ [Next]_vars =>
        [\A d \in Drafts : draft[d].status # "PENDING" => draft'[d] = draft[d]]_vars
  <2> SUFFICES ASSUME CInv, [Next]_vars, NEW d \in Drafts, draft[d].status # "PENDING"
               PROVE  draft'[d] = draft[d]
    OBVIOUS
  <2>1. CASE Tick \/ Rest \/ UNCHANGED vars
    BY <2>1 DEF Tick, Rest, vars
  <2>2. CASE \E r \in Reviews : Step(r)
    BY <2>2, StepShape, StatusIsFinal DEF CInv
  <2>3. QED
    BY <2>1, <2>2 DEF Next
<1>2. QED
  BY ClaimsInvariant, <1>1, PTL DEF Spec, DecisionIsFinal

-----------------------------------------------------------------------------
(* The status of the import *)

\* What an open transaction has computed stays true until it commits: decided
\* drafts stay decided, and its own will be.
TransactionCounts ==
    \A r \in Reviews : review[r].step = "commit" =>
        /\ review[r].importStatus # "PENDING_REVIEW"
        /\ review[r].importStatus = "COMPLETED" =>
              \A d \in Drafts : d # review[r].draft => draft[d].status # "PENDING"

StInv == CInv /\ TransactionCounts /\ ImportStatusSound

\* recalculateImportStatusWithClient, called with the own draft decided.
LEMMA CountedStatus ==
    ASSUME NEW r \in Reviews, review[r].draft \in Drafts
    PROVE  /\ recalculateImportStatus(PendingSeenBy(r)) # "PENDING_REVIEW"
           /\ recalculateImportStatus(PendingSeenBy(r)) = "COMPLETED" =>
                 \A d \in Drafts : d # review[r].draft => draft[d].status # "PENDING"
BY DEF recalculateImportStatus, PendingSeenBy

LEMMA StatusStep ==
    ASSUME StInv, NEW r \in Reviews,
           Begins(r) \/ Quiet(r) \/ Claims(r) \/ Enters(r) \/ Decides(r) \/ Releases(r)
    PROVE  TransactionCounts' /\ ImportStatusSound'
<1>1. \A d \in Drafts : draft[d].status # "PENDING" => draft'[d].status # "PENDING"
  BY StatusIsFinal DEF StInv
<1>2. TransactionCounts'
  <2> SUFFICES ASSUME NEW q \in Reviews, review'[q].step = "commit"
               PROVE  /\ review'[q].importStatus # "PENDING_REVIEW"
                      /\ review'[q].importStatus = "COMPLETED" =>
                            \A d \in Drafts : d # review'[q].draft => draft'[d].status # "PENDING"
    BY DEF TransactionCounts
  <2>1. CASE q # r
    <3>1. review'[q] = review[q]
      BY <2>1 DEF Begins, Quiet, Claims, Enters, Decides, Releases, OthersKept
    <3>2. QED
      BY <1>1, <3>1 DEF StInv, TransactionCounts
  <2>2. CASE q = r
    <3>1. Enters(r)
      BY <2>2 DEF Begins, Quiet, Claims, Decides, Releases
    <3>2. review[r].draft \in Drafts
      BY <3>1, CallFacts DEF Enters, StInv, CInv
    <3>3. QED
      BY <2>2, <3>1, <3>2, CountedStatus DEF Enters, SameRequest
  <2>3. QED
    BY <2>1, <2>2
<1>3. ImportStatusSound'
  <2>1. CASE Decides(r)
    <3>1. draft'[review[r].draft].status # "PENDING"
      BY <2>1, HelperTypes DEF Decides, StInv, CInv, TInv, ReceivedKnows
    <3>2. QED
      BY <1>1, <2>1, <3>1 DEF Decides, StInv, TransactionCounts, ImportStatusSound
  <2>2. CASE Begins(r) \/ Quiet(r) \/ Enters(r)
    BY <2>2 DEF Begins, Quiet, Enters, StInv, ImportStatusSound
  <2>3. CASE Claims(r) \/ Releases(r)
    <3>1. \A d \in Drafts : draft[d].status = "PENDING" => draft'[d].status = "PENDING"
      BY <2>3 DEF Claims, Releases, OtherRowsKept
    <3>2. importStatus' = importStatus
      BY <2>3 DEF Claims, Releases
    <3>3. QED
      BY <1>1, <3>1, <3>2 DEF StInv, ImportStatusSound
  <2>4. QED
    BY <2>1, <2>2, <2>3
<1>4. QED
  BY <1>2, <1>3

LEMMA InitStInv == Init => StInv
<1> SUFFICES ASSUME Init PROVE TransactionCounts /\ ImportStatusSound
  BY InitCInv DEF StInv
<1>1. TransactionCounts
  BY DEF Init, TransactionCounts
<1>2. ImportStatusSound
  BY DEF Init, ImportStatusSound
<1>3. QED
  BY <1>1, <1>2

LEMMA NextStInv == StInv /\ [Next]_vars => StInv'
<1> SUFFICES ASSUME StInv, [Next]_vars PROVE StInv'
  OBVIOUS
<1>1. CInv'
  BY NextCInv DEF StInv
<1>2. CASE Tick \/ Rest \/ UNCHANGED vars
  BY <1>1, <1>2 DEF Tick, Rest, vars, StInv, TransactionCounts, ImportStatusSound
<1>3. CASE \E r \in Reviews : Step(r)
  <2>1. PICK r \in Reviews :
           Begins(r) \/ Quiet(r) \/ Claims(r) \/ Enters(r) \/ Decides(r) \/ Releases(r)
    BY <1>3, StepShape DEF StInv, CInv
  <2>2. QED
    BY <1>1, <2>1, StatusStep DEF StInv
<1>4. QED
  BY <1>2, <1>3 DEF Next

\* The status of the import never claims more than the drafts say, although the
\* transactions count the drafts without seeing each other.
THEOREM ImportStatusIsSound == Spec => []ImportStatusSound
<1>1. StInv => ImportStatusSound
  BY DEF StInv
<1>2. QED
  BY InitStInv, NextStInv, <1>1, PTL DEF Spec

-----------------------------------------------------------------------------
(* Compensation *)

\* A rejection publishes nothing and compensates nothing.
PublishSteps == TrySteps \ {"complete", "commit"}
PublisherAction ==
    \A r \in Reviews :
        review[r].step \in PublishSteps \cup {"rollback"} => review[r].action # "reject"

\* A call that has to answer for the article of a draft.
Answers(r, d) ==
    /\ review[r].draft = d
    /\ review[r].action # "reject"
    /\ review[r].step \in TrySteps \cup {"rollback", "crashed", "rollback_failed"}

ServedInv ==
    \A d \in Drafts :
        kb[d].status = "published" /\ draft[d].status \notin {"APPROVED", "EDITED"}
        => \E r \in Reviews : Answers(r, d)

PInv == CInv /\ PublisherAction /\ ServedInv

LEMMA InitPInv == Init => PInv
<1> SUFFICES ASSUME Init PROVE PublisherAction /\ ServedInv
  BY InitCInv DEF PInv
<1>1. PublisherAction
  BY DEF Init, PublisherAction, PublishSteps, TrySteps
<1>2. ServedInv
  BY DEF Init, ServedInv
<1>3. QED
  BY <1>1, <1>2

\* The next steps of a call, by its action.
LEMMA NextStep ==
    ASSUME TInv, NEW r \in Reviews, Step(r)
    PROVE  /\ OthersKept(r)
           /\ \/ /\ SameRequest(r)
                 /\ review'[r].step \in PublishSteps =>
                       \/ review[r].step = "claim" /\ review[r].action # "reject"
                       \/ review[r].step \in PublishSteps
                 /\ review'[r].step = "rollback" =>
                       \/ review[r].step \in PublishSteps
                       \/ review[r].step \in TrySteps /\ review[r].action # "reject"
                 /\ review[r].step \in TrySteps /\ review[r].action # "reject" =>
                       \/ review'[r].step \in TrySteps \cup {"rollback", "crashed"}
                       \/ Commit(r)
                 /\ review[r].step = "rollback" =>
                       \/ review'[r].step \in {"rollback_failed", "crashed"}
                       \/ rollbackPdfDraftPublication(r)
                 /\ review[r].step \notin {"rollback_failed", "crashed"}
              \/ /\ review[r].step = "idle"
                 /\ review'[r].step \in {"claim", "ok", "conflict"}
<1>0. TypeOK
  BY DEF TInv
<1>b. TrySteps \subseteq Steps /\ EndSteps \subseteq Steps
      /\ {"claim", "recheck", "rollback", "release"} \subseteq Steps
  BY DEF Steps
<1>s. OthersKept(r) /\ (Begins(r) \/ SameRequest(r))
  BY StepShape DEF Begins, Quiet, Claims, Enters, Decides, Releases
<1>1. CASE \E e \in Drafts, action \in ReviewActions, actor \in Actors : Begin(r, e, action, actor)
  <2>1. review[r].step = "idle"
    BY <1>1 DEF Begin
  <2>2. Begins(r)
    BY <2>1, StepShape DEF Quiet, Claims, Enters, Decides, Releases
  <2>3. QED
    BY <2>2 DEF Begins
<1> SUFFICES ASSUME review[r].step # "idle",
                    ~(\E e \in Drafts, action \in ReviewActions, actor \in Actors :
                         Begin(r, e, action, actor))
             PROVE  /\ SameRequest(r)
                    /\ review'[r].step \in PublishSteps =>
                          \/ review[r].step = "claim" /\ review[r].action # "reject"
                          \/ review[r].step \in PublishSteps
                    /\ review'[r].step = "rollback" =>
                          \/ review[r].step \in PublishSteps
                          \/ review[r].step \in TrySteps /\ review[r].action # "reject"
                    /\ review[r].step \in TrySteps /\ review[r].action # "reject" =>
                          \/ review'[r].step \in TrySteps \cup {"rollback", "crashed"}
                          \/ Commit(r)
                    /\ review[r].step = "rollback" =>
                          \/ review'[r].step \in {"rollback_failed", "crashed"}
                          \/ rollbackPdfDraftPublication(r)
                    /\ review[r].step \notin {"rollback_failed", "crashed"}
  <2>1. review[r].step # "idle" \/ (\E e \in Drafts, action \in ReviewActions, actor \in Actors :
                                         Begin(r, e, action, actor))
    BY DEF Step, claimPendingArticle, Recheck, FindArticle, CreateArticle, RefindArticle,
       reindexArticle, PublishArticle, ConfirmArticle, CompleteInTransaction, Commit, Throw,
       rollbackPdfDraftPublication, releaseClaim, RollbackFails, Crash, TrySteps
  <2>2. QED
    BY <1>1, <1>s, <2>1
<1>r. SameRequest(r)
  BY <1>s DEF Begins
<1>2. CASE claimPendingArticle(r)
  <2>1. PICK s \in {"complete", "failed", "find", "recheck"} :
            Goto(r, s) /\ (s = "find" => review[r].action # "reject")
    BY <1>2 DEF claimPendingArticle
  <2>2. review'[r].step = s
    BY <1>0, <1>b, <2>1, GotoEffect DEF TrySteps, EndSteps
  <2>3. QED
    BY <1>2, <1>r, <2>1, <2>2 DEF claimPendingArticle, PublishSteps, TrySteps
<1>3. CASE Recheck(r)
  <2>1. PICK s \in {"ok", "conflict"} : Goto(r, s)
    BY <1>3, HelperTypes DEF Recheck
  <2>2. review'[r].step = s
    BY <1>0, <1>b, <2>1, GotoEffect DEF TrySteps, EndSteps
  <2>3. QED
    BY <1>3, <1>r, <2>2 DEF Recheck, PublishSteps, TrySteps
<1>4. CASE FindArticle(r) \/ RefindArticle(r) \/ CreateArticle(r) \/ reindexArticle(r)
           \/ PublishArticle(r) \/ ConfirmArticle(r)
  <2>1. PICK s \in {"create", "rollback", "confirm", "index", "refind", "publish", "complete"} :
            Goto(r, s)
    BY <1>4, HelperTypes DEF FindArticle, RefindArticle, CreateArticle, reindexArticle,
       PublishArticle, ConfirmArticle
  <2>2. review'[r].step = s
    BY <1>0, <1>b, <2>1, GotoEffect DEF TrySteps, EndSteps
  <2>3. review[r].step \in PublishSteps
    BY <1>4 DEF FindArticle, RefindArticle, CreateArticle, reindexArticle,
       PublishArticle, ConfirmArticle, PublishSteps, TrySteps
  <2>4. QED
    BY <1>r, <2>2, <2>3 DEF PublishSteps, TrySteps
<1>5. CASE CompleteInTransaction(r)
  <2>1. CASE HasClaim(r)
    <3>1. review'[r].step = "commit"
      <4>1. Quiet(r) \/ Enters(r)
        BY <1>5, StepShape DEF CompleteInTransaction, Begins, Claims, Decides, Releases
      <4>2. review \in [Reviews -> Calls]
        BY TInvParts DEF TInv
      <4>3. QED
        BY <1>5, <2>1, <4>2 DEF CompleteInTransaction, Calls
    <3>2. QED
      BY <1>5, <1>r, <3>1 DEF CompleteInTransaction, PublishSteps, TrySteps
  <2>2. CASE ~HasClaim(r)
    <3>1. PICK s \in {"conflict", "rollback"} :
              Goto(r, s) /\ (s = "conflict" <=> review[r].action = "reject")
      BY <1>5, <2>2 DEF CompleteInTransaction
    <3>2. review'[r].step = s
      BY <1>0, <1>b, <3>1, GotoEffect DEF TrySteps, EndSteps
    <3>3. QED
      BY <1>5, <1>r, <3>1, <3>2 DEF CompleteInTransaction, PublishSteps, TrySteps
  <2>3. QED
    BY <2>1, <2>2
<1>6. CASE Commit(r)
  <2>1. review'[r].step = "ok"
    BY <1>0, <1>b, <1>6, GotoEffect DEF Commit, EndSteps
  <2>2. QED
    BY <1>6, <1>r, <2>1 DEF Commit, PublishSteps, TrySteps
<1>7. CASE Throw(r)
  <2>1. PICK s \in {"rollback", "failed"} :
            /\ Goto(r, s)
            /\ s = "rollback" <=> review[r].step \in TrySteps /\ review[r].action # "reject"
    BY <1>7 DEF Throw
  <2>2. review'[r].step = s
    BY <1>0, <1>b, <2>1, GotoEffect DEF EndSteps
  <2>3. QED
    BY <1>7, <1>r, <2>1, <2>2 DEF Throw, PublishSteps, TrySteps
<1>8. CASE rollbackPdfDraftPublication(r)
  <2>1. review'[r].step = "release"
    BY <1>0, <1>b, <1>8, GotoEffect DEF rollbackPdfDraftPublication
  <2>2. QED
    BY <1>8, <1>r, <2>1 DEF rollbackPdfDraftPublication, PublishSteps, TrySteps
<1>9. CASE releaseClaim(r)
  <2>1. review'[r].step = "failed"
    BY <1>0, <1>b, <1>9, GotoEffect DEF releaseClaim, EndSteps
  <2>2. QED
    BY <1>9, <1>r, <2>1 DEF releaseClaim, PublishSteps, TrySteps
<1>10. CASE RollbackFails(r)
  <2>1. review'[r].step = "rollback_failed"
    BY <1>0, <1>b, <1>10, GotoEffect DEF RollbackFails, EndSteps
  <2>2. QED
    BY <1>10, <1>r, <2>1 DEF RollbackFails, PublishSteps, TrySteps
<1>11. CASE Crash(r)
  <2>1. review'[r].step = "crashed"
    BY <1>0, <1>b, <1>11, GotoEffect DEF Crash, EndSteps
  <2>2. QED
    BY <1>11, <1>r, <2>1 DEF Crash, PublishSteps, TrySteps, EndSteps
<1>12. QED
  BY <1>2, <1>3, <1>4, <1>5, <1>6, <1>7, <1>8, <1>9, <1>10, <1>11 DEF Step

\* An article becomes published only by PublishArticle of its own draft.
LEMMA PublishedBy ==
    ASSUME TInv, NEW r \in Reviews, Step(r), NEW d \in Drafts,
           kb'[d].status = "published", kb[d].status # "published"
    PROVE  PublishArticle(r) /\ review[r].draft = d
<1>1. kb \in [Drafts -> Articles]
  BY TInvParts DEF TInv
<1>2. kb' # kb
  OBVIOUS
<1>3. CreateArticle(r) \/ reindexArticle(r) \/ PublishArticle(r) \/ rollbackPdfDraftPublication(r)
  BY <1>2 DEF Step, Begin, claimPendingArticle, Recheck, FindArticle, RefindArticle, ConfirmArticle,
     CompleteInTransaction, Commit, Throw, releaseClaim, RollbackFails, Crash
<1>4. CASE CreateArticle(r)
  BY <1>1, <1>4 DEF CreateArticle, Articles
<1>5. CASE reindexArticle(r)
  BY <1>1, <1>5 DEF reindexArticle, Articles
<1>6. CASE PublishArticle(r)
  BY <1>1, <1>6 DEF PublishArticle, Articles
<1>7. CASE rollbackPdfDraftPublication(r)
  BY <1>1, <1>7 DEF rollbackPdfDraftPublication, Articles
<1>8. QED
  BY <1>3, <1>4, <1>5, <1>6, <1>7

\* A call that answers for an article does so until the draft is approved or the
\* article is gone.
LEMMA AnswererStays ==
    ASSUME TInv, NEW r \in Reviews, Step(r), NEW d \in Drafts, Answers(r, d)
    PROVE  \/ Answers(r, d)'
           \/ draft'[d].status \in {"APPROVED", "EDITED"}
           \/ kb'[d].status # "published"
<1>0. review[r].step # "idle" /\ review[r].draft = d /\ review[r].action # "reject"
  BY DEF Answers, TrySteps
<1>1. SameRequest(r)
  BY <1>0, NextStep
<1>2. CASE Commit(r)
  <2> DEFINE row == [draft[d] EXCEPT !.status = Wanted(review[r].action),
                            !.kbArticleId = IF review[r].action = "reject" THEN None ELSE d]
  <2>1. row.status = Wanted(review[r].action) /\ draft \in [Drafts -> Rows]
    BY TInvParts DEF TInv, Rows
  <2>2. draft' = [draft EXCEPT ![d] = row]
    BY <1>0, <1>2 DEF Commit
  <2> HIDE DEF row
  <2>3. draft'[d].status = Wanted(review[r].action)
    BY <2>1, <2>2
  <2>4. QED
    BY <1>0, <2>3 DEF Wanted
<1>3. CASE rollbackPdfDraftPublication(r)
  <2>1. kb' = [kb EXCEPT ![d] = [status |-> "absent", chunks |-> FALSE]]
    BY <1>0, <1>3 DEF rollbackPdfDraftPublication
  <2>2. kb'[d].status = "absent"
    BY <2>1, TInvParts DEF TInv
  <2>3. QED
    BY <2>2
<1>4. CASE ~Commit(r) /\ ~rollbackPdfDraftPublication(r)
  <2>1. review'[r].step \in TrySteps \cup {"rollback", "crashed", "rollback_failed"}
    BY <1>0, <1>4, NextStep DEF Answers
  <2>2. QED
    BY <1>0, <1>1, <2>1 DEF Answers, SameRequest
<1>5. QED
  BY <1>2, <1>3, <1>4

LEMMA ServedStep ==
    ASSUME PInv, NEW r \in Reviews, Step(r)
    PROVE  ServedInv'
<1> SUFFICES ASSUME NEW d \in Drafts, kb'[d].status = "published",
                    draft'[d].status \notin {"APPROVED", "EDITED"}
             PROVE  \E q \in Reviews : Answers(q, d)'
  BY DEF ServedInv
<1>0. TInv /\ CInv
  BY DEF PInv, CInv
<1>1. CASE kb[d].status = "published"
  <2>1. draft[d].status \notin {"APPROVED", "EDITED"}
    BY <1>0, StepShape, StatusIsFinal
  <2>2. PICK q \in Reviews : Answers(q, d)
    BY <1>1, <2>1 DEF PInv, ServedInv
  <2>3. CASE q = r
    BY <1>0, <2>2, <2>3, AnswererStays
  <2>4. CASE q # r
    BY <1>0, <2>2, <2>4, NextStep DEF OthersKept, Answers
  <2>5. QED
    BY <2>3, <2>4
<1>2. CASE kb[d].status # "published"
  <2>1. PublishArticle(r) /\ review[r].draft = d
    BY <1>0, <1>2, PublishedBy
  <2>2. review[r].step = "publish" /\ review[r].action # "reject"
    BY <2>1 DEF PublishArticle, PInv, PublisherAction, PublishSteps, TrySteps
  <2>3. Answers(r, d)
    BY <2>1, <2>2 DEF Answers, TrySteps
  <2>4. QED
    BY <1>0, <2>3, AnswererStays
<1>3. QED
  BY <1>1, <1>2

LEMMA PublisherStep ==
    ASSUME PInv, NEW r \in Reviews, Step(r)
    PROVE  PublisherAction'
<1> SUFFICES ASSUME NEW q \in Reviews, review'[q].step \in PublishSteps \cup {"rollback"}
             PROVE  review'[q].action # "reject"
  BY DEF PublisherAction
<1>0. TInv /\ PublisherAction
  BY DEF PInv, CInv
<1>1. CASE q # r
  BY <1>0, <1>1, NextStep DEF OthersKept, PublisherAction
<1>2. CASE q = r
  <2>1. SameRequest(r) /\ review[r].action # "reject"
    BY <1>0, <1>2, NextStep DEF PublisherAction, PublishSteps, TrySteps
  <2>2. QED
    BY <1>2, <2>1 DEF SameRequest
<1>3. QED
  BY <1>1, <1>2

LEMMA NextPInv == PInv /\ [Next]_vars => PInv'
<1> SUFFICES ASSUME PInv, [Next]_vars PROVE PInv'
  OBVIOUS
<1>1. CInv'
  BY NextCInv DEF PInv
<1>2. CASE Tick \/ Rest \/ UNCHANGED vars
  BY <1>1, <1>2 DEF Tick, Rest, vars, PInv, PublisherAction, ServedInv, Answers
<1>3. CASE \E r \in Reviews : Step(r)
  BY <1>1, <1>3, ServedStep, PublisherStep DEF PInv
<1>4. QED
  BY <1>2, <1>3 DEF Next

\* An article served without approval has a call that answers for it: one at
\* work, compensating, crashed, or whose compensation failed (reviewArticle).
THEOREM ServedIsAnsweredFor == Spec => []ServedOnlyWhenApproved
<1>1. PInv => ServedOnlyWhenApproved
  BY DEF PInv, ServedInv, Answers, ServedOnlyWhenApproved
<1>2. QED
  BY InitPInv, NextPInv, <1>1, PTL DEF Spec
=============================================================================
