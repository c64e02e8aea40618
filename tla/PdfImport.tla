------------------------------ MODULE PdfImport ------------------------------
(***************************************************************************)
(* Review of the article drafts of one imported PDF.                       *)
(*                                                                         *)
(* modules/knowledge-base/pdf-import.service.ts lets several administrators *)
(* review the same draft at the same time.  A review first claims the draft *)
(* (a lease of ten minutes written in reviewedBy and reviewedAt), publishes *)
(* it as the knowledge-base article "pdf-draft:<id>", then completes the   *)
(* draft in a transaction.  Every `await` of reviewArticle is a point where *)
(* the other reviews, the clock and a crash of the server may interleave,  *)
(* so a review is a process with one step per database call.               *)
(***************************************************************************)
EXTENDS Integers, FiniteSets

CONSTANTS
    Drafts,      \* the PdfDraftArticle rows of the import
    Reviews,     \* the calls of reviewArticle, each served once
    Actors,      \* the company administrators
    Lease,       \* how long a claim excludes the others (10 minutes), in ticks
    MaxTime,     \* bound on the clock
    MaxCrashes,  \* bound on the reviews cut short by a crash of the server
    None         \* SQL NULL

ASSUME PdfImportAssumption ==
    /\ Lease \in Nat /\ MaxTime \in Nat /\ MaxCrashes \in Nat
    /\ None \notin Actors /\ None \notin Int /\ None \notin Drafts
    /\ Drafts # {}

VARIABLES
    now,           \* the clock of the server
    draft,         \* PdfDraftArticle rows: status, reviewedBy, reviewedAt, kbArticleId
    importStatus,  \* PdfImportDraft.status
    kb,            \* the KbArticle "pdf-draft:<d>" of each draft d
    review         \* what each call of reviewArticle knows, and its next step

vars == <<now, draft, importStatus, kb, review>>

Time == 0 .. MaxTime
FinalStatuses == {"APPROVED", "EDITED", "REJECTED"}
DraftStatuses == {"PENDING"} \cup FinalStatuses
ImportStatuses == {"PENDING_REVIEW", "PARTIALLY_DONE", "COMPLETED"}

\* The three values of dto.action; "blank" is an edit whose title or body is empty.
ReviewActions == {"approve", "edit", "reject", "blank"}

\* Calls that have been answered, or never will be.
EndSteps == {"ok", "conflict", "failed", "rollback_failed", "crashed"}
\* createFromPdfDraft and completeClaimedArticle, inside the try block.
TrySteps == {"find", "create", "refind", "index", "publish", "confirm", "complete", "commit"}
Steps == {"idle", "claim", "recheck", "rollback", "release"} \cup TrySteps \cup EndSteps

TypeOK ==
    /\ now \in Time
    /\ draft \in [Drafts -> [status : DraftStatuses,
                             reviewedBy : Actors \cup {None},
                             reviewedAt : Time \cup {None},
                             kbArticleId : Drafts \cup {None}]]
    /\ importStatus \in ImportStatuses
    /\ kb \in [Drafts -> [status : {"absent", "draft", "published"}, chunks : BOOLEAN]]
    /\ review \in [Reviews -> [step : Steps,
                               draft : Drafts \cup {None},
                               action : ReviewActions \cup {None},
                               actor : Actors \cup {None},
                               claimedAt : Time,
                               importStatus : ImportStatuses]]

\* createImport: the import and its drafts as uploadAndAnalyze leaves them.
Init ==
    /\ now = 0
    /\ draft = [d \in Drafts |-> [status |-> "PENDING", reviewedBy |-> None,
                                  reviewedAt |-> None, kbArticleId |-> None]]
    /\ importStatus = "PENDING_REVIEW"
    /\ kb = [d \in Drafts |-> [status |-> "absent", chunks |-> FALSE]]
    /\ review = [r \in Reviews |-> [step |-> "idle", draft |-> None, action |-> None,
                                    actor |-> None, claimedAt |-> 0,
                                    importStatus |-> "PENDING_REVIEW"]]

-----------------------------------------------------------------------------
(* Helpers *)

\* Mutant: the action itself is stored, in upper case.
Wanted_RawAction(action) ==
    CASE action = "reject" -> "REJECT"
      [] action = "approve" -> "APPROVE"
      [] OTHER -> "EDIT"

\* The status a successful review leaves in the draft.
Wanted(action) ==
    CASE action = "reject" -> "REJECTED"
      [] action = "approve" -> "APPROVED"
      [] OTHER -> "EDITED"

\* Mutant: any decided draft answers with success.
resolveIdempotentResult_AnyDecision(status, action) == "ok"

\* resolveIdempotentResult: a draft that is already decided answers the same
\* decision with the row and any other decision with a conflict.
resolveIdempotentResult(status, action) ==
    IF status = Wanted(action) THEN "ok" ELSE "conflict"

\* The row of a draft is locked by a transaction that has updated it and has
\* not committed: every other UPDATE of the row waits.
Locked(d) == \E r \in Reviews : review[r].step = "commit" /\ review[r].draft = d

\* Mutant: the lease is compared with <=.
ClaimFree_OffByOne(row, at) ==
    row.reviewedAt = None \/ row.reviewedAt <= at - Lease

\* Mutant: a claim in progress does not exclude another.
ClaimFree_NoLease(row, at) == TRUE

\* The OR of claimPendingArticle: no claim, or one that is older than the lease.
ClaimFree(row, at) ==
    row.reviewedAt = None \/ row.reviewedAt < at - Lease

\* Mutant: only the reviewer is compared.
HasClaim_SameReviewer(r) == draft[review[r].draft].reviewedBy = review[r].actor

\* The claim of review r is the one written in its draft.
HasClaim(r) ==
    LET row == draft[review[r].draft] IN
        /\ row.status = "PENDING"
        /\ row.kbArticleId = None
        /\ row.reviewedBy = review[r].actor
        /\ row.reviewedAt = review[r].claimedAt

\* A call at its next step; an answered call forgets its local variables.
Moved(call, step) ==
    [call EXCEPT !.step = step,
                 !.actor = IF step \in EndSteps THEN None ELSE @,
                 !.claimedAt = IF step \in EndSteps THEN 0 ELSE @,
                 !.importStatus = "PENDING_REVIEW"]

Goto(r, step) == review' = [review EXCEPT ![r] = Moved(@, step)]

\* recalculateImportStatusWithClient, for the set of drafts it finds PENDING.
recalculateImportStatus(pending) ==
    CASE pending = {} -> "COMPLETED"
      [] pending = Drafts -> "PENDING_REVIEW"
      [] OTHER -> "PARTIALLY_DONE"

\* What createFromPdfDraft does next with the article it has read.
AfterFind(article) ==
    IF article.status = "published" /\ article.chunks THEN "confirm" ELSE "index"

-----------------------------------------------------------------------------
(* reviewArticle: from the request to the claim *)

\* The draft is read; if it is still PENDING the time of the claim is taken.
Begin(r, d, action, actor) ==
    /\ review[r].step = "idle"
    /\ review' = [review EXCEPT ![r] =
                    [@ EXCEPT !.draft = d, !.action = action, !.actor = actor,
                              !.claimedAt = now,
                              !.step = IF draft[d].status = "PENDING" THEN "claim"
                                       ELSE resolveIdempotentResult(draft[d].status, action)]]
    /\ UNCHANGED <<now, draft, importStatus, kb>>

\* claimPendingArticle: one conditional UPDATE.  After a claim a rejection goes
\* straight to its completion; a blank edit is refused and keeps its claim.
claimPendingArticle(r) ==
    LET d == review[r].draft
        row == draft[d]
    IN
    /\ review[r].step = "claim"
    /\ ~Locked(d)
    /\ IF row.status = "PENDING" /\ row.kbArticleId = None /\ ClaimFree(row, review[r].claimedAt)
       THEN /\ draft' = [draft EXCEPT ![d] = [@ EXCEPT !.reviewedBy = review[r].actor,
                                                       !.reviewedAt = review[r].claimedAt]]
            /\ Goto(r, CASE review[r].action = "reject" -> "complete"
                         [] review[r].action = "blank" -> "failed"
                         [] OTHER -> "find")
       ELSE /\ Goto(r, "recheck")
            /\ UNCHANGED draft
    /\ UNCHANGED <<now, importStatus, kb>>

\* The claim failed: the draft is read again, for an idempotent answer.
Recheck(r) ==
    /\ review[r].step = "recheck"
    /\ LET status == draft[review[r].draft].status IN
          Goto(r, IF status = "PENDING" THEN "conflict"
                  ELSE resolveIdempotentResult(status, review[r].action))
    /\ UNCHANGED <<now, draft, importStatus, kb>>

-----------------------------------------------------------------------------
(* createFromPdfDraft: publication of the article "pdf-draft:<d>" *)

FindArticle(r) ==
    /\ review[r].step = "find"
    /\ LET article == kb[review[r].draft] IN
          Goto(r, IF article.status = "absent" THEN "create" ELSE AfterFind(article))
    /\ UNCHANGED <<now, draft, importStatus, kb>>

\* kbRepository.createArticle; the primary key makes a second creation fail,
\* which the catch block ignores when it finds the article.
CreateArticle(r) ==
    LET d == review[r].draft IN
    /\ review[r].step = "create"
    /\ kb' = IF kb[d].status = "absent"
             THEN [kb EXCEPT ![d] = [status |-> "draft", chunks |-> FALSE]]
             ELSE kb
    /\ Goto(r, "refind")
    /\ UNCHANGED <<now, draft, importStatus>>

RefindArticle(r) ==
    /\ review[r].step = "refind"
    /\ LET article == kb[review[r].draft] IN
          Goto(r, IF article.status = "absent" THEN "rollback" ELSE AfterFind(article))
    /\ UNCHANGED <<now, draft, importStatus, kb>>

\* reindexArticle: the chunks are replaced in a transaction that first asserts
\* that the article exists.
reindexArticle(r) ==
    LET d == review[r].draft IN
    /\ review[r].step = "index"
    /\ IF kb[d].status = "absent"
       THEN Goto(r, "rollback") /\ UNCHANGED kb
       ELSE Goto(r, "publish") /\ kb' = [kb EXCEPT ![d].chunks = TRUE]
    /\ UNCHANGED <<now, draft, importStatus>>

\* kbRepository.updateArticle: UPDATE by primary key throws on a missing row.
PublishArticle(r) ==
    LET d == review[r].draft IN
    /\ review[r].step = "publish"
    /\ IF kb[d].status = "absent"
       THEN Goto(r, "rollback") /\ UNCHANGED kb
       ELSE Goto(r, "confirm") /\ kb' = [kb EXCEPT ![d].status = "published"]
    /\ UNCHANGED <<now, draft, importStatus>>

ConfirmArticle(r) ==
    /\ review[r].step = "confirm"
    /\ Goto(r, IF kb[review[r].draft].status = "absent" THEN "rollback" ELSE "complete")
    /\ UNCHANGED <<now, draft, importStatus, kb>>

-----------------------------------------------------------------------------
(* completeClaimedArticle: a READ COMMITTED transaction *)

\* Mutant: the drafts are counted before the draft of r is updated.
PendingSeenBy_BeforeUpdate(r) == {d \in Drafts : draft[d].status = "PENDING"}

\* The drafts of the import that the transaction of r sees PENDING: its own
\* update is visible to it, those of the others only once committed.
PendingSeenBy(r) == {d \in Drafts : draft[d].status = "PENDING"} \ {review[r].draft}

\* The conditional UPDATE of the draft, whose row lock is held until the
\* commit, and the recalculated status of the import.
CompleteInTransaction(r) ==
    /\ review[r].step = "complete"
    /\ ~Locked(review[r].draft)
    /\ IF HasClaim(r)
       THEN review' = [review EXCEPT ![r] =
                         [@ EXCEPT !.step = "commit",
                                   !.importStatus = recalculateImportStatus(PendingSeenBy(r))]]
       ELSE Goto(r, IF review[r].action = "reject" THEN "conflict" ELSE "rollback")
    /\ UNCHANGED <<now, draft, importStatus, kb>>

Commit(r) ==
    LET d == review[r].draft IN
    /\ review[r].step = "commit"
    /\ draft' = [draft EXCEPT ![d] =
                   [@ EXCEPT !.status = Wanted(review[r].action),
                             !.kbArticleId = IF review[r].action = "reject" THEN None ELSE d]]
    /\ importStatus' = review[r].importStatus
    /\ Goto(r, "ok")
    /\ UNCHANGED <<now, kb>>

-----------------------------------------------------------------------------
(* Errors, compensation and crashes *)

\* A database call or the embedding provider throws.  Inside the try block the
\* catch block compensates; outside it, and when releaseClaim throws, the
\* request fails and its claim stays.
Throw(r) ==
    /\ review[r].step \in {"claim", "recheck", "release"} \cup TrySteps
    /\ Goto(r, IF review[r].step \in TrySteps /\ review[r].action # "reject"
               THEN "rollback" ELSE "failed")
    /\ UNCHANGED <<now, draft, importStatus, kb>>

\* Mutant: the chunks are deleted and the article is left as it is.
rollbackPdfDraftPublication_ChunksOnly(r) ==
    /\ review[r].step = "rollback"
    /\ kb' = [kb EXCEPT ![review[r].draft].chunks = FALSE]
    /\ Goto(r, "release")
    /\ UNCHANGED <<now, draft, importStatus>>

\* rollbackPdfDraftPublication: the article and its chunks are deleted,
\* whoever wrote them.
rollbackPdfDraftPublication(r) ==
    /\ review[r].step = "rollback"
    /\ kb' = [kb EXCEPT ![review[r].draft] = [status |-> "absent", chunks |-> FALSE]]
    /\ Goto(r, "release")
    /\ UNCHANGED <<now, draft, importStatus>>

\* releaseClaim, then the error is rethrown.
releaseClaim(r) ==
    LET d == review[r].draft IN
    /\ review[r].step = "release"
    /\ ~Locked(d)
    /\ draft' = IF HasClaim(r)
                THEN [draft EXCEPT ![d] = [@ EXCEPT !.reviewedBy = None, !.reviewedAt = None]]
                ELSE draft
    /\ Goto(r, "failed")
    /\ UNCHANGED <<now, importStatus, kb>>

\* A failed rollback is logged and the claim is still released, unless that
\* fails as well.
RollbackFails(r) ==
    LET d == review[r].draft IN
    /\ review[r].step = "rollback"
    /\ ~Locked(d)
    /\ \E released \in BOOLEAN : draft' =
                IF released /\ HasClaim(r)
                THEN [draft EXCEPT ![d] = [@ EXCEPT !.reviewedBy = None, !.reviewedAt = None]]
                ELSE draft
    /\ Goto(r, "rollback_failed")
    /\ UNCHANGED <<now, importStatus, kb>>

\* The server stops while it serves r: an open transaction rolls back.
Crash(r) ==
    /\ Cardinality({q \in Reviews : review[q].step = "crashed"}) < MaxCrashes
    /\ review[r].step \notin {"idle"} \cup EndSteps
    /\ Goto(r, "crashed")
    /\ UNCHANGED <<now, draft, importStatus, kb>>

\* The UPDATE of a claim reaches the database in the tick its time is taken:
\* the pool of connections gives up after seconds, and a tick is minutes.
Tick ==
    /\ now < MaxTime
    /\ \A r \in Reviews : review[r].step # "claim"
    /\ now' = now + 1
    /\ UNCHANGED <<draft, importStatus, kb, review>>

\* Every call has been answered and the clock is at its bound.
Rest ==
    /\ now = MaxTime
    /\ \A r \in Reviews : review[r].step \in EndSteps
    /\ UNCHANGED vars

Step(r) ==
    \/ \E d \in Drafts, action \in ReviewActions, actor \in Actors : Begin(r, d, action, actor)
    \/ claimPendingArticle(r) \/ Recheck(r)
    \/ FindArticle(r) \/ CreateArticle(r) \/ RefindArticle(r)
    \/ reindexArticle(r) \/ PublishArticle(r) \/ ConfirmArticle(r)
    \/ CompleteInTransaction(r) \/ Commit(r)
    \/ Throw(r) \/ rollbackPdfDraftPublication(r) \/ releaseClaim(r)
    \/ RollbackFails(r) \/ Crash(r)

Next == Tick \/ Rest \/ \E r \in Reviews : Step(r)

Spec == Init /\ [][Next]_vars

-----------------------------------------------------------------------------
(* Properties *)

\* Review actions of one draft exclude each other: at most one call in
\* progress holds the claim that is written in the row (claimPendingArticle,
\* and completeClaimedArticle, which asks for the same reviewer and time).
ClaimExclusive ==
    \A r, q \in Reviews :
        /\ review[r].step \in TrySteps /\ review[q].step \in TrySteps
        /\ review[r].draft = review[q].draft
        /\ HasClaim(r) /\ HasClaim(q)
        => r = q

\* A lease is worth what it lasts: a call that works on a draft whose claim it
\* has lost lost it only after its lease expired.
WorkingHoldsLease ==
    \A r \in Reviews :
        review[r].step \in TrySteps => HasClaim(r) \/ now > review[r].claimedAt + Lease

\* A decision is final: no other review, late or repeated, changes the status
\* or the article of a draft that is no longer PENDING.
DecisionIsFinal ==
    [][\A d \in Drafts : draft[d].status # "PENDING" => draft'[d] = draft[d]]_vars

\* A call that answers with success, by its own commit or idempotently, has
\* the status it asked for in the draft for good.
SuccessMeansDecided ==
    \A r \in Reviews :
        review[r].step = "ok" => draft[review[r].draft].status = Wanted(review[r].action)

\* The import is COMPLETED only when no draft is PENDING, and PENDING_REVIEW
\* only when none is decided: concurrent recalculations never overtake that.
ImportStatusSound ==
    /\ importStatus = "COMPLETED" => \A d \in Drafts : draft[d].status # "PENDING"
    /\ importStatus = "PENDING_REVIEW" => \A d \in Drafts : draft[d].status = "PENDING"

\* Compensation: an article that is served while its draft is not approved has
\* a call still at work on it, or one that crashed or could not roll back.
ServedOnlyWhenApproved ==
    \A d \in Drafts :
        kb[d].status = "published" /\ draft[d].status \notin {"APPROVED", "EDITED"}
        => \E r \in Reviews :
              /\ review[r].draft = d
              /\ review[r].step \in TrySteps \cup {"rollback", "crashed", "rollback_failed"}

\* README, "imports PDF revus puis publies de facon idempotente": the article
\* that an approved draft names stays published.  The code does not keep it: a
\* call that lost its claim to another review fails to complete and deletes
\* the article that the other review has just approved.
ApprovedStaysPublished ==
    \A d \in Drafts :
        draft[d].kbArticleId = d => kb[d].status = "published" /\ kb[d].chunks

\* An import whose drafts are all decided is COMPLETED, as the regression test
\* of completeClaimedArticle asserts.  Two READ COMMITTED transactions that
\* decide the last two drafts each count the other one PENDING.
AllDecidedIsCompleted ==
    (\A d \in Drafts : draft[d].status # "PENDING") => importStatus = "COMPLETED"
=============================================================================
