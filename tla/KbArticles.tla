------------------------------ MODULE KbArticles ------------------------------
(***************************************************************************)
(* The articles of one company's knowledge base, the chunks that the       *)
(* retriever searches, and the suggestions that become articles:           *)
(* kb-articles.service.ts over kb.repository.ts.                           *)
(*                                                                         *)
(* A call is a process with one step per database call.  Indexing reads    *)
(* the article, embeds its text outside the database and replaces the      *)
(* chunks in a transaction of its own; the status is written before or     *)
(* after it, and nothing locks the article meanwhile.  The retriever serves *)
(* the chunks of the articles whose status is published.                   *)
(***************************************************************************)
EXTENDS FiniteSets, Naturals

CONSTANTS
    Articles,     \* the identifiers of articles
    Versions,     \* the texts an article may have
    Blank,        \* those with spaces only
    Suggestions,  \* the suggestions made of one human answer
    Calls,        \* the calls received
    KindsOf,      \* the entries that each call may be for
    Targets,      \* the statuses that a caller asks for
    MaxFailures,  \* bound on the failures and the crashes together
    None

Statuses == {"draft", "published", "archived", "rejected"}
Entries == {"create", "update", "publish", "unpublish", "remove", "reject", "rebuild",
            "learnFromHumanResponse", "approveSuggestion", "rejectSuggestion"}

Outcomes == {"ok", "skipped", "error", "crashed"}

ASSUME KbAssumption ==
    /\ KindsOf \in [Calls -> SUBSET Entries] /\ Targets \subseteq Statuses
    /\ Blank \subseteq Versions /\ MaxFailures \in Nat
    /\ None \notin Articles \cup Versions \cup Suggestions \cup Entries \cup Outcomes

VARIABLES
    article,     \* the rows: status and text
    chunks,      \* the text that the chunks of an article were made from
    suggestion,  \* the status of each suggestion
    source,      \* the suggestion an article was made from (a history variable)
    call,        \* what each call knows, and its next step
    unrestored,  \* articles whose compensation or rebuilding was cut short, until they
                 \* are published again (a history variable)
    failures     \* the number of failures so far

vars == <<article, chunks, suggestion, source, call, unrestored, failures>>

Steps == {"idle", "create", "update", "index_read", "index_delete", "index_replace", "publish",
          "delete_chunks", "set_status", "unpublish", "unpublish_chunks", "remove", "reject",
          "clear", "next", "learn", "notify", "approve", "reject_suggestion", "rollback", "restore",
          "restore_chunks", "done"}
Results == Outcomes \cup {None}

Row(status, body) == [status |-> status, body |-> body]
NoArticle == Row("unused", None)
Exists(a) == article[a].status \in Statuses

Rows == [status : Statuses, body : Versions] \cup {NoArticle, Row("deleted", None)}

TypeOK ==
    /\ article \in [Articles -> Rows]
    /\ chunks \in [Articles -> (Versions \ Blank) \cup {None}]
    /\ suggestion \in [Suggestions -> {"none", "pending", "approved", "rejected"}]
    /\ source \in [Articles -> Suggestions \cup {None}]
    /\ call \in [Calls -> [step : Steps, kind : Entries \cup {None}, art : Articles \cup {None},
                           target : Statuses \cup {None}, text : Versions \cup {None},
                           seen : Rows, restoring : BOOLEAN, todo : SUBSET Articles,
                           errors : SUBSET Articles, sug : Suggestions \cup {None},
                           ended : SUBSET Calls, result : Results]]
    /\ unrestored \subseteq Articles
    /\ failures \in 0 .. MaxFailures

NewCall == [step |-> "idle", kind |-> None, art |-> None, target |-> None, text |-> None,
            seen |-> NoArticle, restoring |-> FALSE, todo |-> {}, errors |-> {}, sug |-> None,
            ended |-> {}, result |-> None]

\* Articles at rest: published with chunks, or not published and without.  The answer
\* has one suggestion, made when it was sent, or none.
Init ==
    /\ article \in [Articles -> {NoArticle} \cup
                      {Row(s, v) : s \in {"draft", "published"}, v \in Versions \ Blank}]
    /\ chunks = [a \in Articles |->
                   IF article[a].status = "published" THEN article[a].body ELSE None]
    /\ \E g \in Suggestions, status \in {"none", "pending"} :
         suggestion = [h \in Suggestions |-> IF h = g THEN status ELSE "none"]
    /\ source = [a \in Articles |-> None]
    /\ call = [c \in Calls |-> NewCall]
    /\ unrestored = {}
    /\ failures = 0

-----------------------------------------------------------------------------
(* Helpers *)

Ended == {c \in Calls : call[c].step = "done"}

Goto(c, step) == call' = [call EXCEPT ![c].step = step]

\* What a call no longer needs it forgets.
End(c, result) ==
    call' = [call EXCEPT ![c].step = "done", ![c].result = result, ![c].text = None,
                         ![c].target = None, ![c].seen = NoArticle, ![c].restoring = FALSE]

\* Mutant: nothing is rolled back or restored.
Caught_NoCompensation(c) ==
    IF call[c].kind = "rebuild" /\ call[c].art # None
    THEN call' = [call EXCEPT ![c].step = "next", ![c].art = None,
                              ![c].errors = @ \cup {call[c].art}]
    ELSE End(c, "error")

\* What the catch blocks do: a created article is deleted, an updated one gets its
\* old row back, a rebuild goes on, and the other calls answer the error.
Caught(c) ==
    LET k == call[c] IN
    CASE k.kind \in {"create", "approveSuggestion"}
            /\ k.step \in {"index_read", "index_delete", "index_replace", "publish"} ->
              Goto(c, "rollback")
      [] k.kind = "update" /\ ~k.restoring -> Goto(c, "restore")
      [] k.kind = "rebuild" /\ k.art # None ->
              call' = [call EXCEPT ![c].step = "next", ![c].art = None,
                                   ![c].errors = @ \cup {k.art}]
      [] OTHER -> End(c, "error")

\* updateArticle, which throws when the article is gone.
UpdateArticle(c, row, next) ==
    LET a == call[c].art IN
    IF Exists(a) THEN article' = [article EXCEPT ![a] = row] /\ next
    ELSE Caught(c) /\ UNCHANGED article

-----------------------------------------------------------------------------
(* The entries: each begins by reading what it is about *)

Begin(c, kind, first) ==
    /\ call[c].step = "idle" /\ kind \in KindsOf[c]
    /\ call' = [call EXCEPT ![c] = [first EXCEPT !.kind = kind, !.ended = Ended]]
    /\ UNCHANGED <<article, chunks, suggestion, source, unrestored, failures>>

\* A call about an article that does not exist is refused.
BeginOn(c, kind, a, first) ==
    Begin(c, kind, IF Exists(a) THEN [first EXCEPT !.art = a]
                   ELSE [NewCall EXCEPT !.step = "done", !.result = "error"])

\* POST /knowledge-base, and the two imports, whose text comes from the ingestion.
create(c, target, text) ==
    Begin(c, "create", [NewCall EXCEPT !.step = "create", !.target = target, !.text = text])

\* PUT /knowledge-base/:id.  What is left out of the request stays as it is.
update(c, a, target, text) ==
    BeginOn(c, "update", a,
            [NewCall EXCEPT !.step = "update", !.seen = article[a],
                            !.target = IF target = None THEN article[a].status ELSE target,
                            !.text = text])

\* PATCH /knowledge-base/:id/publish.
publish(c, a, published) ==
    IF published THEN BeginOn(c, "publish", a, [NewCall EXCEPT !.step = "index_read"])
    ELSE BeginOn(c, "unpublish", a, [NewCall EXCEPT !.step = "unpublish"])

\* DELETE /knowledge-base/:id and PATCH /knowledge-base/:id/reject.
remove(c, a) == BeginOn(c, "remove", a, [NewCall EXCEPT !.step = "remove"])
reject(c, a) == BeginOn(c, "reject", a, [NewCall EXCEPT !.step = "reject"])

\* POST /knowledge-base/rebuild, and the script: the published articles are listed.
rebuildCompanyKb(c) ==
    Begin(c, "rebuild", [NewCall EXCEPT !.step = "clear",
                            !.todo = {a \in Articles : article[a].status = "published"}])

\* POST /knowledge-base/learn-from-human-response: the answer may have a suggestion.
learnFromHumanResponse(c) ==
    Begin(c, "learnFromHumanResponse",
          IF \E g \in Suggestions : suggestion[g] # "none"
          THEN [NewCall EXCEPT !.step = "done", !.result = "skipped"]
          ELSE [NewCall EXCEPT !.step = "learn"])

\* A suggestion that does not exist is refused.
BeginReview(c, kind, g, first) ==
    Begin(c, kind, IF suggestion[g] # "none" THEN [first EXCEPT !.sug = g]
                   ELSE [NewCall EXCEPT !.step = "done", !.result = "error"])

\* Mutant: alreadyApproved is forgotten.
approveSuggestion_Again(c, g, text) ==
    BeginReview(c, "approveSuggestion", g,
                [NewCall EXCEPT !.step = "create", !.text = text, !.target = "published"])

\* PATCH /knowledge-base/suggestions/:id/approve: the status is read once.
approveSuggestion(c, g, text) ==
    BeginReview(c, "approveSuggestion", g,
          IF suggestion[g] = "approved"
          THEN [NewCall EXCEPT !.step = "done", !.result = "skipped"]
          ELSE [NewCall EXCEPT !.step = "create", !.text = text, !.target = "published"])

\* PATCH /knowledge-base/suggestions/:id/reject.
rejectSuggestion(c, g) ==
    BeginReview(c, "rejectSuggestion", g, [NewCall EXCEPT !.step = "reject_suggestion"])

-----------------------------------------------------------------------------
(* Writing the articles *)

\* The row is a draft until it is indexed.
createArticle(c, a) ==
    LET k == call[c] IN
    /\ k.step = "create"
    /\ article[a] = NoArticle
    /\ article' = [article EXCEPT
                     ![a] = Row(IF k.target = "published" THEN "draft" ELSE k.target, k.text)]
    /\ source' = [source EXCEPT ![a] = k.sug]
    /\ IF k.target = "published"
       THEN call' = [call EXCEPT ![c].art = a, ![c].step = "index_read", ![c].text = None]
       ELSE End(c, "ok")
    /\ UNCHANGED <<chunks, suggestion, unrestored, failures>>

\* The first write of update: the new text, as a draft.
writeDraft(c) ==
    LET k == call[c] IN
    /\ k.step = "update"
    /\ UpdateArticle(c, Row("draft", IF k.text = None THEN article[k.art].body ELSE k.text),
                     Goto(c, IF k.target = "published" THEN "index_read" ELSE "delete_chunks"))
    /\ UNCHANGED <<chunks, suggestion, source, unrestored, failures>>

\* The last write of create, update, publish and approveSuggestion.
writePublished(c) ==
    LET a == call[c].art IN
    /\ call[c].step = "publish"
    /\ UpdateArticle(c, Row("published", article[a].body),
                     IF call[c].kind = "approveSuggestion" THEN Goto(c, "approve")
                     ELSE End(c, "ok"))
    /\ unrestored' = unrestored \ {a}
    /\ UNCHANGED <<chunks, suggestion, source, failures>>

\* The other statuses of update: the chunks first, then the status.
writeStatus(c) ==
    LET k == call[c] IN
    /\ k.step = "set_status"
    /\ UpdateArticle(c, Row(k.target, article[k.art].body), End(c, "ok"))
    /\ UNCHANGED <<chunks, suggestion, source, unrestored, failures>>

\* publish with published = FALSE: the status first, then the chunks.
writeUnpublished(c) ==
    LET k == call[c] IN
    /\ k.step = "unpublish"
    /\ UpdateArticle(c, Row("draft", article[k.art].body), Goto(c, "unpublish_chunks"))
    /\ UNCHANGED <<chunks, suggestion, source, unrestored, failures>>

\* The chunks stay: the status hides them.
writeRejected(c) ==
    LET k == call[c] IN
    /\ k.step = "reject"
    /\ UpdateArticle(c, Row("rejected", article[k.art].body), End(c, "ok"))
    /\ UNCHANGED <<chunks, suggestion, source, unrestored, failures>>

Deleted(a) == /\ article' = [article EXCEPT ![a] = Row("deleted", None)]
              /\ chunks' = [chunks EXCEPT ![a] = None]

\* deleteArticle: the chunks and the row in one transaction, which throws when the
\* row is gone.  rollbackCreatedArticle swallows that, and the caller gets the
\* first error.
deleteArticle(c) ==
    LET k == call[c] IN
    /\ k.step \in {"remove", "rollback"}
    /\ IF Exists(k.art) THEN Deleted(k.art) ELSE UNCHANGED <<article, chunks>>
    /\ End(c, IF k.step = "remove" /\ Exists(k.art) THEN "ok" ELSE "error")
    /\ UNCHANGED <<suggestion, source, unrestored, failures>>

\* deleteChunksByArticleId, before the status of update, after the one of publish, and
\* in the compensation of an article that was not published.
deleteChunksByArticleId(c) ==
    LET k == call[c] IN
    /\ k.step \in {"delete_chunks", "unpublish_chunks", "restore_chunks"}
    /\ chunks' = [chunks EXCEPT ![k.art] = None]
    /\ CASE k.step = "delete_chunks" -> Goto(c, "set_status")
         [] k.step = "unpublish_chunks" -> End(c, "ok")
         [] k.step = "restore_chunks" -> End(c, "error")
    /\ UNCHANGED <<article, suggestion, source, unrestored, failures>>

-----------------------------------------------------------------------------
(* reindexArticle *)

\* Mutant: a suggestion is approved as soon as its article is indexed.
AfterIndex_Approved(c) ==
    CASE call[c].restoring -> End(c, "error")
      [] call[c].kind = "rebuild" -> call' = [call EXCEPT ![c].step = "next", ![c].art = None]
      [] call[c].kind = "approveSuggestion" -> Goto(c, "approve")
      [] OTHER -> call' = [call EXCEPT ![c].step = "publish", ![c].text = None]

\* What follows the indexing, for each caller.
AfterIndex(c) ==
    CASE call[c].restoring -> End(c, "error")
      [] call[c].kind = "rebuild" -> call' = [call EXCEPT ![c].step = "next", ![c].art = None]
      [] OTHER -> call' = [call EXCEPT ![c].step = "publish", ![c].text = None]

\* Mutant: the text is not trimmed.
reindexRead_Untrimmed(c) ==
    LET row == article[call[c].art] IN
    /\ call[c].step = "index_read"
    /\ IF ~Exists(call[c].art) THEN Caught(c)
       ELSE IF row.status # "published" /\ call[c].kind = "rebuild" THEN Goto(c, "index_delete")
       ELSE call' = [call EXCEPT ![c].step = "index_replace", ![c].text = row.body]
    /\ UNCHANGED <<article, chunks, suggestion, source, unrestored, failures>>

\* The row is read: an article that nobody publishes, or without text, loses its
\* chunks; the text of the others goes to the ingestion.
reindexRead(c) ==
    LET row == article[call[c].art] IN
    /\ call[c].step = "index_read"
    /\ IF ~Exists(call[c].art) THEN Caught(c)
       ELSE IF (row.status # "published" /\ call[c].kind = "rebuild") \/ row.body \in Blank
       THEN Goto(c, "index_delete")
       ELSE call' = [call EXCEPT ![c].step = "index_replace", ![c].text = row.body]
    /\ UNCHANGED <<article, chunks, suggestion, source, unrestored, failures>>

reindexDelete(c) ==
    /\ call[c].step = "index_delete"
    /\ chunks' = [chunks EXCEPT ![call[c].art] = None]
    /\ AfterIndex(c)
    /\ UNCHANGED <<article, suggestion, source, unrestored, failures>>

\* replaceChunksByArticleId: the article must still exist, whatever its text is now.
replaceChunks(c) ==
    LET k == call[c] IN
    /\ k.step = "index_replace"
    /\ IF Exists(k.art)
       THEN chunks' = [chunks EXCEPT ![k.art] = k.text] /\ AfterIndex(c)
       ELSE Caught(c) /\ UNCHANGED chunks
    /\ UNCHANGED <<article, suggestion, source, unrestored, failures>>

\* The rebuild deletes every chunk of the company, then indexes what it has listed.
deleteChunksForCompany(c) ==
    /\ call[c].step = "clear"
    /\ chunks' = [a \in Articles |-> None]
    /\ Goto(c, "next")
    /\ UNCHANGED <<article, suggestion, source, unrestored, failures>>

\* Mutant: the last article of the list is forgotten.
nextArticle_ButLast(c) ==
    LET todo == call[c].todo IN
    /\ call[c].step = "next"
    /\ IF Cardinality(todo) <= 1 THEN End(c, "ok")
       ELSE \E a \in todo : call' = [call EXCEPT ![c].step = "index_read", ![c].art = a,
                                                 ![c].todo = todo \ {a}]
    /\ UNCHANGED <<article, chunks, suggestion, source, unrestored, failures>>

nextArticle(c) ==
    LET todo == call[c].todo IN
    /\ call[c].step = "next"
    /\ IF todo = {} THEN End(c, "ok")
       ELSE \E a \in todo : call' = [call EXCEPT ![c].step = "index_read", ![c].art = a,
                                                 ![c].todo = todo \ {a}]
    /\ UNCHANGED <<article, chunks, suggestion, source, unrestored, failures>>

\* Mutant: the row gets its text back and its chunks do not.
restoreArticleSnapshot_RowOnly(c) ==
    LET k == call[c] IN
    /\ k.step = "restore"
    /\ article' = IF Exists(k.art) THEN [article EXCEPT ![k.art] = k.seen] ELSE article
    /\ End(c, "error")
    /\ UNCHANGED <<chunks, suggestion, source, unrestored, failures>>

\* restoreArticleSnapshot: the row as update had read it, then its chunks.
restoreArticleSnapshot(c) ==
    LET k == call[c] IN
    /\ k.step = "restore"
    /\ IF Exists(k.art)
       THEN /\ article' = [article EXCEPT ![k.art] = k.seen]
            /\ call' = [call EXCEPT ![c].restoring = TRUE, ![c].text = None,
                          ![c].step = IF k.seen.status = "published" THEN "index_read"
                                      ELSE "restore_chunks"]
       ELSE End(c, "error") /\ UNCHANGED article
    /\ UNCHANGED <<chunks, suggestion, source, unrestored, failures>>

-----------------------------------------------------------------------------
(* The suggestions *)

\* Nothing but the read above keeps the answer from a second suggestion.
createSuggestion(c, g) ==
    /\ call[c].step = "learn"
    /\ suggestion[g] = "none"
    /\ suggestion' = [suggestion EXCEPT ![g] = "pending"]
    /\ Goto(c, "notify")
    /\ UNCHANGED <<article, chunks, source, unrestored, failures>>

\* The notification of the company.
notify(c) ==
    /\ call[c].step = "notify"
    /\ End(c, "ok")
    /\ UNCHANGED <<article, chunks, suggestion, source, unrestored, failures>>

\* After the article is published, outside the try block.
writeApproved(c) ==
    /\ call[c].step = "approve"
    /\ suggestion' = [suggestion EXCEPT ![call[c].sug] = "approved"]
    /\ End(c, "ok")
    /\ UNCHANGED <<article, chunks, source, unrestored, failures>>

\* Whatever the status is.
writeSuggestionRejected(c) ==
    /\ call[c].step = "reject_suggestion"
    /\ suggestion' = [suggestion EXCEPT ![call[c].sug] = "rejected"]
    /\ End(c, "ok")
    /\ UNCHANGED <<article, chunks, source, unrestored, failures>>

-----------------------------------------------------------------------------
(* Failures *)

\* The articles that a call leaves half done if it is cut short in a compensation
\* or a rebuild.
LeftHalfDone(c) ==
    CASE call[c].step \in {"rollback", "restore", "restore_chunks"} \/ call[c].restoring ->
              {call[c].art}
      [] call[c].kind = "rebuild" -> (call[c].todo \cup {call[c].art}) \ {None}
      [] OTHER -> {}

\* A database call, the ingestion or the embedding fails.  While a rebuild has no
\* article in hand the whole rebuild fails, before or after it has listed them.
Throw(c) ==
    /\ failures < MaxFailures
    /\ call[c].step \notin {"idle", "done", "next"}
    /\ failures' = failures + 1
    /\ unrestored' = IF call[c].kind = "rebuild" THEN unrestored
                     ELSE unrestored \cup LeftHalfDone(c)
    /\ IF call[c].step \in {"rollback", "restore"} THEN End(c, "error") ELSE Caught(c)
    /\ UNCHANGED <<article, chunks, suggestion, source>>

\* The server stops: no catch block runs.
Crash(c) ==
    /\ failures < MaxFailures
    /\ call[c].step \notin {"idle", "done"}
    /\ failures' = failures + 1
    /\ unrestored' = unrestored \cup LeftHalfDone(c)
    /\ End(c, "crashed")
    /\ UNCHANGED <<article, chunks, suggestion, source>>

-----------------------------------------------------------------------------

\* What users send, and what the server then does.
Enter(c) ==
    \/ \E target \in Targets, text \in Versions : create(c, target, text)
    \/ \E a \in Articles, target \in Targets \cup {None}, text \in Versions \cup {None} :
          update(c, a, target, text)
    \/ \E a \in Articles, published \in BOOLEAN : publish(c, a, published)
    \/ \E a \in Articles : remove(c, a) \/ reject(c, a)
    \/ rebuildCompanyKb(c) \/ learnFromHumanResponse(c)
    \/ \E g \in Suggestions, text \in Versions \ Blank : approveSuggestion(c, g, text)
    \/ \E g \in Suggestions : rejectSuggestion(c, g)

Work(c) ==
    \/ \E a \in Articles : createArticle(c, a)
    \/ writeDraft(c) \/ writePublished(c) \/ writeStatus(c) \/ writeUnpublished(c)
    \/ writeRejected(c) \/ deleteArticle(c) \/ deleteChunksByArticleId(c)
    \/ reindexRead(c) \/ reindexDelete(c) \/ replaceChunks(c)
    \/ deleteChunksForCompany(c) \/ nextArticle(c) \/ restoreArticleSnapshot(c)
    \/ \E g \in Suggestions : createSuggestion(c, g)
    \/ notify(c) \/ writeApproved(c) \/ writeSuggestionRejected(c)

\* Nothing is left to do: every call has ended, or finds none of the model's few
\* identifiers for what it creates.
Rest ==
    /\ \A c \in Calls : \/ call[c].step = "done"
                        \/ /\ call[c].step = "create"
                           /\ \A a \in Articles : article[a] # NoArticle
                        \/ /\ call[c].step = "learn"
                           /\ \A g \in Suggestions : suggestion[g] # "none"
    /\ UNCHANGED vars

Next == Rest \/ \E c \in Calls : Enter(c) \/ Work(c) \/ Throw(c) \/ Crash(c)

Spec == Init /\ [][Next]_vars

\* A call that has begun goes on: every step awaits a call that answers or throws.
\* Nobody is obliged to send a call.
Fairness == \A c \in Calls : WF_vars(Work(c))

FairSpec == Spec /\ Fairness

-----------------------------------------------------------------------------
(* Properties *)

\* Two calls overlap unless one had ended before the other began; both may write an
\* article when both are about it, and a rebuild is about every article.
Begun == {c \in Calls : call[c].step # "idle"}
Overlap(c, d) == c # d /\ c \notin call[d].ended /\ d \notin call[c].ended
About(c) == IF call[c].kind = "rebuild" THEN Articles ELSE {call[c].art}
Contended(a) == \E c, d \in Begun : Overlap(c, d) /\ a \in About(c) \cap About(d)
AtWork(a) == \E c \in Begun \ Ended : a \in About(c)

\* The articles that a rebuild has reported as not indexed.
Reported == UNION {call[c].errors : c \in Calls}

\* What the retriever finds is the present text: a published article at rest has the
\* chunks of its own text (none when it is blank, or when a rebuild has reported or left
\* it), unless calls overlapped on it or a compensation was cut short.
IndexFollowsBody ==
    \A a \in Articles :
        article[a].status = "published" /\ ~AtWork(a) /\ ~Contended(a) =>
            \/ a \in unrestored
            \/ article[a].body \in Blank /\ chunks[a] = None
            \/ chunks[a] = article[a].body
            \/ chunks[a] = None /\ a \in Reported

\* What customers are answered from: the chunks of a published article, of its text.
Served(a) == article[a].status = "published" /\ chunks[a] = article[a].body

\* An update or a creation that answers an error leaves no trace, although it writes the
\* row, the chunks and the status separately: the article is gone, or has the row that
\* was read and, if published, the chunks of its text.
ErrorLeavesNoTrace ==
    [][\A c \in Calls :
         LET a == call[c].art
             old == call[c].seen
         IN /\ call[c].step # "done" /\ call'[c].step = "done" /\ call'[c].result = "error"
            /\ a # None /\ ~Contended(a) /\ a \notin unrestored'
            => /\ call[c].kind = "create" => article'[a].status = "deleted" /\ chunks'[a] = None
               /\ call[c].kind = "update" =>
                    /\ article'[a] = old
                    /\ old.status = "published" /\ old.body \notin Blank => chunks'[a] = old.body]_vars

\* An approved suggestion has an article made from it, and unless other calls were about
\* that article the customers are served with it.
ApprovedIsServed ==
    \A g \in Suggestions : suggestion[g] = "approved" =>
        \E a \in Articles :
            /\ source[a] = g
            /\ (\A c \in Begun : a \in About(c) => call[c].kind = "approveSuggestion") => Served(a)

\* The same human answer is published twice only if two approvals or two requests to
\* learn it overlapped, the last write of an approval was cut short, or the suggestion was
\* rejected meanwhile.
OneArticlePerAnswer ==
    Cardinality({a \in Articles : source[a] # None /\ article[a].status = "published"}) > 1 =>
        \/ \E c, d \in Begun : /\ Overlap(c, d) /\ call[c].kind = call[d].kind
                               /\ call[c].kind \in {"approveSuggestion", "learnFromHumanResponse"}
        \/ \E c \in Begun : /\ call[c].kind = "approveSuggestion"
                            /\ call[c].result \in {"error", "crashed"}
        \/ \E c \in Begun : call[c].kind = "rejectSuggestion"

\* A rebuild deletes all chunks first: every published article it has listed gets chunks
\* again, or is reported, unless it has no text, is no longer published or the server stops.
RebuildRestoresIndex ==
    \A c \in Calls, a \in Articles :
        (call[c].kind = "rebuild" /\ call[c].step # "clear" /\ a \in call[c].todo)
            ~> \/ chunks[a] # None
               \/ article[a].status # "published" \/ article[a].body \in Blank
               \/ a \in call[c].errors
               \/ call[c].result \in {"error", "crashed"}
=============================================================================
