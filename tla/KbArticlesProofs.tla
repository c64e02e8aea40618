------------------------ MODULE KbArticlesProofs ------------------------
(***************************************************************************)
(* What holds of the knowledge base for every set of articles, texts,      *)
(* suggestions and calls, and every number of failures.                    *)
(***************************************************************************)
EXTENDS KbArticles, FiniteSetTheorems, TLAPS

CallRows == [step : Steps, kind : Entries \cup {None}, art : Articles \cup {None},
             target : Statuses \cup {None}, text : Versions \cup {None},
             seen : Rows, restoring : BOOLEAN, todo : SUBSET Articles,
             errors : SUBSET Articles, sug : Suggestions \cup {None},
             ended : SUBSET Calls, result : Results]

\* A row of an article that exists.
LiveRows == [status : Statuses, body : Versions]

Indexing == {"index_read", "index_delete", "index_replace"}

\* The steps of a call that has an article, and has none.
WithArticle == Indexing \cup {"update", "publish", "delete_chunks", "set_status", "unpublish",
                "unpublish_chunks", "remove", "reject", "approve", "rollback", "restore",
                "restore_chunks"}
WithoutArticle == {"create", "clear", "next", "learn", "notify", "reject_suggestion"}

-----------------------------------------------------------------------------
(* The inductive invariant *)

\* The entry whose call is at a step.
KindAt(q) ==
    /\ q.step # "idle" => q.kind \in Entries
    /\ q.step = "create" => q.kind \in {"create", "approveSuggestion"}
    /\ q.step = "rollback" => q.kind \in {"create", "approveSuggestion"}
    /\ q.step \in {"update", "delete_chunks", "set_status", "restore", "restore_chunks"} =>
          q.kind = "update"
    /\ q.step \in Indexing =>
          q.kind \in {"create", "update", "publish", "rebuild", "approveSuggestion"}
    /\ q.step = "publish" => q.kind \in {"create", "update", "publish", "approveSuggestion"}
    /\ q.step \in {"unpublish", "unpublish_chunks"} => q.kind = "unpublish"
    /\ q.step = "remove" => q.kind = "remove"
    /\ q.step = "reject" => q.kind = "reject"
    /\ q.step \in {"clear", "next"} => q.kind = "rebuild"
    /\ q.step \in {"learn", "notify"} => q.kind = "learnFromHumanResponse"
    /\ q.step = "approve" => q.kind = "approveSuggestion"
    /\ q.step = "reject_suggestion" => q.kind = "rejectSuggestion"

\* What a call knows at each step.
Knows(q) ==
    /\ KindAt(q)
    /\ q.step = "idle" => q = NewCall
    /\ q.step \in WithArticle => q.art \in Articles
    /\ q.step \in WithoutArticle => q.art = None
    /\ q.step = "create" => q.text \in Versions /\ q.target \in Statuses
    /\ q.step = "create" /\ q.kind = "approveSuggestion" =>
          q.text \notin Blank /\ q.target = "published"
    /\ q.step = "update" => q.target \in Statuses
    /\ q.step \in {"delete_chunks", "set_status"} => q.target \in Statuses \ {"published"}
    /\ q.step = "index_replace" => q.text \in Versions \ Blank
    /\ q.restoring => q.kind = "update" /\ q.step \in Indexing \cup {"restore_chunks"}
    /\ q.restoring /\ q.step \in Indexing => q.seen.status = "published"
    /\ q.step = "restore_chunks" => q.restoring /\ q.seen.status # "published"
    /\ q.kind = "update" /\ q.step # "done" => q.seen \in LiveRows
    /\ q.kind = "rebuild" => q.art \notin q.todo
    /\ q.sug # None => q.kind \in {"approveSuggestion", "rejectSuggestion"}
    /\ q.kind = "approveSuggestion" /\ q.step # "done" => q.sug \in Suggestions /\ q.result = None
    /\ q.step = "reject_suggestion" => q.sug \in Suggestions
    /\ q.kind = "approveSuggestion" /\ q.step = "done" => q.result # None
    /\ q.kind = "approveSuggestion" /\ q.art # None => q.sug # None /\ q.result # "skipped"
    /\ q.kind = "approveSuggestion" /\ q.result = "ok" => q.step = "done" /\ q.art # None

\* The articles of a call have been created, and are its own if it has created them.
Named(c) ==
    \A a \in Articles : a \in call[c].todo \cup {call[c].art} => article[a] # NoArticle
CreatedOnce ==
    \A c, d \in Calls :
        /\ call[c].kind \in {"create", "approveSuggestion"} /\ call[c].art # None
        /\ call[d].kind \in {"create", "approveSuggestion"} /\ call[d].art = call[c].art
        => c = d

\* Only what has ended is remembered as ended.
EndedEnded == \A c \in Calls : call[c].ended \subseteq Ended

Core == TypeOK /\ (\A c \in Calls : Knows(call[c]) /\ Named(c)) /\ EndedEnded

Working(c, a) == call[c].step \notin {"idle", "done"} /\ a \in About(c)

\* The chunks are made from the text, or there is none.
Indexed(a) == chunks[a] = article[a].body \/ (article[a].body \in Blank /\ chunks[a] = None)

\* What IndexFollowsBody asks of an article.
Safe(a) ==
    article[a].status = "published" =>
        a \in unrestored \/ Indexed(a) \/ (chunks[a] = None /\ a \in Reported)

\* The steps at which only a history variable would excuse a crash.
Unsettled(c, a) ==
    \/ call[c].restoring /\ call[c].art = a
    \/ call[c].kind = "rebuild" /\ call[c].step # "clear" /\ a \in call[c].todo \cup {call[c].art}

\* What the only call at work on an article knows of it.
HoldsOn(c, a) ==
    LET q == call[c]
        row == article[a]
    IN
    /\ q.kind \in {"create", "update"} => Exists(a)
    /\ q.step = "update" => row = q.seen
    /\ q.restoring => row = q.seen
    /\ q.kind \in {"create", "update", "approveSuggestion"} /\ ~q.restoring
          /\ q.step \in Indexing \cup {"publish", "delete_chunks", "set_status", "rollback"}
       => row.status # "published"
    /\ q.step = "unpublish_chunks" => row.status # "published"
    /\ q.step = "publish" => Indexed(a)
    /\ q.step = "index_replace" /\ q.art = a => q.text = row.body
    /\ q.step = "index_delete" /\ q.art = a =>
          row.body \in Blank \/ (q.kind = "rebuild" /\ row.status # "published")
    /\ q.step = "clear" /\ a \notin q.todo => row.status # "published"
    /\ q.kind = "rebuild" /\ q.step # "clear" /\ a \in q.todo \cup {q.art} => chunks[a] = None

Covered(c, a) == HoldsOn(c, a) /\ (Unsettled(c, a) \/ Safe(a))

IndexInv ==
    \A a \in Articles : ~Contended(a) =>
        /\ (\A c \in Calls : ~Working(c, a)) => Safe(a)
        /\ \A c \in Calls : Working(c, a) => Covered(c, a)

\* The articles that only the approval that made them has touched.
OnlyApproved(a) ==
    \A c \in Begun : a \in About(c) => call[c].kind = "approveSuggestion"

\* How far an approval has brought its article.
Approving(c) ==
    LET q == call[c]
        a == q.art
    IN
    q.kind = "approveSuggestion" /\ a # None =>
        /\ source[a] = q.sug
        /\ OnlyApproved(a) =>
             /\ q.step \in Indexing \cup {"publish"} => Exists(a) /\ article[a].body \notin Blank
             /\ q.step # "index_delete"
             /\ q.step = "index_replace" => q.text = article[a].body
             /\ q.step = "publish" => chunks[a] = article[a].body
             /\ q.step = "approve" \/ q.result = "ok" => Served(a)

\* Every article with a source was made by an approval, and every approved suggestion
\* has been approved by one.
MadeByApproval ==
    /\ \A a \in Articles : source[a] # None =>
         \E c \in Calls : call[c].kind = "approveSuggestion" /\ call[c].art = a
    /\ \A g \in Suggestions : suggestion[g] = "approved" =>
         \E c \in Calls : call[c].kind = "approveSuggestion" /\ call[c].sug = g
                             /\ call[c].result = "ok"

Rejections == \E c \in Begun : call[c].kind = "rejectSuggestion"
Overlapping(kind) == \E c, d \in Begun : Overlap(c, d) /\ call[c].kind = kind /\ call[d].kind = kind

\* An approval that succeeded is remembered, and no later one makes another article.
ApprovalKept ==
    \A c \in Calls : call[c].kind = "approveSuggestion" /\ call[c].result = "ok" =>
        \/ Rejections
        \/ /\ suggestion[call[c].sug] = "approved"
           /\ \A d \in Calls :
                /\ call[d].kind = "approveSuggestion" /\ c \in call[d].ended
                /\ call[d].art # None \/ call[d].step = "create"
                => call[d].sug # call[c].sug

\* The answer has one suggestion, unless two requests to learn it overlapped.
OneSuggestion ==
    ~Overlapping("learnFromHumanResponse") =>
        /\ \A g, h \in Suggestions : suggestion[g] # "none" /\ suggestion[h] # "none" => g = h
        /\ \A c \in Calls : call[c].step = "learn" => \A g \in Suggestions : suggestion[g] = "none"

\* What is reviewed was suggested.
Suggested == \A c \in Calls : call[c].sug # None => suggestion[call[c].sug] # "none"

SuggestionInv ==
    /\ CreatedOnce /\ (\A c \in Calls : Approving(c)) /\ MadeByApproval
    /\ ApprovalKept /\ OneSuggestion /\ Suggested

IInv == Core /\ IndexInv /\ SuggestionInv

-----------------------------------------------------------------------------
(* What a step does to the call that takes it *)

Names == /\ None \notin Articles /\ None \notin Versions /\ None \notin Suggestions
         /\ None \notin Entries /\ None \notin Outcomes

LEMMA NoneIsNoName == Names
BY KbAssumption DEF Names

Only(c) ==
    /\ call' \in [Calls -> CallRows]
    /\ \A d \in Calls : d # c => call'[d] = call[d]

\* What each way of going on makes of a row q.
SameRequest(p, q) ==
    /\ p.kind = q.kind /\ p.sug = q.sug /\ p.ended = q.ended /\ p.todo = q.todo
SameTask(p, q) ==
    /\ SameRequest(p, q)
    /\ p.target = q.target /\ p.seen = q.seen /\ p.restoring = q.restoring /\ p.result = q.result

Goes(p, q, step) ==
    /\ SameTask(p, q) /\ p.step = step
    /\ p.art = q.art /\ p.text = q.text /\ p.errors = q.errors
Forgets(p, q, step) ==
    /\ SameTask(p, q) /\ p.step = step
    /\ p.art = q.art /\ p.text = None /\ p.errors = q.errors
Leaves(p, q, errors) ==
    /\ SameTask(p, q) /\ p.step = "next"
    /\ p.art = None /\ p.text = q.text /\ p.errors = errors
Ends(p, q, result) ==
    /\ SameRequest(p, q) /\ p.step = "done" /\ p.result = result
    /\ p.target = None /\ p.seen = NoArticle /\ p.restoring = FALSE
    /\ p.art = q.art /\ p.text = None /\ p.errors = q.errors

LEMMA RowOf ==
    ASSUME TypeOK, NEW c \in Calls
    PROVE  call[c] \in CallRows /\ call \in [Calls -> CallRows]
BY DEF TypeOK, CallRows

LEMMA RowsTyped ==
    /\ NoArticle \in Rows /\ LiveRows \subseteq Rows /\ Row("deleted", None) \in Rows
    /\ \A row \in LiveRows : row # NoArticle /\ row.status \in Statuses
    /\ NoArticle.status \notin Statuses /\ Row("deleted", None).status \notin Statuses
    /\ Row("deleted", None) # NoArticle /\ Row("deleted", None).status = "deleted"
    /\ \A status \in Statuses, body \in Versions :
         /\ Row(status, body) \in LiveRows
         /\ Row(status, body).status = status /\ Row(status, body).body = body
BY DEF NoArticle, LiveRows, Rows, Row, Statuses

LEMMA Existing ==
    ASSUME TypeOK, NEW a \in Articles
    PROVE  /\ article[a] \in Rows
           /\ Exists(a) => article[a] \in LiveRows /\ article[a] # NoArticle
                             /\ article[a].body \in Versions
           /\ article[a] \in LiveRows => Exists(a)
BY DEF TypeOK, Rows, Exists, NoArticle, LiveRows, Row, Statuses

LEMMA GotoEffect ==
    ASSUME TypeOK, NEW c \in Calls, NEW step \in Steps, Goto(c, step)
    PROVE  Only(c) /\ Goes(call'[c], call[c], step)
<1> DEFINE row == [call[c] EXCEPT !.step = step]
<1>1. call[c] \in CallRows /\ call \in [Calls -> CallRows]
  BY RowOf
<1>2. call' = [call EXCEPT ![c] = row]
  BY <1>1 DEF Goto, CallRows
<1>3. row \in CallRows /\ Goes(row, call[c], step)
  BY <1>1 DEF CallRows, Goes, SameTask, SameRequest
<1> HIDE DEF row
<1>4. QED
  BY <1>1, <1>2, <1>3 DEF Only

LEMMA ForgetEffect ==
    ASSUME TypeOK, NEW c \in Calls, NEW step \in Steps,
           call' = [call EXCEPT ![c].step = step, ![c].text = None]
    PROVE  Only(c) /\ Forgets(call'[c], call[c], step)
<1> DEFINE row == [call[c] EXCEPT !.step = step, !.text = None]
<1>1. call[c] \in CallRows /\ call \in [Calls -> CallRows]
  BY RowOf
<1>2. call' = [call EXCEPT ![c] = row]
  BY <1>1 DEF CallRows
<1>3. row \in CallRows /\ Forgets(row, call[c], step)
  BY <1>1 DEF CallRows, Forgets, SameTask, SameRequest
<1> HIDE DEF row
<1>4. QED
  BY <1>1, <1>2, <1>3 DEF Only

LEMMA LeaveEffect ==
    ASSUME TypeOK, NEW c \in Calls, NEW errors \in SUBSET Articles,
           call' = [call EXCEPT ![c].step = "next", ![c].art = None, ![c].errors = errors]
    PROVE  Only(c) /\ Leaves(call'[c], call[c], errors)
<1> DEFINE row == [call[c] EXCEPT !.step = "next", !.art = None, !.errors = errors]
<1>1. call[c] \in CallRows /\ call \in [Calls -> CallRows] /\ "next" \in Steps
  BY RowOf DEF Steps
<1>2. call' = [call EXCEPT ![c] = row]
  BY <1>1 DEF CallRows
<1>3. row \in CallRows /\ Leaves(row, call[c], errors)
  BY <1>1 DEF CallRows, Leaves, SameTask, SameRequest
<1> HIDE DEF row
<1>4. QED
  BY <1>1, <1>2, <1>3 DEF Only

LEMMA EndEffect ==
    ASSUME TypeOK, NEW c \in Calls, NEW result \in Outcomes, End(c, result)
    PROVE  Only(c) /\ Ends(call'[c], call[c], result)
<1> DEFINE row == [call[c] EXCEPT !.step = "done", !.result = result, !.text = None,
                                  !.target = None, !.seen = NoArticle, !.restoring = FALSE]
<1>1. call[c] \in CallRows /\ call \in [Calls -> CallRows] /\ "done" \in Steps
      /\ NoArticle \in Rows /\ result \in Results
  BY RowOf, RowsTyped DEF Steps, Results
<1>2. call' = [call EXCEPT ![c] = row]
  BY <1>1 DEF CallRows, End
<1>3. row \in CallRows
  BY <1>1 DEF CallRows
<1>4. Ends(row, call[c], result)
  BY <1>1 DEF CallRows, Ends, SameRequest
<1> HIDE DEF row
<1>5. QED
  BY <1>1, <1>2, <1>3, <1>4 DEF Only

\* The catch blocks.
CaughtTo(p, q) ==
    \/ /\ q.kind \in {"create", "approveSuggestion"} /\ q.step \in Indexing \cup {"publish"}
       /\ Goes(p, q, "rollback")
    \/ q.kind = "update" /\ ~q.restoring /\ Goes(p, q, "restore")
    \/ q.kind = "rebuild" /\ q.art # None /\ Leaves(p, q, q.errors \cup {q.art})
    \/ /\ q.kind \in {"create", "approveSuggestion"} => q.step \notin Indexing \cup {"publish"}
       /\ q.kind = "update" => q.restoring
       /\ q.kind = "rebuild" => q.art = None
       /\ Ends(p, q, "error")

LEMMA CaughtEffect ==
    ASSUME TypeOK, NEW c \in Calls, Caught(c)
    PROVE  Only(c) /\ CaughtTo(call'[c], call[c])
<1> DEFINE q == call[c]
           rolls == q.kind \in {"create", "approveSuggestion"}
                      /\ q.step \in {"index_read", "index_delete", "index_replace", "publish"}
           restores == q.kind = "update" /\ ~q.restoring
           leaves == q.kind = "rebuild" /\ q.art # None
<1>1. {"index_read", "index_delete", "index_replace", "publish"} = Indexing \cup {"publish"}
  BY DEF Indexing
<1>2. q \in CallRows /\ "rollback" \in Steps /\ "restore" \in Steps /\ "error" \in Outcomes
  BY RowOf DEF Steps, Outcomes
<1>3. CASE rolls
  <2>1. Goto(c, "rollback")
    BY <1>3 DEF Caught
  <2>2. QED
    BY <1>1, <1>2, <1>3, <2>1, GotoEffect DEF CaughtTo
<1>4. CASE ~rolls /\ restores
  <2>1. Goto(c, "restore")
    BY <1>4 DEF Caught
  <2>2. QED
    BY <1>2, <1>4, <2>1, GotoEffect DEF CaughtTo
<1>5. CASE leaves
  <2> DEFINE errors == q.errors \cup {q.art}
  <2>1. call' = [call EXCEPT ![c].step = "next", ![c].art = None, ![c].errors = @ \cup {q.art}]
    BY <1>5 DEF Caught
  <2>2. call' = [call EXCEPT ![c].step = "next", ![c].art = None, ![c].errors = errors]
    BY <1>2, <2>1, RowOf DEF CallRows
  <2>3. errors \in SUBSET Articles
    BY <1>2, <1>5 DEF CallRows
  <2> HIDE DEF errors
  <2>4. Only(c) /\ Leaves(call'[c], q, errors)
    BY <2>2, <2>3, LeaveEffect
  <2>5. QED
    BY <1>5, <2>4 DEF CaughtTo, errors
<1>6. CASE ~rolls /\ ~restores /\ ~leaves
  <2>1. End(c, "error")
    BY <1>6 DEF Caught
  <2>2. QED
    BY <1>1, <1>2, <1>6, <2>1, EndEffect DEF CaughtTo
<1>7. QED
  BY <1>3, <1>4, <1>5, <1>6

\* What follows the indexing.
IndexedTo(p, q) ==
    \/ q.restoring /\ Ends(p, q, "error")
    \/ ~q.restoring /\ q.kind = "rebuild" /\ Leaves(p, q, q.errors)
    \/ ~q.restoring /\ q.kind # "rebuild" /\ Forgets(p, q, "publish")

LEMMA AfterIndexEffect ==
    ASSUME TypeOK, NEW c \in Calls, Knows(call[c]), AfterIndex(c)
    PROVE  Only(c) /\ IndexedTo(call'[c], call[c])
<1> DEFINE q == call[c]
<1>1. q \in CallRows /\ "publish" \in Steps /\ "error" \in Outcomes
      /\ (q.restoring => q.kind # "rebuild")
  BY RowOf DEF Steps, Outcomes, Knows
<1>2. CASE q.restoring
  <2>1. End(c, "error")
    BY <1>1, <1>2 DEF AfterIndex
  <2>2. QED
    BY <1>1, <1>2, <2>1, EndEffect DEF IndexedTo
<1>3. CASE ~q.restoring /\ q.kind = "rebuild"
  <2> DEFINE errors == q.errors
  <2>1. call' = [call EXCEPT ![c].step = "next", ![c].art = None]
    BY <1>3 DEF AfterIndex
  <2>2. call' = [call EXCEPT ![c].step = "next", ![c].art = None, ![c].errors = errors]
    BY <1>1, <2>1, RowOf DEF CallRows
  <2>3. errors \in SUBSET Articles
    BY <1>1 DEF CallRows
  <2> HIDE DEF errors
  <2>4. Only(c) /\ Leaves(call'[c], q, errors)
    BY <2>2, <2>3, LeaveEffect
  <2>5. QED
    BY <1>3, <2>4 DEF IndexedTo, errors
<1>4. CASE ~q.restoring /\ q.kind # "rebuild"
  <2>1. call' = [call EXCEPT ![c].step = "publish", ![c].text = None]
    BY <1>4 DEF AfterIndex
  <2>2. QED
    BY <1>1, <1>4, <2>1, ForgetEffect DEF IndexedTo
<1>5. QED
  BY <1>2, <1>3, <1>4

-----------------------------------------------------------------------------
(* What every step keeps *)

\* The call that takes a step keeps what it is about, and never begins again.
Proceeds(c) ==
    LET q == call[c]
        p == call'[c]
    IN
    /\ Only(c) /\ p.step # "idle" /\ q.step # "done" /\ q.errors \subseteq p.errors
    /\ q.step = "idle" => p.ended = Ended
    /\ q.step # "idle" =>
         /\ p.kind = q.kind /\ p.ended = q.ended /\ p.sug = q.sug
         /\ q.art # None /\ q.kind # "rebuild" => p.art = q.art

\* An article is created once.
Lasting == \A a \in Articles : article[a] # NoArticle => article'[a] # NoArticle

\* A step leaves the articles alone that its call is not about, but for those it creates.
Elsewhere(c) ==
    \A a \in Articles : a \notin About(c)' =>
        /\ chunks'[a] = chunks[a] /\ (a \in unrestored => a \in unrestored')
        /\ \/ article'[a] = article[a]
           \/ article[a] = NoArticle /\ article'[a].status # "published"

Good(c) ==
    TypeOK' /\ Knows(call'[c]) /\ Named(c)' /\ Proceeds(c) /\ Lasting /\ Elsewhere(c)

LEMMA Before ==
    ASSUME Core, NEW c \in Calls
    PROVE  /\ TypeOK /\ call[c] \in CallRows /\ call \in [Calls -> CallRows]
           /\ Knows(call[c]) /\ Named(c) /\ Names
BY RowOf, NoneIsNoName DEF Core

\* A step that leaves the articles and their chunks as they are.
LEMMA TablesKept ==
    ASSUME Core, NEW c \in Calls, Only(c), UNCHANGED <<article, chunks, source>>,
           suggestion' \in [Suggestions -> {"none", "pending", "approved", "rejected"}],
           unrestored \subseteq unrestored', unrestored' \subseteq Articles,
           failures' \in 0 .. MaxFailures
    PROVE  TypeOK' /\ Lasting /\ Elsewhere(c)
BY DEF Core, TypeOK, Lasting, Elsewhere, Only, CallRows

\* A call that goes on with what it has.
LEMMA GoesOn ==
    ASSUME Core, NEW c \in Calls, Only(c), Lasting, call[c].step \notin {"idle", "done"},
           NEW step \in Steps \ {"idle"},
           \/ Goes(call'[c], call[c], step)
           \/ Forgets(call'[c], call[c], step)
           \/ \E errors : Leaves(call'[c], call[c], errors) /\ call[c].errors \subseteq errors
                            /\ call[c].kind = "rebuild"
           \/ \E result : Ends(call'[c], call[c], result)
    PROVE  Proceeds(c) /\ Named(c)'
<1>1. Proceeds(c)
  BY DEF Proceeds, Goes, Forgets, Leaves, Ends, SameTask, SameRequest
<1>2. call'[c].art \in {None, call[c].art} /\ call'[c].todo = call[c].todo /\ Named(c) /\ Names
  BY Before DEF Goes, Forgets, Leaves, Ends, SameTask, SameRequest
<1>3. Named(c)'
  BY <1>2 DEF Named, Lasting, Names
<1>4. QED
  BY <1>1, <1>3

LEMMA CaughtGoesOn ==
    ASSUME Core, NEW c \in Calls, call[c].step \notin {"idle", "done", "rollback", "restore"},
           Lasting, Only(c), CaughtTo(call'[c], call[c])
    PROVE  Proceeds(c) /\ Named(c)' /\ Knows(call'[c])
<1> DEFINE q == call[c]
           p == call'[c]
<1>1. q \in CallRows /\ Knows(q) /\ Names
  BY Before
<1>2. "rollback" \in Steps \ {"idle"} /\ "restore" \in Steps \ {"idle"}
  BY DEF Steps
<1>3. CASE q.kind \in {"create", "approveSuggestion"} /\ q.step \in Indexing \cup {"publish"}
           /\ Goes(p, q, "rollback")
  <2>1. q.art \in Articles /\ ~q.restoring
    BY <1>1, <1>3 DEF Knows, WithArticle, Indexing
  <2>2. Knows(p)
    BY <1>1, <1>3, <2>1 DEF Knows, KindAt, Goes, SameTask, SameRequest, WithArticle, WithoutArticle,
          Indexing
  <2>3. QED
    BY <1>2, <1>3, <2>2, GoesOn
<1>4. CASE q.kind = "update" /\ ~q.restoring /\ Goes(p, q, "restore")
  <2>1. q.art \in Articles /\ q.seen \in LiveRows /\ q.sug = None
    BY <1>1, <1>4 DEF Knows, KindAt, WithArticle, WithoutArticle, Indexing, CallRows, Steps
  <2>2. Knows(p)
    BY <1>1, <1>4, <2>1 DEF Knows, KindAt, Goes, SameTask, SameRequest, WithArticle, WithoutArticle,
          Indexing
  <2>3. QED
    BY <1>2, <1>4, <2>2, GoesOn
<1>5. CASE q.kind = "rebuild" /\ q.art # None /\ Leaves(p, q, q.errors \cup {q.art})
  <2>1. None \notin q.todo
    BY <1>1 DEF CallRows, Names
  <2>2. Knows(p)
    BY <1>1, <1>5, <2>1 DEF Knows, KindAt, Leaves, SameTask, SameRequest, WithArticle, WithoutArticle,
          Indexing
  <2>3. QED
    BY <1>2, <1>5, <2>2, GoesOn
<1>6. CASE Ends(p, q, "error")
  <2>1. Knows(p)
    BY <1>1, <1>6 DEF Knows, KindAt, Ends, SameRequest, WithArticle, WithoutArticle, Indexing, Names,
          Outcomes
  <2>2. QED
    BY <1>2, <1>6, <2>1, GoesOn
<1>7. QED
  BY <1>3, <1>4, <1>5, <1>6 DEF CaughtTo

-----------------------------------------------------------------------------
(* The entries *)

LEMMA NewCallTyped ==
    /\ NewCall \in CallRows
    /\ \A step \in Steps, target \in Statuses \cup {None}, text \in Versions \cup {None} :
         [NewCall EXCEPT !.step = step, !.target = target, !.text = text] \in CallRows
<1>1. "idle" \in Steps /\ None \in Results /\ NoArticle \in Rows
  BY RowsTyped DEF Steps, Results
<1>2. NewCall \in CallRows
  BY <1>1 DEF NewCall, CallRows
<1> HIDE DEF NewCall
<1>3. ASSUME NEW step \in Steps, NEW target \in Statuses \cup {None}, NEW text \in Versions \cup {None}
      PROVE  [NewCall EXCEPT !.step = step, !.target = target, !.text = text] \in CallRows
  BY <1>2 DEF CallRows
<1>4. QED
  BY <1>2, <1>3

\* A call begins as its entry says.
Starts(p, kind, first) ==
    /\ p.kind = kind /\ p.ended = Ended /\ p.step = first.step /\ p.art = first.art
    /\ p.target = first.target /\ p.text = first.text /\ p.seen = first.seen
    /\ p.restoring = first.restoring /\ p.todo = first.todo /\ p.errors = first.errors
    /\ p.sug = first.sug /\ p.result = first.result

LEMMA BeginEffect ==
    ASSUME Core, NEW c \in Calls, NEW kind, NEW first \in CallRows, Begin(c, kind, first)
    PROVE  /\ Only(c) /\ Starts(call'[c], kind, first) /\ kind \in Entries
           /\ call[c] = NewCall
           /\ UNCHANGED <<article, chunks, suggestion, source, unrestored, failures>>
<1> DEFINE row == [first EXCEPT !.kind = kind, !.ended = Ended]
<1>1. call[c] \in CallRows /\ call \in [Calls -> CallRows] /\ Knows(call[c])
  BY Before
<1>2. kind \in Entries
  BY KbAssumption DEF Begin
<1>3. call' = [call EXCEPT ![c] = row]
  BY DEF Begin
<1>4. row \in CallRows /\ Starts(row, kind, first)
  BY <1>2 DEF CallRows, Starts, Ended
<1>5. call[c] = NewCall
  BY <1>1 DEF Begin, Knows
<1> HIDE DEF row
<1>6. QED
  BY <1>1, <1>2, <1>3, <1>4, <1>5 DEF Begin, Only

\* A call that begins needs only the right row.
LEMMA BeginGood ==
    ASSUME Core, NEW c \in Calls, NEW kind, NEW first \in CallRows, Begin(c, kind, first),
           first.step # "idle", Knows(call'[c]),
           \A a \in Articles : a \in first.todo \cup {first.art} => article[a] # NoArticle
    PROVE  Good(c)
<1>1. /\ Only(c) /\ Starts(call'[c], kind, first)
      /\ call[c] = NewCall
      /\ UNCHANGED <<article, chunks, suggestion, source, unrestored, failures>>
  BY BeginEffect
<1>2. TypeOK' /\ Lasting /\ Elsewhere(c)
  BY <1>1, TablesKept, Before DEF TypeOK
<1>3. Named(c)'
  BY <1>1 DEF Named, Starts
<1>4. Proceeds(c)
  BY <1>1 DEF Proceeds, Starts, NewCall
<1>5. QED
  BY <1>2, <1>3, <1>4 DEF Good

\* The calls that end at once.
LEMMA RefusedGood ==
    ASSUME Core, NEW c \in Calls, NEW kind, NEW result \in {"error", "skipped"},
           Begin(c, kind, [NewCall EXCEPT !.step = "done", !.result = result])
    PROVE  Good(c)
<1> DEFINE first == [NewCall EXCEPT !.step = "done", !.result = result]
<1>1. first \in CallRows
  BY RowsTyped DEF NewCall, CallRows, Steps, Results, Outcomes
<1>2. /\ first.step = "done" /\ first.result = result /\ first.art = None /\ first.todo = {}
      /\ ~first.restoring /\ first.sug = None
  BY DEF NewCall
<1> HIDE DEF first
<1>3. Starts(call'[c], kind, first) /\ kind \in Entries
  BY <1>1, BeginEffect DEF first
<1>4. Knows(call'[c])
  BY <1>2, <1>3, NoneIsNoName DEF Knows, KindAt, Starts, WithArticle, WithoutArticle, Indexing, Names,
        Outcomes
<1>5. \A a \in Articles : a \in first.todo \cup {first.art} => article[a] # NoArticle
  BY <1>2, NoneIsNoName DEF Names
<1>6. Begin(c, kind, first)
  BY DEF first
<1>7. QED
  BY <1>1, <1>2, <1>4, <1>5, <1>6, BeginGood

LEMMA createGood ==
    ASSUME Core, NEW c \in Calls, NEW target \in Targets, NEW text \in Versions,
           create(c, target, text)
    PROVE  Good(c)
<1> DEFINE first == [NewCall EXCEPT !.step = "create", !.target = target, !.text = text]
<1>1. target \in Statuses /\ Names
  BY KbAssumption, NoneIsNoName
<1>2. first \in CallRows
  BY <1>1, NewCallTyped DEF Steps
<1>3. /\ first.step = "create" /\ first.target = target /\ first.text = text /\ first.art = None
      /\ first.todo = {} /\ ~first.restoring /\ first.sug = None /\ first.result = None
  BY DEF NewCall
<1> HIDE DEF first
<1>4. Begin(c, "create", first)
  BY DEF create, first
<1>5. Starts(call'[c], "create", first)
  BY <1>2, <1>4, BeginEffect
<1>6. Knows(call'[c])
  BY <1>1, <1>3, <1>5 DEF Knows, KindAt, Starts, WithArticle, WithoutArticle, Indexing, Entries
<1>7. QED
  BY <1>1, <1>2, <1>3, <1>4, <1>6, BeginGood DEF Names

\* The entries about an article.
LEMMA BeginOnGood ==
    ASSUME Core, NEW c \in Calls, NEW a \in Articles,
           NEW kind \in {"publish", "unpublish", "remove", "reject"},
           NEW step \in {"index_read", "unpublish", "remove", "reject"},
           kind = "publish" <=> step = "index_read", kind # "publish" => step = kind,
           BeginOn(c, kind, a, [NewCall EXCEPT !.step = step])
    PROVE  Good(c)
<1>1. CASE ~Exists(a)
  BY <1>1, RefusedGood DEF BeginOn
<1>2. CASE Exists(a)
  <2> DEFINE first == [NewCall EXCEPT !.step = step, !.art = a]
  <2>1. first \in CallRows
    BY RowsTyped DEF NewCall, CallRows, Results, Steps
  <2>2. /\ first.step = step /\ first.art = a /\ first.todo = {} /\ ~first.restoring
        /\ first.sug = None /\ first.result = None
    BY DEF NewCall
  <2>3. [[NewCall EXCEPT !.step = step] EXCEPT !.art = a] = first
    BY DEF NewCall
  <2> HIDE DEF first
  <2>4. Begin(c, kind, first)
    BY <1>2, <2>3 DEF BeginOn
  <2>5. Starts(call'[c], kind, first)
    BY <2>1, <2>4, BeginEffect
  <2>6. Knows(call'[c])
    BY <2>2, <2>5 DEF Knows, KindAt, Starts, WithArticle, WithoutArticle, Indexing, Entries
  <2>7. article[a] # NoArticle
    BY <1>2, Existing, Before
  <2>8. QED
    BY <2>1, <2>2, <2>4, <2>6, <2>7, NoneIsNoName, BeginGood DEF Names
<1>3. QED
  BY <1>1, <1>2

LEMMA updateGood ==
    ASSUME Core, NEW c \in Calls, NEW a \in Articles, NEW target \in Targets \cup {None},
           NEW text \in Versions \cup {None}, update(c, a, target, text)
    PROVE  Good(c)
<1> DEFINE to == IF target = None THEN article[a].status ELSE target
           first == [NewCall EXCEPT !.step = "update", !.seen = article[a],
                                    !.target = to, !.text = text]
<1>1. BeginOn(c, "update", a, first)
  BY DEF update
<1>2. CASE ~Exists(a)
  BY <1>1, <1>2, RefusedGood DEF BeginOn
<1>3. CASE Exists(a)
  <2>1. to \in Statuses /\ article[a] \in LiveRows /\ article[a] \in Rows /\ article[a] # NoArticle
    BY <1>3, Existing, Before, KbAssumption DEF Exists
  <2> HIDE DEF to
  <2> DEFINE begun == [NewCall EXCEPT !.step = "update", !.seen = article[a],
                                      !.target = to, !.text = text, !.art = a]
  <2>2. begun \in CallRows
    BY <2>1 DEF NewCall, CallRows, Results, Steps
  <2>3. [first EXCEPT !.art = a] = begun
    BY DEF NewCall
  <2>4. /\ begun.step = "update" /\ begun.seen = article[a] /\ begun.target = to /\ begun.text = text
        /\ begun.art = a /\ begun.todo = {} /\ ~begun.restoring
        /\ begun.sug = None /\ begun.result = None
    BY DEF NewCall
  <2>5. Begin(c, "update", begun)
    BY <1>1, <1>3, <2>3 DEF BeginOn
  <2> HIDE DEF begun, first
  <2>6. Starts(call'[c], "update", begun)
    BY <2>2, <2>5, BeginEffect
  <2>7. Knows(call'[c])
    BY <2>1, <2>4, <2>6 DEF Knows, KindAt, Starts, WithArticle, WithoutArticle, Indexing, Entries
  <2>8. QED
    BY <2>1, <2>2, <2>4, <2>5, <2>7, NoneIsNoName, BeginGood DEF Names
<1>4. QED
  BY <1>2, <1>3

LEMMA rebuildGood ==
    ASSUME Core, NEW c \in Calls, rebuildCompanyKb(c)
    PROVE  Good(c)
<1> DEFINE listed == {a \in Articles : article[a].status = "published"}
           first == [NewCall EXCEPT !.step = "clear", !.todo = listed]
<1>1. first \in CallRows
  BY RowsTyped DEF NewCall, CallRows, Results, Steps
<1>2. /\ first.step = "clear" /\ first.todo = listed /\ first.art = None /\ ~first.restoring
      /\ first.sug = None /\ first.result = None
  BY DEF NewCall
<1>3. Begin(c, "rebuild", first)
  BY DEF rebuildCompanyKb
<1>4. \A a \in listed : article[a] # NoArticle
  BY RowsTyped DEF NoArticle, Row
<1> HIDE DEF first
<1>5. Starts(call'[c], "rebuild", first)
  BY <1>1, <1>3, BeginEffect
<1>6. None \notin listed
  BY NoneIsNoName DEF Names
<1> HIDE DEF listed
<1>7. Knows(call'[c])
  BY <1>2, <1>5, <1>6 DEF Knows, KindAt, Starts, WithArticle, WithoutArticle, Indexing, Entries
<1>8. QED
  BY <1>1, <1>2, <1>3, <1>4, <1>7, NoneIsNoName, BeginGood DEF Names

LEMMA learnGood ==
    ASSUME Core, NEW c \in Calls, learnFromHumanResponse(c)
    PROVE  Good(c)
<1>1. CASE \E g \in Suggestions : suggestion[g] # "none"
  BY <1>1, RefusedGood DEF learnFromHumanResponse
<1>2. CASE ~\E g \in Suggestions : suggestion[g] # "none"
  <2> DEFINE first == [NewCall EXCEPT !.step = "learn"]
  <2>1. first \in CallRows
    BY RowsTyped DEF NewCall, CallRows, Results, Steps
  <2>2. /\ first.step = "learn" /\ first.art = None /\ first.todo = {} /\ ~first.restoring
        /\ first.sug = None /\ first.result = None
    BY DEF NewCall
  <2>3. Begin(c, "learnFromHumanResponse", first)
    BY <1>2 DEF learnFromHumanResponse
  <2> HIDE DEF first
  <2>4. Starts(call'[c], "learnFromHumanResponse", first)
    BY <2>1, <2>3, BeginEffect
  <2>5. Knows(call'[c])
    BY <2>2, <2>4 DEF Knows, KindAt, Starts, WithArticle, WithoutArticle, Indexing, Entries
  <2>6. QED
    BY <2>1, <2>2, <2>3, <2>5, NoneIsNoName, BeginGood DEF Names
<1>3. QED
  BY <1>1, <1>2

LEMMA approveGood ==
    ASSUME Core, NEW c \in Calls, NEW g \in Suggestions, NEW text \in Versions \ Blank,
           approveSuggestion(c, g, text)
    PROVE  Good(c)
<1>1. CASE suggestion[g] = "none"
  BY <1>1, RefusedGood DEF approveSuggestion, BeginReview
<1>2. CASE suggestion[g] # "none" /\ suggestion[g] = "approved"
  <2> DEFINE first == [NewCall EXCEPT !.step = "done", !.result = "skipped", !.sug = g]
  <2>1. first \in CallRows
    BY RowsTyped DEF NewCall, CallRows, Steps, Results, Outcomes
  <2>2. /\ first.step = "done" /\ first.art = None /\ first.todo = {} /\ ~first.restoring
        /\ first.sug = g /\ first.result = "skipped"
    BY DEF NewCall
  <2>3. [[NewCall EXCEPT !.step = "done", !.result = "skipped"] EXCEPT !.sug = g] = first
    BY DEF NewCall
  <2>4. Begin(c, "approveSuggestion", first)
    BY <1>2, <2>3 DEF approveSuggestion, BeginReview
  <2> HIDE DEF first
  <2>5. Starts(call'[c], "approveSuggestion", first)
    BY <2>1, <2>4, BeginEffect
  <2>6. Knows(call'[c])
    BY <2>2, <2>5, NoneIsNoName DEF Knows, KindAt, Starts, WithArticle, WithoutArticle, Indexing,
          Entries, Names, Outcomes
  <2>7. QED
    BY <2>1, <2>2, <2>4, <2>6, NoneIsNoName, BeginGood DEF Names
<1>3. CASE suggestion[g] # "none" /\ suggestion[g] # "approved"
  <2> DEFINE first == [NewCall EXCEPT !.step = "create", !.text = text, !.target = "published",
                                      !.sug = g]
  <2>1. first \in CallRows
    BY RowsTyped DEF NewCall, CallRows, Results, Steps, Statuses
  <2>2. /\ first.step = "create" /\ first.art = None /\ first.todo = {} /\ ~first.restoring
        /\ first.sug = g /\ first.result = None /\ first.text = text /\ first.target = "published"
    BY DEF NewCall
  <2>3. [[NewCall EXCEPT !.step = "create", !.text = text, !.target = "published"] EXCEPT !.sug = g]
          = first
    BY DEF NewCall
  <2>4. Begin(c, "approveSuggestion", first)
    BY <1>3, <2>3 DEF approveSuggestion, BeginReview
  <2> HIDE DEF first
  <2>5. Starts(call'[c], "approveSuggestion", first)
    BY <2>1, <2>4, BeginEffect
  <2>6. Knows(call'[c])
    BY <2>2, <2>5, NoneIsNoName DEF Knows, KindAt, Starts, WithArticle, WithoutArticle, Indexing,
          Entries, Names, Outcomes, Statuses
  <2>7. QED
    BY <2>1, <2>2, <2>4, <2>6, NoneIsNoName, BeginGood DEF Names
<1>4. QED
  BY <1>1, <1>2, <1>3

LEMMA rejectSuggestionGood ==
    ASSUME Core, NEW c \in Calls, NEW g \in Suggestions, rejectSuggestion(c, g)
    PROVE  Good(c)
<1>1. CASE suggestion[g] = "none"
  BY <1>1, RefusedGood DEF rejectSuggestion, BeginReview
<1>2. CASE suggestion[g] # "none"
  <2> DEFINE first == [NewCall EXCEPT !.step = "reject_suggestion", !.sug = g]
  <2>1. first \in CallRows
    BY RowsTyped DEF NewCall, CallRows, Results, Steps
  <2>2. /\ first.step = "reject_suggestion" /\ first.art = None /\ first.todo = {}
        /\ ~first.restoring /\ first.sug = g /\ first.result = None
    BY DEF NewCall
  <2>3. [[NewCall EXCEPT !.step = "reject_suggestion"] EXCEPT !.sug = g] = first
    BY DEF NewCall
  <2>4. Begin(c, "rejectSuggestion", first)
    BY <1>2, <2>3 DEF rejectSuggestion, BeginReview
  <2> HIDE DEF first
  <2>5. Starts(call'[c], "rejectSuggestion", first)
    BY <2>1, <2>4, BeginEffect
  <2>6. Knows(call'[c])
    BY <2>2, <2>5 DEF Knows, KindAt, Starts, WithArticle, WithoutArticle, Indexing, Entries
  <2>7. QED
    BY <2>1, <2>2, <2>4, <2>6, NoneIsNoName, BeginGood DEF Names
<1>3. QED
  BY <1>1, <1>2

-----------------------------------------------------------------------------
(* The steps of a call *)

LEMMA EndsKnows ==
    ASSUME Names, NEW p, NEW q, NEW result \in {"ok", "error", "crashed"}, Knows(q),
           q.step \notin {"idle", "done"}, Ends(p, q, result),
           q.kind = "approveSuggestion" /\ result = "ok" => q.art # None
    PROVE  Knows(p)
BY DEF Knows, KindAt, Ends, SameRequest, WithArticle, WithoutArticle, Indexing, Names, Outcomes

\* A call that ends and leaves the tables alone.
LEMMA EndGood ==
    ASSUME Core, NEW c \in Calls, call[c].step \notin {"idle", "done"},
           NEW result \in {"ok", "error", "crashed"}, End(c, result),
           call[c].kind = "approveSuggestion" /\ result = "ok" => call[c].art # None,
           UNCHANGED <<article, chunks, source>>,
           suggestion' \in [Suggestions -> {"none", "pending", "approved", "rejected"}],
           unrestored \subseteq unrestored', unrestored' \subseteq Articles,
           failures' \in 0 .. MaxFailures
    PROVE  Good(c)
<1>1. TypeOK /\ Knows(call[c]) /\ Names /\ result \in Outcomes
  BY Before DEF Outcomes
<1>2. Only(c) /\ Ends(call'[c], call[c], result)
  BY <1>1, EndEffect
<1>3. TypeOK' /\ Lasting /\ Elsewhere(c)
  BY <1>2, TablesKept
<1>4. Knows(call'[c])
  BY <1>1, <1>2, EndsKnows
<1>5. \E other \in Steps \ {"idle"} : TRUE
  BY DEF Steps
<1>6. Proceeds(c) /\ Named(c)'
  BY <1>2, <1>3, <1>5, GoesOn
<1>7. QED
  BY <1>3, <1>4, <1>6 DEF Good

LEMMA CaughtGood ==
    ASSUME Core, NEW c \in Calls, call[c].step \notin {"idle", "done", "rollback", "restore"},
           Caught(c), UNCHANGED <<article, chunks, suggestion, source>>,
           unrestored \subseteq unrestored', unrestored' \subseteq Articles,
           failures' \in 0 .. MaxFailures
    PROVE  Good(c)
<1>1. TypeOK
  BY Before
<1>2. Only(c) /\ CaughtTo(call'[c], call[c])
  BY <1>1, CaughtEffect
<1>3. TypeOK' /\ Lasting /\ Elsewhere(c)
  BY <1>1, <1>2, TablesKept DEF TypeOK
<1>4. QED
  BY <1>2, <1>3, CaughtGoesOn DEF Good

\* A call that goes to another step and leaves the tables alone.
LEMMA GotoGood ==
    ASSUME Core, NEW c \in Calls, call[c].step \notin {"idle", "done"},
           NEW step \in Steps \ {"idle"}, Only(c),
           Goes(call'[c], call[c], step) \/ Forgets(call'[c], call[c], step),
           Knows(call'[c]), TypeOK', Lasting, Elsewhere(c)
    PROVE  Good(c)
BY GoesOn DEF Good

\* The row of the article in hand is written.
LEMMA RowWritten ==
    ASSUME Core, NEW c \in Calls, Only(c), NEW a \in Articles, Exists(a), a \in About(c)',
           NEW row \in LiveRows \cup {Row("deleted", None)},
           article' = [article EXCEPT ![a] = row],
           chunks' = chunks \/ chunks' = [chunks EXCEPT ![a] = None],
           unrestored' = unrestored \/ unrestored' = unrestored \ {a},
           UNCHANGED <<suggestion, source, failures>>
    PROVE  TypeOK' /\ Lasting /\ Elsewhere(c)
<1>1. TypeOK /\ row \in Rows /\ row # NoArticle /\ article[a] # NoArticle
  BY Before, RowsTyped, Existing
<1>2. article' \in [Articles -> Rows] /\ \A b \in Articles : b # a => article'[b] = article[b]
  BY <1>1 DEF TypeOK
<1>3. article'[a] = row
  BY <1>1 DEF TypeOK
<1>4. /\ chunks' \in [Articles -> (Versions \ Blank) \cup {None}]
      /\ \A b \in Articles : b # a => chunks'[b] = chunks[b]
  BY <1>1 DEF TypeOK
<1>5. unrestored' \subseteq Articles /\ \A b \in Articles : b # a /\ b \in unrestored => b \in unrestored'
  BY <1>1 DEF TypeOK
<1>6. TypeOK'
  BY <1>1, <1>2, <1>4, <1>5 DEF TypeOK, Only, CallRows
<1>7. Lasting
  BY <1>1, <1>2, <1>3 DEF Lasting
<1>8. Elsewhere(c)
  BY <1>2, <1>4, <1>5 DEF Elsewhere
<1>9. QED
  BY <1>6, <1>7, <1>8

\* The chunks of the article in hand are written.
LEMMA ChunksWritten ==
    ASSUME Core, NEW c \in Calls, Only(c), NEW a \in Articles, a \in About(c)',
           NEW text \in (Versions \ Blank) \cup {None},
           chunks' = [chunks EXCEPT ![a] = text],
           UNCHANGED <<article, suggestion, source, unrestored, failures>>
    PROVE  TypeOK' /\ Lasting /\ Elsewhere(c)
<1>1. TypeOK
  BY Before
<1>2. /\ chunks' \in [Articles -> (Versions \ Blank) \cup {None}]
      /\ \A b \in Articles : b # a => chunks'[b] = chunks[b]
  BY <1>1 DEF TypeOK
<1>3. TypeOK'
  BY <1>1, <1>2 DEF TypeOK, Only, CallRows
<1>4. QED
  BY <1>2, <1>3 DEF Lasting, Elsewhere

\* What a call that goes on is about.
LEMMA StillAbout ==
    ASSUME NEW c \in Calls, NEW a \in Articles, call[c].art = a,
           call'[c].kind = call[c].kind, call'[c].art = a \/ call[c].kind = "rebuild"
    PROVE  a \in About(c)'
BY DEF About

LEMMA writeDraftGood ==
    ASSUME Core, NEW c \in Calls, writeDraft(c)
    PROVE  Good(c)
<1> DEFINE q == call[c]
           a == q.art
           row == Row("draft", IF q.text = None THEN article[a].body ELSE q.text)
           step == IF q.target = "published" THEN "index_read" ELSE "delete_chunks"
<1>1. TypeOK /\ q \in CallRows /\ Knows(q) /\ Names /\ q.step = "update"
  BY Before DEF writeDraft
<1>2. a \in Articles /\ q.kind = "update" /\ ~q.restoring /\ q.target \in Statuses
      /\ q.seen \in LiveRows
  BY <1>1 DEF Knows, KindAt, WithArticle, Indexing
<1>3. CASE ~Exists(a)
  BY <1>1, <1>3, CaughtGood DEF writeDraft, UpdateArticle, TypeOK
<1>4. CASE Exists(a)
  <2>1. /\ article' = [article EXCEPT ![a] = row] /\ Goto(c, step)
        /\ UNCHANGED <<chunks, suggestion, source, unrestored, failures>>
    BY <1>4 DEF writeDraft, UpdateArticle
  <2>2. row \in LiveRows
    BY <1>1, <1>2, <1>4, RowsTyped, Existing DEF CallRows, Statuses
  <2>3. step \in Steps \ {"idle"}
    BY DEF Steps
  <2>4. step \in {"index_read", "delete_chunks"}
        /\ (step = "delete_chunks" => q.target \in Statuses \ {"published"})
    BY <1>2
  <2> HIDE DEF row, step
  <2>5. Only(c) /\ Goes(call'[c], q, step)
    BY <1>1, <2>1, <2>3, GotoEffect
  <2>6. TypeOK' /\ Lasting /\ Elsewhere(c)
    BY <1>2, <1>4, <2>1, <2>2, <2>5, RowWritten, StillAbout DEF Goes, SameTask, SameRequest
  <2>7. Knows(call'[c])
    BY <1>1, <1>2, <2>4, <2>5 DEF Knows, KindAt, Goes, SameTask, SameRequest, WithArticle,
          WithoutArticle, Indexing
  <2>8. QED
    BY <1>1, <2>3, <2>5, <2>6, <2>7, GotoGood
<1>5. QED
  BY <1>3, <1>4

LEMMA writePublishedGood ==
    ASSUME Core, NEW c \in Calls, writePublished(c)
    PROVE  Good(c)
<1> DEFINE q == call[c]
           a == q.art
           row == Row("published", article[a].body)
<1>1. TypeOK /\ q \in CallRows /\ Knows(q) /\ Names /\ q.step = "publish"
  BY Before DEF writePublished
<1>2. a \in Articles /\ ~q.restoring /\ q.kind \in {"create", "update", "publish", "approveSuggestion"}
  BY <1>1 DEF Knows, KindAt, WithArticle, Indexing
<1>3. CASE ~Exists(a)
  <2>1. Caught(c) /\ UNCHANGED <<article, chunks, suggestion, source, failures>>
        /\ unrestored' = unrestored \ {a}
    BY <1>3 DEF writePublished, UpdateArticle
  <2>2. Only(c) /\ CaughtTo(call'[c], q)
    BY <1>1, <2>1, CaughtEffect
  <2>3. TypeOK' /\ Lasting
    BY <1>1, <2>1, <2>2 DEF TypeOK, Only, CallRows, Lasting
  <2>4. Proceeds(c) /\ Named(c)' /\ Knows(call'[c])
    BY <1>1, <2>2, <2>3, CaughtGoesOn
  <2>5. a \in About(c)'
    BY <1>1, <1>2, <2>4, StillAbout DEF Proceeds, Names
  <2>6. Elsewhere(c)
    BY <2>1, <2>5 DEF Elsewhere
  <2>7. QED
    BY <2>3, <2>4, <2>6 DEF Good
<1>4. CASE Exists(a)
  <2>1. /\ article' = [article EXCEPT ![a] = row]
        /\ UNCHANGED <<chunks, suggestion, source, failures>> /\ unrestored' = unrestored \ {a}
        /\ IF q.kind = "approveSuggestion" THEN Goto(c, "approve") ELSE End(c, "ok")
    BY <1>4 DEF writePublished, UpdateArticle
  <2>2. row \in LiveRows
    BY <1>1, <1>2, <1>4, RowsTyped, Existing DEF CallRows, Statuses
  <2> HIDE DEF row
  <2>3. "approve" \in Steps \ {"idle"} /\ "ok" \in Outcomes
    BY DEF Steps, Outcomes
  <2>4. CASE q.kind = "approveSuggestion"
    <3>1. Only(c) /\ Goes(call'[c], q, "approve")
      BY <1>1, <2>1, <2>3, <2>4, GotoEffect
    <3>2. TypeOK' /\ Lasting /\ Elsewhere(c)
      BY <1>2, <1>4, <2>1, <2>2, <3>1, RowWritten, StillAbout DEF Goes, SameTask, SameRequest
    <3>3. Knows(call'[c])
      BY <1>1, <1>2, <2>4, <3>1 DEF Knows, KindAt, Goes, SameTask, SameRequest, WithArticle,
            WithoutArticle, Indexing
    <3>4. QED
      BY <1>1, <2>3, <3>1, <3>2, <3>3, GotoGood
  <2>5. CASE q.kind # "approveSuggestion"
    <3>1. Only(c) /\ Ends(call'[c], q, "ok")
      BY <1>1, <2>1, <2>3, <2>5, EndEffect
    <3>2. TypeOK' /\ Lasting /\ Elsewhere(c)
      BY <1>2, <1>4, <2>1, <2>2, <3>1, RowWritten, StillAbout DEF Ends, SameRequest
    <3>3. Knows(call'[c])
      BY <1>1, <2>5, <3>1, EndsKnows
    <3>4. Proceeds(c) /\ Named(c)'
      BY <1>1, <2>3, <3>1, <3>2, GoesOn
    <3>5. QED
      BY <3>2, <3>3, <3>4 DEF Good
  <2>6. QED
    BY <2>4, <2>5
<1>5. QED
  BY <1>3, <1>4

\* A call that ends with its last write.
LEMMA EndedGood ==
    ASSUME Core, NEW c \in Calls, call[c].step \notin {"idle", "done"},
           NEW result \in {"ok", "error", "crashed"}, Only(c), Ends(call'[c], call[c], result),
           call[c].kind = "approveSuggestion" /\ result = "ok" => call[c].art # None,
           TypeOK', Lasting, Elsewhere(c)
    PROVE  Good(c)
<1>1. Knows(call'[c])
  BY Before, EndsKnows
<1>2. "done" \in Steps \ {"idle"}
  BY DEF Steps
<1>3. Proceeds(c) /\ Named(c)'
  BY <1>2, GoesOn
<1>4. QED
  BY <1>1, <1>3 DEF Good

\* The writes of a status: the article in hand gets a row, or is gone.
LEMMA StatusWritten ==
    ASSUME Core, NEW c \in Calls, call[c].step \in {"set_status", "unpublish", "reject"},
           NEW row, Exists(call[c].art) => row \in LiveRows,
           Exists(call[c].art) => article' = [article EXCEPT ![call[c].art] = row],
           ~Exists(call[c].art) => Caught(c) /\ UNCHANGED article,
           Exists(call[c].art) => \/ call[c].step # "unpublish" /\ End(c, "ok")
                                  \/ call[c].step = "unpublish" /\ Goto(c, "unpublish_chunks"),
           UNCHANGED <<chunks, suggestion, source, unrestored, failures>>
    PROVE  Good(c)
<1> DEFINE q == call[c]
           a == q.art
<1>1. TypeOK /\ q \in CallRows /\ Knows(q) /\ Names
  BY Before
<1>2. a \in Articles /\ q.kind # "approveSuggestion"
      /\ (q.step = "unpublish" => q.kind = "unpublish" /\ ~q.restoring)
  BY <1>1 DEF Knows, KindAt, WithArticle, Indexing
<1>3. CASE ~Exists(a)
  BY <1>1, <1>3, CaughtGood DEF TypeOK
<1>4. CASE Exists(a) /\ End(c, "ok")
  <2>1. "ok" \in Outcomes
    BY DEF Outcomes
  <2>2. Only(c) /\ Ends(call'[c], q, "ok")
    BY <1>1, <1>4, <2>1, EndEffect
  <2>3. TypeOK' /\ Lasting /\ Elsewhere(c)
    BY <1>2, <1>4, <2>2, RowWritten, StillAbout DEF Ends, SameRequest
  <2>4. QED
    BY <1>2, <2>2, <2>3, EndedGood
<1>5. CASE Exists(a) /\ q.step = "unpublish" /\ Goto(c, "unpublish_chunks")
  <2>1. "unpublish_chunks" \in Steps \ {"idle"}
    BY DEF Steps
  <2>2. Only(c) /\ Goes(call'[c], q, "unpublish_chunks")
    BY <1>1, <1>5, <2>1, GotoEffect
  <2>3. TypeOK' /\ Lasting /\ Elsewhere(c)
    BY <1>2, <1>5, <2>2, RowWritten, StillAbout DEF Goes, SameTask, SameRequest
  <2>4. Knows(call'[c])
    BY <1>1, <1>2, <1>5, <2>2 DEF Knows, KindAt, Goes, SameTask, SameRequest, WithArticle,
          WithoutArticle, Indexing
  <2>5. QED
    BY <2>1, <2>2, <2>3, <2>4, GotoGood
<1>6. QED
  BY <1>3, <1>4, <1>5

LEMMA writeStatusGood ==
    ASSUME Core, NEW c \in Calls, writeStatus(c)
    PROVE  Good(c)
<1> DEFINE a == call[c].art
           row == Row(call[c].target, article[a].body)
<1>1. TypeOK /\ Knows(call[c]) /\ call[c].step = "set_status"
  BY Before DEF writeStatus
<1>2. a \in Articles /\ call[c].target \in Statuses
  BY <1>1 DEF Knows, WithArticle
<1>3. Exists(a) => row \in LiveRows
  BY <1>1, <1>2, Existing, RowsTyped
<1>4. QED
  BY <1>1, <1>3, StatusWritten DEF writeStatus, UpdateArticle

LEMMA writeUnpublishedGood ==
    ASSUME Core, NEW c \in Calls, writeUnpublished(c)
    PROVE  Good(c)
<1> DEFINE a == call[c].art
           row == Row("draft", article[a].body)
<1>1. TypeOK /\ Knows(call[c]) /\ call[c].step = "unpublish"
  BY Before DEF writeUnpublished
<1>2. a \in Articles /\ "draft" \in Statuses
  BY <1>1 DEF Knows, WithArticle, Statuses
<1>3. Exists(a) => row \in LiveRows
  BY <1>1, <1>2, Existing, RowsTyped
<1>4. QED
  BY <1>1, <1>3, StatusWritten DEF writeUnpublished, UpdateArticle

LEMMA writeRejectedGood ==
    ASSUME Core, NEW c \in Calls, writeRejected(c)
    PROVE  Good(c)
<1> DEFINE a == call[c].art
           row == Row("rejected", article[a].body)
<1>1. TypeOK /\ Knows(call[c]) /\ call[c].step = "reject"
  BY Before DEF writeRejected
<1>2. a \in Articles /\ "rejected" \in Statuses
  BY <1>1 DEF Knows, WithArticle, Statuses
<1>3. Exists(a) => row \in LiveRows
  BY <1>1, <1>2, Existing, RowsTyped
<1>4. QED
  BY <1>1, <1>3, StatusWritten DEF writeRejected, UpdateArticle

LEMMA deleteArticleGood ==
    ASSUME Core, NEW c \in Calls, deleteArticle(c)
    PROVE  Good(c)
<1> DEFINE q == call[c]
           a == q.art
           result == IF q.step = "remove" /\ Exists(a) THEN "ok" ELSE "error"
           gone == Row("deleted", None)
<1>1. TypeOK /\ q \in CallRows /\ Knows(q) /\ Names /\ q.step \in {"remove", "rollback"}
  BY Before DEF deleteArticle
<1>2. a \in Articles /\ (q.kind = "approveSuggestion" => q.step = "rollback")
  BY <1>1 DEF Knows, KindAt, WithArticle
<1>3. End(c, result) /\ UNCHANGED <<suggestion, source, unrestored, failures>>
      /\ (~Exists(a) => UNCHANGED <<article, chunks>>)
      /\ (Exists(a) => /\ article' = [article EXCEPT ![a] = gone]
                       /\ chunks' = [chunks EXCEPT ![a] = None])
  BY DEF deleteArticle, Deleted
<1>4. result \in {"ok", "error", "crashed"} /\ result \in Outcomes
      /\ (q.kind = "approveSuggestion" => result # "ok")
  BY <1>1, <1>2 DEF Outcomes
<1> HIDE DEF result
<1>5. Only(c) /\ Ends(call'[c], q, result)
  BY <1>1, <1>3, <1>4, EndEffect
<1>6. TypeOK' /\ Lasting /\ Elsewhere(c)
  <2>1. CASE ~Exists(a)
    BY <1>1, <1>3, <1>5, <2>1, TablesKept DEF TypeOK
  <2>2. CASE Exists(a)
    <3>1. a \in About(c)'
      BY <1>2, <1>5, StillAbout DEF Ends, SameRequest
    <3> HIDE DEF gone
    <3>2. gone \in LiveRows \cup {Row("deleted", None)}
      BY DEF gone
    <3>3. QED
      BY <1>2, <1>3, <1>5, <2>2, <3>1, <3>2, RowWritten
  <2>3. QED
    BY <2>1, <2>2
<1>7. QED
  BY <1>1, <1>4, <1>5, <1>6, EndedGood

LEMMA deleteChunksGood ==
    ASSUME Core, NEW c \in Calls, deleteChunksByArticleId(c)
    PROVE  Good(c)
<1> DEFINE q == call[c]
           a == q.art
<1>1. TypeOK /\ q \in CallRows /\ Knows(q) /\ Names
      /\ q.step \in {"delete_chunks", "unpublish_chunks", "restore_chunks"}
  BY Before DEF deleteChunksByArticleId
<1>2. a \in Articles /\ q.kind \in {"update", "unpublish"} /\ (q.step = "delete_chunks" => ~q.restoring)
  BY <1>1 DEF Knows, KindAt, WithArticle, Indexing
<1>3. /\ UNCHANGED <<article, suggestion, source, unrestored, failures>>
      /\ chunks' = [chunks EXCEPT ![a] = None]
  BY DEF deleteChunksByArticleId
<1>4. CASE q.step = "delete_chunks"
  <2>1. Goto(c, "set_status") /\ "set_status" \in Steps \ {"idle"}
    BY <1>4 DEF deleteChunksByArticleId, Steps
  <2>2. Only(c) /\ Goes(call'[c], q, "set_status")
    BY <1>1, <2>1, GotoEffect
  <2>3. TypeOK' /\ Lasting /\ Elsewhere(c)
    BY <1>2, <1>3, <2>2, ChunksWritten, StillAbout DEF Goes, SameTask, SameRequest
  <2>4. Knows(call'[c])
    BY <1>1, <1>2, <1>4, <2>2 DEF Knows, KindAt, Goes, SameTask, SameRequest, WithArticle,
          WithoutArticle, Indexing
  <2>5. QED
    BY <1>4, <2>1, <2>2, <2>3, <2>4, GotoGood
<1>5. CASE q.step # "delete_chunks"
  <2>1. PICK result \in {"ok", "error"} : End(c, result)
    BY <1>1, <1>5 DEF deleteChunksByArticleId
  <2>2. result \in Outcomes /\ result \in {"ok", "error", "crashed"}
    BY DEF Outcomes
  <2>3. Only(c) /\ Ends(call'[c], q, result)
    BY <1>1, <2>1, <2>2, EndEffect
  <2>4. TypeOK' /\ Lasting /\ Elsewhere(c)
    BY <1>2, <1>3, <2>3, ChunksWritten, StillAbout DEF Ends, SameRequest
  <2>5. QED
    BY <1>1, <1>2, <2>2, <2>3, <2>4, EndedGood
<1>6. QED
  BY <1>4, <1>5

LEMMA reindexReadGood ==
    ASSUME Core, NEW c \in Calls, reindexRead(c)
    PROVE  Good(c)
<1> DEFINE q == call[c]
           a == q.art
           row == article[a]
           deletes == (row.status # "published" /\ q.kind = "rebuild") \/ row.body \in Blank
<1>1. TypeOK /\ q \in CallRows /\ Knows(q) /\ Names /\ q.step = "index_read"
  BY Before DEF reindexRead
<1>2. a \in Articles /\ UNCHANGED <<article, chunks, suggestion, source, unrestored, failures>>
  BY <1>1 DEF reindexRead, Knows, WithArticle, Indexing
<1>3. CASE ~Exists(a)
  <2>1. Caught(c)
    BY <1>3 DEF reindexRead
  <2>2. QED
    BY <1>1, <1>2, <2>1, CaughtGood DEF TypeOK
<1>4. CASE Exists(a) /\ deletes
  <2>1. Goto(c, "index_delete") /\ "index_delete" \in Steps \ {"idle"}
    BY <1>4 DEF reindexRead, Steps
  <2>2. Only(c) /\ Goes(call'[c], q, "index_delete")
    BY <1>1, <2>1, GotoEffect
  <2>3. TypeOK' /\ Lasting /\ Elsewhere(c)
    BY <1>1, <1>2, <2>2, TablesKept DEF TypeOK
  <2>4. Knows(call'[c])
    BY <1>1, <1>2, <2>2 DEF Knows, KindAt, Goes, SameTask, SameRequest, WithArticle, WithoutArticle,
          Indexing
  <2>5. QED
    BY <1>1, <2>1, <2>2, <2>3, <2>4, GotoGood
<1>5. CASE Exists(a) /\ ~deletes
  <2> DEFINE text == row.body
             p == [q EXCEPT !.step = "index_replace", !.text = text]
  <2>1. call' = [call EXCEPT ![c].step = "index_replace", ![c].text = text]
    BY <1>5 DEF reindexRead
  <2>2. text \in Versions \ Blank /\ "index_replace" \in Steps \ {"idle"}
    BY <1>1, <1>2, <1>5, Existing DEF Steps
  <2> HIDE DEF text
  <2>3. call' = [call EXCEPT ![c] = p]
    BY <1>1, <2>1, RowOf DEF CallRows
  <2>4. /\ p \in CallRows /\ SameTask(p, q) /\ p.step = "index_replace" /\ p.text = text
        /\ p.art = q.art /\ p.errors = q.errors
    BY <1>1, <2>2 DEF CallRows, SameTask, SameRequest
  <2> HIDE DEF p
  <2>5. Only(c) /\ call'[c] = p
    BY <1>1, <2>3, <2>4, RowOf DEF Only
  <2>6. TypeOK' /\ Lasting /\ Elsewhere(c)
    BY <1>1, <1>2, <2>5, TablesKept DEF TypeOK
  <2>7. Knows(call'[c])
    BY <1>1, <1>2, <2>2, <2>4, <2>5 DEF Knows, KindAt, SameTask, SameRequest, WithArticle,
          WithoutArticle, Indexing
  <2>8. Proceeds(c)
    BY <1>1, <2>4, <2>5 DEF Proceeds, SameTask, SameRequest
  <2>9. Named(c)'
    BY <1>2, <2>4, <2>5, Before DEF Named, SameTask, SameRequest
  <2>10. QED
    BY <2>6, <2>7, <2>8, <2>9 DEF Good
<1>6. QED
  BY <1>3, <1>4, <1>5

LEMMA IndexedGoesOn ==
    ASSUME Core, NEW c \in Calls, call[c].step \in {"index_delete", "index_replace"},
           Lasting, Only(c), IndexedTo(call'[c], call[c])
    PROVE  Proceeds(c) /\ Named(c)' /\ Knows(call'[c]) /\ call[c].art \in About(c)'
<1> DEFINE q == call[c]
           p == call'[c]
<1>1. q \in CallRows /\ Knows(q) /\ Names /\ "publish" \in Steps \ {"idle"}
  BY Before DEF Steps
<1>2. q.art \in Articles
  BY <1>1 DEF Knows, WithArticle, Indexing
<1>3. CASE q.restoring /\ Ends(p, q, "error")
  <2>1. Knows(p)
    BY <1>1, <1>3, EndsKnows
  <2>2. q.art \in About(c)'
    BY <1>2, <1>3, StillAbout DEF Ends, SameRequest
  <2>3. QED
    BY <1>1, <1>3, <2>1, <2>2, GoesOn
<1>4. CASE ~q.restoring /\ q.kind = "rebuild" /\ Leaves(p, q, q.errors)
  <2>1. None \notin q.todo
    BY <1>1 DEF CallRows, Names
  <2>2. Knows(p)
    BY <1>1, <1>4, <2>1 DEF Knows, KindAt, Leaves, SameTask, SameRequest, WithArticle, WithoutArticle,
          Indexing
  <2>3. q.art \in About(c)'
    BY <1>2, <1>4, StillAbout DEF Leaves, SameTask, SameRequest
  <2>4. QED
    BY <1>1, <1>4, <2>2, <2>3, GoesOn
<1>5. CASE ~q.restoring /\ q.kind # "rebuild" /\ Forgets(p, q, "publish")
  <2>1. q.kind \in {"create", "update", "publish", "approveSuggestion"}
    BY <1>1, <1>5 DEF Knows, KindAt, Indexing
  <2>2. Knows(p)
    BY <1>1, <1>2, <1>5, <2>1 DEF Knows, KindAt, Forgets, SameTask, SameRequest, WithArticle,
          WithoutArticle, Indexing
  <2>3. q.art \in About(c)'
    BY <1>2, <1>5, StillAbout DEF Forgets, SameTask, SameRequest
  <2>4. QED
    BY <1>1, <1>5, <2>2, <2>3, GoesOn
<1>6. QED
  BY <1>3, <1>4, <1>5 DEF IndexedTo

LEMMA reindexDeleteGood ==
    ASSUME Core, NEW c \in Calls, reindexDelete(c)
    PROVE  Good(c)
<1> DEFINE a == call[c].art
<1>1. TypeOK /\ Knows(call[c]) /\ Names /\ call[c].step = "index_delete"
  BY Before DEF reindexDelete
<1>2. a \in Articles
  BY <1>1 DEF Knows, WithArticle, Indexing
<1>3. /\ AfterIndex(c) /\ chunks' = [chunks EXCEPT ![a] = None]
      /\ UNCHANGED <<article, suggestion, source, unrestored, failures>>
  BY DEF reindexDelete
<1>4. Only(c) /\ IndexedTo(call'[c], call[c])
  BY <1>1, <1>3, AfterIndexEffect
<1>5. Lasting
  BY <1>3 DEF Lasting
<1>6. Proceeds(c) /\ Named(c)' /\ Knows(call'[c]) /\ a \in About(c)'
  BY <1>1, <1>4, <1>5, IndexedGoesOn
<1>7. TypeOK' /\ Elsewhere(c)
  BY <1>2, <1>3, <1>4, <1>6, ChunksWritten
<1>8. QED
  BY <1>5, <1>6, <1>7 DEF Good

LEMMA replaceChunksGood ==
    ASSUME Core, NEW c \in Calls, replaceChunks(c)
    PROVE  Good(c)
<1> DEFINE a == call[c].art
<1>1. TypeOK /\ Knows(call[c]) /\ Names /\ call[c].step = "index_replace"
  BY Before DEF replaceChunks
<1>2. a \in Articles /\ call[c].text \in Versions \ Blank
      /\ UNCHANGED <<article, suggestion, source, unrestored, failures>>
  BY <1>1 DEF replaceChunks, Knows, WithArticle, Indexing
<1>3. CASE ~Exists(a)
  <2>1. Caught(c) /\ UNCHANGED chunks
    BY <1>3 DEF replaceChunks
  <2>2. QED
    BY <1>1, <1>2, <2>1, CaughtGood DEF TypeOK
<1>4. CASE Exists(a)
  <2>1. AfterIndex(c) /\ chunks' = [chunks EXCEPT ![a] = call[c].text]
    BY <1>4 DEF replaceChunks
  <2>2. Only(c) /\ IndexedTo(call'[c], call[c])
    BY <1>1, <2>1, AfterIndexEffect
  <2>3. Lasting
    BY <1>2 DEF Lasting
  <2>4. Proceeds(c) /\ Named(c)' /\ Knows(call'[c]) /\ a \in About(c)'
    BY <1>1, <2>2, <2>3, IndexedGoesOn
  <2>5. TypeOK' /\ Elsewhere(c)
    BY <1>2, <2>1, <2>2, <2>4, ChunksWritten
  <2>6. QED
    BY <2>3, <2>4, <2>5 DEF Good
<1>5. QED
  BY <1>3, <1>4

LEMMA deleteChunksForCompanyGood ==
    ASSUME Core, NEW c \in Calls, deleteChunksForCompany(c)
    PROVE  Good(c)
<1> DEFINE q == call[c]
<1>1. TypeOK /\ q \in CallRows /\ Knows(q) /\ Names /\ q.step = "clear" /\ q.kind = "rebuild"
      /\ "next" \in Steps \ {"idle"}
  BY Before DEF deleteChunksForCompany, Knows, KindAt, Steps
<1>2. /\ Goto(c, "next") /\ chunks' = [a \in Articles |-> None]
      /\ UNCHANGED <<article, suggestion, source, unrestored, failures>>
  BY DEF deleteChunksForCompany
<1>3. Only(c) /\ Goes(call'[c], q, "next")
  BY <1>1, <1>2, GotoEffect
<1>4. TypeOK'
  BY <1>1, <1>2, <1>3 DEF TypeOK, Only, CallRows
<1>5. Lasting
  BY <1>2 DEF Lasting
<1>6. Elsewhere(c)
  BY <1>1, <1>3 DEF Elsewhere, About, Goes, SameTask, SameRequest
<1>7. Knows(call'[c])
  BY <1>1, <1>3 DEF Knows, KindAt, Goes, SameTask, SameRequest, WithArticle, WithoutArticle, Indexing
<1>8. QED
  BY <1>1, <1>3, <1>4, <1>5, <1>6, <1>7, GotoGood

LEMMA nextArticleGood ==
    ASSUME Core, NEW c \in Calls, nextArticle(c)
    PROVE  Good(c)
<1> DEFINE q == call[c]
<1>1. TypeOK /\ q \in CallRows /\ Knows(q) /\ Names /\ q.step = "next" /\ q.kind = "rebuild"
      /\ ~q.restoring /\ Named(c)
  BY Before DEF nextArticle, Knows, KindAt
<1>2. UNCHANGED <<article, chunks, suggestion, source, unrestored, failures>>
  BY DEF nextArticle
<1>3. CASE q.todo = {}
  <2>1. End(c, "ok")
    BY <1>3 DEF nextArticle
  <2>2. QED
    BY <1>1, <1>2, <2>1, EndGood DEF TypeOK
<1>4. CASE q.todo # {}
  <2>1. PICK a \in q.todo : call' = [call EXCEPT ![c].step = "index_read", ![c].art = a,
                                                 ![c].todo = q.todo \ {a}]
    BY <1>4 DEF nextArticle
  <2> DEFINE todo == q.todo \ {a}
             p == [q EXCEPT !.step = "index_read", !.art = a, !.todo = todo]
  <2>2. a \in Articles /\ todo \in SUBSET Articles /\ "index_read" \in Steps
    BY <1>1 DEF CallRows, Steps
  <2>3. call' = [call EXCEPT ![c] = p]
    BY <1>1, <2>1, RowOf DEF CallRows
  <2>4. todo \cup {a} = q.todo /\ a \notin todo
    OBVIOUS
  <2> HIDE DEF todo
  <2>5. /\ p \in CallRows /\ p.kind = q.kind /\ p.sug = q.sug /\ p.ended = q.ended
        /\ p.restoring = q.restoring /\ p.result = q.result /\ p.step = "index_read"
        /\ p.art = a /\ p.errors = q.errors /\ p.todo = todo
    BY <1>1, <2>2 DEF CallRows
  <2> HIDE DEF p
  <2>6. Only(c) /\ call'[c] = p
    BY <1>1, <2>3, <2>5, RowOf DEF Only
  <2>7. TypeOK' /\ Lasting /\ Elsewhere(c)
    BY <1>1, <1>2, <2>6, TablesKept DEF TypeOK
  <2>8. Knows(call'[c])
    BY <1>1, <2>2, <2>4, <2>5, <2>6 DEF Knows, KindAt, WithArticle, WithoutArticle, Indexing
  <2>9. Proceeds(c)
    BY <1>1, <2>5, <2>6 DEF Proceeds
  <2>10. Named(c)'
    BY <1>1, <1>2, <2>4, <2>5, <2>6 DEF Named
  <2>11. QED
    BY <2>7, <2>8, <2>9, <2>10 DEF Good
<1>5. QED
  BY <1>3, <1>4

LEMMA restoreGood ==
    ASSUME Core, NEW c \in Calls, restoreArticleSnapshot(c)
    PROVE  Good(c)
<1> DEFINE q == call[c]
           a == q.art
<1>1. TypeOK /\ q \in CallRows /\ Knows(q) /\ Names /\ q.step = "restore"
      /\ UNCHANGED <<chunks, suggestion, source, unrestored, failures>>
  BY Before DEF restoreArticleSnapshot
<1>2. a \in Articles /\ q.kind = "update" /\ q.seen \in LiveRows
  BY <1>1 DEF Knows, KindAt, WithArticle
<1>3. CASE ~Exists(a)
  <2>1. End(c, "error") /\ UNCHANGED article
    BY <1>3 DEF restoreArticleSnapshot
  <2>2. QED
    BY <1>1, <1>2, <2>1, EndGood DEF TypeOK
<1>4. CASE Exists(a)
  <2> DEFINE step == IF q.seen.status = "published" THEN "index_read" ELSE "restore_chunks"
             p == [q EXCEPT !.restoring = TRUE, !.text = None, !.step = step]
             row == q.seen
  <2>1. /\ article' = [article EXCEPT ![a] = row]
        /\ call' = [call EXCEPT ![c].restoring = TRUE, ![c].text = None, ![c].step = step]
    BY <1>4 DEF restoreArticleSnapshot
  <2>2. /\ step \in Steps /\ step \in {"index_read", "restore_chunks"}
        /\ (step = "index_read" => q.seen.status = "published")
        /\ (step = "restore_chunks" => q.seen.status # "published")
    BY DEF Steps
  <2> HIDE DEF step
  <2>3. call' = [call EXCEPT ![c] = p]
    BY <1>1, <2>1, RowOf DEF CallRows
  <2>4. /\ p \in CallRows /\ SameRequest(p, q) /\ p.target = q.target /\ p.seen = q.seen
        /\ p.restoring /\ p.result = q.result /\ p.step = step /\ p.text = None
        /\ p.art = a /\ p.errors = q.errors
    BY <1>1, <2>2 DEF CallRows, SameRequest
  <2> HIDE DEF p
  <2>5. Only(c) /\ call'[c] = p
    BY <1>1, <2>3, <2>4, RowOf DEF Only
  <2>6. row \in LiveRows \cup {Row("deleted", None)}
    BY <1>2
  <2> HIDE DEF row
  <2>7. TypeOK' /\ Lasting /\ Elsewhere(c)
    BY <1>1, <1>2, <1>4, <2>1, <2>4, <2>5, <2>6, RowWritten, StillAbout DEF SameRequest
  <2>8. Knows(call'[c])
    BY <1>1, <1>2, <2>2, <2>4, <2>5 DEF Knows, KindAt, SameRequest, WithArticle, WithoutArticle,
          Indexing
  <2>9. Proceeds(c)
    BY <1>1, <2>2, <2>4, <2>5 DEF Proceeds, SameRequest
  <2>10. Named(c)'
    BY <1>1, <2>4, <2>5, <2>7, Before DEF Named, SameRequest, Lasting
  <2>11. QED
    BY <2>7, <2>8, <2>9, <2>10 DEF Good
<1>5. QED
  BY <1>3, <1>4

LEMMA createArticleGood ==
    ASSUME Core, NEW c \in Calls, NEW a \in Articles, createArticle(c, a)
    PROVE  Good(c)
<1> DEFINE q == call[c]
           row == Row(IF q.target = "published" THEN "draft" ELSE q.target, q.text)
<1>1. TypeOK /\ q \in CallRows /\ Knows(q) /\ Names /\ q.step = "create" /\ Named(c)
  BY Before DEF createArticle
<1>2. q.text \in Versions /\ q.target \in Statuses /\ q.art = None
      /\ q.kind \in {"create", "approveSuggestion"} /\ ~q.restoring
      /\ (q.kind = "approveSuggestion" => q.target = "published")
  BY <1>1 DEF Knows, KindAt, WithoutArticle, Indexing
<1>3. /\ article[a] = NoArticle /\ article' = [article EXCEPT ![a] = row]
      /\ source' = [source EXCEPT ![a] = q.sug]
      /\ UNCHANGED <<chunks, suggestion, unrestored, failures>>
  BY DEF createArticle
<1>4. row \in LiveRows /\ row.status # "published" /\ row # NoArticle /\ row \in Rows
  BY <1>2, RowsTyped DEF Statuses
<1> HIDE DEF row
<1>5. /\ article' \in [Articles -> Rows] /\ article'[a] = row
      /\ \A b \in Articles : b # a => article'[b] = article[b]
      /\ source' \in [Articles -> Suggestions \cup {None}]
  BY <1>1, <1>3, <1>4 DEF TypeOK, CallRows
<1>6. Lasting
  BY <1>4, <1>5 DEF Lasting
<1>7. Elsewhere(c)
  BY <1>3, <1>4, <1>5 DEF Elsewhere
<1>8. ASSUME Only(c)
      PROVE  TypeOK'
  BY <1>1, <1>3, <1>5, <1>8 DEF TypeOK, Only, CallRows
<1>9. CASE q.target = "published"
  <2> DEFINE p == [q EXCEPT !.art = a, !.step = "index_read", !.text = None]
  <2>1. call' = [call EXCEPT ![c].art = a, ![c].step = "index_read", ![c].text = None]
    BY <1>9 DEF createArticle
  <2>2. "index_read" \in Steps
    BY DEF Steps
  <2>3. call' = [call EXCEPT ![c] = p]
    BY <1>1, <2>1, RowOf DEF CallRows
  <2>4. /\ p \in CallRows /\ SameTask(p, q) /\ p.step = "index_read" /\ p.text = None
        /\ p.art = a /\ p.errors = q.errors
    BY <1>1, <2>2 DEF CallRows, SameTask, SameRequest
  <2> HIDE DEF p
  <2>5. Only(c) /\ call'[c] = p
    BY <1>1, <2>3, <2>4, RowOf DEF Only
  <2>6. q.kind = "approveSuggestion" => q.result \notin {"ok", "skipped"} /\ q.sug # None
    BY <1>1 DEF Knows, Names, Outcomes
  <2>7. Knows(call'[c])
    BY <1>1, <1>2, <2>4, <2>5, <2>6 DEF Knows, KindAt, SameTask, SameRequest, WithArticle,
          WithoutArticle, Indexing
  <2>8. Proceeds(c)
    BY <1>1, <1>2, <2>4, <2>5 DEF Proceeds, SameTask, SameRequest
  <2>9. Named(c)'
    BY <1>1, <1>4, <1>5, <1>6, <2>4, <2>5 DEF Named, SameTask, SameRequest, Lasting
  <2>10. QED
    BY <1>6, <1>7, <1>8, <2>5, <2>7, <2>8, <2>9 DEF Good
<1>10. CASE q.target # "published"
  <2>1. End(c, "ok") /\ "ok" \in Outcomes
    BY <1>10 DEF createArticle, Outcomes
  <2>2. Only(c) /\ Ends(call'[c], q, "ok")
    BY <1>1, <2>1, EndEffect
  <2>3. QED
    BY <1>1, <1>2, <1>6, <1>7, <1>8, <1>10, <2>2, EndedGood
<1>11. QED
  BY <1>9, <1>10

SuggestionStates == {"none", "pending", "approved", "rejected"}

LEMMA createSuggestionGood ==
    ASSUME Core, NEW c \in Calls, NEW g \in Suggestions, createSuggestion(c, g)
    PROVE  Good(c)
<1> DEFINE q == call[c]
<1>1. TypeOK /\ q \in CallRows /\ Knows(q) /\ Names /\ q.step = "learn"
      /\ "notify" \in Steps \ {"idle"}
  BY Before DEF createSuggestion, Steps
<1>2. /\ Goto(c, "notify") /\ suggestion' = [suggestion EXCEPT ![g] = "pending"]
      /\ UNCHANGED <<article, chunks, source, unrestored, failures>>
  BY DEF createSuggestion
<1>3. Only(c) /\ Goes(call'[c], q, "notify")
  BY <1>1, <1>2, GotoEffect
<1>4. TypeOK' /\ Lasting /\ Elsewhere(c)
  BY <1>1, <1>2, <1>3, TablesKept DEF TypeOK
<1>5. q.kind = "learnFromHumanResponse" /\ ~q.restoring /\ q.art = None
  BY <1>1 DEF Knows, KindAt, WithoutArticle, Indexing
<1>6. Knows(call'[c])
  BY <1>1, <1>3, <1>5 DEF Knows, KindAt, Goes, SameTask, SameRequest, WithArticle, WithoutArticle,
        Indexing
<1>7. QED
  BY <1>1, <1>3, <1>4, <1>6, GotoGood

LEMMA notifyGood ==
    ASSUME Core, NEW c \in Calls, notify(c)
    PROVE  Good(c)
<1>1. TypeOK /\ Knows(call[c]) /\ call[c].step = "notify"
  BY Before DEF notify
<1>2. call[c].kind # "approveSuggestion"
  BY <1>1 DEF Knows, KindAt
<1>3. QED
  BY <1>1, <1>2, EndGood DEF notify, TypeOK

LEMMA writeApprovedGood ==
    ASSUME Core, NEW c \in Calls, writeApproved(c)
    PROVE  Good(c)
<1>1. TypeOK /\ Knows(call[c]) /\ call[c].step = "approve" /\ Names
  BY Before DEF writeApproved
<1>2. call[c].art # None
  BY <1>1 DEF Knows, WithArticle, Names
<1>3. suggestion' \in [Suggestions -> SuggestionStates]
  BY <1>1 DEF writeApproved, TypeOK, SuggestionStates
<1>4. QED
  BY <1>1, <1>2, <1>3, EndGood DEF writeApproved, TypeOK, SuggestionStates

LEMMA writeSuggestionRejectedGood ==
    ASSUME Core, NEW c \in Calls, writeSuggestionRejected(c)
    PROVE  Good(c)
<1>1. TypeOK /\ Knows(call[c]) /\ call[c].step = "reject_suggestion" /\ Names
  BY Before DEF writeSuggestionRejected
<1>2. call[c].kind = "rejectSuggestion"
  BY <1>1 DEF Knows, KindAt
<1>3. suggestion' \in [Suggestions -> SuggestionStates]
  BY <1>1 DEF writeSuggestionRejected, TypeOK, SuggestionStates
<1>4. QED
  BY <1>1, <1>2, <1>3, EndGood DEF writeSuggestionRejected, TypeOK, SuggestionStates

LEMMA HalfDoneTyped ==
    ASSUME Core, NEW c \in Calls, call[c].step \notin {"idle", "done"}
    PROVE  LeftHalfDone(c) \subseteq Articles
<1> DEFINE q == call[c]
           first == q.step \in {"rollback", "restore", "restore_chunks"} \/ q.restoring
<1>1. q \in CallRows /\ Knows(q)
  BY Before
<1>2. CASE first
  <2>1. q.kind # "rebuild" /\ q.art \in Articles
    BY <1>1, <1>2 DEF Knows, KindAt, WithArticle, Indexing
  <2>2. LeftHalfDone(c) = {q.art}
    BY <1>2, <2>1 DEF LeftHalfDone
  <2>3. QED
    BY <2>1, <2>2
<1>3. CASE ~first /\ q.kind = "rebuild"
  <2>1. LeftHalfDone(c) = (q.todo \cup {q.art}) \ {None}
    BY <1>3 DEF LeftHalfDone
  <2>2. QED
    BY <1>1, <2>1 DEF CallRows
<1>4. CASE ~first /\ q.kind # "rebuild"
  <2>1. LeftHalfDone(c) = {}
    BY <1>4 DEF LeftHalfDone
  <2>2. QED
    BY <2>1
<1>5. QED
  BY <1>2, <1>3, <1>4

LEMMA FailuresTyped ==
    ASSUME TypeOK, failures < MaxFailures
    PROVE  failures + 1 \in 0 .. MaxFailures
BY KbAssumption DEF TypeOK

LEMMA ThrowGood ==
    ASSUME Core, NEW c \in Calls, Throw(c)
    PROVE  Good(c)
<1>1. TypeOK /\ Knows(call[c]) /\ call[c].step \notin {"idle", "done", "next"}
  BY Before DEF Throw
<1>2. /\ UNCHANGED <<article, chunks, suggestion, source>> /\ failures' \in 0 .. MaxFailures
      /\ unrestored \subseteq unrestored' /\ unrestored' \subseteq Articles
  BY <1>1, HalfDoneTyped, FailuresTyped DEF Throw, TypeOK
<1>3. CASE call[c].step \in {"rollback", "restore"}
  <2>1. End(c, "error")
    BY <1>3 DEF Throw
  <2>2. QED
    BY <1>1, <1>2, <2>1, EndGood DEF TypeOK
<1>4. CASE call[c].step \notin {"rollback", "restore"}
  <2>1. Caught(c)
    BY <1>4 DEF Throw
  <2>2. QED
    BY <1>1, <1>2, <1>4, <2>1, CaughtGood
<1>5. QED
  BY <1>3, <1>4

LEMMA CrashGood ==
    ASSUME Core, NEW c \in Calls, Crash(c)
    PROVE  Good(c)
<1>1. TypeOK /\ Knows(call[c]) /\ call[c].step \notin {"idle", "done"}
  BY Before DEF Crash
<1>2. /\ UNCHANGED <<article, chunks, suggestion, source>> /\ failures' \in 0 .. MaxFailures
      /\ unrestored \subseteq unrestored' /\ unrestored' \subseteq Articles
  BY <1>1, HalfDoneTyped, FailuresTyped DEF Crash, TypeOK
<1>3. QED
  BY <1>1, <1>2, EndGood DEF Crash, TypeOK

-----------------------------------------------------------------------------
(* The invariant Core *)

Step(c) == Enter(c) \/ Work(c) \/ Throw(c) \/ Crash(c)

LEMMA EnterGood ==
    ASSUME Core, NEW c \in Calls, Enter(c)
    PROVE  Good(c)
<1>1. ASSUME NEW a \in Articles, NEW published \in BOOLEAN, publish(c, a, published)
      PROVE  Good(c)
  BY <1>1, BeginOnGood DEF publish
<1>2. ASSUME NEW a \in Articles, remove(c, a) \/ reject(c, a)
      PROVE  Good(c)
  BY <1>2, BeginOnGood DEF remove, reject
<1>3. QED
  BY <1>1, <1>2, createGood, updateGood, rebuildGood, learnGood, approveGood, rejectSuggestionGood
     DEF Enter

LEMMA StepGood ==
    ASSUME Core, NEW c \in Calls, Step(c)
    PROVE  Good(c)
BY EnterGood, createArticleGood, writeDraftGood, writePublishedGood, writeStatusGood,
   writeUnpublishedGood, writeRejectedGood, deleteArticleGood, deleteChunksGood, reindexReadGood,
   reindexDeleteGood, replaceChunksGood, deleteChunksForCompanyGood, nextArticleGood, restoreGood,
   createSuggestionGood, notifyGood, writeApprovedGood, writeSuggestionRejectedGood, ThrowGood,
   CrashGood DEF Step, Work

LEMMA CoreInit == Init => Core
<1> SUFFICES ASSUME Init PROVE Core
  OBVIOUS
<1>1. call = [c \in Calls |-> NewCall] /\ NewCall \in CallRows /\ Names
  BY NewCallTyped, NoneIsNoName DEF Init
<1>2. /\ NewCall.step = "idle" /\ NewCall.art = None /\ NewCall.todo = {} /\ ~NewCall.restoring
      /\ NewCall.sug = None /\ NewCall.result = None /\ NewCall.kind = None /\ NewCall.ended = {}
  BY DEF NewCall
<1>3. TypeOK
  <2>1. article \in [Articles -> Rows]
    BY DEF Init, Rows, Statuses, Row, NoArticle
  <2>2. chunks \in [Articles -> (Versions \ Blank) \cup {None}]
    <3>1. \A a \in Articles : article[a].status = "published" => article[a].body \in Versions \ Blank
      BY DEF Init, Row, NoArticle
    <3>2. QED
      BY <3>1 DEF Init
  <2>3. suggestion \in [Suggestions -> {"none", "pending", "approved", "rejected"}]
    BY DEF Init
  <2>4. source \in [Articles -> Suggestions \cup {None}] /\ unrestored \subseteq Articles
        /\ failures \in 0 .. MaxFailures
    BY KbAssumption DEF Init
  <2>5. call \in [Calls -> CallRows]
    BY <1>1
  <2>6. QED
    BY <2>1, <2>2, <2>3, <2>4, <2>5 DEF TypeOK, CallRows
<1>4. ASSUME NEW c \in Calls
      PROVE  Knows(call[c]) /\ Named(c) /\ call[c].ended = {}
  <2>1. call[c] = NewCall
    BY <1>1
  <2>2. Knows(NewCall)
    BY <1>1, <1>2 DEF Knows, KindAt, WithArticle, WithoutArticle, Indexing, Names, Entries, Outcomes
  <2>3. QED
    BY <1>1, <1>2, <2>1, <2>2 DEF Named, Names
<1>5. QED
  BY <1>3, <1>4 DEF Core, EndedEnded

LEMMA CoreStep ==
    ASSUME Core, NEW c \in Calls, Step(c)
    PROVE  Core' /\ Good(c)
<1>1. Good(c) /\ Only(c) /\ Proceeds(c)
  BY StepGood DEF Good, Proceeds
<1>2. TypeOK'
  BY <1>1 DEF Good
<1>3. ASSUME NEW d \in Calls
      PROVE  Knows(call'[d]) /\ Named(d)'
  <2>1. CASE d = c
    BY <1>1, <2>1 DEF Good
  <2>2. CASE d # c
    BY <1>1, <2>2, Before DEF Good, Only, Named, Lasting
  <2>3. QED
    BY <2>1, <2>2
<1>4. Ended \subseteq Ended'
  BY <1>1 DEF Ended, Only, Proceeds
<1>5. EndedEnded'
  <2> SUFFICES ASSUME NEW d \in Calls
               PROVE  call'[d].ended \subseteq Ended'
    BY DEF EndedEnded
  <2>1. call[d].ended \subseteq Ended
    BY DEF Core, EndedEnded
  <2>2. call'[d].ended \in {call[d].ended, Ended}
    BY <1>1 DEF Only, Proceeds
  <2>3. QED
    BY <1>4, <2>1, <2>2
<1>6. QED
  BY <1>1, <1>2, <1>3, <1>5 DEF Core

-----------------------------------------------------------------------------
(* The index: what overlaps, and what the only call at work on an article does *)

\* What a failed creation or update leaves behind.
NoTrace(c, a) ==
    call'[c].result = "error" /\ a = call[c].art /\ a \notin unrestored' =>
        /\ call[c].kind = "create" => article'[a].status = "deleted" /\ chunks'[a] = None
        /\ call[c].kind = "update" =>
             /\ article'[a] = call[c].seen
             /\ call[c].seen.status = "published" /\ call[c].seen.body \notin Blank
                  => chunks'[a] = call[c].seen.body

\* What a step of the only call at work on an article must achieve.
After(c, a) ==
    /\ call'[c].step = "done" => Safe(a)' /\ NoTrace(c, a)
    /\ call'[c].step # "done" => Covered(c, a)'

Covers(c) ==
    \A a \in Articles :
        /\ a \in About(c)'
        /\ IF Working(c, a) THEN Covered(c, a) ELSE Safe(a)
        => After(c, a)

LEMMA Onwards ==
    ASSUME Core, NEW c \in Calls, Good(c)
    PROVE  /\ Only(c) /\ call[c].step # "done" /\ call'[c].step # "idle"
           /\ Begun \subseteq Begun' /\ c \in Begun' /\ Ended \subseteq Ended'
           /\ Reported \subseteq Reported'
           /\ \A d \in Begun : /\ call'[d].kind = call[d].kind /\ call'[d].ended = call[d].ended
                               /\ \A a \in Articles : a \in About(d) => a \in About(d)'
<1>1. Only(c) /\ Proceeds(c) /\ Names
  BY Before DEF Good, Proceeds
<1>2. /\ Begun \subseteq Begun' /\ c \in Begun' /\ Ended \subseteq Ended'
      /\ call[c].step # "done" /\ call'[c].step # "idle"
  BY <1>1 DEF Begun, Ended, Only, Proceeds
<1>3. Reported \subseteq Reported'
  <2>1. \A d \in Calls : call[d].errors \subseteq call'[d].errors
    BY <1>1 DEF Only, Proceeds
  <2>2. QED
    BY <2>1 DEF Reported
<1>4. ASSUME NEW d \in Begun
      PROVE  /\ call'[d].kind = call[d].kind /\ call'[d].ended = call[d].ended
             /\ \A a \in Articles : a \in About(d) => a \in About(d)'
  <2>1. CASE d # c
    BY <1>1, <2>1 DEF Only, Begun, About
  <2>2. CASE d = c
    <3>1. call[c].step # "idle"
      BY <1>4, <2>2 DEF Begun
    <3>2. /\ call'[c].kind = call[c].kind /\ call'[c].ended = call[c].ended
          /\ (call[c].art # None /\ call[c].kind # "rebuild" => call'[c].art = call[c].art)
      BY <1>1, <3>1 DEF Proceeds
    <3>3. QED
      BY <1>1, <2>2, <3>2 DEF About, Names
  <2>3. QED
    BY <2>1, <2>2
<1>5. QED
  BY <1>1, <1>2, <1>3, <1>4

LEMMA OverlapStays ==
    ASSUME Core, NEW c \in Calls, Good(c), NEW d \in Begun, NEW e \in Begun, Overlap(d, e)
    PROVE  Overlap(d, e)'
BY Onwards DEF Overlap

LEMMA ContendedStays ==
    ASSUME Core, NEW c \in Calls, Good(c), NEW a \in Articles, Contended(a)
    PROVE  Contended(a)'
<1>1. PICK d \in Begun, e \in Begun : Overlap(d, e) /\ a \in About(d) \cap About(e)
  BY DEF Contended
<1>2. d \in Begun' /\ e \in Begun' /\ Overlap(d, e)' /\ a \in About(d)' /\ a \in About(e)'
  BY <1>1, Onwards, OverlapStays
<1>3. QED
  BY <1>2 DEF Contended

\* Two calls at work at once overlap.
LEMMA AtOnce ==
    ASSUME Core, NEW c \in Calls, Good(c), NEW d \in Calls, d # c,
           call[d].step \notin {"idle", "done"}
    PROVE  d \in Begun' /\ Overlap(c, d)'
<1>1. d \in Begun /\ d \notin Ended /\ c \notin Ended
  BY Onwards DEF Begun, Ended
<1>2. call[d].ended \subseteq Ended /\ call[c].ended \subseteq Ended
  BY DEF Core, EndedEnded
<1>3. call'[d].ended = call[d].ended /\ call'[c].ended \in {call[c].ended, Ended}
  BY <1>1, Onwards DEF Good, Proceeds
<1>4. QED
  BY <1>1, <1>2, <1>3, Onwards DEF Overlap

LEMMA Alone ==
    ASSUME Core, NEW c \in Calls, Good(c), NEW a \in Articles, ~Contended(a)', a \in About(c)',
           NEW d \in Calls, d # c
    PROVE  ~Working(d, a)
<1> SUFFICES ASSUME Working(d, a) PROVE FALSE
  OBVIOUS
<1>1. d \in Begun' /\ Overlap(c, d)' /\ c \in Begun'
  BY AtOnce, Onwards DEF Working
<1>2. a \in About(d)'
  BY Onwards DEF Working, Begun
<1>3. QED
  BY <1>1, <1>2 DEF Contended

LEMMA SafeStays ==
    ASSUME NEW a \in Articles, Safe(a), article'[a] = article[a], chunks'[a] = chunks[a],
           a \in unrestored => a \in unrestored', Reported \subseteq Reported'
    PROVE  Safe(a)'
BY DEF Safe, Indexed

\* The other articles.
LEMMA ElsewhereCovered ==
    ASSUME Core, NEW c \in Calls, Good(c), NEW a \in Articles, a \notin About(c)'
    PROVE  /\ Safe(a) => Safe(a)'
           /\ \A d \in Calls : Working(d, a)' => d # c /\ Working(d, a)
           /\ \A d \in Calls : d # c /\ Working(d, a) /\ Covered(d, a) => Covered(d, a)'
<1>1. /\ chunks'[a] = chunks[a] /\ (a \in unrestored => a \in unrestored')
      /\ Only(c) /\ Reported \subseteq Reported'
  BY Onwards DEF Good, Elsewhere
<1>2. \A d \in Calls : d # c => call'[d] = call[d] /\ (Working(d, a)' <=> Working(d, a))
  BY <1>1 DEF Only, Working, About
<1>3. ~Working(c, a)'
  BY DEF Working
<1>4. CASE article'[a] = article[a]
  <2>1. Safe(a) => Safe(a)'
    BY <1>1, <1>4, SafeStays
  <2>2. ASSUME NEW d \in Calls, d # c, Covered(d, a)
        PROVE  Covered(d, a)'
    <3>1. HoldsOn(d, a)'
      BY <1>1, <1>2, <1>4, <2>2 DEF Covered, HoldsOn, Indexed, Exists
    <3>2. Unsettled(d, a) => Unsettled(d, a)'
      BY <1>2, <2>2 DEF Unsettled
    <3>3. QED
      BY <2>1, <2>2, <3>1, <3>2 DEF Covered
  <2>3. QED
    BY <1>2, <1>3, <2>1, <2>2
<1>5. CASE article[a] = NoArticle /\ article'[a].status # "published"
  <2>1. Safe(a)'
    BY <1>5 DEF Safe
  <2>2. ASSUME NEW d \in Calls, d # c, Working(d, a), Covered(d, a)
        PROVE  Covered(d, a)'
    <3>1. a \notin call[d].todo \cup {call[d].art} /\ Knows(call[d]) /\ call'[d] = call[d]
      BY <1>2, <1>5, <2>2, Before DEF Named
    <3>2. call[d].kind = "rebuild"
      BY <2>2, <3>1 DEF Working, About
    <3>3. call[d].step \notin {"update", "publish", "unpublish_chunks"} /\ ~call[d].restoring
      BY <3>1, <3>2 DEF Knows, KindAt
    <3>4. HoldsOn(d, a)'
      BY <1>5, <3>1, <3>2, <3>3 DEF HoldsOn
    <3>5. QED
      BY <2>1, <3>4 DEF Covered
  <2>3. QED
    BY <1>2, <1>3, <2>1, <2>2
<1>6. QED
  BY <1>4, <1>5 DEF Good, Elsewhere

LEMMA IndexStep ==
    ASSUME Core, IndexInv, NEW c \in Calls, Good(c), Covers(c)
    PROVE  IndexInv'
<1> SUFFICES ASSUME NEW a \in Articles, ~Contended(a)'
             PROVE  /\ (\A d \in Calls : ~Working(d, a)') => Safe(a)'
                    /\ \A d \in Calls : Working(d, a)' => Covered(d, a)'
  BY DEF IndexInv
<1>1. /\ (\A d \in Calls : ~Working(d, a)) => Safe(a)
      /\ \A d \in Calls : Working(d, a) => Covered(d, a)
  BY ContendedStays DEF IndexInv
<1>2. Only(c) /\ call[c].step # "done" /\ call'[c].step # "idle"
  BY Onwards
<1>3. CASE a \in About(c)'
  <2>1. \A d \in Calls : d # c => ~Working(d, a) /\ ~Working(d, a)'
    <3>1. \A d \in Calls : d # c => ~Working(d, a) /\ call'[d] = call[d]
      BY <1>2, <1>3, Alone DEF Only
    <3>2. QED
      BY <3>1 DEF Working, About
  <2>2. IF Working(c, a) THEN Covered(c, a) ELSE Safe(a)
    BY <1>1, <2>1
  <2>3. After(c, a)
    BY <1>3, <2>2 DEF Covers
  <2>4. CASE call'[c].step = "done"
    BY <2>1, <2>3, <2>4 DEF After, Working
  <2>5. CASE call'[c].step # "done"
    <3>1. Working(c, a)'
      BY <1>2, <1>3, <2>5 DEF Working
    <3>2. QED
      BY <2>1, <2>3, <2>5, <3>1 DEF After
  <2>6. QED
    BY <2>4, <2>5
<1>4. CASE a \notin About(c)'
  <2>1. /\ Safe(a) => Safe(a)'
        /\ \A d \in Calls : Working(d, a)' => d # c /\ Working(d, a)
        /\ \A d \in Calls : d # c /\ Working(d, a) /\ Covered(d, a) => Covered(d, a)'
    BY <1>4, ElsewhereCovered
  <2>2. ~Working(c, a)
    <3>1. c \in Begun => (a \in About(c) => a \in About(c)')
      BY Onwards
    <3>2. QED
      BY <1>4, <3>1 DEF Working, Begun
  <2>3. ASSUME NEW d \in Calls, Working(d, a)'
        PROVE  Covered(d, a)'
    BY <1>1, <2>1, <2>3
  <2>4. ASSUME \A d \in Calls : ~Working(d, a)'
        PROVE  Safe(a)'
    <3>1. \A d \in Calls : d # c => ~Working(d, a)
      <4> SUFFICES ASSUME NEW d \in Calls, d # c PROVE ~Working(d, a)
        OBVIOUS
      <4>1. call'[d] = call[d]
        BY <1>2 DEF Only
      <4>2. QED
        BY <2>4, <4>1 DEF Working, About
    <3>2. QED
      BY <1>1, <2>1, <2>2, <3>1
  <2>5. QED
    BY <2>3, <2>4
<1>5. QED
  BY <1>3, <1>4

-----------------------------------------------------------------------------
(* What each step does to the articles its call is about *)

Ready(c, a) == a \in About(c)' /\ (IF Working(c, a) THEN Covered(c, a) ELSE Safe(a))

LEMMA OwnArticle ==
    ASSUME Core, NEW c \in Calls, Good(c), call[c].step \in WithArticle, call[c].kind # "rebuild",
           NEW a \in Articles, Ready(c, a)
    PROVE  /\ a = call[c].art /\ HoldsOn(c, a)
           /\ ~call[c].restoring => Safe(a)
           /\ Exists(a) => article[a] \in LiveRows
           /\ ~Exists(a) => article[a].status # "published"
<1>1. Names /\ Knows(call[c]) /\ TypeOK
  BY Before
<1>2. call[c].art \in Articles /\ call[c].step \notin {"idle", "done"}
  BY <1>1 DEF Knows, WithArticle, Indexing
<1>3. call'[c].kind = call[c].kind /\ call'[c].art = call[c].art
  BY <1>1, <1>2 DEF Good, Proceeds, Names
<1>4. a = call[c].art
  BY <1>3 DEF Ready, About
<1>5. Working(c, a)
  BY <1>2, <1>4 DEF Working, About
<1>6. Covered(c, a)
  BY <1>5 DEF Ready
<1>7. ~call[c].restoring => ~Unsettled(c, a)
  BY DEF Unsettled
<1>8. ~Exists(a) => article[a].status # "published"
  BY DEF Exists, Statuses
<1>9. QED
  BY <1>1, <1>4, <1>6, <1>7, <1>8, Existing DEF Covered

LEMMA CoversByReady ==
    ASSUME NEW c \in Calls, \A a \in Articles : Ready(c, a) => After(c, a)
    PROVE  Covers(c)
BY DEF Covers, Ready

\* The row is gone: the call compensates or ends.
LEMMA GoneCovers ==
    ASSUME Core, NEW c \in Calls, Good(c), Caught(c), ~Exists(call[c].art),
           call[c].step \in Indexing \cup {"update", "publish", "set_status", "unpublish", "reject"},
           \A a \in Articles : article'[a] = article[a] /\ chunks'[a] = chunks[a],
           \A a \in Articles : a # call[c].art /\ a \in unrestored => a \in unrestored'
    PROVE  Covers(c)
<1> DEFINE q == call[c]
           p == call'[c]
<1>1. TypeOK /\ q \in CallRows /\ Knows(q) /\ Names
  BY Before
<1>2. Only(c) /\ CaughtTo(p, q) /\ Reported \subseteq Reported'
  BY <1>1, CaughtEffect, Onwards
<1>3. q.step \in WithArticle /\ q.art \in Articles
  BY <1>1 DEF Knows, WithArticle, Indexing
<1> SUFFICES ASSUME NEW a \in Articles, Ready(c, a) PROVE After(c, a)
  BY CoversByReady
<1>4. CASE q.kind # "rebuild"
  <2>1. a = q.art /\ HoldsOn(c, a) /\ article[a].status # "published"
    BY <1>3, <1>4, OwnArticle
  <2>2. Safe(a)' /\ article'[a].status # "published"
    BY <2>1 DEF Safe
  <2>3. q.kind \notin {"create", "update"}
    BY <2>1 DEF HoldsOn
  <2>4. CASE Ends(p, q, "error")
    BY <2>2, <2>3, <2>4 DEF After, NoTrace, Ends
  <2>5. CASE q.kind \in {"create", "approveSuggestion"} /\ Goes(p, q, "rollback")
    <3>1. p.step = "rollback" /\ p.kind = "approveSuggestion" /\ ~p.restoring
      BY <1>1, <2>3, <2>5 DEF Goes, SameTask, SameRequest, Knows
    <3>2. HoldsOn(c, a)'
      BY <2>2, <3>1 DEF HoldsOn
    <3>3. QED
      BY <2>2, <3>1, <3>2 DEF After, Covered
  <2>6. QED
    BY <1>2, <1>4, <2>3, <2>4, <2>5 DEF CaughtTo
<1>5. CASE q.kind = "rebuild"
  <2>1. q.step \in Indexing /\ ~q.restoring /\ q.art # None
    BY <1>1, <1>3, <1>5 DEF Knows, KindAt, Indexing, Names
  <2>2. p.kind = "rebuild" /\ p.step = "next" /\ p.art = None /\ p.todo = q.todo /\ ~p.restoring
    BY <1>2, <1>5, <2>1 DEF CaughtTo, Leaves, SameTask, SameRequest
  <2>3. Working(c, a)
    BY <1>5, <2>1 DEF Working, About, Indexing
  <2>4. HoldsOn(c, a) /\ (Unsettled(c, a) \/ Safe(a))
    BY <2>3 DEF Ready, Covered
  <2>5. a \in q.todo => chunks'[a] = None
    BY <1>5, <2>1, <2>4 DEF HoldsOn, Indexing
  <2>6. HoldsOn(c, a)'
    BY <1>1, <2>2, <2>5 DEF HoldsOn, Names
  <2>7. Unsettled(c, a)' \/ Safe(a)'
    <3>1. CASE a \in q.todo
      BY <2>2, <3>1 DEF Unsettled
    <3>2. CASE a = q.art
      <4>1. article'[a].status # "published"
        BY <3>2 DEF Exists, Statuses
      <4>2. QED
        BY <4>1 DEF Safe
    <3>3. CASE a \notin q.todo /\ a # q.art
      <4>1. Safe(a)
        BY <2>1, <2>4, <3>3 DEF Unsettled
      <4>2. QED
        BY <1>2, <3>3, <4>1, SafeStays
    <3>4. QED
      BY <3>1, <3>2, <3>3
  <2>8. QED
    BY <2>2, <2>6, <2>7 DEF After, Covered
<1>6. QED
  BY <1>4, <1>5

LEMMA writeDraftCovers ==
    ASSUME Core, NEW c \in Calls, Good(c), writeDraft(c)
    PROVE  Covers(c)
<1> DEFINE q == call[c]
           p == call'[c]
           step == IF q.target = "published" THEN "index_read" ELSE "delete_chunks"
<1>1. TypeOK /\ q \in CallRows /\ Knows(q) /\ Names /\ q.step = "update" /\ q.kind = "update"
      /\ ~q.restoring /\ q.step \in WithArticle
  BY Before DEF writeDraft, Knows, KindAt, WithArticle, Indexing
<1> SUFFICES ASSUME NEW a \in Articles, Ready(c, a) PROVE After(c, a)
  BY CoversByReady
<1>2. a = q.art /\ HoldsOn(c, a) /\ Exists(a)
  BY <1>1, OwnArticle DEF HoldsOn
<1>3. Goto(c, step) /\ article'[a].status = "draft"
  <2>1. article' = [article EXCEPT ![a] = Row("draft", IF q.text = None THEN article[a].body ELSE q.text)]
        /\ Goto(c, step)
    BY <1>2 DEF writeDraft, UpdateArticle
  <2>2. QED
    BY <1>1, <2>1 DEF TypeOK, Row
<1>4. step \in Steps /\ step \in {"index_read", "delete_chunks"}
  BY DEF Steps
<1> HIDE DEF step
<1>5. Goes(p, q, step)
  BY <1>1, <1>3, <1>4, GotoEffect
<1>6. HoldsOn(c, a)' /\ Safe(a)'
  BY <1>1, <1>3, <1>4, <1>5 DEF HoldsOn, Safe, Goes, SameTask, SameRequest, Exists, Statuses
<1>7. QED
  BY <1>4, <1>5, <1>6 DEF After, Covered, Goes

LEMMA writePublishedCovers ==
    ASSUME Core, NEW c \in Calls, Good(c), writePublished(c)
    PROVE  Covers(c)
<1> DEFINE q == call[c]
           p == call'[c]
<1>1. TypeOK /\ q \in CallRows /\ Knows(q) /\ Names /\ q.step = "publish" /\ q.step \in WithArticle
      /\ ~q.restoring /\ q.kind # "rebuild" /\ q.art \in Articles
  BY Before DEF writePublished, Knows, KindAt, WithArticle, Indexing
<1>2. CASE ~Exists(q.art)
  <2>1. Caught(c) /\ UNCHANGED <<article, chunks>> /\ unrestored' = unrestored \ {q.art}
    BY <1>2 DEF writePublished, UpdateArticle
  <2>2. QED
    BY <1>1, <1>2, <2>1, GoneCovers
<1>3. CASE Exists(q.art)
  <2> SUFFICES ASSUME NEW a \in Articles, Ready(c, a) PROVE After(c, a)
    BY CoversByReady
  <2>1. a = q.art /\ HoldsOn(c, a) /\ Indexed(a)
    BY <1>1, OwnArticle DEF HoldsOn
  <2>2. /\ article' = [article EXCEPT ![a] = Row("published", article[a].body)] /\ chunks' = chunks
        /\ IF q.kind = "approveSuggestion" THEN Goto(c, "approve") ELSE End(c, "ok")
    BY <1>3, <2>1 DEF writePublished, UpdateArticle
  <2>3. article'[a].body = article[a].body
    BY <1>1, <2>2 DEF TypeOK, Row
  <2>4. Safe(a)'
    BY <2>1, <2>2, <2>3 DEF Safe, Indexed
  <2>5. CASE Goto(c, "approve") /\ q.kind = "approveSuggestion"
    <3>1. "approve" \in Steps
      BY DEF Steps
    <3>2. Goes(p, q, "approve")
      BY <1>1, <2>5, <3>1, GotoEffect
    <3>3. HoldsOn(c, a)'
      BY <1>1, <2>5, <3>2 DEF HoldsOn, Goes, SameTask, SameRequest, Indexing
    <3>4. QED
      BY <2>4, <3>2, <3>3 DEF After, Covered, Goes
  <2>6. CASE End(c, "ok")
    <3>1. "ok" \in Outcomes
      BY DEF Outcomes
    <3>2. Ends(p, q, "ok")
      BY <1>1, <2>6, <3>1, EndEffect
    <3>3. QED
      BY <2>4, <3>2 DEF After, NoTrace, Ends
  <2>7. QED
    BY <2>2, <2>5, <2>6
<1>4. QED
  BY <1>2, <1>3

LEMMA StatusCovers ==
    ASSUME Core, NEW c \in Calls, Good(c),
           writeStatus(c) \/ writeUnpublished(c) \/ writeRejected(c)
    PROVE  Covers(c)
<1> DEFINE q == call[c]
           p == call'[c]
<1>1. TypeOK /\ q \in CallRows /\ Knows(q) /\ Names
      /\ q.step \in {"set_status", "unpublish", "reject"}
  BY Before DEF writeStatus, writeUnpublished, writeRejected
<1>2. /\ q.art \in Articles /\ q.step \in WithArticle /\ q.kind # "rebuild"
      /\ q.step = "set_status" => q.kind = "update" /\ q.target \in Statuses \ {"published"}
      /\ q.step = "unpublish" => q.kind = "unpublish"
      /\ q.step = "reject" => q.kind = "reject"
      /\ ~q.restoring
  BY <1>1 DEF Knows, KindAt, WithArticle, Indexing
<1>3. chunks' = chunks /\ unrestored' = unrestored
  BY DEF writeStatus, writeUnpublished, writeRejected
<1>4. CASE ~Exists(q.art)
  <2>1. Caught(c) /\ UNCHANGED article
    BY <1>4 DEF writeStatus, writeUnpublished, writeRejected, UpdateArticle
  <2>2. QED
    BY <1>1, <1>3, <1>4, <2>1, GoneCovers
<1>5. CASE Exists(q.art)
  <2> SUFFICES ASSUME NEW a \in Articles, Ready(c, a) PROVE After(c, a)
    BY CoversByReady
  <2>1. a = q.art
    BY <1>2, OwnArticle
  <2>2. PICK status \in Statuses \ {"published"} :
          article' = [article EXCEPT ![a] = Row(status, article[a].body)]
    BY <1>1, <1>2, <1>5, <2>1 DEF writeStatus, writeUnpublished, writeRejected, UpdateArticle, Statuses
  <2>3. article'[a].status # "published" /\ Safe(a)'
    BY <1>1, <2>2 DEF TypeOK, Row, Safe
  <2>4. CASE q.step = "unpublish"
    <3>1. Goto(c, "unpublish_chunks") /\ "unpublish_chunks" \in Steps
      BY <1>5, <2>4 DEF writeStatus, writeUnpublished, writeRejected, UpdateArticle, Steps
    <3>2. Goes(p, q, "unpublish_chunks")
      BY <1>1, <3>1, GotoEffect
    <3>3. HoldsOn(c, a)'
      BY <1>2, <2>3, <2>4, <3>2 DEF HoldsOn, Goes, SameTask, SameRequest
    <3>4. QED
      BY <2>3, <3>2, <3>3 DEF After, Covered, Goes
  <2>5. CASE q.step # "unpublish"
    <3>1. End(c, "ok") /\ "ok" \in Outcomes
      BY <1>1, <1>5, <2>5 DEF writeStatus, writeUnpublished, writeRejected, UpdateArticle, Outcomes
    <3>2. Ends(p, q, "ok")
      BY <1>1, <3>1, EndEffect
    <3>3. QED
      BY <2>3, <3>2 DEF After, NoTrace, Ends
  <2>6. QED
    BY <2>4, <2>5
<1>6. QED
  BY <1>4, <1>5

LEMMA deleteArticleCovers ==
    ASSUME Core, NEW c \in Calls, Good(c), deleteArticle(c)
    PROVE  Covers(c)
<1> DEFINE q == call[c]
           p == call'[c]
           result == IF q.step = "remove" /\ Exists(q.art) THEN "ok" ELSE "error"
<1>1. TypeOK /\ q \in CallRows /\ Knows(q) /\ Names /\ q.step \in {"remove", "rollback"}
      /\ q.step \in WithArticle
  BY Before DEF deleteArticle, WithArticle
<1>2. q.kind \in {"remove", "create", "approveSuggestion"} /\ ~q.restoring
  BY <1>1 DEF Knows, KindAt, Indexing
<1>3. End(c, result) /\ result \in Outcomes
  BY DEF deleteArticle, Outcomes
<1> HIDE DEF result
<1>4. Ends(p, q, result)
  BY <1>1, <1>3, EndEffect
<1> SUFFICES ASSUME NEW a \in Articles, Ready(c, a) PROVE After(c, a)
  BY CoversByReady
<1>5. a = q.art /\ HoldsOn(c, a) /\ Safe(a)
  BY <1>1, <1>2, OwnArticle
<1>6. CASE Exists(a)
  <2>1. /\ article' = [article EXCEPT ![a] = Row("deleted", None)]
        /\ chunks' = [chunks EXCEPT ![a] = None]
    BY <1>5, <1>6 DEF deleteArticle, Deleted
  <2>2. article'[a].status = "deleted" /\ chunks'[a] = None
    BY <1>1, <2>1 DEF TypeOK, Row
  <2>3. QED
    BY <1>2, <1>4, <2>2 DEF After, Safe, NoTrace, Ends
<1>7. CASE ~Exists(a)
  <2>1. article' = article
    BY <1>5, <1>7 DEF deleteArticle
  <2>2. article'[a].status # "published" /\ q.kind # "create"
    BY <1>5, <1>7, <2>1 DEF HoldsOn, Exists, Statuses
  <2>3. QED
    BY <1>2, <1>4, <2>2 DEF After, Safe, NoTrace, Ends
<1>8. QED
  BY <1>6, <1>7

LEMMA deleteChunksCovers ==
    ASSUME Core, NEW c \in Calls, Good(c), deleteChunksByArticleId(c)
    PROVE  Covers(c)
<1> DEFINE q == call[c]
           p == call'[c]
<1>1. TypeOK /\ q \in CallRows /\ Knows(q) /\ Names /\ q.step \in WithArticle
      /\ q.step \in {"delete_chunks", "unpublish_chunks", "restore_chunks"}
      /\ article' = article
  BY Before DEF deleteChunksByArticleId, WithArticle
<1>2. /\ q.kind # "rebuild" /\ (q.step = "unpublish_chunks" => q.kind = "unpublish")
      /\ q.step = "delete_chunks" => q.kind = "update" /\ ~q.restoring
      /\ q.step = "restore_chunks" => q.restoring /\ q.kind = "update" /\ q.seen.status # "published"
  BY <1>1 DEF Knows, KindAt, Indexing
<1> SUFFICES ASSUME NEW a \in Articles, Ready(c, a) PROVE After(c, a)
  BY CoversByReady
<1>3. a = q.art /\ HoldsOn(c, a)
  BY <1>1, <1>2, OwnArticle
<1>4. article[a].status # "published" /\ Safe(a)'
  BY <1>1, <1>2, <1>3 DEF HoldsOn, Safe
<1>5. CASE q.step = "delete_chunks"
  <2>1. Goto(c, "set_status") /\ "set_status" \in Steps
    BY <1>5 DEF deleteChunksByArticleId, Steps
  <2>2. Goes(p, q, "set_status")
    BY <1>1, <2>1, GotoEffect
  <2>3. HoldsOn(c, a)'
    BY <1>1, <1>2, <1>3, <1>4, <1>5, <2>2 DEF HoldsOn, Goes, SameTask, SameRequest, Exists
  <2>4. QED
    BY <1>4, <2>2, <2>3 DEF After, Covered, Goes
<1>6. CASE q.step = "unpublish_chunks"
  <2>1. End(c, "ok") /\ "ok" \in Outcomes
    BY <1>6 DEF deleteChunksByArticleId, Outcomes
  <2>2. Ends(p, q, "ok")
    BY <1>1, <2>1, EndEffect
  <2>3. QED
    BY <1>4, <2>2 DEF After, NoTrace, Ends
<1>7. CASE q.step = "restore_chunks"
  <2>1. End(c, "error") /\ "error" \in Outcomes
    BY <1>7 DEF deleteChunksByArticleId, Outcomes
  <2>2. Ends(p, q, "error")
    BY <1>1, <2>1, EndEffect
  <2>3. article'[a] = q.seen
    BY <1>1, <1>2, <1>3, <1>7 DEF HoldsOn
  <2>4. QED
    BY <1>2, <1>4, <1>7, <2>2, <2>3 DEF After, NoTrace, Ends
<1>8. QED
  BY <1>1, <1>5, <1>6, <1>7

\* What a rebuild knows of the articles that are not in its hand when it leaves this one.
LEMMA RebuildCovers ==
    ASSUME Core, NEW c \in Calls, Good(c), call[c].kind = "rebuild", call[c].step \in Indexing,
           NEW errors, Leaves(call'[c], call[c], errors),
           NEW a \in Articles, Ready(c, a), article'[a] = article[a],
           a # call[c].art => chunks'[a] = chunks[a] /\ (a \in unrestored => a \in unrestored'),
           a = call[c].art => Safe(a)'
    PROVE  After(c, a)
<1> DEFINE q == call[c]
           p == call'[c]
<1>1. Knows(q) /\ Names /\ Reported \subseteq Reported'
  BY Before, Onwards
<1>2. q.art \notin q.todo /\ ~q.restoring
  BY <1>1 DEF Knows
<1>3. p.kind = "rebuild" /\ p.step = "next" /\ p.art = None /\ p.todo = q.todo /\ ~p.restoring
  BY <1>2 DEF Leaves, SameTask, SameRequest
<1>4. HoldsOn(c, a) /\ (Unsettled(c, a) \/ Safe(a))
  BY DEF Ready, Covered, Working, About, Indexing
<1>5. a \in q.todo => chunks'[a] = None
  BY <1>2, <1>4 DEF HoldsOn, Indexing
<1>6. HoldsOn(c, a)'
  BY <1>1, <1>3, <1>5 DEF HoldsOn, Names
<1>7. Unsettled(c, a)' \/ Safe(a)'
  <2>1. CASE a \in q.todo
    BY <1>3, <2>1 DEF Unsettled
  <2>2. CASE a \notin q.todo /\ a # q.art
    <3>1. Safe(a)
      BY <1>2, <1>4, <2>2 DEF Unsettled
    <3>2. QED
      BY <1>1, <2>2, <3>1, SafeStays
  <2>3. QED
    BY <2>1, <2>2
<1>8. QED
  BY <1>3, <1>6, <1>7 DEF After, Covered

LEMMA reindexReadCovers ==
    ASSUME Core, NEW c \in Calls, Good(c), reindexRead(c)
    PROVE  Covers(c)
<1> DEFINE q == call[c]
           p == call'[c]
           row == article[q.art]
           deletes == (row.status # "published" /\ q.kind = "rebuild") \/ row.body \in Blank
<1>1. TypeOK /\ q \in CallRows /\ Knows(q) /\ Names /\ q.step = "index_read"
      /\ q.step \in Indexing /\ q.step \in WithArticle /\ q.art \in Articles
  BY Before DEF reindexRead, Knows, WithArticle, Indexing
<1>2. UNCHANGED <<article, chunks, unrestored>> /\ Reported \subseteq Reported'
  BY Onwards DEF reindexRead
<1>3. CASE ~Exists(q.art)
  <2>1. Caught(c)
    BY <1>3 DEF reindexRead
  <2>2. QED
    BY <1>1, <1>2, <1>3, <2>1, GoneCovers
<1>4. CASE Exists(q.art)
  <2>1. /\ p.kind = q.kind /\ p.art = q.art /\ p.todo = q.todo /\ p.restoring = q.restoring
        /\ p.seen = q.seen
        /\ \/ p.step = "index_delete" /\ deletes
           \/ p.step = "index_replace" /\ ~deletes /\ p.text = row.body
    <3>1. CASE deletes
      <4>1. Goto(c, "index_delete") /\ "index_delete" \in Steps
        BY <1>4, <3>1 DEF reindexRead, Steps
      <4>2. Goes(p, q, "index_delete")
        BY <1>1, <4>1, GotoEffect
      <4>3. QED
        BY <3>1, <4>2 DEF Goes, SameTask, SameRequest
    <3>2. CASE ~deletes
      <4>1. call' = [call EXCEPT ![c].step = "index_replace", ![c].text = row.body]
        BY <1>4, <3>2 DEF reindexRead
      <4>2. QED
        BY <1>1, <3>2, <4>1, RowOf DEF CallRows
    <3>3. QED
      BY <3>1, <3>2
  <2> SUFFICES ASSUME NEW a \in Articles, Ready(c, a) PROVE After(c, a)
    BY CoversByReady
  <2>2. Working(c, a)
    <3>1. a \in About(c)
      BY <2>1 DEF Ready, About
    <3>2. QED
      BY <1>1, <3>1 DEF Working
  <2>3. HoldsOn(c, a) /\ (Unsettled(c, a) \/ Safe(a))
    BY <2>2 DEF Ready, Covered
  <2>4. deletes /\ a = q.art =>
          article[a].body \in Blank \/ (q.kind = "rebuild" /\ article[a].status # "published")
    OBVIOUS
  <2>5. ~deletes /\ a = q.art => row = article[a]
    OBVIOUS
  <2> HIDE DEF deletes
  <2>6. HoldsOn(c, a)'
    BY <1>1, <1>2, <2>1, <2>3, <2>4, <2>5 DEF HoldsOn, Exists, Indexed, Indexing
  <2>7. Unsettled(c, a)' \/ Safe(a)'
    <3>1. Unsettled(c, a) => Unsettled(c, a)'
      BY <1>1, <2>1 DEF Unsettled
    <3>2. Safe(a) => Safe(a)'
      BY <1>2, SafeStays
    <3>3. QED
      BY <2>3, <3>1, <3>2
  <2>8. QED
    BY <2>1, <2>6, <2>7 DEF After, Covered
<1>5. QED
  BY <1>3, <1>4

\* After the indexing of an article from its own text.
LEMMA IndexedCovers ==
    ASSUME Core, NEW c \in Calls, Good(c), call[c].step \in {"index_delete", "index_replace"},
           IndexedTo(call'[c], call[c]), article' = article, unrestored' = unrestored,
           \A a \in Articles : a # call[c].art => chunks'[a] = chunks[a],
           NEW a \in Articles, Ready(c, a),
           \* the chunks of the article in hand, if nothing else is known of it
           a = call[c].art /\ HoldsOn(c, a) =>
             \/ Indexed(a)'
             \/ call[c].kind = "rebuild" /\ article[a].status # "published",
           a = call[c].art /\ HoldsOn(c, a) /\ article[a].body \notin Blank /\ Indexed(a)' =>
             chunks'[a] = article[a].body
    PROVE  After(c, a)
<1> DEFINE q == call[c]
           p == call'[c]
<1>1. Knows(q) /\ Names /\ q.step \in Indexing /\ q.step \in WithArticle
  BY Before DEF Indexing, WithArticle
<1>2. CASE q.kind = "rebuild"
  <2>1. ~q.restoring /\ Leaves(p, q, q.errors)
    BY <1>1, <1>2 DEF IndexedTo, Knows
  <2>2. a = q.art => Safe(a)'
    <3>1. HoldsOn(c, a)
      BY <1>1, <1>2 DEF Ready, Covered, Working, About, Indexing
    <3>2. QED
      BY <3>1 DEF Safe
  <2>3. QED
    BY <1>1, <1>2, <2>1, <2>2, RebuildCovers
<1>3. CASE q.kind # "rebuild"
  <2>1. a = q.art /\ HoldsOn(c, a) /\ Indexed(a)'
    BY <1>1, <1>3, OwnArticle
  <2>2. Safe(a)'
    BY <2>1 DEF Safe
  <2>3. CASE q.restoring /\ Ends(p, q, "error")
    <3>1. q.kind = "update" /\ article[a] = q.seen
      BY <1>1, <2>1, <2>3 DEF HoldsOn, Knows
    <3>2. NoTrace(c, a)
      BY <2>1, <3>1 DEF NoTrace
    <3>3. QED
      BY <2>2, <2>3, <3>2 DEF After, Ends
  <2>4. CASE ~q.restoring /\ Forgets(p, q, "publish")
    <3>1. /\ p.kind = q.kind /\ p.step = "publish" /\ p.art = q.art /\ p.todo = q.todo
          /\ ~p.restoring /\ p.seen = q.seen
      BY <2>4 DEF Forgets, SameTask, SameRequest
    <3>2. HoldsOn(c, a)'
      BY <1>1, <1>3, <2>1, <2>4, <3>1 DEF HoldsOn, Exists
    <3>3. QED
      BY <2>2, <3>1, <3>2 DEF After, Covered
  <2>5. QED
    BY <1>3, <2>3, <2>4 DEF IndexedTo
<1>4. QED
  BY <1>2, <1>3

LEMMA reindexDeleteCovers ==
    ASSUME Core, NEW c \in Calls, Good(c), reindexDelete(c)
    PROVE  Covers(c)
<1> DEFINE q == call[c]
<1>1. TypeOK /\ Knows(q) /\ q.step = "index_delete" /\ q.art \in Articles
  BY Before DEF reindexDelete, Knows, WithArticle, Indexing
<1>2. /\ article' = article /\ unrestored' = unrestored /\ chunks' = [chunks EXCEPT ![q.art] = None]
      /\ AfterIndex(c)
  BY DEF reindexDelete
<1>3. IndexedTo(call'[c], q)
  BY <1>1, <1>2, AfterIndexEffect
<1>4. chunks'[q.art] = None /\ \A a \in Articles : a # q.art => chunks'[a] = chunks[a]
  BY <1>1, <1>2 DEF TypeOK
<1> SUFFICES ASSUME NEW a \in Articles, Ready(c, a) PROVE After(c, a)
  BY CoversByReady
<1>5. a = q.art /\ HoldsOn(c, a) =>
        \/ article[a].body \in Blank
        \/ q.kind = "rebuild" /\ article[a].status # "published"
  BY <1>1 DEF HoldsOn
<1>6. a = q.art /\ article[a].body \in Blank => Indexed(a)'
  BY <1>2, <1>4 DEF Indexed
<1>7. a = q.art /\ article[a].body \notin Blank /\ Indexed(a)' => chunks'[a] = article[a].body
  BY <1>2 DEF Indexed
<1>8. QED
  BY <1>1, <1>2, <1>3, <1>4, <1>5, <1>6, <1>7, IndexedCovers

LEMMA replaceChunksCovers ==
    ASSUME Core, NEW c \in Calls, Good(c), replaceChunks(c)
    PROVE  Covers(c)
<1> DEFINE q == call[c]
<1>1. TypeOK /\ Knows(q) /\ q.step = "index_replace" /\ q.art \in Articles /\ q.step \in Indexing
      /\ article' = article /\ unrestored' = unrestored
  BY Before DEF replaceChunks, Knows, WithArticle, Indexing
<1>2. CASE ~Exists(q.art)
  <2>1. Caught(c) /\ chunks' = chunks
    BY <1>2 DEF replaceChunks
  <2>2. QED
    BY <1>1, <1>2, <2>1, GoneCovers
<1>3. CASE Exists(q.art)
  <2>1. AfterIndex(c) /\ chunks' = [chunks EXCEPT ![q.art] = q.text]
    BY <1>3 DEF replaceChunks
  <2>2. IndexedTo(call'[c], q)
    BY <1>1, <2>1, AfterIndexEffect
  <2>3. chunks'[q.art] = q.text /\ \A a \in Articles : a # q.art => chunks'[a] = chunks[a]
    BY <1>1, <2>1 DEF TypeOK
  <2> SUFFICES ASSUME NEW a \in Articles, Ready(c, a) PROVE After(c, a)
    BY CoversByReady
  <2>4. a = q.art /\ HoldsOn(c, a) => chunks'[a] = article[a].body
    BY <1>1, <2>3 DEF HoldsOn
  <2>5. a = q.art /\ HoldsOn(c, a) => Indexed(a)'
    BY <1>1, <2>4 DEF Indexed
  <2>6. QED
    BY <1>1, <2>2, <2>3, <2>4, <2>5, IndexedCovers
<1>4. QED
  BY <1>2, <1>3

LEMMA deleteChunksForCompanyCovers ==
    ASSUME Core, NEW c \in Calls, Good(c), deleteChunksForCompany(c)
    PROVE  Covers(c)
<1> DEFINE q == call[c]
           p == call'[c]
<1>1. TypeOK /\ Knows(q) /\ q.step = "clear" /\ q.kind = "rebuild" /\ ~q.restoring /\ Names
      /\ q.art = None /\ "next" \in Steps
  BY Before DEF deleteChunksForCompany, Knows, KindAt, WithoutArticle, Indexing, Steps
<1>2. Goto(c, "next") /\ article' = article /\ chunks' = [a \in Articles |-> None]
  BY DEF deleteChunksForCompany
<1>3. Goes(p, q, "next")
  BY <1>1, <1>2, GotoEffect
<1> SUFFICES ASSUME NEW a \in Articles, Ready(c, a) PROVE After(c, a)
  BY CoversByReady
<1>4. HoldsOn(c, a)
  BY <1>1 DEF Ready, Covered, Working, About
<1>5. /\ p.kind = "rebuild" /\ p.step = "next" /\ p.todo = q.todo /\ ~p.restoring
      /\ chunks'[a] = None
  BY <1>1, <1>2, <1>3 DEF Goes, SameTask, SameRequest
<1>6. HoldsOn(c, a)'
  BY <1>5 DEF HoldsOn
<1>7. CASE a \in q.todo
  BY <1>5, <1>6, <1>7 DEF After, Covered, Unsettled
<1>8. CASE a \notin q.todo
  <2>1. article'[a].status # "published"
    BY <1>1, <1>2, <1>4, <1>8 DEF HoldsOn
  <2>2. QED
    BY <1>5, <1>6, <2>1 DEF After, Covered, Safe
<1>9. QED
  BY <1>7, <1>8

LEMMA nextArticleCovers ==
    ASSUME Core, NEW c \in Calls, Good(c), nextArticle(c)
    PROVE  Covers(c)
<1> DEFINE q == call[c]
           p == call'[c]
<1>1. TypeOK /\ Knows(q) /\ q \in CallRows /\ q.step = "next" /\ q.kind = "rebuild" /\ ~q.restoring
      /\ Names /\ q.art = None
  BY Before DEF nextArticle, Knows, KindAt, WithoutArticle, Indexing
<1>2. UNCHANGED <<article, chunks, unrestored>> /\ Reported \subseteq Reported'
  BY Onwards DEF nextArticle
<1> SUFFICES ASSUME NEW a \in Articles, Ready(c, a) PROVE After(c, a)
  BY CoversByReady
<1>3. HoldsOn(c, a) /\ (Unsettled(c, a) \/ Safe(a))
  BY <1>1 DEF Ready, Covered, Working, About
<1>4. Safe(a) => Safe(a)'
  BY <1>2, SafeStays
<1>5. CASE q.todo = {}
  <2>1. End(c, "ok") /\ "ok" \in Outcomes
    BY <1>5 DEF nextArticle, Outcomes
  <2>2. Ends(p, q, "ok")
    BY <1>1, <2>1, EndEffect
  <2>3. Safe(a)
    BY <1>1, <1>3, <1>5 DEF Unsettled, Names
  <2>4. QED
    BY <1>4, <2>2, <2>3 DEF After, NoTrace, Ends
<1>6. CASE q.todo # {}
  <2>1. PICK b \in q.todo : call' = [call EXCEPT ![c].step = "index_read", ![c].art = b,
                                                 ![c].todo = q.todo \ {b}]
    BY <1>6 DEF nextArticle
  <2>2. /\ p.step = "index_read" /\ p.kind = "rebuild" /\ p.art = b /\ p.todo = q.todo \ {b}
        /\ ~p.restoring
    BY <1>1, <2>1, RowOf DEF CallRows
  <2>3. p.todo \cup {p.art} = q.todo /\ a # None
    BY <1>1, <2>2 DEF Names
  <2>4. a \in p.todo \cup {p.art} <=> a \in q.todo \cup {q.art}
    BY <1>1, <2>3
  <2>5. HoldsOn(c, a)'
    BY <1>1, <1>2, <1>3, <2>2, <2>4 DEF HoldsOn, Indexing
  <2>6. Unsettled(c, a) => Unsettled(c, a)'
    BY <1>1, <2>2, <2>4 DEF Unsettled
  <2>7. QED
    BY <1>3, <1>4, <2>2, <2>5, <2>6 DEF After, Covered
<1>7. QED
  BY <1>5, <1>6

LEMMA restoreCovers ==
    ASSUME Core, NEW c \in Calls, Good(c), restoreArticleSnapshot(c)
    PROVE  Covers(c)
<1> DEFINE q == call[c]
           p == call'[c]
           step == IF q.seen.status = "published" THEN "index_read" ELSE "restore_chunks"
<1>1. TypeOK /\ Knows(q) /\ q \in CallRows /\ q.step = "restore" /\ q.kind = "update" /\ Names
      /\ q.step \in WithArticle /\ q.seen \in LiveRows
  BY Before DEF restoreArticleSnapshot, Knows, KindAt, WithArticle
<1> SUFFICES ASSUME NEW a \in Articles, Ready(c, a) PROVE After(c, a)
  BY CoversByReady
<1>2. a = q.art /\ HoldsOn(c, a) /\ Exists(a)
  BY <1>1, OwnArticle DEF HoldsOn
<1>3. /\ article' = [article EXCEPT ![a] = q.seen]
      /\ call' = [call EXCEPT ![c].restoring = TRUE, ![c].text = None, ![c].step = step]
  BY <1>2 DEF restoreArticleSnapshot
<1>4. article'[a] = q.seen /\ q.seen.status \in Statuses
  BY <1>1, <1>3 DEF TypeOK, LiveRows
<1>5. step \in {"index_read", "restore_chunks"}
  OBVIOUS
<1> HIDE DEF step
<1>6. /\ p.restoring /\ p.step = step /\ p.kind = "update" /\ p.art = a /\ p.seen = q.seen
  BY <1>1, <1>2, <1>3, RowOf DEF CallRows
<1>7. HoldsOn(c, a)'
  BY <1>4, <1>5, <1>6 DEF HoldsOn, Exists
<1>8. QED
  BY <1>5, <1>6, <1>7 DEF After, Covered, Unsettled

LEMMA createArticleCovers ==
    ASSUME Core, NEW c \in Calls, Good(c), NEW b \in Articles, createArticle(c, b)
    PROVE  Covers(c)
<1> DEFINE q == call[c]
           p == call'[c]
<1>1. TypeOK /\ Knows(q) /\ q \in CallRows /\ q.step = "create" /\ Names /\ q.art = None
      /\ q.kind \in {"create", "approveSuggestion"} /\ ~q.restoring
      /\ q.text \in Versions /\ q.target \in Statuses
  BY Before DEF createArticle, Knows, KindAt, WithoutArticle, Indexing
<1>2. article' = [article EXCEPT
                    ![b] = Row(IF q.target = "published" THEN "draft" ELSE q.target, q.text)]
  BY DEF createArticle
<1>3. article'[b].status \in Statuses \ {"published"}
  BY <1>1, <1>2 DEF TypeOK, Row, Statuses
<1> SUFFICES ASSUME NEW a \in Articles, Ready(c, a) PROVE After(c, a)
  BY CoversByReady
<1>4. CASE q.target = "published"
  <2>1. call' = [call EXCEPT ![c].art = b, ![c].step = "index_read", ![c].text = None]
    BY <1>4 DEF createArticle
  <2>2. p.art = b /\ p.step = "index_read" /\ p.kind = q.kind /\ ~p.restoring /\ p.todo = q.todo
    BY <1>1, <2>1, RowOf DEF CallRows
  <2>3. a = b
    BY <1>1, <2>2 DEF Ready, About
  <2>4. HoldsOn(c, a)' /\ Safe(a)'
    BY <1>1, <1>3, <2>2, <2>3 DEF HoldsOn, Safe, Exists
  <2>5. QED
    BY <2>2, <2>4 DEF After, Covered
<1>5. CASE q.target # "published"
  <2>1. End(c, "ok") /\ "ok" \in Outcomes
    BY <1>5 DEF createArticle, Outcomes
  <2>2. Ends(p, q, "ok")
    BY <1>1, <2>1, EndEffect
  <2>3. p.art = None /\ p.kind # "rebuild"
    BY <1>1, <2>2 DEF Ends, SameRequest
  <2>4. QED
    BY <1>1, <2>3 DEF Ready, About, Names
<1>6. QED
  BY <1>4, <1>5

\* The steps about suggestions are about no article, but for the end of an approval.
LEMMA SuggestionCovers ==
    ASSUME Core, NEW c \in Calls, Good(c),
           \/ \E g \in Suggestions : createSuggestion(c, g)
           \/ notify(c) \/ writeApproved(c) \/ writeSuggestionRejected(c)
    PROVE  Covers(c)
<1> DEFINE q == call[c]
           p == call'[c]
<1>1. TypeOK /\ Knows(q) /\ q \in CallRows /\ Names
      /\ q.step \in {"learn", "notify", "approve", "reject_suggestion"}
  BY Before DEF createSuggestion, notify, writeApproved, writeSuggestionRejected
<1>2. q.kind # "rebuild" /\ ~q.restoring
      /\ (q.step # "approve" => q.art = None)
      /\ (q.step = "approve" => q.kind = "approveSuggestion" /\ q.step \in WithArticle)
  BY <1>1 DEF Knows, KindAt, WithArticle, WithoutArticle, Indexing
<1>3. UNCHANGED <<article, chunks, unrestored>> /\ Reported \subseteq Reported'
  BY Onwards DEF createSuggestion, notify, writeApproved, writeSuggestionRejected
<1> SUFFICES ASSUME NEW a \in Articles, Ready(c, a) PROVE After(c, a)
  BY CoversByReady
<1>4. CASE q.step = "approve"
  <2>1. End(c, "ok") /\ "ok" \in Outcomes
    BY <1>4 DEF createSuggestion, notify, writeApproved, writeSuggestionRejected, Outcomes
  <2>2. Ends(p, q, "ok")
    BY <1>1, <2>1, EndEffect
  <2>3. Safe(a)
    BY <1>2, <1>4, OwnArticle
  <2>4. Safe(a)'
    BY <1>3, <2>3, SafeStays
  <2>5. QED
    BY <2>2, <2>4 DEF After, NoTrace, Ends
<1>5. CASE q.step # "approve"
  <2>1. \/ Goto(c, "notify") /\ "notify" \in Steps
        \/ End(c, "ok") /\ "ok" \in Outcomes
    BY <1>5 DEF createSuggestion, notify, writeApproved, writeSuggestionRejected, Outcomes, Steps
  <2>2. Goes(p, q, "notify") \/ Ends(p, q, "ok")
    BY <1>1, <2>1, EndEffect, GotoEffect
  <2>3. p.art = None /\ p.kind # "rebuild"
    BY <1>2, <1>5, <2>2 DEF Goes, Ends, SameTask, SameRequest
  <2>4. QED
    BY <1>1, <2>3 DEF Ready, About, Names
<1>6. QED
  BY <1>4, <1>5

LEMMA HalfDone ==
    ASSUME Core, NEW c \in Calls, call[c].step \notin {"idle", "done"}, NEW a \in Articles,
           \/ Unsettled(c, a)
           \/ call[c].step \in {"rollback", "restore", "restore_chunks"} /\ a = call[c].art
    PROVE  a \in LeftHalfDone(c)
<1> DEFINE q == call[c]
           first == q.step \in {"rollback", "restore", "restore_chunks"} \/ q.restoring
<1>1. Knows(q) /\ Names /\ (first => q.kind # "rebuild")
  BY Before DEF Knows, KindAt
<1>2. CASE first
  <2>1. LeftHalfDone(c) = {q.art} /\ a = q.art
    BY <1>1, <1>2 DEF LeftHalfDone, Unsettled
  <2>2. QED
    BY <2>1
<1>3. CASE ~first
  <2>1. q.kind = "rebuild" /\ a \in q.todo \cup {q.art}
    BY <1>3 DEF Unsettled
  <2>2. LeftHalfDone(c) = (q.todo \cup {q.art}) \ {None}
    BY <1>3, <2>1 DEF LeftHalfDone
  <2>3. QED
    BY <1>1, <2>1, <2>2 DEF Names
<1>4. QED
  BY <1>2, <1>3

\* A call at work has covered what it is about.
LEMMA ReadyAtWork ==
    ASSUME Core, NEW c \in Calls, Good(c), call[c].step # "idle",
           call'[c].art = call[c].art \/ call[c].kind = "rebuild",
           NEW a \in Articles, Ready(c, a)
    PROVE  /\ HoldsOn(c, a) /\ (Unsettled(c, a) \/ Safe(a))
           /\ call[c].kind # "rebuild" => a = call[c].art
<1>1. call'[c].kind = call[c].kind /\ call[c].step # "done"
  BY DEF Good, Proceeds
<1>2. a \in About(c) /\ (call[c].kind # "rebuild" => a = call[c].art)
  BY <1>1 DEF Ready, About
<1>3. QED
  BY <1>1, <1>2 DEF Ready, Covered, Working

\* A call that is cut short: the history variable excuses what it leaves unsettled.
LEMMA CutShort ==
    ASSUME Core, NEW c \in Calls, Good(c), call[c].step \notin {"idle", "done"},
           NEW result, Ends(call'[c], call[c], result),
           UNCHANGED <<article, chunks>>, unrestored' = unrestored \cup LeftHalfDone(c),
           NEW a \in Articles, Ready(c, a)
    PROVE  Safe(a)'
<1>1. call'[c].art = call[c].art /\ Reported \subseteq Reported'
  BY Onwards DEF Ends
<1>2. Unsettled(c, a) \/ Safe(a)
  BY <1>1, ReadyAtWork
<1>3. CASE Unsettled(c, a)
  <2>1. a \in unrestored'
    BY <1>3, HalfDone
  <2>2. QED
    BY <2>1 DEF Safe
<1>4. CASE Safe(a)
  BY <1>1, <1>4, SafeStays
<1>5. QED
  BY <1>2, <1>3, <1>4

LEMMA CrashCovers ==
    ASSUME Core, NEW c \in Calls, Good(c), Crash(c)
    PROVE  Covers(c)
<1>1. /\ call[c].step \notin {"idle", "done"} /\ UNCHANGED <<article, chunks>>
      /\ unrestored' = unrestored \cup LeftHalfDone(c) /\ End(c, "crashed")
      /\ "crashed" \in Outcomes /\ TypeOK
  BY Before DEF Crash, Outcomes
<1>2. Ends(call'[c], call[c], "crashed")
  BY <1>1, EndEffect
<1> SUFFICES ASSUME NEW a \in Articles, Ready(c, a) PROVE After(c, a)
  BY CoversByReady
<1>3. Safe(a)'
  BY <1>1, <1>2, CutShort
<1>4. QED
  BY <1>2, <1>3 DEF After, NoTrace, Ends

LEMMA ThrowCovers ==
    ASSUME Core, NEW c \in Calls, Good(c), Throw(c)
    PROVE  Covers(c)
<1> DEFINE q == call[c]
           p == call'[c]
<1>1. TypeOK /\ Knows(q) /\ q \in CallRows /\ Names /\ q.step \notin {"idle", "done", "next"}
      /\ UNCHANGED <<article, chunks>> /\ Reported \subseteq Reported'
  BY Before, Onwards DEF Throw
<1>2. /\ unrestored \subseteq unrestored'
      /\ q.kind # "rebuild" => unrestored' = unrestored \cup LeftHalfDone(c)
  BY DEF Throw
<1> SUFFICES ASSUME NEW a \in Articles, Ready(c, a) PROVE After(c, a)
  BY CoversByReady
<1>3. Safe(a) => Safe(a)'
  BY <1>1, <1>2, SafeStays
<1>4. CASE q.step \in {"rollback", "restore"}
  <2>1. End(c, "error") /\ "error" \in Outcomes /\ q.kind # "rebuild"
    BY <1>1, <1>4 DEF Throw, Outcomes, Knows, KindAt
  <2>2. Ends(p, q, "error")
    BY <1>1, <2>1, EndEffect
  <2>3. Safe(a)'
    BY <1>1, <1>2, <2>1, <2>2, CutShort
  <2>4. a = q.art => a \in unrestored'
    BY <1>1, <1>2, <1>4, <2>1, HalfDone
  <2>5. QED
    BY <2>2, <2>3, <2>4 DEF After, NoTrace, Ends
<1>5. CASE q.step \notin {"rollback", "restore"}
  <2>1. CaughtTo(p, q)
    BY <1>1, <1>5, CaughtEffect DEF Throw
  <2>2. CASE q.kind \in {"create", "approveSuggestion"} /\ q.step \in Indexing \cup {"publish"}
             /\ Goes(p, q, "rollback")
    <3>1. /\ p.kind = q.kind /\ p.step = "rollback" /\ p.art = q.art /\ ~p.restoring /\ ~q.restoring
      BY <1>1, <2>2 DEF Goes, SameTask, SameRequest, Knows
    <3>2. HoldsOn(c, a)
      BY <1>1, <3>1, ReadyAtWork
    <3>3. article[a].status # "published" /\ (q.kind = "create" => Exists(a))
      BY <2>2, <3>1, <3>2 DEF HoldsOn
    <3>4. HoldsOn(c, a)' /\ Safe(a)'
      BY <1>1, <2>2, <3>1, <3>3 DEF HoldsOn, Safe, Exists
    <3>5. QED
      BY <3>1, <3>4 DEF After, Covered
  <2>3. CASE q.kind = "update" /\ ~q.restoring /\ Goes(p, q, "restore")
    <3>1. p.kind = "update" /\ p.step = "restore" /\ p.art = q.art /\ ~p.restoring
      BY <2>3 DEF Goes, SameTask, SameRequest
    <3>2. HoldsOn(c, a) /\ Safe(a) /\ Exists(a)
      BY <1>1, <2>3, <3>1, ReadyAtWork DEF Unsettled, HoldsOn
    <3>3. HoldsOn(c, a)'
      BY <1>1, <3>1, <3>2 DEF HoldsOn, Exists, Indexing
    <3>4. QED
      BY <1>3, <3>1, <3>2, <3>3 DEF After, Covered
  <2>4. CASE q.kind = "rebuild" /\ q.art # None /\ Leaves(p, q, q.errors \cup {q.art})
    <3>1. q.step \in Indexing
      BY <1>1, <2>4 DEF Knows, KindAt, WithoutArticle, Indexing, Steps, CallRows
    <3>2. a = q.art => Safe(a)'
      <4> SUFFICES ASSUME a = q.art PROVE Safe(a)'
        OBVIOUS
      <4>1. HoldsOn(c, a)
        BY <1>1, <2>4, ReadyAtWork
      <4>2. chunks[a] = None
        BY <2>4, <3>1, <4>1 DEF HoldsOn, Indexing
      <4>3. a \in Reported'
        BY <2>4 DEF Reported, Leaves
      <4>4. QED
        BY <1>1, <4>2, <4>3 DEF Safe
    <3>3. QED
      BY <1>1, <1>2, <2>4, <3>1, <3>2, RebuildCovers
  <2>5. CASE /\ q.kind \in {"create", "approveSuggestion"} => q.step \notin Indexing \cup {"publish"}
             /\ q.kind = "update" => q.restoring
             /\ q.kind = "rebuild" => q.art = None
             /\ Ends(p, q, "error")
    <3>1. p.art = q.art /\ p.step = "done"
      BY <2>5 DEF Ends
    <3>2. HoldsOn(c, a) /\ (Unsettled(c, a) \/ Safe(a)) /\ (q.kind # "rebuild" => a = q.art)
      BY <1>1, <3>1, ReadyAtWork
    <3>3. CASE q.kind = "rebuild"
      <4>1. q.step = "clear" /\ ~q.restoring
        BY <1>1, <2>5, <3>3 DEF Knows, KindAt, WithArticle, Indexing, Steps, CallRows, Names
      <4>2. Safe(a)
        BY <3>2, <4>1 DEF Unsettled
      <4>3. QED
        BY <1>3, <3>1, <3>3, <4>2 DEF After, NoTrace
    <3>4. CASE q.kind # "rebuild"
      <4>1. Safe(a)'
        BY <1>1, <1>2, <2>5, <3>4, CutShort
      <4>2. q.kind # "create"
        <5> SUFFICES ASSUME q.kind = "create" PROVE FALSE
          OBVIOUS
        <5>1. q.step = "create"
          BY <1>1, <1>5, <2>5 DEF Knows, KindAt, Indexing, Steps, CallRows
        <5>2. QED
          BY <1>1, <3>2, <5>1 DEF Knows, WithoutArticle, Names
      <4>3. q.kind = "update" => a \in unrestored'
        BY <1>1, <1>2, <2>5, <3>2, HalfDone DEF Unsettled
      <4>4. QED
        BY <3>1, <4>1, <4>2, <4>3 DEF After, NoTrace
    <3>5. QED
      BY <3>3, <3>4
  <2>6. QED
    BY <2>1, <2>2, <2>3, <2>4, <2>5 DEF CaughtTo
<1>6. QED
  BY <1>4, <1>5

\* The entries: what is asked of a call that begins.
LEMMA BeginCovers ==
    ASSUME Core, NEW c \in Calls, Good(c), NEW kind, NEW first \in CallRows, Begin(c, kind, first),
           first.step # "create", ~first.restoring,
           kind = "update" => first.step = "done" \/ (first.step = "update" /\ Exists(first.art)
                                                       /\ article[first.art] = first.seen),
           kind = "rebuild" => first.step = "clear" /\
             \A a \in Articles : a \notin first.todo => article[a].status # "published",
           kind \notin {"update", "rebuild"} =>
             first.step \in {"index_read", "unpublish", "remove", "reject", "learn",
                             "reject_suggestion", "done"},
           kind \in {"create", "approveSuggestion"} => first.step = "done"
    PROVE  Covers(c)
<1> DEFINE p == call'[c]
<1>1. /\ Starts(p, kind, first) /\ call[c] = NewCall /\ Only(c)
      /\ UNCHANGED <<article, chunks, suggestion, source, unrestored, failures>>
  BY BeginEffect
<1>2. Reported \subseteq Reported' /\ Names
  BY Onwards, Before
<1> SUFFICES ASSUME NEW a \in Articles, Ready(c, a) PROVE After(c, a)
  BY CoversByReady
<1>3. ~Working(c, a) /\ call[c].art = None
  BY <1>1 DEF Working, NewCall
<1>4. Safe(a)'
  BY <1>1, <1>2, <1>3, SafeStays DEF Ready
<1>5. NoTrace(c, a)
  BY <1>2, <1>3 DEF NoTrace, Names
<1>6. ASSUME p.step # "done"
      PROVE  HoldsOn(c, a)'
  <2>1. kind # "rebuild" => a = first.art
    BY <1>1 DEF Ready, About, Starts
  <2>2. CASE kind = "update"
    BY <1>1, <1>6, <2>1, <2>2 DEF HoldsOn, Starts, Indexing, Exists
  <2>3. CASE kind = "rebuild"
    BY <1>1, <1>6, <2>3 DEF HoldsOn, Starts
  <2>4. CASE kind \notin {"update", "rebuild"}
    BY <1>1, <1>6, <2>4 DEF HoldsOn, Starts
  <2>5. QED
    BY <2>2, <2>3, <2>4
<1>7. QED
  BY <1>4, <1>5, <1>6 DEF After, Covered

\* A call that ends at once.
LEMMA RefusedCovers ==
    ASSUME Core, NEW c \in Calls, Good(c), NEW kind, NEW result \in {"error", "skipped"},
           Begin(c, kind, [NewCall EXCEPT !.step = "done", !.result = result]),
           kind # "rebuild"
    PROVE  Covers(c)
<1> DEFINE first == [NewCall EXCEPT !.step = "done", !.result = result]
<1>1. first \in CallRows
  BY RowsTyped DEF NewCall, CallRows, Steps, Results, Outcomes
<1>2. first.step = "done" /\ ~first.restoring
  BY DEF NewCall
<1>3. Begin(c, kind, first)
  OBVIOUS
<1> HIDE DEF first
<1>4. QED
  BY <1>1, <1>2, <1>3, BeginCovers

\* A review or a creation that begins is about no article yet.
LEMMA CreateCovers ==
    ASSUME Core, NEW c \in Calls, Good(c), NEW kind \in {"create", "approveSuggestion"},
           NEW first \in CallRows, first.art = None, Begin(c, kind, first)
    PROVE  Covers(c)
<1>1. Starts(call'[c], kind, first) /\ Names
  BY BeginEffect, Before
<1>2. \A a \in Articles : a \notin About(c)'
  BY <1>1 DEF Starts, About, Names
<1>3. QED
  BY <1>2 DEF Covers

LEMMA updateCovers ==
    ASSUME Core, NEW c \in Calls, Good(c), NEW a \in Articles, NEW target \in Targets \cup {None},
           NEW text \in Versions \cup {None}, update(c, a, target, text)
    PROVE  Covers(c)
<1> DEFINE to == IF target = None THEN article[a].status ELSE target
           first == [NewCall EXCEPT !.step = "update", !.seen = article[a],
                                    !.target = to, !.text = text]
<1>1. BeginOn(c, "update", a, first)
  BY DEF update
<1>2. CASE ~Exists(a)
  BY <1>1, <1>2, RefusedCovers DEF BeginOn
<1>3. CASE Exists(a)
  <2>1. to \in Statuses /\ article[a] \in Rows
    BY <1>3, Existing, Before, KbAssumption DEF Exists
  <2> HIDE DEF to
  <2> DEFINE begun == [NewCall EXCEPT !.step = "update", !.seen = article[a],
                                      !.target = to, !.text = text, !.art = a]
  <2>2. begun \in CallRows
    BY <2>1 DEF NewCall, CallRows, Results, Steps
  <2>3. [first EXCEPT !.art = a] = begun
    BY DEF NewCall
  <2>4. begun.step = "update" /\ begun.seen = article[a] /\ begun.art = a /\ ~begun.restoring
    BY DEF NewCall
  <2>5. Begin(c, "update", begun)
    BY <1>1, <1>3, <2>3 DEF BeginOn
  <2> HIDE DEF begun, first
  <2>6. QED
    BY <1>3, <2>2, <2>4, <2>5, BeginCovers
<1>4. QED
  BY <1>2, <1>3

LEMMA BeginOnCovers ==
    ASSUME Core, NEW c \in Calls, Good(c), NEW a \in Articles,
           NEW kind \in {"publish", "unpublish", "remove", "reject"},
           NEW step \in {"index_read", "unpublish", "remove", "reject"},
           BeginOn(c, kind, a, [NewCall EXCEPT !.step = step])
    PROVE  Covers(c)
<1>1. CASE ~Exists(a)
  BY <1>1, RefusedCovers DEF BeginOn
<1>2. CASE Exists(a)
  <2> DEFINE first == [NewCall EXCEPT !.step = step, !.art = a]
  <2>1. first \in CallRows
    BY RowsTyped DEF NewCall, CallRows, Results, Steps
  <2>2. first.step = step /\ ~first.restoring
    BY DEF NewCall
  <2>3. [[NewCall EXCEPT !.step = step] EXCEPT !.art = a] = first
    BY DEF NewCall
  <2> HIDE DEF first
  <2>4. Begin(c, kind, first)
    BY <1>2, <2>3 DEF BeginOn
  <2>5. QED
    BY <2>1, <2>2, <2>4, BeginCovers
<1>3. QED
  BY <1>1, <1>2

LEMMA rebuildCovers ==
    ASSUME Core, NEW c \in Calls, Good(c), rebuildCompanyKb(c)
    PROVE  Covers(c)
<1> DEFINE listed == {a \in Articles : article[a].status = "published"}
           first == [NewCall EXCEPT !.step = "clear", !.todo = listed]
<1>1. first \in CallRows
  BY RowsTyped DEF NewCall, CallRows, Results, Steps
<1>2. first.step = "clear" /\ first.todo = listed /\ ~first.restoring
  BY DEF NewCall
<1>3. Begin(c, "rebuild", first)
  BY DEF rebuildCompanyKb
<1> HIDE DEF first
<1>4. QED
  BY <1>1, <1>2, <1>3, BeginCovers

LEMMA learnCovers ==
    ASSUME Core, NEW c \in Calls, Good(c), learnFromHumanResponse(c)
    PROVE  Covers(c)
<1>1. CASE \E g \in Suggestions : suggestion[g] # "none"
  BY <1>1, RefusedCovers DEF learnFromHumanResponse
<1>2. CASE ~\E g \in Suggestions : suggestion[g] # "none"
  <2> DEFINE first == [NewCall EXCEPT !.step = "learn"]
  <2>1. first \in CallRows
    BY RowsTyped DEF NewCall, CallRows, Results, Steps
  <2>2. first.step = "learn" /\ ~first.restoring
    BY DEF NewCall
  <2>3. Begin(c, "learnFromHumanResponse", first)
    BY <1>2 DEF learnFromHumanResponse
  <2> HIDE DEF first
  <2>4. QED
    BY <2>1, <2>2, <2>3, BeginCovers
<1>3. QED
  BY <1>1, <1>2

LEMMA approveCovers ==
    ASSUME Core, NEW c \in Calls, Good(c), NEW g \in Suggestions, NEW text \in Versions \ Blank,
           approveSuggestion(c, g, text)
    PROVE  Covers(c)
<1>1. CASE suggestion[g] = "none"
  BY <1>1, RefusedCovers DEF approveSuggestion, BeginReview
<1>2. CASE suggestion[g] # "none" /\ suggestion[g] = "approved"
  <2> DEFINE first == [NewCall EXCEPT !.step = "done", !.result = "skipped", !.sug = g]
  <2>1. first \in CallRows
    BY RowsTyped DEF NewCall, CallRows, Steps, Results, Outcomes
  <2>2. first.art = None
    BY DEF NewCall
  <2>3. [[NewCall EXCEPT !.step = "done", !.result = "skipped"] EXCEPT !.sug = g] = first
    BY DEF NewCall
  <2> HIDE DEF first
  <2>4. Begin(c, "approveSuggestion", first)
    BY <1>2, <2>3 DEF approveSuggestion, BeginReview
  <2>5. QED
    BY <2>1, <2>2, <2>4, CreateCovers
<1>3. CASE suggestion[g] # "none" /\ suggestion[g] # "approved"
  <2> DEFINE first == [NewCall EXCEPT !.step = "create", !.text = text, !.target = "published",
                                      !.sug = g]
  <2>1. first \in CallRows
    BY RowsTyped DEF NewCall, CallRows, Results, Steps, Statuses
  <2>2. first.art = None
    BY DEF NewCall
  <2>3. [[NewCall EXCEPT !.step = "create", !.text = text, !.target = "published"] EXCEPT !.sug = g]
          = first
    BY DEF NewCall
  <2> HIDE DEF first
  <2>4. Begin(c, "approveSuggestion", first)
    BY <1>3, <2>3 DEF approveSuggestion, BeginReview
  <2>5. QED
    BY <2>1, <2>2, <2>4, CreateCovers
<1>4. QED
  BY <1>1, <1>2, <1>3

LEMMA rejectSuggestionCovers ==
    ASSUME Core, NEW c \in Calls, Good(c), NEW g \in Suggestions, rejectSuggestion(c, g)
    PROVE  Covers(c)
<1>1. CASE suggestion[g] = "none"
  BY <1>1, RefusedCovers DEF rejectSuggestion, BeginReview
<1>2. CASE suggestion[g] # "none"
  <2> DEFINE first == [NewCall EXCEPT !.step = "reject_suggestion", !.sug = g]
  <2>1. first \in CallRows
    BY RowsTyped DEF NewCall, CallRows, Results, Steps
  <2>2. first.step = "reject_suggestion" /\ ~first.restoring
    BY DEF NewCall
  <2>3. [[NewCall EXCEPT !.step = "reject_suggestion"] EXCEPT !.sug = g] = first
    BY DEF NewCall
  <2>4. Begin(c, "rejectSuggestion", first)
    BY <1>2, <2>3 DEF rejectSuggestion, BeginReview
  <2> HIDE DEF first
  <2>5. QED
    BY <2>1, <2>2, <2>4, BeginCovers
<1>3. QED
  BY <1>1, <1>2

LEMMA EnterCovers ==
    ASSUME Core, NEW c \in Calls, Good(c), Enter(c)
    PROVE  Covers(c)
<1>1. ASSUME NEW a \in Articles, NEW published \in BOOLEAN, publish(c, a, published)
      PROVE  Covers(c)
  BY <1>1, BeginOnCovers DEF publish
<1>2. ASSUME NEW a \in Articles, remove(c, a) \/ reject(c, a)
      PROVE  Covers(c)
  BY <1>2, BeginOnCovers DEF remove, reject
<1>3. ASSUME NEW target \in Targets, NEW text \in Versions, create(c, target, text)
      PROVE  Covers(c)
  <2> DEFINE first == [NewCall EXCEPT !.step = "create", !.target = target, !.text = text]
  <2>1. target \in Statuses
    BY KbAssumption
  <2>2. first \in CallRows
    BY <2>1, NewCallTyped DEF Steps
  <2>3. first.art = None
    BY DEF NewCall
  <2>4. Begin(c, "create", first)
    BY <1>3 DEF create
  <2> HIDE DEF first
  <2>5. QED
    BY <2>2, <2>3, <2>4, CreateCovers
<1>4. QED
  BY <1>1, <1>2, <1>3, updateCovers, rebuildCovers, learnCovers, approveCovers,
     rejectSuggestionCovers DEF Enter

LEMMA StepCovers ==
    ASSUME Core, NEW c \in Calls, Good(c), Step(c)
    PROVE  Covers(c)
BY EnterCovers, createArticleCovers, writeDraftCovers, writePublishedCovers, StatusCovers,
   deleteArticleCovers, deleteChunksCovers, reindexReadCovers, reindexDeleteCovers,
   replaceChunksCovers, deleteChunksForCompanyCovers, nextArticleCovers, restoreCovers,
   SuggestionCovers, ThrowCovers, CrashCovers DEF Step, Work

LEMMA IndexInit == Init => IndexInv
<1> SUFFICES ASSUME Init, NEW a \in Articles
             PROVE  Safe(a) /\ \A c \in Calls : ~Working(c, a)
  BY DEF IndexInv
<1>1. article[a].status = "published" => chunks[a] = article[a].body
  BY DEF Init
<1>2. \A c \in Calls : ~Working(c, a)
  BY DEF Init, Working, NewCall
<1>3. QED
  BY <1>1, <1>2 DEF Safe, Indexed

-----------------------------------------------------------------------------
(* The suggestions: what the calls that matter to them do *)

\* The step at which each action is taken.
LEMMA Guards ==
    ASSUME NEW c \in Calls
    PROVE  /\ Enter(c) => call[c].step = "idle"
           /\ \A b \in Articles : createArticle(c, b) => call[c].step = "create"
           /\ writeDraft(c) => call[c].step = "update"
           /\ writePublished(c) => call[c].step = "publish"
           /\ writeStatus(c) => call[c].step = "set_status"
           /\ writeUnpublished(c) => call[c].step = "unpublish"
           /\ writeRejected(c) => call[c].step = "reject"
           /\ deleteArticle(c) => call[c].step \in {"remove", "rollback"}
           /\ deleteChunksByArticleId(c) =>
                call[c].step \in {"delete_chunks", "unpublish_chunks", "restore_chunks"}
           /\ reindexRead(c) => call[c].step = "index_read"
           /\ reindexDelete(c) => call[c].step = "index_delete"
           /\ replaceChunks(c) => call[c].step = "index_replace"
           /\ deleteChunksForCompany(c) => call[c].step = "clear"
           /\ nextArticle(c) => call[c].step = "next"
           /\ restoreArticleSnapshot(c) => call[c].step = "restore"
           /\ \A g \in Suggestions : createSuggestion(c, g) => call[c].step = "learn"
           /\ notify(c) => call[c].step = "notify"
           /\ writeApproved(c) => call[c].step = "approve"
           /\ writeSuggestionRejected(c) => call[c].step = "reject_suggestion"
<1>1. Enter(c) => call[c].step = "idle"
  BY DEF Enter, create, update, publish, remove, reject, rebuildCompanyKb, learnFromHumanResponse,
         approveSuggestion, rejectSuggestion, BeginOn, BeginReview, Begin
<1>2. QED
  BY <1>1 DEF createArticle, writeDraft, writePublished, writeStatus, writeUnpublished, writeRejected,
     deleteArticle, deleteChunksByArticleId, reindexRead, reindexDelete, replaceChunks,
     deleteChunksForCompany, nextArticle, restoreArticleSnapshot, createSuggestion, notify,
     writeApproved, writeSuggestionRejected

LEMMA StepAt ==
    ASSUME NEW c \in Calls, Step(c)
    PROVE  \/ Throw(c) \/ Crash(c)
           \/ /\ call[c].step = "idle" => Enter(c)
              /\ call[c].step = "create" => \E b \in Articles : createArticle(c, b)
              /\ call[c].step = "index_read" => reindexRead(c)
              /\ call[c].step = "index_delete" => reindexDelete(c)
              /\ call[c].step = "index_replace" => replaceChunks(c)
              /\ call[c].step = "publish" => writePublished(c)
              /\ call[c].step = "rollback" => deleteArticle(c)
              /\ call[c].step = "learn" => \E g \in Suggestions : createSuggestion(c, g)
              /\ call[c].step = "notify" => notify(c)
              /\ call[c].step = "approve" => writeApproved(c)
              /\ call[c].step = "reject_suggestion" => writeSuggestionRejected(c)
              /\ call[c].step # "done"
BY Guards DEF Step, Work

\* The steps that write a suggestion, or the source of an article.
LEMMA Sources ==
    ASSUME Core, NEW c \in Calls, Step(c)
    PROVE  /\ suggestion' = suggestion
              \/ call[c].step \in {"learn", "approve", "reject_suggestion"}
           /\ source' = source \/ call[c].step = "create"
BY DEF Step, Work, Enter, create, update, publish, remove, reject, rebuildCompanyKb,
   learnFromHumanResponse, approveSuggestion, rejectSuggestion, BeginOn, BeginReview, Begin,
   createArticle, writeDraft, writePublished, writeStatus, writeUnpublished, writeRejected,
   deleteArticle, deleteChunksByArticleId, reindexRead, reindexDelete, replaceChunks,
   deleteChunksForCompany, nextArticle, restoreArticleSnapshot, createSuggestion, notify,
   writeApproved, writeSuggestionRejected, Throw, Crash

\* A call that creates or approves: the steps it may be at.
LEMMA CreatorAt ==
    ASSUME Core, NEW c \in Calls, call[c].kind \in {"create", "approveSuggestion"},
           call[c].step \notin {"idle", "done"}
    PROVE  /\ call[c].step \in Indexing \cup {"create", "publish", "rollback", "approve"}
           /\ call[c].step = "create" <=> call[c].art = None
<1>1. Knows(call[c]) /\ call[c] \in CallRows /\ Names
  BY Before
<1>2. call[c].step \in Indexing \cup {"create", "publish", "rollback", "approve"}
  BY <1>1 DEF Knows, KindAt, CallRows, Steps, Indexing
<1>3. call[c].step = "create" => call[c].art = None
  BY <1>1 DEF Knows, WithoutArticle
<1>4. call[c].step # "create" => call[c].art \in Articles
  BY <1>1, <1>2 DEF Knows, WithArticle, Indexing
<1>5. QED
  BY <1>1, <1>2, <1>3, <1>4 DEF Names

\* What a call that begins brings to the suggestions.
Entered(p) ==
    /\ p.kind \in {"create", "approveSuggestion"} => p.art = None
    /\ p.kind = "approveSuggestion" /\ p.step = "create" =>
         p.sug \in Suggestions /\ suggestion[p.sug] # "approved"
    /\ p.step = "learn" => \A g \in Suggestions : suggestion[g] = "none"
    /\ p.sug # None => suggestion[p.sug] # "none"

LEMMA StartsEntered ==
    ASSUME Core, NEW c \in Calls, NEW kind, NEW first \in CallRows, Begin(c, kind, first),
           kind \in {"create", "approveSuggestion"} => first.art = None,
           kind = "approveSuggestion" /\ first.step = "create" =>
              first.sug \in Suggestions /\ suggestion[first.sug] # "approved",
           first.step = "learn" => \A g \in Suggestions : suggestion[g] = "none",
           first.sug # None => suggestion[first.sug] # "none"
    PROVE  Entered(call'[c])
BY BeginEffect DEF Entered, Starts

LEMMA RefusedEntered ==
    ASSUME Core, NEW c \in Calls, NEW kind, NEW result \in {"error", "skipped"},
           Begin(c, kind, [NewCall EXCEPT !.step = "done", !.result = result])
    PROVE  Entered(call'[c])
<1> DEFINE first == [NewCall EXCEPT !.step = "done", !.result = result]
<1>1. first \in CallRows
  BY RowsTyped DEF NewCall, CallRows, Steps, Results, Outcomes
<1>2. first.step = "done" /\ first.art = None /\ first.sug = None
  BY DEF NewCall
<1>3. Begin(c, kind, first)
  OBVIOUS
<1> HIDE DEF first
<1>4. QED
  BY <1>1, <1>2, <1>3, StartsEntered

\* The entries that are not about a suggestion.
LEMMA ArticleEntered ==
    ASSUME Core, NEW c \in Calls, NEW a \in Articles, NEW kind, NEW first \in CallRows,
           kind \notin {"create", "approveSuggestion"}, first.step # "learn", first.sug = None,
           BeginOn(c, kind, a, first)
    PROVE  Entered(call'[c])
<1>1. CASE ~Exists(a)
  BY <1>1, RefusedEntered DEF BeginOn
<1>2. CASE Exists(a)
  <2> DEFINE begun == [first EXCEPT !.art = a]
  <2>1. begun \in CallRows /\ begun.step = first.step /\ begun.sug = None
    BY DEF CallRows
  <2> HIDE DEF begun
  <2>2. Begin(c, kind, begun)
    BY <1>2 DEF BeginOn, begun
  <2>3. QED
    BY <2>1, <2>2, StartsEntered
<1>3. QED
  BY <1>1, <1>2

LEMMA updateEntered ==
    ASSUME Core, NEW c \in Calls, NEW a \in Articles, NEW target \in Targets \cup {None},
           NEW text \in Versions \cup {None}, update(c, a, target, text)
    PROVE  Entered(call'[c])
<1> DEFINE to == IF target = None THEN article[a].status ELSE target
           first == [NewCall EXCEPT !.step = "update", !.seen = article[a],
                                    !.target = to, !.text = text]
<1>1. BeginOn(c, "update", a, first)
  BY DEF update
<1>2. CASE ~Exists(a)
  BY <1>1, <1>2, RefusedEntered DEF BeginOn
<1>3. CASE Exists(a)
  <2>1. to \in Statuses /\ article[a] \in Rows
    BY <1>3, Existing, Before, KbAssumption DEF Exists
  <2> HIDE DEF to
  <2>2. first \in CallRows
    BY <2>1 DEF NewCall, CallRows, Results, Steps
  <2>3. first.step = "update" /\ first.sug = None
    BY DEF NewCall
  <2> HIDE DEF first
  <2>4. QED
    BY <1>1, <2>2, <2>3, ArticleEntered
<1>4. QED
  BY <1>2, <1>3

LEMMA BeginOnEntered ==
    ASSUME Core, NEW c \in Calls, NEW a \in Articles,
           NEW kind \in {"publish", "unpublish", "remove", "reject"},
           NEW step \in {"index_read", "unpublish", "remove", "reject"},
           BeginOn(c, kind, a, [NewCall EXCEPT !.step = step])
    PROVE  Entered(call'[c])
<1> DEFINE first == [NewCall EXCEPT !.step = step]
<1>1. first \in CallRows
  BY RowsTyped DEF NewCall, CallRows, Results, Steps
<1>2. first.step = step /\ first.sug = None
  BY DEF NewCall
<1>3. BeginOn(c, kind, a, first)
  OBVIOUS
<1> HIDE DEF first
<1>4. QED
  BY <1>1, <1>2, <1>3, ArticleEntered

LEMMA createEntered ==
    ASSUME Core, NEW c \in Calls, NEW target \in Targets, NEW text \in Versions,
           create(c, target, text)
    PROVE  Entered(call'[c])
<1> DEFINE first == [NewCall EXCEPT !.step = "create", !.target = target, !.text = text]
<1>1. target \in Statuses
  BY KbAssumption
<1>2. first \in CallRows
  BY <1>1, NewCallTyped DEF Steps
<1>3. first.step = "create" /\ first.art = None /\ first.sug = None
  BY DEF NewCall
<1>4. Begin(c, "create", first)
  BY DEF create
<1> HIDE DEF first
<1>5. QED
  BY <1>2, <1>3, <1>4, StartsEntered

LEMMA rebuildEntered ==
    ASSUME Core, NEW c \in Calls, rebuildCompanyKb(c)
    PROVE  Entered(call'[c])
<1> DEFINE first == [NewCall EXCEPT !.step = "clear",
                        !.todo = {a \in Articles : article[a].status = "published"}]
<1>1. first \in CallRows
  BY RowsTyped DEF NewCall, CallRows, Results, Steps
<1>2. first.step = "clear" /\ first.sug = None
  BY DEF NewCall
<1>3. Begin(c, "rebuild", first)
  BY DEF rebuildCompanyKb
<1> HIDE DEF first
<1>4. QED
  BY <1>1, <1>2, <1>3, StartsEntered

LEMMA learnEntered ==
    ASSUME Core, NEW c \in Calls, learnFromHumanResponse(c)
    PROVE  Entered(call'[c])
<1>1. CASE \E g \in Suggestions : suggestion[g] # "none"
  BY <1>1, RefusedEntered DEF learnFromHumanResponse
<1>2. CASE ~\E g \in Suggestions : suggestion[g] # "none"
  <2> DEFINE first == [NewCall EXCEPT !.step = "learn"]
  <2>1. first \in CallRows
    BY RowsTyped DEF NewCall, CallRows, Results, Steps
  <2>2. first.step = "learn" /\ first.sug = None
    BY DEF NewCall
  <2>3. Begin(c, "learnFromHumanResponse", first)
    BY <1>2 DEF learnFromHumanResponse
  <2> HIDE DEF first
  <2>4. QED
    BY <1>2, <2>1, <2>2, <2>3, StartsEntered
<1>3. QED
  BY <1>1, <1>2

LEMMA approveEntered ==
    ASSUME Core, NEW c \in Calls, NEW g \in Suggestions, NEW text \in Versions \ Blank,
           approveSuggestion(c, g, text)
    PROVE  Entered(call'[c])
<1>1. CASE suggestion[g] = "none"
  BY <1>1, RefusedEntered DEF approveSuggestion, BeginReview
<1>2. CASE suggestion[g] # "none" /\ suggestion[g] = "approved"
  <2> DEFINE first == [NewCall EXCEPT !.step = "done", !.result = "skipped", !.sug = g]
  <2>1. first \in CallRows
    BY RowsTyped DEF NewCall, CallRows, Steps, Results, Outcomes
  <2>2. first.step = "done" /\ first.art = None /\ first.sug = g
    BY DEF NewCall
  <2>3. [[NewCall EXCEPT !.step = "done", !.result = "skipped"] EXCEPT !.sug = g] = first
    BY DEF NewCall
  <2> HIDE DEF first
  <2>4. Begin(c, "approveSuggestion", first)
    BY <1>2, <2>3 DEF approveSuggestion, BeginReview
  <2>5. QED
    BY <1>2, <2>1, <2>2, <2>4, StartsEntered
<1>3. CASE suggestion[g] # "none" /\ suggestion[g] # "approved"
  <2> DEFINE first == [NewCall EXCEPT !.step = "create", !.text = text, !.target = "published",
                                      !.sug = g]
  <2>1. first \in CallRows
    BY RowsTyped DEF NewCall, CallRows, Results, Steps, Statuses
  <2>2. first.step = "create" /\ first.art = None /\ first.sug = g
    BY DEF NewCall
  <2>3. [[NewCall EXCEPT !.step = "create", !.text = text, !.target = "published"] EXCEPT !.sug = g]
          = first
    BY DEF NewCall
  <2> HIDE DEF first
  <2>4. Begin(c, "approveSuggestion", first)
    BY <1>3, <2>3 DEF approveSuggestion, BeginReview
  <2>5. QED
    BY <1>3, <2>1, <2>2, <2>4, StartsEntered
<1>4. QED
  BY <1>1, <1>2, <1>3

LEMMA rejectSuggestionEntered ==
    ASSUME Core, NEW c \in Calls, NEW g \in Suggestions, rejectSuggestion(c, g)
    PROVE  Entered(call'[c])
<1>1. CASE suggestion[g] = "none"
  BY <1>1, RefusedEntered DEF rejectSuggestion, BeginReview
<1>2. CASE suggestion[g] # "none"
  <2> DEFINE first == [NewCall EXCEPT !.step = "reject_suggestion", !.sug = g]
  <2>1. first \in CallRows
    BY RowsTyped DEF NewCall, CallRows, Results, Steps
  <2>2. first.step = "reject_suggestion" /\ first.sug = g
    BY DEF NewCall
  <2>3. [[NewCall EXCEPT !.step = "reject_suggestion"] EXCEPT !.sug = g] = first
    BY DEF NewCall
  <2>4. Begin(c, "rejectSuggestion", first)
    BY <1>2, <2>3 DEF rejectSuggestion, BeginReview
  <2> HIDE DEF first
  <2>5. QED
    BY <1>2, <2>1, <2>2, <2>4, StartsEntered
<1>3. QED
  BY <1>1, <1>2

LEMMA EnterEntered ==
    ASSUME Core, NEW c \in Calls, Enter(c)
    PROVE  Entered(call'[c])
<1>1. ASSUME NEW a \in Articles, NEW published \in BOOLEAN, publish(c, a, published)
      PROVE  Entered(call'[c])
  BY <1>1, BeginOnEntered DEF publish
<1>2. ASSUME NEW a \in Articles, remove(c, a) \/ reject(c, a)
      PROVE  Entered(call'[c])
  BY <1>2, BeginOnEntered DEF remove, reject
<1>3. QED
  BY <1>1, <1>2, createEntered, updateEntered, rebuildEntered, learnEntered, approveEntered,
     rejectSuggestionEntered DEF Enter

\* The article that a call creates.
LEMMA CreationEffect ==
    ASSUME Core, NEW c \in Calls, NEW b \in Articles, createArticle(c, b)
    PROVE  /\ article[b] = NoArticle /\ call[c].step = "create" /\ call'[c].art \in {None, b}
           /\ source' = [source EXCEPT ![b] = call[c].sug]
           /\ call[c].kind = "approveSuggestion" =>
                /\ call'[c].art = b /\ call'[c].step = "index_read" /\ call'[c].result = None
                /\ Exists(b)' /\ article'[b].body \notin Blank
           /\ call[c].kind \in {"create", "approveSuggestion"} /\ call[c].sug # None =>
                call[c].kind = "approveSuggestion"
<1> DEFINE q == call[c]
           p == call'[c]
<1>1. TypeOK /\ Knows(q) /\ q \in CallRows /\ q.step = "create" /\ q.art = None
      /\ q.kind \in {"create", "approveSuggestion"}
  BY Before DEF createArticle, Knows, KindAt, WithoutArticle
<1>2. article' = [article EXCEPT
                    ![b] = Row(IF q.target = "published" THEN "draft" ELSE q.target, q.text)]
  BY DEF createArticle
<1>3. CASE q.target = "published"
  <2>1. call' = [call EXCEPT ![c].art = b, ![c].step = "index_read", ![c].text = None]
    BY <1>3 DEF createArticle
  <2>2. p.art = b /\ p.step = "index_read" /\ p.result = q.result
    BY <1>1, <2>1, RowOf DEF CallRows
  <2>3. q.kind = "approveSuggestion" =>
          q.text \notin Blank /\ q.result = None
    BY <1>1 DEF Knows
  <2>4. article'[b] = Row("draft", q.text)
    BY <1>1, <1>2, <1>3 DEF TypeOK
  <2>5. article'[b].body = q.text /\ Exists(b)'
    BY <2>4 DEF Row, Exists, Statuses
  <2>6. QED
    BY <1>1, <2>2, <2>3, <2>5 DEF createArticle, Knows
<1>4. CASE q.target # "published"
  <2>1. End(c, "ok") /\ "ok" \in Outcomes
    BY <1>4 DEF createArticle, Outcomes
  <2>2. p.art = None
    BY <1>1, <2>1, EndEffect DEF Ends
  <2>3. q.kind # "approveSuggestion"
    BY <1>1, <1>4 DEF Knows
  <2>4. QED
    BY <1>1, <2>2, <2>3 DEF createArticle, Knows
<1>5. QED
  BY <1>3, <1>4

\* A call that is cut short, or goes to its catch block, gets no article.
LEMMA FailureEffect ==
    ASSUME Core, NEW c \in Calls, Throw(c) \/ Crash(c)
    PROVE  /\ call[c].step \notin {"idle", "done"}
           /\ UNCHANGED <<article, chunks, suggestion, source>>
           /\ call[c].kind # "rebuild" => call'[c].art = call[c].art
           /\ call[c].kind # "rebuild" => call'[c].step \in {"rollback", "restore", "done"}
           /\ call'[c].result \in {call[c].result, "error", "crashed"}
<1> DEFINE q == call[c]
           p == call'[c]
<1>1. TypeOK /\ "error" \in Outcomes /\ "crashed" \in Outcomes
  BY Before DEF Outcomes
<1>2. Goes(p, q, "rollback") \/ Goes(p, q, "restore") \/ Ends(p, q, "error") \/ Ends(p, q, "crashed")
      \/ (q.kind = "rebuild" /\ \E errors : Leaves(p, q, errors))
  <2>1. CASE Crash(c)
    BY <1>1, <2>1, EndEffect DEF Crash
  <2>2. CASE Throw(c) /\ q.step \in {"rollback", "restore"}
    BY <1>1, <2>2, EndEffect DEF Throw
  <2>3. CASE Throw(c) /\ q.step \notin {"rollback", "restore"}
    BY <1>1, <2>3, CaughtEffect DEF Throw, CaughtTo
  <2>4. QED
    BY <2>1, <2>2, <2>3
<1>3. QED
  BY <1>2 DEF Goes, Leaves, Ends, SameTask, SameRequest, Throw, Crash

\* What a call that creates or approves is about, it was about or has just created.
LEMMA OwnCreation ==
    ASSUME Core, NEW c \in Calls, Step(c), Good(c),
           call'[c].kind \in {"create", "approveSuggestion"}, call'[c].art # None
    PROVE  /\ call[c].kind = call'[c].kind /\ call[c].step # "idle" /\ call[c].sug = call'[c].sug
           /\ \/ call[c].art = call'[c].art
              \/ call'[c].art \in Articles /\ createArticle(c, call'[c].art)
<1> DEFINE q == call[c]
           p == call'[c]
<1>1. Knows(q) /\ Names /\ q \in CallRows /\ q.step # "done"
  BY Before, Onwards
<1>2. q.step # "idle"
  <2> SUFFICES ASSUME q.step = "idle" PROVE FALSE
    OBVIOUS
  <2>1. Enter(c)
    BY StepAt, FailureEffect
  <2>2. QED
    BY <2>1, EnterEntered DEF Entered
<1>3. p.kind = q.kind /\ p.sug = q.sug /\ (q.art # None => p.art = q.art)
  BY <1>2 DEF Good, Proceeds
<1>4. ASSUME q.art = None
      PROVE  p.art \in Articles /\ createArticle(c, p.art)
  <2>1. q.step = "create"
    BY <1>1, <1>2, <1>3, <1>4, CreatorAt
  <2>2. ~Throw(c) /\ ~Crash(c)
    BY <1>3, <1>4, FailureEffect
  <2>3. PICK b \in Articles : createArticle(c, b)
    BY <2>1, <2>2, StepAt
  <2>4. p.art = b
    BY <2>3, CreationEffect
  <2>5. QED
    BY <2>3, <2>4
<1>5. QED
  BY <1>2, <1>3, <1>4

LEMMA CreatedOnceStep ==
    ASSUME Core, CreatedOnce, NEW c \in Calls, Step(c), Good(c)
    PROVE  CreatedOnce'
<1>1. Only(c)
  BY Onwards
<1>2. ASSUME NEW d \in Calls, d # c,
             call'[c].kind \in {"create", "approveSuggestion"}, call'[c].art # None,
             call'[d].kind \in {"create", "approveSuggestion"}, call'[d].art = call'[c].art
      PROVE  FALSE
  <2>1. call'[d] = call[d] /\ Named(d)
    BY <1>1, <1>2, Before DEF Only
  <2>2. CASE call[c].art = call'[c].art
    BY <1>2, <2>1, <2>2, OwnCreation DEF CreatedOnce
  <2>3. CASE call'[c].art \in Articles /\ createArticle(c, call'[c].art)
    BY <1>2, <2>1, <2>3, CreationEffect DEF Named
  <2>4. QED
    BY <1>2, <2>2, <2>3, OwnCreation
<1>3. ASSUME NEW d \in Calls, NEW e \in Calls, d # c, e # c,
             call'[d].kind \in {"create", "approveSuggestion"}, call'[d].art # None,
             call'[e].kind \in {"create", "approveSuggestion"}, call'[e].art = call'[d].art
      PROVE  d = e
  BY <1>1, <1>3 DEF Only, CreatedOnce
<1>4. QED
  BY <1>2, <1>3 DEF CreatedOnce

\* The source of an article is written when it is created.
LEMMA SourceKept ==
    ASSUME Core, NEW c \in Calls, Step(c), NEW a \in Articles,
           article[a] # NoArticle \/ ~createArticle(c, a)
    PROVE  source'[a] = source[a]
<1>1. CASE source' = source
  BY <1>1
<1>2. CASE source' # source
  <2>1. ~Throw(c) /\ ~Crash(c) /\ call[c].step = "create"
    BY <1>2, Sources, FailureEffect
  <2>2. PICK b \in Articles : createArticle(c, b)
    BY <2>1, StepAt
  <2>3. b # a /\ source' = [source EXCEPT ![b] = call[c].sug]
    BY <2>2, CreationEffect
  <2>4. QED
    BY <2>3, Before DEF TypeOK
<1>3. QED
  BY <1>1, <1>2

LEMMA OnlyApprovedBefore ==
    ASSUME Core, NEW c \in Calls, Good(c), NEW a \in Articles, OnlyApproved(a)'
    PROVE  OnlyApproved(a)
<1> SUFFICES ASSUME NEW d \in Begun, a \in About(d) PROVE call[d].kind = "approveSuggestion"
  BY DEF OnlyApproved
<1>1. d \in Begun' /\ call'[d].kind = call[d].kind /\ a \in About(d)'
  BY Onwards
<1>2. QED
  BY <1>1 DEF OnlyApproved

\* The articles of the other approvals are theirs alone, or others are about them too.
LEMMA ApprovingOther ==
    ASSUME Core, NEW c \in Calls, Step(c), Good(c), CreatedOnce', NEW d \in Calls, d # c,
           Approving(d)
    PROVE  Approving(d)'
<1>1. call'[d] = call[d] /\ Named(d) /\ Names /\ call[d] \in CallRows
  BY Onwards, Before DEF Only
<1> SUFFICES ASSUME call[d].kind = "approveSuggestion", NEW a \in Articles, call[d].art = a
             PROVE  Approving(d)'
  BY <1>1 DEF Approving, CallRows
<1>2. article[a] # NoArticle
  BY <1>1 DEF Named
<1>3. source'[a] = source[a]
  BY <1>2, SourceKept
<1>4. ASSUME OnlyApproved(a)'
      PROVE  OnlyApproved(a) /\ article'[a] = article[a] /\ chunks'[a] = chunks[a]
  <2>1. a \notin About(c)'
    <3> SUFFICES ASSUME a \in About(c)' PROVE FALSE
      OBVIOUS
    <3>1. c \in Begun' /\ call'[c].kind = "approveSuggestion"
      BY <1>2, <1>4, Onwards DEF OnlyApproved
    <3>2. call'[c].art = a
      BY <3>1 DEF About
    <3>3. QED
      BY <1>1, <1>2, <3>1, <3>2 DEF CreatedOnce, Names
  <2>2. article'[a] = article[a] /\ chunks'[a] = chunks[a]
    BY <1>2, <2>1 DEF Good, Elsewhere
  <2>3. QED
    BY <1>2, <1>4, <2>2, OnlyApprovedBefore
<1>5. QED
  BY <1>1, <1>2, <1>3, <1>4 DEF Approving, Exists, Served, Names

\* An approval brings its article one step further.
LEMMA ApprovingOwn ==
    ASSUME Core, NEW c \in Calls, Step(c), Good(c), Approving(c)
    PROVE  Approving(c)'
<1> DEFINE q == call[c]
           p == call'[c]
<1> SUFFICES ASSUME p.kind = "approveSuggestion", NEW a \in Articles, a = p.art
             PROVE  Approving(c)'
  BY DEF Approving, Good, TypeOK
<1>1. /\ q.kind = "approveSuggestion" /\ q.sug = p.sug /\ q.step \notin {"idle", "done"}
      /\ q.art = a \/ createArticle(c, a)
  BY OwnCreation, Onwards, NoneIsNoName DEF Names
<1>2. TypeOK /\ Knows(q) /\ q \in CallRows /\ Names /\ q.result = None /\ "ok" # None
  BY <1>1, Before DEF Knows, Names, Outcomes
<1>3. CASE createArticle(c, a)
  <2>1. source'[a] = p.sug /\ p.step = "index_read" /\ p.result = None
        /\ Exists(a)' /\ article'[a].body \notin Blank
    BY <1>1, <1>2, <1>3, CreationEffect DEF TypeOK
  <2>2. QED
    BY <1>2, <2>1 DEF Approving, Indexing
<1>4. CASE q.art = a
  <2>1. article[a] # NoArticle /\ q.step # "create"
    BY <1>1, <1>2, <1>4, CreatorAt, Before DEF Names, Named
  <2>2. source'[a] = p.sug
    BY <1>1, <1>2, <1>4, <2>1, SourceKept DEF Approving, Names
  <2>3. ASSUME Throw(c) \/ Crash(c)
        PROVE  Approving(c)'
    <3>1. p.step \in {"rollback", "restore", "done"} /\ p.result # "ok"
      BY <1>1, <1>2, <2>3, FailureEffect
    <3>2. QED
      BY <2>2, <3>1 DEF Approving, Indexing
  <2>4. ASSUME ~Throw(c), ~Crash(c), OnlyApproved(a)'
        PROVE  /\ p.step \in Indexing \cup {"publish"} => Exists(a)' /\ article'[a].body \notin Blank
               /\ p.step # "index_delete"
               /\ p.step = "index_replace" => p.text = article'[a].body
               /\ p.step = "publish" => chunks'[a] = article'[a].body
               /\ p.step = "approve" \/ p.result = "ok" => Served(a)'
    <3>1. OnlyApproved(a)
      BY <2>1, <2>4, OnlyApprovedBefore
    <3>2. /\ q.step \in Indexing \cup {"publish"} => Exists(a) /\ article[a].body \notin Blank
          /\ q.step # "index_delete"
          /\ q.step = "index_replace" => q.text = article[a].body
          /\ q.step = "publish" => chunks[a] = article[a].body
          /\ q.step = "approve" => Served(a)
      BY <1>1, <1>2, <1>4, <2>1, <3>1 DEF Approving, Names
    <3>3. q.step \in Indexing \cup {"publish", "rollback", "approve"} /\ ~q.restoring
      BY <1>1, <1>2, <2>1, CreatorAt DEF Knows
    <3>4. CASE q.step = "index_read"
      <4>1. reindexRead(c)
        BY <2>4, <3>4, StepAt
      <4>2. call' = [call EXCEPT ![c].step = "index_replace", ![c].text = article[a].body]
        BY <1>1, <1>4, <3>2, <3>4, <4>1 DEF reindexRead, Indexing
      <4>3. p.step = "index_replace" /\ p.text = article[a].body /\ p.result = q.result
        BY <1>2, <4>2, RowOf DEF CallRows
      <4>4. QED
        BY <1>2, <3>2, <3>4, <4>1, <4>3 DEF reindexRead, Indexing, Exists
    <3>5. CASE q.step = "index_replace"
      <4>1. replaceChunks(c)
        BY <2>4, <3>5, StepAt
      <4>2. chunks' = [chunks EXCEPT ![a] = q.text] /\ AfterIndex(c) /\ article' = article
        BY <1>4, <3>2, <3>5, <4>1 DEF replaceChunks, Indexing
      <4>3. Forgets(p, q, "publish")
        BY <1>1, <1>2, <3>3, <4>2, AfterIndexEffect DEF IndexedTo
      <4>4. p.step = "publish" /\ p.result = None
        BY <1>2, <4>3 DEF Forgets, SameTask
      <4>5. chunks'[a] = article'[a].body
        BY <1>2, <2>1, <3>2, <3>5, <4>2 DEF TypeOK
      <4>6. QED
        BY <1>2, <3>2, <3>5, <4>2, <4>4, <4>5 DEF Indexing, Exists
    <3>6. CASE q.step = "publish"
      <4>1. writePublished(c)
        BY <2>4, <3>6, StepAt
      <4>2. article' = [article EXCEPT ![a] = Row("published", article[a].body)]
            /\ Goto(c, "approve") /\ chunks' = chunks
        BY <1>1, <1>4, <3>2, <3>6, <4>1 DEF writePublished, UpdateArticle
      <4>3. p.step = "approve"
        BY <1>2, <4>2, GotoEffect DEF Goes, Steps
      <4>4. article'[a].status = "published" /\ article'[a].body = article[a].body
        BY <1>2, <2>1, <4>2 DEF TypeOK, Row
      <4>5. Served(a)'
        BY <3>2, <3>6, <4>2, <4>4 DEF Served
      <4>6. QED
        BY <4>3, <4>5 DEF Indexing
    <3>7. CASE q.step = "approve"
      <4>1. writeApproved(c)
        BY <2>4, <3>7, StepAt
      <4>2. End(c, "ok") /\ article' = article /\ chunks' = chunks /\ "ok" \in Outcomes
        BY <4>1 DEF writeApproved, Outcomes
      <4>3. p.step = "done"
        BY <1>2, <4>2, EndEffect DEF Ends
      <4>4. QED
        BY <3>2, <3>7, <4>2, <4>3 DEF Served, Indexing
    <3>8. CASE q.step = "rollback"
      <4>1. deleteArticle(c)
        BY <2>4, <3>8, StepAt
      <4>2. End(c, "error") /\ "error" \in Outcomes
        BY <3>8, <4>1 DEF deleteArticle, Outcomes
      <4>3. p.step = "done" /\ p.result = "error"
        BY <1>2, <4>2, EndEffect DEF Ends
      <4>4. QED
        BY <4>3 DEF Indexing
    <3>9. QED
      BY <3>2, <3>3, <3>4, <3>5, <3>6, <3>7, <3>8 DEF Indexing
  <2>5. QED
    BY <2>2, <2>3, <2>4 DEF Approving
<1>5. QED
  BY <1>1, <1>3, <1>4

\* What a step makes of a suggestion.
LEMMA SuggestionEffect ==
    ASSUME Core, Suggested, NEW c \in Calls, Step(c), NEW h \in Suggestions
    PROVE  /\ suggestion[h] # "none" => suggestion'[h] # "none"
           /\ suggestion[h] = "approved" =>
                \/ suggestion'[h] = "approved"
                \/ call[c].kind = "rejectSuggestion" /\ call[c].step # "idle"
           /\ suggestion'[h] = "approved" =>
                suggestion[h] = "approved" \/ (writeApproved(c) /\ call[c].sug = h)
           /\ suggestion[h] = "none" /\ suggestion'[h] # "none" => createSuggestion(c, h)
<1> DEFINE q == call[c]
<1>1. TypeOK /\ Knows(q) /\ q \in CallRows /\ Names
  BY Before
<1>2. CASE suggestion' = suggestion
  BY <1>2
<1>3. CASE suggestion' # suggestion
  <2>1. ~Throw(c) /\ ~Crash(c) /\ q.step \in {"learn", "approve", "reject_suggestion"}
    BY <1>3, Sources, FailureEffect
  <2>2. CASE q.step = "learn"
    <3>1. PICK g \in Suggestions : createSuggestion(c, g)
      BY <2>1, <2>2, StepAt
    <3>2. suggestion[g] = "none" /\ suggestion' = [suggestion EXCEPT ![g] = "pending"]
      BY <3>1 DEF createSuggestion
    <3>3. QED
      BY <1>1, <3>1, <3>2 DEF TypeOK
  <2>3. CASE q.step = "approve"
    <3>1. writeApproved(c) /\ q.sug \in Suggestions /\ suggestion[q.sug] # "none"
      BY <1>1, <2>1, <2>3, StepAt DEF Knows, KindAt, Suggested, Names
    <3>2. suggestion' = [suggestion EXCEPT ![q.sug] = "approved"]
      BY <3>1 DEF writeApproved
    <3>3. QED
      BY <1>1, <3>1, <3>2 DEF TypeOK
  <2>4. CASE q.step = "reject_suggestion"
    <3>1. writeSuggestionRejected(c) /\ q.sug \in Suggestions /\ suggestion[q.sug] # "none"
          /\ q.kind = "rejectSuggestion"
      BY <1>1, <2>1, <2>4, StepAt DEF Knows, KindAt, Suggested, Names
    <3>2. suggestion' = [suggestion EXCEPT ![q.sug] = "rejected"]
      BY <3>1 DEF writeSuggestionRejected
    <3>3. QED
      BY <1>1, <2>4, <3>1, <3>2 DEF TypeOK
  <2>5. QED
    BY <2>1, <2>2, <2>3, <2>4
<1>4. QED
  BY <1>2, <1>3

\* Only the last write of an approval makes it succeed.
LEMMA ApprovalOutcome ==
    ASSUME Core, NEW c \in Calls, Step(c), Good(c),
           call'[c].kind = "approveSuggestion", call'[c].result = "ok"
    PROVE  writeApproved(c) /\ call'[c].sug = call[c].sug /\ call[c].step # "idle"
<1> DEFINE q == call[c]
           p == call'[c]
<1>1. p.step = "done" /\ p.art # None
  BY DEF Good, Knows
<1>2. /\ q.kind = "approveSuggestion" /\ q.sug = p.sug /\ q.step \notin {"idle", "done"}
      /\ q.art = p.art \/ (p.art \in Articles /\ createArticle(c, p.art))
  BY <1>1, OwnCreation, Onwards
<1>3. TypeOK /\ Knows(q) /\ q \in CallRows /\ q.result = None /\ Names /\ "ok" # None
      /\ "ok" # "error" /\ "ok" # "crashed"
  BY <1>2, Before DEF Knows, Names, Outcomes
<1>4. ~createArticle(c, p.art) \/ p.art \notin Articles
  BY <1>2, <1>3, CreationEffect
<1>5. q.step \in Indexing \cup {"publish", "rollback", "approve"} /\ ~q.restoring
      /\ ~Throw(c) /\ ~Crash(c)
  BY <1>1, <1>2, <1>3, <1>4, CreatorAt, FailureEffect DEF Knows
<1>6. q.step \in Indexing \cup {"publish"} => ~Caught(c)
  BY <1>1, <1>2, <1>3, CaughtEffect DEF CaughtTo, Goes
<1>7. ~AfterIndex(c)
  BY <1>1, <1>2, <1>3, <1>5, AfterIndexEffect DEF IndexedTo, Forgets
<1>8. q.step # "index_read"
  <2> SUFFICES ASSUME q.step = "index_read" PROVE FALSE
    OBVIOUS
  <2>1. reindexRead(c)
    BY <1>5, StepAt
  <2>2. \/ Goto(c, "index_delete")
        \/ call' = [call EXCEPT ![c].step = "index_replace", ![c].text = article[q.art].body]
    BY <1>6, <2>1 DEF reindexRead, Indexing
  <2>3. p.step \in {"index_delete", "index_replace"}
    BY <1>3, <2>2, RowOf DEF CallRows, Goto
  <2>4. QED
    BY <1>1, <2>3
<1>9. q.step \notin {"index_delete", "index_replace"}
  BY <1>5, <1>6, <1>7, StepAt DEF reindexDelete, replaceChunks, Indexing
<1>10. q.step # "publish"
  <2> SUFFICES ASSUME q.step = "publish" PROVE FALSE
    OBVIOUS
  <2>1. Goto(c, "approve")
    BY <1>2, <1>5, <1>6, StepAt DEF writePublished, UpdateArticle
  <2>2. p.step = "approve"
    BY <1>3, <2>1, RowOf DEF CallRows, Goto
  <2>3. QED
    BY <1>1, <2>2
<1>11. q.step # "rollback"
  <2> SUFFICES ASSUME q.step = "rollback" PROVE FALSE
    OBVIOUS
  <2>1. End(c, "error") /\ "error" \in Outcomes
    BY <1>5, StepAt DEF deleteArticle, Outcomes
  <2>2. p.result = "error"
    BY <1>3, <2>1, EndEffect DEF Ends
  <2>3. QED
    BY <1>3, <2>2
<1>12. QED
  BY <1>2, <1>5, <1>8, <1>9, <1>10, <1>11, StepAt DEF Indexing

LEMMA SuggestedStep ==
    ASSUME Core, Suggested, NEW c \in Calls, Step(c), Good(c)
    PROVE  Suggested'
<1> SUFFICES ASSUME NEW d \in Calls, call'[d].sug # None
             PROVE  suggestion'[call'[d].sug] # "none"
  BY DEF Suggested
<1>1. TypeOK' /\ Only(c) /\ Names
  BY Onwards, Before DEF Good
<1>2. call'[d].sug \in Suggestions
  BY <1>1 DEF TypeOK
<1>3. suggestion[call'[d].sug] # "none"
  <2>1. CASE call'[d].sug = call[d].sug
    BY <2>1 DEF Suggested
  <2>2. CASE call'[d].sug # call[d].sug
    <3>1. d = c /\ call[c].step = "idle"
      BY <1>1, <2>2 DEF Only, Good, Proceeds
    <3>2. Enter(c)
      BY <3>1, StepAt, FailureEffect
    <3>3. QED
      BY <3>1, <3>2, EnterEntered DEF Entered
  <2>3. QED
    BY <2>1, <2>2
<1>4. QED
  BY <1>2, <1>3, SuggestionEffect

LEMMA MadeByApprovalStep ==
    ASSUME Core, Suggested, MadeByApproval, NEW c \in Calls, Step(c), Good(c)
    PROVE  MadeByApproval'
<1>1. Only(c) /\ Names /\ Knows(call[c]) /\ call[c] \in CallRows
  BY Onwards, Before
<1>2. ASSUME NEW a \in Articles, source'[a] # None
      PROVE  \E d \in Calls : call'[d].kind = "approveSuggestion" /\ call'[d].art = a
  <2>1. CASE article[a] # NoArticle \/ ~createArticle(c, a)
    <3>1. source[a] # None
      BY <1>2, <2>1, SourceKept
    <3>2. PICK d \in Calls : call[d].kind = "approveSuggestion" /\ call[d].art = a
      BY <3>1 DEF MadeByApproval
    <3>3. call'[d].kind = "approveSuggestion" /\ call'[d].art = a
      <4>1. CASE d # c
        BY <1>1, <3>2, <4>1 DEF Only
      <4>2. CASE d = c
        <5>1. call[c].step # "idle" /\ a # None
          BY <1>1, <3>2, <4>2 DEF Knows, NewCall, Names
        <5>2. QED
          BY <3>2, <4>2, <5>1 DEF Good, Proceeds
      <4>3. QED
        BY <4>1, <4>2
    <3>4. QED
      BY <3>3
  <2>2. CASE createArticle(c, a)
    <3>1. source'[a] = call[c].sug /\ call[c].step = "create"
      BY <2>2, CreationEffect, Before DEF TypeOK
    <3>2. call[c].kind = "approveSuggestion" /\ call[c].step # "idle"
      BY <1>1, <1>2, <2>2, <3>1, CreationEffect DEF Knows, KindAt
    <3>3. call'[c].kind = "approveSuggestion" /\ call'[c].art = a
      BY <2>2, <3>2, CreationEffect DEF Good, Proceeds
    <3>4. QED
      BY <3>3
  <2>3. QED
    BY <2>1, <2>2
<1>3. ASSUME NEW g \in Suggestions, suggestion'[g] = "approved"
      PROVE  \E d \in Calls : call'[d].kind = "approveSuggestion" /\ call'[d].sug = g
                                /\ call'[d].result = "ok"
  <2>1. CASE suggestion[g] = "approved"
    <3>1. PICK d \in Calls : call[d].kind = "approveSuggestion" /\ call[d].sug = g
                               /\ call[d].result = "ok"
      BY <2>1 DEF MadeByApproval
    <3>2. call[d].step = "done"
      BY <3>1, Before DEF Knows
    <3>3. call'[d] = call[d]
      BY <1>1, <3>2, Onwards DEF Only
    <3>4. QED
      BY <3>1, <3>3
  <2>2. CASE writeApproved(c) /\ call[c].sug = g
    <3>1. End(c, "ok") /\ "ok" \in Outcomes /\ call[c].kind = "approveSuggestion"
      BY <1>1, <2>2 DEF writeApproved, Outcomes, Knows, KindAt
    <3>2. Ends(call'[c], call[c], "ok")
      BY <3>1, EndEffect, Before
    <3>3. QED
      BY <2>2, <3>1, <3>2 DEF Ends, SameRequest
  <2>3. QED
    BY <1>3, <2>1, <2>2, SuggestionEffect
<1>4. QED
  BY <1>2, <1>3 DEF MadeByApproval

LEMMA RejectionsStay ==
    ASSUME Core, NEW c \in Calls, Good(c),
           Rejections \/ (call[c].kind = "rejectSuggestion" /\ call[c].step # "idle")
    PROVE  Rejections'
<1>1. PICK d \in Begun : call[d].kind = "rejectSuggestion"
  BY DEF Rejections, Begun
<1>2. d \in Begun' /\ call'[d].kind = "rejectSuggestion"
  BY <1>1, Onwards
<1>3. QED
  BY <1>2 DEF Rejections

LEMMA ApprovalKeptStep ==
    ASSUME Core, Suggested, ApprovalKept, NEW c \in Calls, Step(c), Good(c)
    PROVE  ApprovalKept'
<1> SUFFICES ASSUME NEW d \in Calls, ~Rejections',
                    call'[d].kind = "approveSuggestion", call'[d].result = "ok"
             PROVE  /\ suggestion'[call'[d].sug] = "approved"
                    /\ \A e \in Calls :
                         /\ call'[e].kind = "approveSuggestion" /\ d \in call'[e].ended
                         /\ call'[e].art # None \/ call'[e].step = "create"
                         => call'[e].sug # call'[d].sug
  BY DEF ApprovalKept
<1>1. Only(c) /\ ~Rejections /\ ~(call[c].kind = "rejectSuggestion" /\ call[c].step # "idle")
  BY Onwards, RejectionsStay
<1>2. c \notin Ended /\ call[c].step # "done"
  BY Onwards DEF Ended
<1>3. CASE d = c
  <2>1. writeApproved(c) /\ call'[c].sug = call[c].sug /\ call[c].step # "idle"
    BY <1>3, ApprovalOutcome
  <2>2. Knows(call[c]) /\ TypeOK /\ call[c].step = "approve"
    BY <2>1, Before DEF writeApproved
  <2>3. call[c].sug \in Suggestions
    BY <2>2 DEF Knows, KindAt
  <2>4. suggestion'[call'[c].sug] = "approved"
    BY <2>1, <2>2, <2>3 DEF writeApproved, TypeOK
  <2>5. ASSUME NEW e \in Calls
        PROVE  c \notin call'[e].ended
    <3>1. call'[e].ended = call[e].ended
      BY <1>1, <2>1 DEF Only, Good, Proceeds
    <3>2. QED
      BY <1>2, <3>1 DEF Core, EndedEnded
  <2>6. QED
    BY <1>3, <2>4, <2>5
<1>4. CASE d # c
  <2> DEFINE g == call[d].sug
  <2>1. call'[d] = call[d] /\ Knows(call[d]) /\ Names /\ call[d] \in CallRows
    BY <1>1, <1>4, Before DEF Only
  <2>2. g \in Suggestions
    BY <2>1 DEF Knows, CallRows
  <2>3. /\ suggestion[g] = "approved"
        /\ \A e \in Calls :
              /\ call[e].kind = "approveSuggestion" /\ d \in call[e].ended
              /\ call[e].art # None \/ call[e].step = "create"
              => call[e].sug # g
    BY <1>1, <2>1 DEF ApprovalKept
  <2>4. suggestion'[g] = "approved"
    BY <1>1, <2>2, <2>3, SuggestionEffect
  <2>5. ASSUME call'[c].kind = "approveSuggestion", d \in call'[c].ended,
               call'[c].art # None \/ call'[c].step = "create"
        PROVE  call'[c].sug # g
    <3>1. CASE call[c].step = "idle"
      <4>1. Enter(c)
        BY <3>1, StepAt, FailureEffect
      <4>2. call'[c].step = "create" /\ suggestion[call'[c].sug] # "approved"
        BY <2>5, <4>1, EnterEntered DEF Entered
      <4>3. QED
        BY <2>3, <4>2
    <3>2. CASE call[c].step # "idle"
      <4>1. call[c].kind = "approveSuggestion" /\ call[c].ended = call'[c].ended
            /\ call[c].sug = call'[c].sug
        BY <2>5, <3>2 DEF Good, Proceeds
      <4>2. call[c].step = "create" \/ call[c].art # None
        BY <1>2, <3>2, <4>1, CreatorAt
      <4>3. QED
        BY <2>3, <2>5, <4>1, <4>2
    <3>3. QED
      BY <3>1, <3>2
  <2>6. ASSUME NEW e \in Calls, e # c, call'[e].kind = "approveSuggestion", d \in call'[e].ended,
               call'[e].art # None \/ call'[e].step = "create"
        PROVE  call'[e].sug # g
    BY <1>1, <2>3, <2>6 DEF Only
  <2>7. QED
    BY <2>1, <2>4, <2>5, <2>6
<1>5. QED
  BY <1>3, <1>4

LEMMA OverlappingStays ==
    ASSUME Core, NEW c \in Calls, Good(c), NEW kind, Overlapping(kind)
    PROVE  Overlapping(kind)'
<1>1. PICK d \in Begun, e \in Begun : Overlap(d, e) /\ call[d].kind = kind /\ call[e].kind = kind
  BY DEF Overlapping
<1>2. d \in Begun' /\ e \in Begun' /\ Overlap(d, e)' /\ call'[d].kind = kind /\ call'[e].kind = kind
  BY <1>1, Onwards, OverlapStays
<1>3. QED
  BY <1>2 DEF Overlapping

\* A request to learn an answer goes on to its end.
LEMMA Learning ==
    ASSUME Core, NEW c \in Calls, Step(c), Good(c), call'[c].step = "learn"
    PROVE  Enter(c) /\ suggestion' = suggestion
<1> DEFINE q == call[c]
           p == call'[c]
<1>1. TypeOK /\ Knows(q) /\ q \in CallRows /\ q.step # "done" /\ p.kind = "learnFromHumanResponse"
  BY Before, Onwards DEF Good, Knows, KindAt
<1>2. CASE q.step = "idle"
  BY <1>2, StepAt, FailureEffect, Sources
<1>3. CASE q.step # "idle"
  <2>1. q.kind = "learnFromHumanResponse"
    BY <1>1, <1>3 DEF Good, Proceeds
  <2>2. q.step \in {"learn", "notify"} /\ ~Throw(c) /\ ~Crash(c)
    BY <1>1, <1>3, <2>1, FailureEffect DEF Knows, KindAt, CallRows, Steps, Indexing
  <2>3. Goto(c, "notify") \/ End(c, "ok")
    BY <2>2, StepAt DEF createSuggestion, notify
  <2>4. p.step \in {"notify", "done"}
    BY <1>1, <2>3, GotoEffect, EndEffect DEF Goes, Ends, Steps, Outcomes
  <2>5. QED
    BY <2>4
<1>4. QED
  BY <1>2, <1>3

LEMMA OneSuggestionStep ==
    ASSUME Core, Suggested, OneSuggestion, NEW c \in Calls, Step(c), Good(c)
    PROVE  OneSuggestion'
<1> SUFFICES ASSUME ~Overlapping("learnFromHumanResponse")'
             PROVE  /\ \A g, h \in Suggestions :
                         suggestion'[g] # "none" /\ suggestion'[h] # "none" => g = h
                    /\ \A d \in Calls : call'[d].step = "learn" =>
                         \A g \in Suggestions : suggestion'[g] = "none"
  BY DEF OneSuggestion
<1>1. /\ Only(c)
      /\ \A g, h \in Suggestions : suggestion[g] # "none" /\ suggestion[h] # "none" => g = h
      /\ \A d \in Calls : call[d].step = "learn" => \A g \in Suggestions : suggestion[g] = "none"
  BY Onwards, OverlappingStays DEF OneSuggestion
<1>2. ASSUME NEW g \in Suggestions, createSuggestion(c, g)
      PROVE  /\ \A h \in Suggestions : suggestion[h] = "none"
             /\ \A d \in Calls : d # c => call[d].step # "learn"
  <2>1. call[c].step = "learn"
    BY <1>2, Guards
  <2>2. ASSUME NEW d \in Calls, d # c, call[d].step = "learn"
        PROVE  FALSE
    <3>1. call[c].kind = "learnFromHumanResponse" /\ call[d].kind = "learnFromHumanResponse"
      BY <2>1, <2>2, Before DEF Knows, KindAt
    <3>2. d \in Begun' /\ c \in Begun' /\ Overlap(c, d)'
      BY <2>2, AtOnce, Onwards
    <3>3. call'[d] = call[d] /\ call'[c].kind = call[c].kind
      BY <1>1, <2>1, <2>2 DEF Only, Good, Proceeds
    <3>4. QED
      BY <3>1, <3>2, <3>3 DEF Overlapping
  <2>3. QED
    BY <1>1, <2>1, <2>2
<1>3. ASSUME NEW g \in Suggestions, NEW h \in Suggestions,
             suggestion'[g] # "none", suggestion'[h] # "none"
      PROVE  g = h
  <2>1. suggestion[g] # "none" \/ createSuggestion(c, g)
    BY <1>3, SuggestionEffect
  <2>2. suggestion[h] # "none" \/ createSuggestion(c, h)
    BY <1>3, SuggestionEffect
  <2>3. ASSUME createSuggestion(c, g), createSuggestion(c, h), g # h
        PROVE  FALSE
    <3>1. suggestion' = [suggestion EXCEPT ![g] = "pending"] /\ suggestion[h] = "none"
      BY <2>3 DEF createSuggestion
    <3>2. suggestion'[h] = "none"
      BY <2>3, <3>1, Before DEF TypeOK
    <3>3. QED
      BY <1>3, <3>2
  <2>4. QED
    BY <1>1, <1>2, <2>1, <2>2, <2>3
<1>4. ASSUME NEW d \in Calls, call'[d].step = "learn", NEW g \in Suggestions
      PROVE  suggestion'[g] = "none"
  <2>1. CASE d = c
    <3>1. Enter(c) /\ suggestion' = suggestion
      BY <1>4, <2>1, Learning
    <3>2. QED
      BY <1>4, <2>1, <3>1, EnterEntered DEF Entered
  <2>2. CASE d # c
    <3>1. call[d].step = "learn"
      BY <1>1, <1>4, <2>2 DEF Only
    <3>2. suggestion[g] = "none" /\ ~createSuggestion(c, g)
      BY <1>1, <1>2, <2>2, <3>1
    <3>3. QED
      BY <3>2, SuggestionEffect
  <2>3. QED
    BY <2>1, <2>2
<1>5. QED
  BY <1>3, <1>4

-----------------------------------------------------------------------------
(* The inductive invariant *)

LEMMA SuggestionInit == Init => SuggestionInv
<1> SUFFICES ASSUME Init PROVE SuggestionInv
  OBVIOUS
<1>1. /\ \A c \in Calls : call[c] = NewCall
      /\ \A a \in Articles : source[a] = None
      /\ NewCall.kind = None /\ NewCall.art = None /\ NewCall.sug = None /\ NewCall.step = "idle"
      /\ None \notin Entries /\ "none" # "approved" /\ "pending" # "approved"
  BY NoneIsNoName DEF Init, NewCall, Names
<1>2. \A c \in Calls : call[c].kind \notin {"create", "approveSuggestion"}
  BY <1>1 DEF Entries
<1>3. PICK g \in Suggestions, status \in {"none", "pending"} :
        suggestion = [h \in Suggestions |-> IF h = g THEN status ELSE "none"]
  BY DEF Init
<1>4. \A h \in Suggestions : suggestion[h] # "approved" /\ (suggestion[h] # "none" => h = g)
  BY <1>3
<1>5. CreatedOnce /\ (\A c \in Calls : Approving(c)) /\ ApprovalKept /\ Suggested
  BY <1>1, <1>2 DEF CreatedOnce, Approving, ApprovalKept, Suggested
<1>6. MadeByApproval /\ OneSuggestion
  BY <1>1, <1>4 DEF MadeByApproval, OneSuggestion
<1>7. QED
  BY <1>5, <1>6 DEF SuggestionInv

LEMMA SuggestionStep ==
    ASSUME Core, SuggestionInv, NEW c \in Calls, Step(c), Good(c)
    PROVE  SuggestionInv'
<1>1. CreatedOnce' /\ Suggested' /\ MadeByApproval' /\ ApprovalKept' /\ OneSuggestion'
  BY CreatedOnceStep, SuggestedStep, MadeByApprovalStep, ApprovalKeptStep, OneSuggestionStep
     DEF SuggestionInv
<1>2. ASSUME NEW d \in Calls
      PROVE  Approving(d)'
  <2>1. Approving(d)
    BY DEF SuggestionInv
  <2>2. CASE d = c
    BY <2>1, <2>2, ApprovingOwn
  <2>3. CASE d # c
    BY <1>1, <2>1, <2>3, ApprovingOther
  <2>4. QED
    BY <2>2, <2>3
<1>3. QED
  BY <1>1, <1>2 DEF SuggestionInv

\* Whoever calls in which order, and whatever fails: the calls know what their steps
\* need, the only call at work on an article knows how far its row and its chunks are
\* apart, and the approvals know what they have published.
THEOREM Invariant == Spec => []IInv
<1>1. Init => IInv
  BY CoreInit, IndexInit, SuggestionInit DEF IInv
<1>2. IInv /\ [Next]_vars => IInv'
  <2> SUFFICES ASSUME IInv, [Next]_vars
               PROVE  IInv'
    OBVIOUS
  <2>1. CASE UNCHANGED vars
    <3>1. /\ article' = article /\ chunks' = chunks /\ suggestion' = suggestion
          /\ source' = source /\ call' = call /\ unrestored' = unrestored
          /\ failures' = failures
      BY <2>1 DEF vars
    <3>2. Core'
      BY <3>1 DEF IInv, Core, TypeOK, Named, EndedEnded, Ended
    <3>3. IndexInv'
      <4>1. /\ \A a \in Articles : (Contended(a)' <=> Contended(a)) /\ (Safe(a)' <=> Safe(a))
            /\ \A a \in Articles, c \in Calls : Working(c, a)' <=> Working(c, a)
        BY <3>1 DEF Contended, Begun, Overlap, About, Safe, Indexed, Reported, Working
      <4>2. \A a \in Articles, c \in Calls : Covered(c, a) => Covered(c, a)'
        BY <3>1, <4>1 DEF Covered, HoldsOn, Unsettled, Exists, Indexed
      <4>3. QED
        BY <4>1, <4>2 DEF IInv, IndexInv
    <3>4. SuggestionInv'
      <4>1. CreatedOnce' /\ MadeByApproval' /\ Suggested'
        BY <3>1 DEF IInv, SuggestionInv, CreatedOnce, MadeByApproval, Suggested
      <4>2. Begun' = Begun /\ Rejections' = Rejections
        BY <3>1 DEF Begun, Rejections
      <4>3. \A a \in Articles : OnlyApproved(a)' <=> OnlyApproved(a)
        BY <3>1, <4>2 DEF OnlyApproved, About
      <4>4. ASSUME NEW c \in Calls
            PROVE  Approving(c)'
        <5>1. Approving(c)
          BY DEF IInv, SuggestionInv
        <5>2. CASE call[c].art \in Articles
          <6>1. /\ call'[c] = call[c] /\ source' = source /\ article' = article /\ chunks' = chunks
                /\ OnlyApproved(call[c].art)' => OnlyApproved(call[c].art)
            BY <3>1, <4>3, <5>2
          <6>2. /\ Exists(call[c].art)' <=> Exists(call[c].art)
                /\ Served(call[c].art)' <=> Served(call[c].art)
            BY <3>1 DEF Exists, Served
          <6>3. QED
            BY <5>1, <6>1, <6>2 DEF Approving
        <5>3. CASE call[c].art = None
          BY <3>1, <5>3 DEF Approving
        <5>4. call[c].art \in Articles \cup {None}
          BY DEF IInv, Core, TypeOK, CallRows
        <5>5. QED
          BY <5>2, <5>3, <5>4
      <4>5. ApprovalKept'
        BY <3>1, <4>2 DEF IInv, SuggestionInv, ApprovalKept
      <4>6. Overlapping("learnFromHumanResponse")' <=> Overlapping("learnFromHumanResponse")
        BY <3>1, <4>2 DEF Overlapping, Overlap
      <4>7. OneSuggestion'
        BY <3>1, <4>6 DEF IInv, SuggestionInv, OneSuggestion
      <4>8. QED
        BY <4>1, <4>4, <4>5, <4>7 DEF SuggestionInv
    <3>5. QED
      BY <3>2, <3>3, <3>4 DEF IInv
  <2>2. CASE Rest
    BY <2>1, <2>2 DEF Rest
  <2>3. ASSUME NEW c \in Calls, Step(c)
        PROVE  IInv'
    <3>1. Core' /\ Good(c)
      BY <2>3, CoreStep DEF IInv
    <3>2. Covers(c)
      BY <2>3, <3>1, StepCovers DEF IInv
    <3>3. IndexInv'
      BY <3>1, <3>2, IndexStep DEF IInv
    <3>4. SuggestionInv'
      BY <2>3, <3>1, SuggestionStep DEF IInv
    <3>5. QED
      BY <3>1, <3>3, <3>4 DEF IInv
  <2>4. QED
    BY <2>1, <2>2, <2>3 DEF Next, Step
<1>3. QED
  BY <1>1, <1>2, PTL DEF Spec

\* The rows, the chunks and the calls have their types.
THEOREM TypeCorrect == Spec => []TypeOK
<1>1. IInv => TypeOK
  BY DEF IInv, Core
<1>2. QED
  BY <1>1, Invariant, PTL

\* A published article at rest is found by its present text, although indexing reads the
\* row, embeds the text outside the database and replaces the chunks in three steps that
\* nothing locks: whatever order the calls took their steps in, and wherever one failed,
\* only calls that overlapped on the article, a compensation cut short, or a rebuild that
\* has reported the article may leave its chunks behind.
THEOREM IndexIsCurrent == Spec => []IndexFollowsBody
<1>1. IInv => IndexFollowsBody
  <2> SUFFICES ASSUME IInv, NEW a \in Articles, article[a].status = "published",
                      ~AtWork(a), ~Contended(a)
               PROVE  \/ a \in unrestored
                      \/ article[a].body \in Blank /\ chunks[a] = None
                      \/ chunks[a] = article[a].body
                      \/ chunks[a] = None /\ a \in Reported
    BY DEF IndexFollowsBody
  <2>1. \A c \in Calls : ~Working(c, a)
    BY DEF AtWork, Working, Begun, Ended
  <2>2. Safe(a)
    BY <2>1 DEF IInv, IndexInv
  <2>3. QED
    BY <2>2 DEF Safe, Indexed
<1>2. QED
  BY <1>1, Invariant, PTL

\* A creation or an update that answers an error has undone what it wrote: the article is
\* gone, or has its old row back and, if that was published, the chunks of its old text,
\* unless other calls were about it or the compensation itself was cut short.
THEOREM FailureLeavesNoTrace == Spec => ErrorLeavesNoTrace
<1> DEFINE Undone(c) ==
             LET a == call[c].art
                 old == call[c].seen
             IN /\ call[c].step # "done" /\ call'[c].step = "done" /\ call'[c].result = "error"
                /\ a # None /\ ~Contended(a) /\ a \notin unrestored'
                => /\ call[c].kind = "create" => article'[a].status = "deleted" /\ chunks'[a] = None
                   /\ call[c].kind = "update" =>
                        /\ article'[a] = old
                        /\ old.status = "published" /\ old.body \notin Blank
                             => chunks'[a] = old.body
<1>1. IInv /\ [Next]_vars => [\A c \in Calls : Undone(c)]_vars
  <2> SUFFICES ASSUME IInv, Next, NEW c \in Calls, NEW a, a = call[c].art,
                      call[c].step # "done", call'[c].step = "done", call'[c].result = "error",
                      a # None, ~Contended(a), a \notin unrestored',
                      call[c].kind \in {"create", "update"}
               PROVE  /\ call[c].kind = "create" =>
                           article'[a].status = "deleted" /\ chunks'[a] = None
                      /\ call[c].kind = "update" =>
                           /\ article'[a] = call[c].seen
                           /\ call[c].seen.status = "published" /\ call[c].seen.body \notin Blank
                                => chunks'[a] = call[c].seen.body
    OBVIOUS
  <2>1. Core /\ Knows(call[c]) /\ call[c] \in CallRows /\ Names
    BY Before DEF IInv
  <2>2. PICK d \in Calls : Step(d)
    BY DEF Next, Step, Rest, vars
  <2>3. Good(d) /\ Covers(d) /\ Only(d)
    BY <2>1, <2>2, CoreStep, StepCovers, Onwards
  <2>4. d = c
    BY <2>3 DEF Only
  <2>5. a \in Articles /\ call[c].step # "idle"
    BY <2>1 DEF CallRows, Knows, NewCall
  <2>6. Working(c, a) /\ c \in Begun /\ a \in About(c)
    BY <2>5 DEF Working, About, Begun
  <2>7. Covered(c, a)
    BY <2>5, <2>6 DEF IInv, IndexInv
  <2>8. a \in About(c)'
    BY <2>1, <2>3, <2>4, <2>5, <2>6, Onwards
  <2>9. After(c, a)
    BY <2>3, <2>4, <2>5, <2>6, <2>7, <2>8 DEF Covers
  <2>10. NoTrace(c, a)
    BY <2>9 DEF After
  <2>11. QED
    BY <2>10 DEF NoTrace
<1>2. QED
  BY <1>1, Invariant, PTL DEF Spec, ErrorLeavesNoTrace

\* A suggestion that is marked approved has an article made from it, and customers are
\* answered from that article as long as nothing but approvals has touched it: the mark is
\* the last of the six writes of an approval, and no failure before it can set it.
THEOREM ApprovalIsServed == Spec => []ApprovedIsServed
<1>1. IInv => ApprovedIsServed
  <2> SUFFICES ASSUME IInv, NEW g \in Suggestions, suggestion[g] = "approved"
               PROVE  \E a \in Articles :
                        /\ source[a] = g
                        /\ (\A c \in Begun : a \in About(c) => call[c].kind = "approveSuggestion")
                             => Served(a)
    BY DEF ApprovedIsServed
  <2>1. PICK c \in Calls : call[c].kind = "approveSuggestion" /\ call[c].sug = g
                             /\ call[c].result = "ok"
    BY DEF IInv, SuggestionInv, MadeByApproval
  <2>2. call[c].art # None /\ call[c].art \in Articles
    BY <2>1, Before DEF IInv, Knows, CallRows
  <2>3. source[call[c].art] = g /\ (OnlyApproved(call[c].art) => Served(call[c].art))
    BY <2>1, <2>2 DEF IInv, SuggestionInv, Approving
  <2>4. QED
    BY <2>2, <2>3 DEF OnlyApproved
<1>2. QED
  BY <1>1, Invariant, PTL

\* One human answer becomes one published article, however often it is learnt and
\* approved, unless two approvals or two requests to learn it overlapped, an approval
\* failed or was cut short, or a suggestion was rejected.
THEOREM OneAnswerOneArticle == Spec => []OneArticlePerAnswer
<1>1. IInv => OneArticlePerAnswer
  <2> DEFINE published == {a \in Articles : source[a] # None /\ article[a].status = "published"}
  <2> SUFFICES ASSUME IInv, Cardinality(published) > 1,
                      ~Overlapping("approveSuggestion"), ~Overlapping("learnFromHumanResponse"),
                      ~Rejections,
                      ~\E c \in Begun : /\ call[c].kind = "approveSuggestion"
                                        /\ call[c].result \in {"error", "crashed"}
               PROVE  FALSE
    BY DEF OneArticlePerAnswer, Overlapping, Rejections
  <2>1. PICK a \in published, b \in published : a # b
    <3> HIDE DEF published
    <3>1. published # {}
      BY FS_EmptySet
    <3>2. PICK a \in published : TRUE
      BY <3>1
    <3>3. published # {a}
      BY FS_Singleton
    <3>4. QED
      BY <3>2, <3>3
  <2>2. PICK c \in Calls : call[c].kind = "approveSuggestion" /\ call[c].art = a
    BY <2>1 DEF IInv, SuggestionInv, MadeByApproval
  <2>3. PICK d \in Calls : call[d].kind = "approveSuggestion" /\ call[d].art = b
    BY <2>1 DEF IInv, SuggestionInv, MadeByApproval
  <2>4. a # None /\ b # None /\ Names
    BY <2>1, NoneIsNoName DEF Names
  <2>5. ASSUME NEW e \in Calls, NEW f \in Calls, e \in call[f].ended,
               call[e].kind = "approveSuggestion", call[e].art # None,
               call[f].kind = "approveSuggestion", call[f].art # None
        PROVE  FALSE
    <3>1. call[e].step = "done" /\ Knows(call[e]) /\ Knows(call[f])
          /\ call[e] \in CallRows /\ call[f] \in CallRows
      BY <2>5, Before DEF IInv, Core, EndedEnded, Ended
    <3>2. e \in Begun
      BY <3>1 DEF Begun
    <3>3. call[e].result = "ok"
      BY <2>5, <3>1, <3>2 DEF Knows, CallRows, Results, Outcomes
    <3>4. call[e].sug \in Suggestions /\ call[f].sug \in Suggestions
      BY <2>5, <3>1 DEF Knows, CallRows
    <3>5. suggestion[call[e].sug] # "none" /\ suggestion[call[f].sug] # "none"
      BY <2>4, <3>4 DEF IInv, SuggestionInv, Suggested, Names
    <3>6. call[e].sug = call[f].sug
      BY <3>4, <3>5 DEF IInv, SuggestionInv, OneSuggestion
    <3>7. call[f].sug # call[e].sug
      BY <2>5, <3>3 DEF IInv, SuggestionInv, ApprovalKept
    <3>8. QED
      BY <3>6, <3>7
  <2>6. c \in Begun /\ d \in Begun
    BY <2>2, <2>3, <2>4, Before DEF IInv, Begun, Knows, NewCall
  <2>7. c # d /\ ~Overlap(c, d)
    BY <2>1, <2>2, <2>3, <2>6 DEF Overlapping
  <2>8. c \in call[d].ended \/ d \in call[c].ended
    BY <2>7 DEF Overlap
  <2>9. QED
    BY <2>2, <2>3, <2>4, <2>5, <2>8
<1>2. QED
  BY <1>1, Invariant, PTL
=============================================================================
