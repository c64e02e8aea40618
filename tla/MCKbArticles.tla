---------------------------- MODULE MCKbArticles ----------------------------
(* TLC instances of KbArticles: a few calls on a small knowledge base. *)
EXTENDS KbArticles, TLC

CONSTANTS k1, k2, v1, v2, blank, g1, g2, c1, c2, c3

\* Any call may be for anything.
AnyKind == [c \in {c1, c2} |-> Entries]

\* Two approvals, and what may happen between them.
SuggestionKinds ==
    c1 :> {"approveSuggestion"}
    @@ c2 :> {"approveSuggestion", "rebuild", "unpublish"}
    @@ c3 :> {"learnFromHumanResponse", "rejectSuggestion", "rebuild"}

\* The identifiers of articles and of calls are interchangeable, and so are the two
\* texts; no run that uses this symmetry checks liveness.
Symmetry == Permutations(Articles) \cup Permutations(Calls) \cup Permutations(Versions \ Blank)
=============================================================================
