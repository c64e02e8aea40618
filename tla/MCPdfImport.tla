----------------------------- MODULE MCPdfImport -----------------------------
(* TLC instances of PdfImport: small sets of drafts, calls and reviewers.     *)
EXTENDS PdfImport, TLC

CONSTANTS d1, d2, r1, r2, r3, a1, a2

\* Drafts, calls and reviewers are interchangeable, and the runs that use this
\* symmetry check no liveness.
Symmetry ==
    Permutations(Drafts) \cup Permutations(Reviews) \cup Permutations(Actors)
=============================================================================
