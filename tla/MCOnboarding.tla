---------------------------- MODULE MCOnboarding ----------------------------
(* TLC instance of Onboarding: a few calls, two companies, two addresses. *)
EXTENDS Onboarding, TLC

CONSTANTS c1, c2, c3, u1, u2, u3, k1, k2, k3, e1, e2, n1, n2

\* What the instances are made of is interchangeable; no run checks liveness.
Symmetry == Permutations(Calls) \cup Permutations(Accounts) \cup Permutations(Companies)
            \cup Permutations(Emails) \cup Permutations(Names)
=============================================================================
