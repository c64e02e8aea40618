-------------------------- MODULE MCInboundPipeline --------------------------
(* TLC instances of InboundPipeline: a few deliveries of one or two messages. *)
EXTENDS InboundPipeline, TLC

CONSTANTS c1, c2, c3, p1, p2, d1, d2, d3, m1, m2, a1

\* Two messages of one contact, and the older one may arrive last.
OneSender == [m \in {m1, m2} |-> p1]
InOrder == (m1 :> 1) @@ (m2 :> 2)
TwoSenders == (m1 :> p1) @@ (m2 :> p2)

\* Deliveries and conversation identifiers are interchangeable, and the runs
\* that use this symmetry check no liveness.
Symmetry == Permutations(Deliveries) \cup Permutations(ConvIds)
=============================================================================
