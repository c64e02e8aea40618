----------------------------- MODULE MCContactTags -----------------------------
(* Instances of ContactTags for TLC. *)
EXTENDS ContactTags, TLC

CONSTANTS c1, c2, vip, late

\* A contact's list is short, at the limit or, once an order is added, beyond it.
AgentLists == {<<vip>>, <<vip, late>>, <<vip, "client">>}

Symmetry == Permutations(Calls)
=============================================================================
