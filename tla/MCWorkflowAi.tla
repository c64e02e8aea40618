----------------------------- MODULE MCWorkflowAi -----------------------------
(* Instances of WorkflowAi for TLC. *)
EXTENDS WorkflowAi

CONSTANTS r1, r2, k1, x1, room

\* Any first message, and a second one about business.
AnyThenBusiness == [r \in Requests |-> IF r = r1 THEN Kinds ELSE {"business"}]
=============================================================================
