--------------------------- MODULE AutomaticReplies ---------------------------
(***************************************************************************)
(* What the sender promises about automatic replies and human takeovers,   *)
(* without a word about how it works: a reply is authorised at a moment    *)
(* when no human holds the conversation, and only an authorised reply is   *)
(* delivered, once.  A takeover after the authorisation does not recall it. *)
(***************************************************************************)
CONSTANT Replies  \* the automatic replies to one conversation

VARIABLES
    held,        \* a human holds the conversation
    authorised,  \* the replies that may be delivered
    delivered    \* the replies that the customer has received

vars == <<held, authorised, delivered>>

Init ==
    /\ held \in BOOLEAN
    /\ authorised = {}
    /\ delivered = {}

Authorise(r) ==
    /\ ~held
    /\ r \notin authorised
    /\ authorised' = authorised \cup {r}
    /\ UNCHANGED <<held, delivered>>

\* The reply is given up: skipped, refused or lost.
Withdraw(r) ==
    /\ r \in authorised \ delivered
    /\ authorised' = authorised \ {r}
    /\ UNCHANGED <<held, delivered>>

Deliver(r) ==
    /\ r \in authorised \ delivered
    /\ delivered' = delivered \cup {r}
    /\ UNCHANGED <<held, authorised>>

\* A takeover, or the end of one.
Takeover ==
    /\ held' = ~held
    /\ UNCHANGED <<authorised, delivered>>

Next ==
    \/ Takeover
    \/ \E r \in Replies : Authorise(r) \/ Withdraw(r) \/ Deliver(r)

Spec == Init /\ [][Next]_vars
=============================================================================
