------------------------------ MODULE ContactTags ------------------------------
(***************************************************************************)
(* The tags of a contact (contacts.tags, a list in one column) and those of *)
(* its conversations (conversation_tags, one row each).                    *)
(*                                                                         *)
(* Three calls read the list, merge it in memory and write it back whole:  *)
(* prepareCustomerRequest of the assistant (workflow-ai.service.ts),       *)
(* prepareOrderIntentForWorkflow (conversations.service.ts) and the update *)
(* of a contact by an agent (contacts.repository.ts).  Nothing locks the   *)
(* row.  The assistant reads it through stringArray, which cuts it off.    *)
(*                                                                         *)
(* A list stands for its distinct strings that are not blank, in order:    *)
(* what stringArray makes of the column before it counts.  The labels that *)
(* agents give to a conversation are not tags of an order; when they       *)
(* remove one, or a conversation, there is one tag less to keep.           *)
(***************************************************************************)
EXTENDS Integers, Sequences, Functions

CONSTANTS
    Calls,       \* calls that may be at work at once; each slot is used again and again
    OrderKinds,  \* the kinds of order that have a tag of their own
    OtherTags,   \* the tags that agents invent
    Lists,       \* bound: the lists that agents write
    TagLimit,    \* how many tags stringArray returns (12)
    None         \* an order of another kind

Tags == {"client"} \cup OrderKinds \cup OtherTags

ASSUME ContactTagsAssumption ==
    /\ Lists \subseteq Seq(Tags)
    /\ TagLimit \in Nat
    /\ None \notin OrderKinds

VARIABLES
    tags,        \* the contact's list
    convTags,    \* the tags that orders gave to the conversations of the contact
    call,        \* what each call has read, and its next step
    takenAway,   \* history: tags of the conversations that an agent's list has left out since
    overwritten  \* history: a call has built on a list that another had replaced

vars == <<tags, convTags, call, takenAway, overwritten>>

Kinds == {"reply", "intent", "update"}
Idle == [kind |-> None, seen |-> <<>>]

TypeOK ==
    /\ tags \in Seq(Tags)
    /\ convTags \subseteq Tags /\ takenAway \subseteq Tags
    /\ call \in [Calls -> [kind : Kinds \cup {None}, seen : Seq(Tags)]]
    /\ overwritten \in BOOLEAN

\* A contact comes from a message without tags, or from an agent with some.
Init ==
    /\ tags \in Lists \cup {<<>>}
    /\ convTags = {} /\ takenAway = {}
    /\ call = [c \in Calls |-> Idle]
    /\ overwritten = FALSE

-----------------------------------------------------------------------------
(* The lists that are written *)

\* Mutant: the limit is one too low.
stringArray_OffByOne(list) ==
    IF Len(list) < TagLimit THEN list ELSE SubSeq(list, 1, TagLimit - 1)

\* The assistant's reading of the list.
stringArray(list) == IF Len(list) <= TagLimit THEN list ELSE SubSeq(list, 1, TagLimit)

requestTagsForAction(action) == {"client"} \cup ({action} \cap OrderKinds)

\* Array.from(new Set([...list, tag])).
With(list, tag) == IF tag \in Range(list) THEN list ELSE Append(list, tag)

Merged(list, action) ==
    IF action \in OrderKinds THEN With(With(list, "client"), action) ELSE With(list, "client")

-----------------------------------------------------------------------------
(* The calls *)

\* The contact is found and its tags are read.
ReadContact(c, kind) ==
    /\ call[c] = Idle
    /\ call' = [call EXCEPT ![c] = [kind |-> kind, seen |-> tags]]
    /\ UNCHANGED <<tags, convTags, takenAway, overwritten>>

\* The list is written and the call ends.
Write(c, list) == tags' = list /\ call' = [call EXCEPT ![c] = Idle]

\* A list made of the one that was read.
WriteBack(c, list) ==
    /\ Write(c, list)
    /\ overwritten' = (overwritten \/ call[c].seen # tags)

\* The transaction of an order: the contact's list and the rows of the conversation.
SaveOrderTags(c, list, action) ==
    /\ WriteBack(c, Merged(list, action))
    /\ convTags' = convTags \cup requestTagsForAction(action)
    /\ takenAway' = takenAway \ requestTagsForAction(action)

prepareCustomerRequest(c, action) ==
    /\ call[c].kind = "reply"
    /\ SaveOrderTags(c, stringArray(call[c].seen), action)

prepareOrderIntentForWorkflow(c, action) ==
    /\ call[c].kind = "intent"
    /\ SaveOrderTags(c, call[c].seen, action)

\* An agent's update with a list of tags; an upsert without one writes the empty list.
UpdateTags(c, list) ==
    /\ call[c].kind = "update"
    /\ Write(c, list)
    /\ takenAway' = convTags \ Range(list)
    /\ UNCHANGED <<convTags, overwritten>>

\* An agent's update of something else writes back the tags of the row that it has read.
UpdateOther(c) ==
    /\ call[c].kind = "update"
    /\ WriteBack(c, call[c].seen)
    /\ UNCHANGED <<convTags, takenAway>>

\* The write fails, or the process stops: nothing is written.
Fail(c) ==
    /\ call[c] # Idle
    /\ call' = [call EXCEPT ![c] = Idle]
    /\ UNCHANGED <<tags, convTags, takenAway, overwritten>>

-----------------------------------------------------------------------------

Step(c) ==
    \/ \E kind \in Kinds : ReadContact(c, kind)
    \/ \E action \in OrderKinds \cup {None} :
         prepareCustomerRequest(c, action) \/ prepareOrderIntentForWorkflow(c, action)
    \/ \E list \in Lists \cup {<<>>} : UpdateTags(c, list)
    \/ UpdateOther(c) \/ Fail(c)

Next == \E c \in Calls : Step(c)

Spec == Init /\ [][Next]_vars

-----------------------------------------------------------------------------
(* Properties *)

\* A tag that an order gave to a conversation stays on its contact, however many orders
\* and updates follow, but for three things: an agent's list has left it out, a call wrote
\* a list that it had read before another wrote, or the contact has reached the number of
\* tags at which the assistant cuts the list off.
TagsKept ==
    \/ convTags \subseteq Range(tags) \cup takenAway
    \/ overwritten
    \/ Len(tags) >= TagLimit
=============================================================================
