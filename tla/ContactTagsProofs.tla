--------------------------- MODULE ContactTagsProofs ---------------------------
(***************************************************************************)
(* What holds of the tags of a contact for any number of calls at once, any *)
(* lists of the agents and any limit of the assistant's reading.           *)
(***************************************************************************)
EXTENDS ContactTags, TLAPS

IInv == TypeOK /\ TagsKept

-----------------------------------------------------------------------------
(* The lists that are written *)

LEMMA RangeOfList ==
    ASSUME NEW list \in Seq(Tags)
    PROVE  Range(list) = {list[i] : i \in 1 .. Len(list)}
BY DEF Range

\* A tag is added behind the others, and only once.
LEMMA WithKeeps ==
    ASSUME NEW list \in Seq(Tags), NEW tag \in Tags
    PROVE  /\ With(list, tag) \in Seq(Tags)
           /\ Range(list) \cup {tag} \subseteq Range(With(list, tag))
           /\ Len(list) <= Len(With(list, tag))
<1>1. CASE tag \in Range(list)
  BY <1>1 DEF With
<1>2. CASE tag \notin Range(list)
  <2> DEFINE new == Append(list, tag)
  <2>1. With(list, tag) = new
    BY <1>2 DEF With
  <2>2. /\ new \in Seq(Tags) /\ Len(new) = Len(list) + 1 /\ Len(list) \in Nat
        /\ new[Len(list) + 1] = tag /\ \A i \in 1 .. Len(list) : new[i] = list[i]
    OBVIOUS
  <2> HIDE DEF new
  <2>3. Range(list) \subseteq Range(new)
    <3>1. \A i \in 1 .. Len(list) : list[i] \in {new[j] : j \in 1 .. Len(new)}
      BY <2>2
    <3>2. QED
      BY <2>2, <3>1, RangeOfList
  <2>4. tag \in Range(new)
    <3>1. Len(new) \in 1 .. Len(new) /\ new[Len(new)] = tag
      BY <2>2
    <3>2. QED
      BY <2>2, <3>1, RangeOfList
  <2>5. QED
    BY <2>1, <2>2, <2>3, <2>4
<1>3. QED
  BY <1>1, <1>2

LEMMA RequestTagsTyped == \A action : requestTagsForAction(action) \subseteq Tags
BY DEF requestTagsForAction, Tags

LEMMA MergedKeeps ==
    ASSUME NEW list \in Seq(Tags), NEW action
    PROVE  /\ Merged(list, action) \in Seq(Tags)
           /\ Range(list) \cup requestTagsForAction(action) \subseteq Range(Merged(list, action))
           /\ Len(list) <= Len(Merged(list, action))
<1> DEFINE first == With(list, "client")
<1>1. "client" \in Tags
  BY DEF Tags
<1>2. /\ first \in Seq(Tags) /\ Len(list) <= Len(first)
      /\ Range(list) \cup {"client"} \subseteq Range(first)
  BY <1>1, WithKeeps
<1> HIDE DEF first
<1>3. CASE action \in OrderKinds
  <2>1. Merged(list, action) = With(first, action)
    BY <1>3 DEF Merged, first
  <2>2. requestTagsForAction(action) = {"client", action}
    BY <1>3 DEF requestTagsForAction
  <2>3. action \in Tags
    BY <1>3 DEF Tags
  <2> DEFINE second == With(first, action)
  <2>4. /\ second \in Seq(Tags) /\ Len(first) <= Len(second)
        /\ Range(first) \cup {action} \subseteq Range(second)
    BY <1>2, <2>3, WithKeeps
  <2> HIDE DEF second
  <2>5. Len(list) <= Len(second)
    BY <1>2, <2>4
  <2>6. Range(list) \cup {"client", action} \subseteq Range(second)
    BY <1>2, <2>4
  <2>7. QED
    BY <2>1, <2>2, <2>4, <2>5, <2>6 DEF second
<1>4. CASE action \notin OrderKinds
  <2>1. Merged(list, action) = first /\ requestTagsForAction(action) = {"client"}
    BY <1>4 DEF Merged, requestTagsForAction, first
  <2>2. QED
    BY <1>2, <2>1
<1>5. QED
  BY <1>3, <1>4

\* The assistant reads the whole list, or as many tags as it ever reads.
LEMMA ReadOrCut ==
    ASSUME NEW list \in Seq(Tags)
    PROVE  /\ stringArray(list) \in Seq(Tags)
           /\ \/ stringArray(list) = list
              \/ Len(stringArray(list)) = TagLimit
<1>1. Len(list) \in Nat /\ TagLimit \in Nat
  BY ContactTagsAssumption
<1>2. CASE Len(list) <= TagLimit
  BY <1>2 DEF stringArray
<1>3. CASE TagLimit < Len(list)
  <2> DEFINE cut == SubSeq(list, 1, TagLimit)
  <2>1. stringArray(list) = cut
    BY <1>1, <1>3 DEF stringArray
  <2>2. \A i \in 1 .. TagLimit : list[i] \in Tags
    BY <1>1, <1>3
  <2>3. cut \in Seq(Tags) /\ Len(cut) = TagLimit
    BY <1>1, <1>3, <2>2
  <2>4. QED
    BY <2>1, <2>3
<1>4. QED
  BY <1>1, <1>2, <1>3

-----------------------------------------------------------------------------
(* The calls *)

LEMMA EmptyTyped == <<>> \in Seq(Tags)
OBVIOUS

LEMMA IdleTyped == Idle \in [kind : Kinds \cup {None}, seen : Seq(Tags)]
<1>1. ASSUME NEW none \in Seq(Tags)
      PROVE  [kind |-> None, seen |-> none] \in [kind : Kinds \cup {None}, seen : Seq(Tags)]
  OBVIOUS
<1>2. QED
  BY <1>1, EmptyTyped, Zenon DEF Idle

LEMMA SeenTyped ==
    ASSUME TypeOK, NEW c \in Calls
    PROVE  call[c].seen \in Seq(Tags)
BY DEF TypeOK

LEMMA WrittenTyped ==
    ASSUME TypeOK, NEW c \in Calls, NEW list \in Seq(Tags), Write(c, list)
    PROVE  /\ tags' = list /\ tags' \in Seq(Tags)
           /\ call' \in [Calls -> [kind : Kinds \cup {None}, seen : Seq(Tags)]]
BY IdleTyped DEF TypeOK, Write

\* An order loses no tag of a conversation, unless its call had read an older list, or
\* leaves the contact at the limit.
LEMMA SaveStep ==
    ASSUME IInv, NEW c \in Calls, NEW list \in Seq(Tags), NEW action,
           list = call[c].seen \/ Len(list) = TagLimit,
           SaveOrderTags(c, list, action)
    PROVE  IInv'
<1> DEFINE new == Merged(list, action)
           added == requestTagsForAction(action)
<1>1. new \in Seq(Tags) /\ Range(list) \cup added \subseteq Range(new) /\ Len(list) <= Len(new)
  BY MergedKeeps
<1>2. Write(c, new) /\ overwritten' = (overwritten \/ call[c].seen # tags)
  BY DEF SaveOrderTags, WriteBack
<1>3. convTags' = convTags \cup added /\ takenAway' = takenAway \ added
  BY DEF SaveOrderTags
<1>4. added \subseteq Tags
  BY RequestTagsTyped
<1> HIDE DEF new, added
<1>5. /\ tags' = new /\ tags' \in Seq(Tags)
      /\ call' \in [Calls -> [kind : Kinds \cup {None}, seen : Seq(Tags)]]
  BY <1>1, <1>2, WrittenTyped DEF IInv
<1>6. TypeOK'
  BY <1>2, <1>3, <1>4, <1>5 DEF IInv, TypeOK
<1>7. TagsKept'
  <2>1. CASE Len(list) = TagLimit
    <3>1. Len(new) >= TagLimit
      BY <1>1, <2>1, ContactTagsAssumption
    <3>2. QED
      BY <1>5, <3>1 DEF TagsKept
  <2>2. CASE overwritten \/ call[c].seen # tags
    BY <1>2, <2>2 DEF TagsKept
  <2>3. CASE list = tags /\ Len(tags) >= TagLimit
    <3>1. Len(new) >= TagLimit
      BY <1>1, <2>3, ContactTagsAssumption
    <3>2. QED
      BY <1>5, <3>1 DEF TagsKept
  <2>4. CASE list = tags /\ convTags \subseteq Range(tags) \cup takenAway
    <3>1. convTags' \subseteq Range(new) \cup takenAway'
      BY <1>1, <1>3, <2>4
    <3>2. QED
      BY <1>5, <3>1 DEF TagsKept
  <2>5. QED
    BY <2>1, <2>2, <2>3, <2>4 DEF IInv, TagsKept
<1>8. QED
  BY <1>6, <1>7 DEF IInv

LEMMA ReplyStep ==
    ASSUME IInv, NEW c \in Calls, NEW action, prepareCustomerRequest(c, action)
    PROVE  IInv'
<1>1. call[c].seen \in Seq(Tags)
  BY SeenTyped DEF IInv
<1> DEFINE list == stringArray(call[c].seen)
<1>2. list \in Seq(Tags) /\ (list = call[c].seen \/ Len(list) = TagLimit)
  BY <1>1, ReadOrCut
<1>3. SaveOrderTags(c, list, action)
  BY DEF prepareCustomerRequest
<1> HIDE DEF list
<1>4. QED
  BY <1>2, <1>3, SaveStep

LEMMA IntentStep ==
    ASSUME IInv, NEW c \in Calls, NEW action, prepareOrderIntentForWorkflow(c, action)
    PROVE  IInv'
<1>1. call[c].seen \in Seq(Tags)
  BY SeenTyped DEF IInv
<1>2. QED
  BY <1>1, SaveStep DEF prepareOrderIntentForWorkflow

\* What an agent's list leaves out is remembered as taken away.
LEMMA UpdateTagsStep ==
    ASSUME IInv, NEW c \in Calls, NEW list \in Lists \cup {<<>>}, UpdateTags(c, list)
    PROVE  IInv'
<1>1. list \in Seq(Tags)
  BY ContactTagsAssumption, EmptyTyped, Zenon
<1>2. /\ Write(c, list) /\ takenAway' = convTags \ Range(list)
      /\ convTags' = convTags /\ overwritten' = overwritten
  BY DEF UpdateTags
<1>3. /\ tags' = list /\ tags' \in Seq(Tags)
      /\ call' \in [Calls -> [kind : Kinds \cup {None}, seen : Seq(Tags)]]
  BY <1>1, <1>2, WrittenTyped DEF IInv
<1>4. TypeOK'
  BY <1>2, <1>3 DEF IInv, TypeOK
<1>5. convTags' \subseteq Range(tags') \cup takenAway'
  BY <1>2, <1>3
<1>6. QED
  BY <1>4, <1>5 DEF IInv, TagsKept

LEMMA UpdateOtherStep ==
    ASSUME IInv, NEW c \in Calls, UpdateOther(c)
    PROVE  IInv'
<1>1. call[c].seen \in Seq(Tags)
  BY SeenTyped DEF IInv
<1>2. /\ Write(c, call[c].seen) /\ overwritten' = (overwritten \/ call[c].seen # tags)
      /\ convTags' = convTags /\ takenAway' = takenAway
  BY DEF UpdateOther, WriteBack
<1>3. /\ tags' = call[c].seen /\ tags' \in Seq(Tags)
      /\ call' \in [Calls -> [kind : Kinds \cup {None}, seen : Seq(Tags)]]
  BY <1>1, <1>2, WrittenTyped DEF IInv
<1>4. TypeOK'
  BY <1>2, <1>3 DEF IInv, TypeOK
<1>5. TagsKept'
  <2>1. CASE call[c].seen = tags
    BY <1>2, <1>3, <2>1 DEF IInv, TagsKept
  <2>2. CASE call[c].seen # tags
    BY <1>2, <2>2 DEF TagsKept
  <2>3. QED
    BY <2>1, <2>2
<1>6. QED
  BY <1>4, <1>5 DEF IInv

\* A call that reads, or fails, changes nothing but itself.
LEMMA OwnStep ==
    ASSUME IInv, NEW c \in Calls, NEW new \in [kind : Kinds \cup {None}, seen : Seq(Tags)],
           call' = [call EXCEPT ![c] = new],
           UNCHANGED <<tags, convTags, takenAway, overwritten>>
    PROVE  IInv'
BY DEF IInv, TypeOK, TagsKept

LEMMA ReadStep ==
    ASSUME IInv, NEW c \in Calls, NEW kind \in Kinds, ReadContact(c, kind)
    PROVE  IInv'
<1> DEFINE new == [kind |-> kind, seen |-> tags]
<1>1. new \in [kind : Kinds \cup {None}, seen : Seq(Tags)]
  BY DEF IInv, TypeOK
<1>2. call' = [call EXCEPT ![c] = new] /\ UNCHANGED <<tags, convTags, takenAway, overwritten>>
  BY DEF ReadContact
<1> HIDE DEF new
<1>3. QED
  BY <1>1, <1>2, OwnStep

LEMMA FailStep ==
    ASSUME IInv, NEW c \in Calls, Fail(c)
    PROVE  IInv'
BY IdleTyped, OwnStep DEF Fail

-----------------------------------------------------------------------------
(* The inductive invariant *)

LEMMA InitInv == Init => IInv
<1> SUFFICES ASSUME Init
             PROVE  IInv
  OBVIOUS
<1>1. tags \in Lists \cup {<<>>}
  BY DEF Init
<1>2. tags \in Seq(Tags)
  BY <1>1, EmptyTyped, ContactTagsAssumption, Zenon
<1>3. call \in [Calls -> [kind : Kinds \cup {None}, seen : Seq(Tags)]]
  BY IdleTyped DEF Init
<1>4. convTags = {} /\ takenAway = {} /\ overwritten = FALSE
  BY DEF Init
<1>5. QED
  BY <1>2, <1>3, <1>4 DEF IInv, TypeOK, TagsKept

LEMMA NextInv ==
    ASSUME IInv, [Next]_vars
    PROVE  IInv'
<1>1. CASE UNCHANGED vars
  BY <1>1 DEF vars, IInv, TypeOK, TagsKept
<1>2. ASSUME NEW c \in Calls, Step(c)
      PROVE  IInv'
  <2>1. CASE \E kind \in Kinds : ReadContact(c, kind)
    BY <2>1, ReadStep
  <2>2. CASE \E action \in OrderKinds \cup {None} : prepareCustomerRequest(c, action)
    BY <2>2, ReplyStep
  <2>3. CASE \E action \in OrderKinds \cup {None} : prepareOrderIntentForWorkflow(c, action)
    BY <2>3, IntentStep
  <2>4. CASE \E list \in Lists \cup {<<>>} : UpdateTags(c, list)
    BY <2>4, UpdateTagsStep
  <2>5. CASE UpdateOther(c)
    BY <2>5, UpdateOtherStep
  <2>6. CASE Fail(c)
    BY <2>6, FailStep
  <2>7. QED
    BY <1>2, <2>1, <2>2, <2>3, <2>4, <2>5, <2>6 DEF Step
<1>3. QED
  BY <1>1, <1>2 DEF Next

\* The types and the property together are inductive: a call that has read the present list
\* keeps all of it or leaves as many tags as the assistant reads.
THEOREM Invariant == Spec => []IInv
<1>1. Init => IInv
  BY InitInv
<1>2. IInv /\ [Next]_vars => IInv'
  BY NextInv
<1>3. QED
  BY <1>1, <1>2, PTL DEF Spec

\* The list and the calls keep their types.
THEOREM TypeCorrect == Spec => []TypeOK
<1>1. IInv => TypeOK
  BY DEF IInv
<1>2. QED
  BY <1>1, Invariant, PTL

\* However many orders and updates overlap, a contact with fewer tags than the assistant reads
\* carries every tag that orders gave to its conversations, unless an agent's list has left it
\* out or a call wrote a list that it had read before another wrote.
THEOREM TagsAreKept == Spec => []TagsKept
<1>1. IInv => TagsKept
  BY DEF IInv
<1>2. QED
  BY <1>1, Invariant, PTL
=============================================================================
