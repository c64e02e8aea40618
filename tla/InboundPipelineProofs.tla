------------------------ MODULE InboundPipelineProofs ------------------------
(***************************************************************************)
(* The safety properties of InboundPipeline, for any number of deliveries, *)
(* messages, contacts and conversations, and any bounds.                   *)
(***************************************************************************)
EXTENDS InboundPipeline, FiniteSetTheorems, TLAPS

DeliveryRows == [step : Steps, kind : Kinds \cup {None}, msg : Messages \cup {None},
                 conv : ConvIds \cup {None}, seen : Rows, result : Results, log : Logs]
MessageRows == [by : Deliveries, msg : Messages, conv : ConvIds]

\* Every inbound row there ever was.
Stored == messages \cup deleted

\* The steps of a delivery that has stored its message, or never will.
AfterStore == {"count", "ai", "notice_find", "notice_create", "mark", "fail"} \cup EndSteps
\* Those at which it works on the row it has stored.
OnItsRow == {"count", "ai", "notice_find", "notice_create"}

-----------------------------------------------------------------------------
(* The inductive invariant *)

\* What a delivery knows at each step.
Knows(d) ==
    LET q == delivery[d] IN
    /\ q.step # "idle" => q.kind \in Kinds /\ q.msg \in Messages
    /\ q.step = "idle" => q.result = None /\ q.msg = None /\ q.kind = None
    /\ q.step \in {"conversation", "new_conversation"} => q.kind = "evolution"
    /\ q.step = "events" => q.kind = "workflow"
    /\ q.kind = "evolution" /\ q.step \in {"duplicate", "store", "count"} => Exists(q.seen)
    /\ q.step \in {"idle", "conversation", "new_conversation", "events", "tx"} => q.conv = None
    /\ q.step = "duplicate" => (q.conv = None <=> q.kind = "n8n")
    /\ q.step \in {"store"} \cup OnItsRow => q.conv # None
    /\ q.step \in {"mark", "fail"} \cup EndSteps => q.conv = None
    /\ q.step \in {"notice_find", "notice_create"} => q.result \in {"blocked", "handoff"}
    /\ q.result = "error" => q.step \in {"fail"} \cup EndSteps
    /\ q.log = "processed" => q.step = "done"

\* The conversation it has found is its sender's, or was removed.
FoundItsSenders(d) ==
    LET q == delivery[d] IN
    q.conv # None => \/ convs[q.conv].contact = From[q.msg] /\ convs[q.conv].status # "none"
                     \/ convs[q.conv].status = "removed"

\* What it has stored: the row it works on, the row it has decided about, and the
\* message, by whichever delivery, once its event is processed.
HasStored(d) ==
    LET q == delivery[d] IN
    /\ q.step \in OnItsRow => [by |-> d, msg |-> q.msg, conv |-> q.conv] \in Stored
    /\ q.result \in Decisions => \E row \in Stored : row.by = d /\ row.msg = q.msg
    /\ (q.step = "mark" \/ q.log = "processed") /\ q.kind # "persist" /\ q.result # "ignored"
       => \E row \in Stored : row.msg = q.msg

Local(d) == Knows(d) /\ FoundItsSenders(d) /\ HasStored(d)

\* A conversation not yet created is empty.
FreshIsEmpty == \A c \in ConvIds : convs[c].status = "none" => convs[c].contact = None

\* A delivery stores one row at most, of its message, in a conversation once created.
RowsOfDeliveries ==
    /\ \A row \in Stored : /\ delivery[row.by].step \in AfterStore
                           /\ delivery[row.by].msg = row.msg
                           /\ convs[row.conv].status # "none"
    /\ \A row, other \in Stored : row.by = other.by => row = other

\* The unique index on (company, external identifier).
UniqueIds ==
    \A row, other \in messages : row.msg = other.msg /\ row.msg \in Identified => row = other

\* The rows that their deliveries are about to count.
Awaiting(c) == {row \in InboundOf(c) : delivery[row.by].step = "count"}

\* The counter lies between the rows surely counted and those perhaps counted.
Perhaps(c) == InboundOf(c) \ Awaiting(c)
Surely(c) == InboundOf(c) \ Uncounted(c)
CounterBounds ==
    \A c \in ConvIds : Exists(convs[c]) =>
        /\ convs[c].unreadCount <= Cardinality(Perhaps(c))
        /\ Cardinality(Surely(c)) <= convs[c].unreadCount

IInv ==
    /\ TypeOK
    /\ \A d \in Deliveries : Local(d)
    /\ FreshIsEmpty /\ MessageInSendersConversation
    /\ RowsOfDeliveries /\ UniqueIds
    /\ IsFiniteSet(Stored) /\ CounterBounds
    /\ WindowFromCustomer

\* Agents neither open nor reopen a conversation.
Serial == Ops \subseteq {"close", "remove", "delete_message", "read_notices"}

\* The contact's row is locked by one transaction at most, which still knows the open
\* conversation of the contact.
LockExclusive ==
    \A d, e \in Deliveries :
        /\ delivery[d].step = "commit" /\ delivery[e].step = "commit"
        /\ From[delivery[d].msg] = From[delivery[e].msg]
        => d = e
LockKnowsOpen ==
    \A d \in Deliveries : delivery[d].step = "commit" =>
        \A c \in OpenOf(From[delivery[d].msg]) : c = delivery[d].conv

\* Nobody waits for an agent, so that no received message reopens a conversation.
NobodyWaits ==
    /\ \A c \in ConvIds : convs[c].status # "human_assigned"
    /\ \A d \in Deliveries : delivery[d].seen.status # "human_assigned"

OneOpen ==
    \A c, e \in ConvIds :
        /\ Open(convs[c]) /\ Open(convs[e]) /\ convs[c].contact = convs[e].contact
        => c = e

SerialInv == LockExclusive /\ LockKnowsOpen /\ OneOpen /\ NobodyWaits

-----------------------------------------------------------------------------
(* What a step does to the delivery that takes it *)

Only(d) ==
    /\ delivery' \in [Deliveries -> DeliveryRows]
    /\ \A e \in Deliveries : e # d => delivery'[e] = delivery[e]

SameRequest(d) ==
    /\ delivery'[d].kind = delivery[d].kind
    /\ delivery'[d].msg = delivery[d].msg
    /\ delivery'[d].log = delivery[d].log

LEMMA RowOf ==
    ASSUME TypeOK, NEW d \in Deliveries
    PROVE  delivery[d] \in DeliveryRows
BY DEF TypeOK, DeliveryRows

LEMMA NoRowTyped == NoRow \in Rows
BY DEF NoRow, Rows, AbsentStatuses

LEMMA GotoEffect ==
    ASSUME TypeOK, NEW d \in Deliveries, NEW step \in Steps, NEW result \in Results,
           Goto(d, step, result)
    PROVE  /\ Only(d) /\ SameRequest(d)
           /\ delivery'[d].step = step /\ delivery'[d].result = result
           /\ delivery'[d].conv = IF step \in {"mark", "fail", "done"} THEN None
                                  ELSE delivery[d].conv
<1> DEFINE seen == IF step \in {"notice_find", "ai", "store", "mark", "fail", "done"}
                   THEN NoRow ELSE delivery[d].seen
           conv == IF step \in {"mark", "fail", "done"} THEN None ELSE delivery[d].conv
           row == [delivery[d] EXCEPT !.step = step, !.result = result, !.seen = seen, !.conv = conv]
<1>1. delivery[d] \in DeliveryRows /\ delivery \in [Deliveries -> DeliveryRows]
  BY DEF TypeOK, DeliveryRows
<1>2. delivery' = [delivery EXCEPT ![d] = row]
  BY <1>1 DEF Goto, DeliveryRows
<1>3. seen \in Rows /\ conv \in ConvIds \cup {None}
  BY <1>1, NoRowTyped DEF DeliveryRows
<1>4. conv = IF step \in {"mark", "fail", "done"} THEN None ELSE delivery[d].conv
  OBVIOUS
<1> HIDE DEF seen, conv
<1>5. /\ row \in DeliveryRows /\ row.step = step /\ row.result = result /\ row.conv = conv
      /\ row.kind = delivery[d].kind /\ row.msg = delivery[d].msg /\ row.log = delivery[d].log
  BY <1>1, <1>3 DEF DeliveryRows
<1> HIDE DEF row
<1>6. QED
  BY <1>1, <1>2, <1>4, <1>5 DEF Only, SameRequest

-----------------------------------------------------------------------------
(* The ways a step may change the tables, and what each of them keeps *)

\* A delivery goes on: it keeps its message, stores nothing twice, and leaves the
\* update of the counter only by doing it, by a crash or with an error.
Moves(e) ==
    /\ delivery[e].step \in AfterStore => delivery'[e].step \in AfterStore
    /\ delivery[e].msg # None => delivery'[e].msg = delivery[e].msg

Uncertain(e) == delivery[e].step \in {"count", "crashed"} \/ delivery[e].result = "error"

StaysUncertain(e) ==
    /\ delivery'[e].step = "count" => delivery[e].step = "count"
    /\ Uncertain(e) => Uncertain(e)'

\* Where the end of the customer-service window comes from.
Justified(c) ==
    \/ convs[c].lastCustomerMessageAt \in {0, AgentTime}
    \/ \E d \in Deliveries :
          /\ delivery[d].msg # None
          /\ From[delivery[d].msg] = convs[c].contact
          /\ EventAt[delivery[d].msg] = convs[c].lastCustomerMessageAt

\* A conversation is updated, created or removed.
Updated(c) ==
    /\ convs'[c].contact = convs[c].contact
    /\ convs'[c].status = convs[c].status \/ (Exists(convs[c]) /\ Exists(convs'[c]))
    /\ convs'[c].lastCustomerMessageAt = convs[c].lastCustomerMessageAt \/ Justified(c)'
Created(c) ==
    /\ convs[c].status = "none" /\ Exists(convs'[c]) /\ Justified(c)'
Removed(c) ==
    /\ convs'[c].status = "removed"
    /\ \A row \in messages' : row.conv # c

ConvsMove == \A c \in ConvIds : Updated(c) \/ Created(c) \/ Removed(c)

\* What the counter counts from: a conversation that is created starts at nothing.
CounterWas(c) == IF Exists(convs[c]) THEN convs[c].unreadCount ELSE 0
CounterKept(c) ==
    Exists(convs'[c]) => convs[c].status # "removed" /\ convs'[c].unreadCount = CounterWas(c)
CounterGrew(c) ==
    Exists(convs'[c]) => convs[c].status # "removed" /\ convs'[c].unreadCount = CounterWas(c) + 1

\* Rows are deleted, or none.
NothingStored == messages' \subseteq messages /\ Stored' = Stored

\* One row is stored, by a delivery that has stored none.
Stores(row) ==
    /\ row \in MessageRows
    /\ messages' = messages \cup {row} /\ deleted' = deleted
    /\ ~ViolatesUniqueIndex(row.msg)
    /\ delivery[row.by].step \notin AfterStore
    /\ delivery'[row.by].step \in AfterStore /\ delivery'[row.by].msg = row.msg
    /\ Exists(convs'[row.conv]) /\ convs'[row.conv].contact = From[row.msg]

Names == None \notin Messages /\ None \notin ConvIds /\ None \notin Kinds /\ None \notin Outcomes

LEMMA NoneIsNoName == Names
BY InboundAssumption DEF Names

LEMMA StatusesApart ==
    /\ "none" \notin Statuses /\ "removed" \notin Statuses
    /\ \A row : Exists(row) => row.status # "none" /\ row.status # "removed"
BY DEF Statuses, OpenStatuses, Exists

LEMMA StoredTyped ==
    ASSUME TypeOK
    PROVE  Stored \subseteq MessageRows
BY DEF TypeOK, Stored, MessageRows

\* The deliveries that do not move keep what they know.
LEMMA OthersKeepLocal ==
    ASSUME IInv, TypeOK', ConvsMove, Stored \subseteq Stored', NEW e \in Deliveries,
           delivery'[e] = delivery[e]
    PROVE  Local(e)'
<1>1. Local(e) /\ delivery[e].conv \in ConvIds \cup {None} /\ FreshIsEmpty
  BY RowOf DEF IInv, DeliveryRows
<1>2. Knows(e)'
  BY <1>1 DEF Local, Knows
<1>3. HasStored(e)'
  BY <1>1 DEF Local, HasStored
<1>4. FoundItsSenders(e)'
  <2> SUFFICES ASSUME delivery[e].conv # None
               PROVE  FoundItsSenders(e)'
    BY DEF FoundItsSenders
  <2> DEFINE c == delivery[e].conv
  <2>1. c \in ConvIds /\ (Updated(c) \/ Created(c) \/ Removed(c))
    BY <1>1 DEF ConvsMove
  <2>2. \/ convs[c].contact = From[delivery[e].msg] /\ convs[c].status # "none"
        \/ convs[c].status = "removed"
    BY <1>1 DEF Local, FoundItsSenders
  <2>3. \/ convs'[c].contact = From[delivery[e].msg] /\ convs'[c].status # "none"
        \/ convs'[c].status = "removed"
    BY <2>1, <2>2, StatusesApart DEF Updated, Created, Removed
  <2>4. QED
    BY <2>3 DEF FoundItsSenders
<1>5. QED
  BY <1>2, <1>3, <1>4 DEF Local

\* Everything but the counters.
LEMMA TablesKept ==
    ASSUME IInv, TypeOK', ConvsMove, \A e \in Deliveries : Moves(e),
           NothingStored \/ \E row : Stores(row)
    PROVE  /\ FreshIsEmpty' /\ MessageInSendersConversation' /\ RowsOfDeliveries'
           /\ UniqueIds' /\ IsFiniteSet(Stored)' /\ WindowFromCustomer'
<1> USE NoneIsNoName DEF Names
<1>1. /\ TypeOK /\ FreshIsEmpty /\ MessageInSendersConversation /\ RowsOfDeliveries /\ UniqueIds
      /\ IsFiniteSet(Stored) /\ WindowFromCustomer
  BY DEF IInv
<1>2. Stored \subseteq MessageRows /\ Stored' \subseteq MessageRows
  BY <1>1, StoredTyped, StoredTyped DEF TypeOK, Stored, MessageRows
<1>3. FreshIsEmpty'
  <2> SUFFICES ASSUME NEW c \in ConvIds, convs'[c].status = "none"
               PROVE  convs'[c].contact = None
    BY DEF FreshIsEmpty
  <2>1. Updated(c) /\ convs[c].status = "none"
    BY StatusesApart DEF ConvsMove, Updated, Created, Removed
  <2>2. QED
    BY <1>1, <2>1 DEF FreshIsEmpty, Updated
<1>4. MessageInSendersConversation'
  <2> SUFFICES ASSUME NEW row \in messages'
               PROVE  convs'[row.conv].contact = From[row.msg] /\ Exists(convs'[row.conv])
    BY DEF MessageInSendersConversation
  <2>1. CASE Stores(row)
    BY <2>1 DEF Stores
  <2>2. CASE row \in messages
    <3>1. row.conv \in ConvIds
      BY <2>2, <1>2 DEF Stored, MessageRows
    <3>2. convs[row.conv].contact = From[row.msg] /\ Exists(convs[row.conv])
      BY <1>1, <2>2 DEF MessageInSendersConversation
    <3>3. Updated(row.conv)
      BY <3>1, <3>2, StatusesApart DEF ConvsMove, Created, Removed
    <3>4. QED
      BY <3>2, <3>3 DEF Updated, Exists
  <2>3. QED
    BY <2>1, <2>2 DEF NothingStored, Stores
<1>5. \A row \in Stored : /\ delivery'[row.by].step \in AfterStore
                          /\ delivery'[row.by].msg = row.msg
                          /\ convs'[row.conv].status # "none"
  <2> SUFFICES ASSUME NEW row \in Stored
               PROVE  /\ delivery'[row.by].step \in AfterStore
                      /\ delivery'[row.by].msg = row.msg
                      /\ convs'[row.conv].status # "none"
    OBVIOUS
  <2>1. row.by \in Deliveries /\ row.msg \in Messages /\ row.conv \in ConvIds
    BY <1>2 DEF MessageRows
  <2>2. /\ delivery[row.by].step \in AfterStore /\ delivery[row.by].msg = row.msg
        /\ convs[row.conv].status # "none"
    BY <1>1 DEF RowsOfDeliveries
  <2>3. Moves(row.by) /\ (Updated(row.conv) \/ Created(row.conv) \/ Removed(row.conv))
    BY <2>1 DEF ConvsMove
  <2>4. QED
    BY <2>1, <2>2, <2>3, StatusesApart DEF Moves, Updated, Created, Removed
<1>6. ASSUME NothingStored
      PROVE  RowsOfDeliveries' /\ UniqueIds' /\ IsFiniteSet(Stored)'
  <2>1. RowsOfDeliveries'
    BY <1>1, <1>5, <1>6 DEF RowsOfDeliveries, NothingStored
  <2>2. UniqueIds' /\ IsFiniteSet(Stored)'
    BY <1>1, <1>6 DEF UniqueIds, NothingStored
  <2>3. QED
    BY <2>1, <2>2
<1>7. ASSUME NEW row, Stores(row)
      PROVE  RowsOfDeliveries' /\ UniqueIds' /\ IsFiniteSet(Stored)'
  <2>1. Stored' = Stored \cup {row} /\ row \in MessageRows
    BY <1>7 DEF Stores, Stored
  <2>2. \A other \in Stored : other.by # row.by
    BY <1>1, <1>7 DEF RowsOfDeliveries, Stores
  <2>3. RowsOfDeliveries'
    <3>1. /\ delivery'[row.by].step \in AfterStore
          /\ delivery'[row.by].msg = row.msg
          /\ convs'[row.conv].status # "none"
      BY <1>7, StatusesApart DEF Stores
    <3>2. \A x \in Stored' : /\ delivery'[x.by].step \in AfterStore
                             /\ delivery'[x.by].msg = x.msg
                             /\ convs'[x.conv].status # "none"
      BY <1>5, <2>1, <3>1
    <3>3. \A x, y \in Stored' : x.by = y.by => x = y
      BY <1>1, <2>1, <2>2 DEF RowsOfDeliveries
    <3>4. QED
      BY <3>2, <3>3 DEF RowsOfDeliveries
  <2>4. UniqueIds'
    <3>1. \A other \in messages : other.msg = row.msg => row.msg \notin Identified
      BY <1>7 DEF Stores, ViolatesUniqueIndex, RowsWithId
    <3>2. QED
      BY <1>1, <1>7, <3>1 DEF UniqueIds, Stores
  <2>5. IsFiniteSet(Stored)'
    BY <1>1, <2>1, FS_AddElement
  <2>6. QED
    BY <2>3, <2>4, <2>5
<1>8. WindowFromCustomer'
  <2> SUFFICES ASSUME NEW c \in ConvIds, Exists(convs'[c])
               PROVE  Justified(c)'
    BY DEF WindowFromCustomer, Justified
  <2>1. CASE Justified(c)'
    BY <2>1
  <2>2. CASE ~Justified(c)'
    <3>1. /\ Exists(convs[c]) /\ convs'[c].contact = convs[c].contact
          /\ convs'[c].lastCustomerMessageAt = convs[c].lastCustomerMessageAt
      BY <2>2, StatusesApart DEF ConvsMove, Updated, Created, Removed, Exists
    <3>2. Justified(c)
      BY <1>1, <3>1 DEF WindowFromCustomer, Justified
    <3>3. Justified(c)'
      BY <3>1, <3>2 DEF Justified, Moves
    <3>4. QED
      BY <3>3
  <2>3. QED
    BY <2>1, <2>2
<1>9. QED
  BY <1>3, <1>4, <1>6, <1>7, <1>8

-----------------------------------------------------------------------------
(* The counters *)

LEMMA CountersTyped ==
    ASSUME IInv, NEW c \in ConvIds
    PROVE  /\ convs[c] \in Rows /\ CounterWas(c) \in Nat
           /\ IsFiniteSet(InboundOf(c)) /\ IsFiniteSet(Perhaps(c)) /\ IsFiniteSet(Surely(c))
           /\ Cardinality(Perhaps(c)) \in Nat /\ Cardinality(Surely(c)) \in Nat
<1>1. convs[c] \in Rows /\ CounterWas(c) \in Nat
  BY DEF IInv, TypeOK, Rows, CounterWas
<1>2. InboundOf(c) \in SUBSET Stored /\ IsFiniteSet(Stored)
  BY DEF IInv, InboundOf, Stored
<1>3. IsFiniteSet(InboundOf(c))
  BY <1>2, FS_Subset
<1>4. Perhaps(c) \in SUBSET InboundOf(c) /\ Surely(c) \in SUBSET InboundOf(c)
  BY DEF Perhaps, Surely
<1>5. IsFiniteSet(Perhaps(c)) /\ IsFiniteSet(Surely(c))
  BY <1>3, <1>4, FS_Subset
<1>6. QED
  BY <1>1, <1>3, <1>5, FS_CardinalityType

\* The bounds hold of a conversation about to be created, too.
LEMMA BoundsWere ==
    ASSUME IInv, NEW c \in ConvIds, convs[c].status # "removed"
    PROVE  CounterWas(c) <= Cardinality(Perhaps(c)) /\ Cardinality(Surely(c)) <= CounterWas(c)
<1>1. CASE Exists(convs[c])
  BY <1>1 DEF IInv, CounterBounds, CounterWas
<1>2. CASE ~Exists(convs[c])
  <2>1. convs[c].status = "none"
    BY <1>2, CountersTyped DEF Rows, Exists, AbsentStatuses
  <2>2. InboundOf(c) = {}
    BY <2>1 DEF IInv, RowsOfDeliveries, InboundOf, Stored
  <2>3. Perhaps(c) = {} /\ Surely(c) = {}
    BY <2>2 DEF Perhaps, Surely
  <2>4. QED
    BY <1>2, <2>3, FS_EmptySet DEF CounterWas
<1>3. QED
  BY <1>1, <1>2

\* A conversation whose counter is left alone keeps its bounds when no row is counted...
LEMMA BoundsKept ==
    ASSUME IInv, TypeOK', IsFiniteSet(Stored)', NEW c \in ConvIds, Exists(convs'[c]), CounterKept(c),
           Perhaps(c) \subseteq Perhaps(c)', Surely(c)' \subseteq Surely(c)
    PROVE  convs'[c].unreadCount <= Cardinality(Perhaps(c)') /\ Cardinality(Surely(c)') <= convs'[c].unreadCount
<1>1. /\ CounterWas(c) <= Cardinality(Perhaps(c)) /\ Cardinality(Surely(c)) <= CounterWas(c)
      /\ convs'[c].unreadCount = CounterWas(c)
  BY BoundsWere DEF CounterKept
<1>2. /\ IsFiniteSet(Perhaps(c)) /\ IsFiniteSet(Surely(c)) /\ CounterWas(c) \in Nat
      /\ Cardinality(Perhaps(c)) \in Nat /\ Cardinality(Surely(c)) \in Nat
  BY CountersTyped
<1>3. Perhaps(c)' \in SUBSET Stored'
  BY DEF Perhaps, InboundOf, Stored
<1>4. IsFiniteSet(Perhaps(c)')
  BY <1>3, FS_Subset
<1>5. Cardinality(Perhaps(c)) <= Cardinality(Perhaps(c)')
  BY <1>4, FS_Subset
<1>6. Cardinality(Surely(c)') <= Cardinality(Surely(c)) /\ IsFiniteSet(Surely(c)')
  BY <1>2, FS_Subset
<1>7. Cardinality(Perhaps(c)') \in Nat /\ Cardinality(Surely(c)') \in Nat
  BY <1>4, <1>6, FS_CardinalityType
<1>8. QED
  BY <1>1, <1>2, <1>5, <1>6, <1>7

\* ... and so does one that counts one row.
LEMMA BoundsGrow ==
    ASSUME IInv, TypeOK', IsFiniteSet(Stored)', NEW c \in ConvIds, Exists(convs'[c]), CounterGrew(c),
           NEW row, row \notin Perhaps(c),
           Perhaps(c) \cup {row} \subseteq Perhaps(c)', Surely(c)' \subseteq Surely(c) \cup {row}
    PROVE  convs'[c].unreadCount <= Cardinality(Perhaps(c)') /\ Cardinality(Surely(c)') <= convs'[c].unreadCount
<1>1. /\ CounterWas(c) <= Cardinality(Perhaps(c)) /\ Cardinality(Surely(c)) <= CounterWas(c)
      /\ convs'[c].unreadCount = CounterWas(c) + 1
  BY BoundsWere DEF CounterGrew
<1>2. /\ IsFiniteSet(Perhaps(c)) /\ IsFiniteSet(Surely(c)) /\ CounterWas(c) \in Nat
      /\ Cardinality(Perhaps(c)) \in Nat /\ Cardinality(Surely(c)) \in Nat
  BY CountersTyped
<1>3. Perhaps(c)' \in SUBSET Stored'
  BY DEF Perhaps, InboundOf, Stored
<1>4. IsFiniteSet(Perhaps(c)')
  BY <1>3, FS_Subset
<1>5. Cardinality(Perhaps(c) \cup {row}) = Cardinality(Perhaps(c)) + 1
  BY <1>2, FS_AddElement
<1>6. Cardinality(Perhaps(c) \cup {row}) <= Cardinality(Perhaps(c)')
  BY <1>4, FS_Subset
<1>7. IsFiniteSet(Surely(c) \cup {row}) /\ Cardinality(Surely(c) \cup {row}) <= Cardinality(Surely(c)) + 1
  <2>1. /\ IsFiniteSet(Surely(c) \cup {row})
        /\ Cardinality(Surely(c) \cup {row}) =
             IF row \in Surely(c) THEN Cardinality(Surely(c)) ELSE Cardinality(Surely(c)) + 1
    BY <1>2, FS_AddElement
  <2>2. QED
    BY <1>2, <2>1
<1>8. Cardinality(Surely(c)') <= Cardinality(Surely(c) \cup {row}) /\ IsFiniteSet(Surely(c)')
  BY <1>7, FS_Subset
<1>9. /\ Cardinality(Perhaps(c)') \in Nat /\ Cardinality(Surely(c)') \in Nat
      /\ Cardinality(Surely(c) \cup {row}) \in Nat
  BY <1>4, <1>7, <1>8, FS_CardinalityType
<1>10. QED
  BY <1>1, <1>2, <1>5, <1>6, <1>7, <1>8, <1>9

\* No row is counted while nothing is stored and no delivery leaves the update of the
\* counter but by a crash or with an error.
LEMMA CountersKept ==
    ASSUME IInv, TypeOK', NothingStored,
           \A e \in Deliveries : StaysUncertain(e), \A c \in ConvIds : CounterKept(c)
    PROVE  CounterBounds'
<1> SUFFICES ASSUME NEW c \in ConvIds, Exists(convs'[c])
             PROVE  convs'[c].unreadCount <= Cardinality(Perhaps(c)') /\ Cardinality(Surely(c)') <= convs'[c].unreadCount
  BY DEF CounterBounds
<1>1. Stored' = Stored /\ Stored \subseteq MessageRows /\ IsFiniteSet(Stored)
  BY StoredTyped DEF NothingStored, IInv
<1>2. InboundOf(c)' = InboundOf(c) /\ \A row \in InboundOf(c) : row.by \in Deliveries
  BY <1>1 DEF InboundOf, Stored, MessageRows
<1>3. Perhaps(c) \subseteq Perhaps(c)'
  BY <1>2 DEF Perhaps, Awaiting, StaysUncertain
<1>4. Surely(c)' \subseteq Surely(c)
  BY <1>2 DEF Surely, Uncounted, StaysUncertain, Uncertain
<1>5. QED
  BY <1>1, <1>3, <1>4, BoundsKept

-----------------------------------------------------------------------------
(* Steps that only move a delivery *)

LEMMA QuietStep ==
    ASSUME IInv, TypeOK', ConvsMove, NothingStored,
           \A e \in Deliveries : Moves(e) /\ StaysUncertain(e) /\ Local(e)',
           \A c \in ConvIds : CounterKept(c)
    PROVE  IInv'
<1>1. CounterBounds'
  BY CountersKept
<1>2. /\ FreshIsEmpty' /\ MessageInSendersConversation' /\ RowsOfDeliveries'
      /\ UniqueIds' /\ IsFiniteSet(Stored)' /\ WindowFromCustomer'
  BY TablesKept
<1>3. QED
  BY <1>1, <1>2 DEF IInv

TablesUnchanged == UNCHANGED <<convs, messages, deleted>>

Proceeds(d) ==
    /\ TablesUnchanged /\ notices' \in [ConvIds -> Nat] /\ ops' = ops
    /\ Only(d) /\ Moves(d) /\ StaysUncertain(d) /\ Local(d)'

LEMMA UnmovedDelivery ==
    ASSUME NEW e \in Deliveries, delivery'[e] = delivery[e]
    PROVE  Moves(e) /\ StaysUncertain(e)
BY DEF Moves, StaysUncertain, Uncertain

LEMMA UnmovedTables ==
    ASSUME IInv, convs' = convs
    PROVE  ConvsMove /\ \A c \in ConvIds : CounterKept(c)
<1>1. ASSUME NEW c \in ConvIds
      PROVE  Updated(c) /\ CounterKept(c)
  BY <1>1, StatusesApart DEF Updated, CounterKept, CounterWas
<1>2. QED
  BY <1>1 DEF ConvsMove

LEMMA ProceedsKeepsInv ==
    ASSUME IInv, NEW d \in Deliveries, Proceeds(d)
    PROVE  IInv'
<1>1. TypeOK' /\ NothingStored
  BY DEF IInv, TypeOK, Proceeds, TablesUnchanged, Only, DeliveryRows, NothingStored, Stored
<1>2. convs' = convs /\ Stored \subseteq Stored'
  BY DEF Proceeds, TablesUnchanged, Stored
<1>3. ConvsMove /\ \A c \in ConvIds : CounterKept(c)
  BY <1>2, UnmovedTables
<1>4. \A e \in Deliveries : Moves(e) /\ StaysUncertain(e) /\ Local(e)'
  <2> TAKE e \in Deliveries
  <2>1. CASE e = d
    BY <2>1 DEF Proceeds
  <2>2. CASE e # d
    <3>1. delivery'[e] = delivery[e]
      BY <2>2 DEF Proceeds, Only
    <3>2. QED
      BY <1>1, <1>2, <1>3, <3>1, UnmovedDelivery, OthersKeepLocal
  <2>3. QED
    BY <2>1, <2>2
<1>5. QED
  BY <1>1, <1>3, <1>4, QuietStep

\* What is known of a delivery before its step.
LEMMA Before ==
    ASSUME IInv, NEW d \in Deliveries
    PROVE  /\ TypeOK /\ delivery[d] \in DeliveryRows /\ Knows(d) /\ FoundItsSenders(d) /\ HasStored(d)
           /\ \A row \in Stored : row.by = d => delivery[d].step \in AfterStore
BY RowOf DEF IInv, Local, RowsOfDeliveries

\* A step of Goto that leads to the end of the delivery.
LEMMA EndProceeds ==
    ASSUME IInv, NEW d \in Deliveries, NEW step \in {"mark", "fail", "done"}, NEW result \in Outcomes,
           Goto(d, step, result), TablesUnchanged, notices' \in [ConvIds -> Nat], ops' = ops,
           delivery[d].step \notin {"idle"} \cup EndSteps,
           result = "error" => step # "mark",
           Uncertain(d) => result = "error",
           result \in Decisions => \E row \in Stored : row.by = d /\ row.msg = delivery[d].msg,
           step = "mark" /\ delivery[d].kind # "persist" /\ result # "ignored"
             => \E row \in Stored : row.msg = delivery[d].msg
    PROVE  Proceeds(d)
<1> USE NoneIsNoName DEF Names
<1>1. TypeOK /\ delivery[d] \in DeliveryRows /\ Knows(d)
  BY Before
<1>2. step \in Steps /\ result \in Results
  BY DEF Steps, EndSteps, Results
<1>3. /\ Only(d) /\ SameRequest(d)
      /\ delivery'[d].step = step /\ delivery'[d].result = result /\ delivery'[d].conv = None
  BY <1>1, <1>2, GotoEffect
<1>4. Moves(d)
  BY <1>3 DEF Moves, SameRequest, AfterStore, EndSteps
<1>5. StaysUncertain(d)
  BY <1>3 DEF StaysUncertain, Uncertain
<1>6. Knows(d)'
  BY <1>1, <1>3 DEF Knows, SameRequest, EndSteps, OnItsRow
<1>7. FoundItsSenders(d)'
  BY <1>3 DEF FoundItsSenders
<1>8. Stored' = Stored /\ delivery[d].log # "processed"
  BY <1>1 DEF TablesUnchanged, Stored, Knows, EndSteps
<1>9. HasStored(d)'
  BY <1>3, <1>8 DEF HasStored, SameRequest, OnItsRow
<1>10. QED
  BY <1>3, <1>4, <1>5, <1>6, <1>7, <1>9 DEF Proceeds, Local

LEMMA Replaced ==
    ASSUME TypeOK, NEW d \in Deliveries, NEW row \in DeliveryRows,
           delivery' = [delivery EXCEPT ![d] = row]
    PROVE  Only(d) /\ delivery'[d] = row
BY DEF TypeOK, Only, DeliveryRows

\* A step before the message is stored.
LEMMA OnwardProceeds ==
    ASSUME IInv, NEW d \in Deliveries, Only(d), SameRequest(d),
           TablesUnchanged, notices' = notices, ops' = ops,
           delivery[d].step \notin {"idle"} \cup AfterStore,
           delivery'[d].step \in {"new_conversation", "duplicate", "tx", "commit", "store"},
           delivery'[d].result \in {delivery[d].result, None},
           Knows(d)', FoundItsSenders(d)'
    PROVE  Proceeds(d)
<1> USE NoneIsNoName DEF Names
<1>1. TypeOK /\ Knows(d) /\ HasStored(d) /\ Stored' = Stored
  BY Before DEF TablesUnchanged, Stored
<1>2. delivery[d].result # "error" /\ delivery[d].log # "processed"
  BY <1>1 DEF Knows, AfterStore, EndSteps
<1>3. Moves(d)
  BY DEF Moves, SameRequest
<1>4. StaysUncertain(d)
  BY <1>2 DEF StaysUncertain, Uncertain, AfterStore, EndSteps
<1>5. HasStored(d)'
  <2>1. delivery'[d].step \notin OnItsRow /\ delivery'[d].step # "mark"
    BY DEF OnItsRow
  <2>2. None \notin Decisions
    BY DEF Outcomes
  <2>3. QED
    BY <1>1, <1>2, <2>1, <2>2 DEF HasStored, SameRequest
<1>6. QED
  BY <1>1, <1>3, <1>4, <1>5 DEF Proceeds, Local, TypeOK

LEMMA ReceiveStep ==
    ASSUME IInv, NEW d \in Deliveries, NEW kind \in Kinds, NEW m \in Messages,
           NEW ignored \in BOOLEAN, Receive(d, kind, m, ignored)
    PROVE  Proceeds(d)
<1> USE NoneIsNoName DEF Names
<1> DEFINE log == IF kind = "workflow" THEN "none" ELSE "pending"
           result == IF ignored THEN "ignored" ELSE None
           step == CASE ignored \/ kind = "persist" -> "mark"
                     [] kind = "evolution" -> "conversation"
                     [] kind = "n8n" -> IF m \in Identified THEN "duplicate" ELSE "tx"
                     [] kind = "workflow" -> "events"
           row == [delivery[d] EXCEPT !.kind = kind, !.msg = m, !.log = log, !.result = result,
                                      !.step = step]
<1>1. TypeOK /\ delivery[d] \in DeliveryRows /\ Knows(d) /\ delivery[d].step = "idle"
      /\ delivery \in [Deliveries -> DeliveryRows]
  BY Before DEF Receive, TypeOK, DeliveryRows
<1>2. delivery' = [delivery EXCEPT ![d] = row]
  <2>1. delivery' = [delivery EXCEPT ![d].kind = kind, ![d].msg = m, ![d].log = log,
                                     ![d].result = result, ![d].step = step]
    BY DEF Receive
  <2> HIDE DEF log, result, step
  <2>2. QED
    BY <1>1, <2>1 DEF DeliveryRows
<1>3. kind \in {"evolution", "n8n", "persist", "workflow"} /\ (ignored => kind = "n8n")
  BY InboundAssumption DEF Receive
<1>4. /\ step \in {"mark", "conversation", "duplicate", "tx", "events"}
      /\ step = "mark" => kind = "persist" \/ result = "ignored"
      /\ step = "conversation" => kind = "evolution"
      /\ step = "duplicate" => kind = "n8n"
      /\ step = "events" => kind = "workflow"
  BY <1>3
<1>5. result \in {"ignored", None} /\ log \in {"none", "pending"}
  OBVIOUS
<1> HIDE DEF log, result, step
<1>6. step \in Steps /\ result \in Results /\ log \in Logs
  BY <1>4, <1>5 DEF Steps, Results, Outcomes, Logs
<1>7. /\ row \in DeliveryRows /\ row.step = step /\ row.kind = kind /\ row.msg = m
      /\ row.result = result /\ row.log = log /\ row.conv = delivery[d].conv
  BY <1>1, <1>6 DEF DeliveryRows
<1> HIDE DEF row
<1>8. Only(d) /\ delivery'[d] = row
  BY <1>1, <1>2, <1>7, Replaced
<1>9. delivery[d].conv = None /\ delivery[d].result = None /\ delivery[d].msg = None
  BY <1>1 DEF Knows
<1>10. Moves(d) /\ StaysUncertain(d)
  BY <1>1, <1>4, <1>7, <1>8, <1>9 DEF Moves, StaysUncertain, Uncertain, AfterStore, EndSteps, Outcomes
<1>11. Knows(d)'
  BY <1>4, <1>5, <1>7, <1>8, <1>9 DEF Knows, EndSteps, OnItsRow, Outcomes
<1>12. FoundItsSenders(d)'
  BY <1>7, <1>8, <1>9 DEF FoundItsSenders
<1>13. HasStored(d)'
  BY <1>4, <1>5, <1>7, <1>8 DEF HasStored, OnItsRow, Decisions, Outcomes
<1>14. TablesUnchanged /\ notices' = notices /\ ops' = ops
  BY DEF Receive, TablesUnchanged
<1>15. QED
  BY <1>1, <1>8, <1>10, <1>11, <1>12, <1>13, <1>14 DEF Proceeds, Local, TypeOK

LEMMA ReceiveForConversationStep ==
    ASSUME IInv, NEW d \in Deliveries, NEW m \in Messages, NEW c \in ConvIds,
           ReceiveForConversation(d, m, c)
    PROVE  Proceeds(d)
<1> USE NoneIsNoName DEF Names
<1> DEFINE step == IF m \in Identified THEN "duplicate" ELSE "store"
           row == [delivery[d] EXCEPT !.kind = "workflow", !.msg = m, !.conv = c, !.step = step]
<1>1. TypeOK /\ delivery[d] \in DeliveryRows /\ Knows(d) /\ delivery[d].step = "idle"
      /\ delivery \in [Deliveries -> DeliveryRows]
  BY Before DEF ReceiveForConversation, TypeOK, DeliveryRows
<1>2. delivery' = [delivery EXCEPT ![d] = row]
  BY <1>1 DEF ReceiveForConversation, DeliveryRows
<1>3. step \in {"duplicate", "store"} /\ "workflow" \in Kinds
  BY DEF ReceiveForConversation
<1> HIDE DEF step
<1>4. /\ row \in DeliveryRows /\ row.step = step /\ row.kind = "workflow" /\ row.msg = m
      /\ row.result = delivery[d].result /\ row.log = delivery[d].log /\ row.conv = c
  BY <1>1, <1>3 DEF DeliveryRows, Steps
<1> HIDE DEF row
<1>5. Only(d) /\ delivery'[d] = row
  BY <1>1, <1>2, <1>4, Replaced
<1>6. delivery[d].result = None /\ delivery[d].msg = None /\ delivery[d].log # "processed"
  BY <1>1 DEF Knows
<1>7. Moves(d) /\ StaysUncertain(d)
  BY <1>1, <1>3, <1>4, <1>5, <1>6 DEF Moves, StaysUncertain, Uncertain, AfterStore, EndSteps, Outcomes
<1>8. Knows(d)'
  BY <1>3, <1>4, <1>5, <1>6 DEF Knows, EndSteps, OnItsRow, Outcomes
<1>9. FoundItsSenders(d)'
  <2>1. convs'[c].contact = From[m] /\ convs'[c].status # "none"
    BY StatusesApart DEF ReceiveForConversation
  <2>2. QED
    BY <1>4, <1>5, <2>1 DEF FoundItsSenders
<1>10. HasStored(d)'
  BY <1>3, <1>4, <1>5, <1>6 DEF HasStored, OnItsRow, Decisions, Outcomes
<1>11. TablesUnchanged /\ notices' = notices /\ ops' = ops
  BY DEF ReceiveForConversation, TablesUnchanged
<1>12. QED
  BY <1>1, <1>5, <1>7, <1>8, <1>9, <1>10, <1>11 DEF Proceeds, Local, TypeOK

\* The conversations that a look-up of the open ones finds are their contact's.
LEMMA OpenIsExisting ==
    ASSUME NEW contact, NEW c \in OpenOf(contact)
    PROVE  c \in ConvIds /\ Exists(convs[c]) /\ convs[c].contact = contact /\ convs[c].status # "none"
BY StatusesApart DEF OpenOf, Open, Exists, Statuses

\* A look-up finds a conversation and the next step is taken.
LEMMA FoundProceeds ==
    ASSUME IInv, NEW d \in Deliveries, NEW c \in ConvIds, NEW seen \in Rows,
           NEW step \in {"duplicate", "commit", "store"},
           delivery' = [delivery EXCEPT ![d].conv = c, ![d].seen = seen, ![d].step = step],
           delivery[d].step \notin {"idle"} \cup AfterStore,
           step = "duplicate" => delivery[d].kind # "n8n",
           delivery[d].kind = "evolution" => Exists(seen),
           convs[c].contact = From[delivery[d].msg] /\ convs[c].status # "none",
           TablesUnchanged, notices' = notices, ops' = ops
    PROVE  Proceeds(d)
<1> USE NoneIsNoName DEF Names
<1> DEFINE row == [delivery[d] EXCEPT !.conv = c, !.seen = seen, !.step = step]
<1>1. TypeOK /\ delivery[d] \in DeliveryRows /\ Knows(d) /\ delivery \in [Deliveries -> DeliveryRows]
  BY Before DEF TypeOK, DeliveryRows
<1>2. delivery' = [delivery EXCEPT ![d] = row]
  BY <1>1 DEF DeliveryRows
<1>3. /\ row \in DeliveryRows /\ row.step = step /\ row.kind = delivery[d].kind
      /\ row.msg = delivery[d].msg /\ row.result = delivery[d].result
      /\ row.log = delivery[d].log /\ row.conv = c /\ row.seen = seen
  BY <1>1 DEF DeliveryRows, Steps
<1> HIDE DEF row
<1>4. Only(d) /\ delivery'[d] = row
  BY <1>1, <1>2, <1>3, Replaced
<1>5. Knows(d)'
  BY <1>1, <1>3, <1>4 DEF Knows, EndSteps, OnItsRow, AfterStore
<1>6. FoundItsSenders(d)'
  BY <1>3, <1>4 DEF FoundItsSenders, TablesUnchanged
<1>7. QED
  BY <1>3, <1>4, <1>5, <1>6, OnwardProceeds DEF SameRequest

\* A look-up finds none, or the conversation of a delivery stays as it is.
LEMMA NextProceeds ==
    ASSUME IInv, NEW d \in Deliveries,
           NEW step \in {"new_conversation", "tx", "commit", "store"},
           NEW result \in {None, delivery[d].result},
           \/ Goto(d, step, result) /\ step \in {"new_conversation", "commit"}
           \/ delivery' = [delivery EXCEPT ![d].step = step],
           delivery[d].step \notin {"idle"} \cup AfterStore,
           step = "new_conversation" => delivery[d].kind = "evolution",
           step \in {"new_conversation", "tx"} => delivery[d].conv = None,
           step = "store" => delivery[d].conv # None /\ delivery[d].step = "duplicate",
           TablesUnchanged, notices' = notices, ops' = ops
    PROVE  Proceeds(d)
<1> USE NoneIsNoName DEF Names
<1>1. /\ TypeOK /\ delivery[d] \in DeliveryRows /\ Knows(d) /\ FoundItsSenders(d)
      /\ delivery \in [Deliveries -> DeliveryRows]
  BY Before DEF TypeOK, DeliveryRows
<1>2. step \in Steps /\ result \in Results
  BY <1>1 DEF Steps, Results, DeliveryRows
<1>3. /\ Only(d) /\ SameRequest(d) /\ delivery'[d].step = step
      /\ delivery'[d].result \in {None, delivery[d].result}
      /\ delivery'[d].conv = delivery[d].conv
      /\ step = "store" => delivery'[d].seen = delivery[d].seen
  <2>1. CASE Goto(d, step, result) /\ step \in {"new_conversation", "commit"}
    BY <1>1, <1>2, <2>1, GotoEffect
  <2>2. CASE delivery' = [delivery EXCEPT ![d].step = step]
    <3> DEFINE row == [delivery[d] EXCEPT !.step = step]
    <3>1. delivery' = [delivery EXCEPT ![d] = row]
      BY <1>1, <2>2 DEF DeliveryRows
    <3>2. /\ row \in DeliveryRows /\ row.step = step /\ row.kind = delivery[d].kind
          /\ row.msg = delivery[d].msg /\ row.result = delivery[d].result
          /\ row.log = delivery[d].log /\ row.conv = delivery[d].conv
          /\ row.seen = delivery[d].seen
      BY <1>1, <1>2 DEF DeliveryRows
    <3> HIDE DEF row
    <3>3. Only(d) /\ delivery'[d] = row
      BY <1>1, <3>1, <3>2, Replaced
    <3>4. QED
      BY <3>2, <3>3 DEF SameRequest
  <2>3. QED
    BY <2>1, <2>2
<1>4. Knows(d)'
  BY <1>1, <1>3 DEF Knows, EndSteps, OnItsRow, AfterStore, SameRequest, Outcomes
<1>5. FoundItsSenders(d)'
  BY <1>1, <1>3 DEF FoundItsSenders, TablesUnchanged, SameRequest
<1>6. QED
  BY <1>3, <1>4, <1>5, OnwardProceeds

LEMMA FindConversationStep ==
    ASSUME IInv, NEW d \in Deliveries, FindConversation(d)
    PROVE  Proceeds(d)
<1> DEFINE step == IF delivery[d].msg \in Identified THEN "duplicate" ELSE "store"
<1>1. /\ delivery[d].step = "conversation" /\ Knows(d) /\ TypeOK
      /\ delivery[d].step \notin {"idle"} \cup AfterStore
  BY Before DEF FindConversation, AfterStore, EndSteps
<1>2. TablesUnchanged /\ notices' = notices /\ ops' = ops
  BY DEF FindConversation, TablesUnchanged
<1>3. delivery[d].kind = "evolution" /\ delivery[d].conv = None
  BY <1>1 DEF Knows
<1>4. CASE Goto(d, "new_conversation", None)
  BY <1>1, <1>2, <1>3, <1>4, NextProceeds
<1>5. ASSUME NEW c \in OpenOf(From[delivery[d].msg]),
             delivery' = [delivery EXCEPT ![d].conv = c, ![d].seen = convs[c], ![d].step = step]
      PROVE  Proceeds(d)
  <2>1. step \in {"duplicate", "commit", "store"}
    OBVIOUS
  <2>2. c \in ConvIds /\ convs[c].contact = From[delivery[d].msg] /\ convs[c].status # "none"
    BY OpenIsExisting
  <2>3. convs[c] \in Rows /\ Exists(convs[c])
    BY <1>1, <2>2, OpenIsExisting DEF TypeOK
  <2> HIDE DEF step
  <2>4. QED
    BY <1>1, <1>2, <1>3, <1>5, <2>1, <2>2, <2>3, FoundProceeds
<1>6. QED
  BY <1>4, <1>5 DEF FindConversation

LEMMA BeginTransactionStep ==
    ASSUME IInv, NEW d \in Deliveries, BeginTransaction(d)
    PROVE  Proceeds(d)
<1>1. /\ delivery[d].step = "tx" /\ TypeOK
      /\ delivery[d].step \notin {"idle"} \cup AfterStore
  BY Before DEF BeginTransaction, AfterStore, EndSteps
<1>2. TablesUnchanged /\ notices' = notices /\ ops' = ops
  BY DEF BeginTransaction, TablesUnchanged
<1>3. CASE Goto(d, "commit", None)
  BY <1>1, <1>2, <1>3, NextProceeds
<1>4. ASSUME NEW c \in OpenOf(From[delivery[d].msg]),
             delivery' = [delivery EXCEPT ![d].conv = c, ![d].seen = convs[c], ![d].step = "commit"]
      PROVE  Proceeds(d)
  <2>1. c \in ConvIds /\ convs[c].contact = From[delivery[d].msg] /\ convs[c].status # "none"
    BY OpenIsExisting
  <2>2. convs[c] \in Rows /\ Exists(convs[c])
    BY <1>1, <2>1, OpenIsExisting DEF TypeOK
  <2>3. QED
    BY <1>1, <1>2, <1>4, <2>1, <2>2, FoundProceeds
<1>5. QED
  BY <1>3, <1>4 DEF BeginTransaction

\* The rows with the identifier of a message are rows of that message.
LEMMA RowWithId ==
    ASSUME IInv, NEW m, NEW row \in RowsWithId(m)
    PROVE  /\ row \in Stored /\ row.msg = m /\ row.conv \in ConvIds
           /\ convs[row.conv].contact = From[m] /\ convs[row.conv].status # "none"
<1>1. row \in messages /\ row.msg = m
  BY DEF RowsWithId
<1>2. row \in Stored /\ row.conv \in ConvIds
  BY <1>1 DEF Stored, IInv, TypeOK
<1>3. convs[row.conv].contact = From[m] /\ Exists(convs[row.conv])
  BY <1>1 DEF IInv, MessageInSendersConversation
<1>4. QED
  BY <1>1, <1>2, <1>3, StatusesApart

\* A request that finds its message stored ends with success.
LEMMA DuplicateProceeds ==
    ASSUME IInv, NEW d \in Deliveries, Goto(d, SuccessStep(d), "duplicate"),
           RowsWithId(delivery[d].msg) # {}, TablesUnchanged, notices' = notices, ops' = ops,
           delivery[d].step \notin {"idle"} \cup AfterStore
    PROVE  Proceeds(d)
<1>1. PICK row \in RowsWithId(delivery[d].msg) : TRUE
  OBVIOUS
<1>2. row \in Stored /\ row.msg = delivery[d].msg
  BY <1>1, RowWithId
<1>3. Knows(d) /\ TypeOK
  BY Before
<1>4. ~Uncertain(d) /\ delivery[d].step \notin {"idle"} \cup EndSteps
  BY <1>3 DEF Uncertain, Knows, AfterStore, EndSteps
<1>5. SuccessStep(d) \in {"mark", "fail", "done"} /\ "duplicate" \in Outcomes /\ "duplicate" \notin Decisions
  BY DEF SuccessStep, Outcomes, Decisions
<1>6. notices' \in [ConvIds -> Nat]
  BY <1>3 DEF TypeOK
<1>7. QED
  BY <1>2, <1>4, <1>5, <1>6, EndProceeds

\* A request that fails.
LEMMA ErrorProceeds ==
    ASSUME IInv, NEW d \in Deliveries, NEW step \in {"fail", "done"}, Goto(d, step, "error"),
           TablesUnchanged, notices' \in [ConvIds -> Nat], ops' = ops,
           delivery[d].step \notin {"idle"} \cup EndSteps
    PROVE  Proceeds(d)
<1>1. "error" \in Outcomes /\ "error" \notin Decisions
  BY DEF Outcomes, Decisions
<1>2. QED
  BY <1>1, EndProceeds

LEMMA FindDuplicateStep ==
    ASSUME IInv, NEW d \in Deliveries, FindDuplicate(d)
    PROVE  Proceeds(d)
<1> DEFINE step == IF delivery[d].kind = "n8n" THEN "tx" ELSE "store"
<1>1. /\ delivery[d].step = "duplicate" /\ Knows(d)
      /\ delivery[d].step \notin {"idle"} \cup AfterStore
  BY Before DEF FindDuplicate, AfterStore, EndSteps
<1>2. TablesUnchanged /\ notices' = notices /\ ops' = ops
  BY DEF FindDuplicate, TablesUnchanged
<1>3. CASE RowsWithId(delivery[d].msg) # {}
  BY <1>1, <1>2, <1>3, DuplicateProceeds DEF FindDuplicate
<1>4. CASE RowsWithId(delivery[d].msg) = {}
  <2>1. delivery' = [delivery EXCEPT ![d].step = step]
    BY <1>4 DEF FindDuplicate
  <2>2. /\ step \in {"tx", "store"} /\ (step = "tx" => delivery[d].conv = None)
        /\ (step = "store" => delivery[d].conv # None)
    BY <1>1 DEF Knows
  <2> HIDE DEF step
  <2>3. QED
    BY <1>1, <1>2, <2>1, <2>2, NextProceeds
<1>5. QED
  BY <1>3, <1>4

LEMMA findInboundDuplicateStep ==
    ASSUME IInv, NEW d \in Deliveries, findInboundDuplicate(d)
    PROVE  Proceeds(d)
<1>1. /\ delivery[d].step = "events" /\ Knows(d) /\ TypeOK /\ delivery[d] \in DeliveryRows
      /\ delivery[d].step \notin {"idle"} \cup AfterStore
  BY Before DEF findInboundDuplicate, AfterStore, EndSteps
<1>2. TablesUnchanged /\ notices' = notices /\ ops' = ops
  BY DEF findInboundDuplicate, TablesUnchanged
<1>3. delivery[d].kind = "workflow" /\ delivery[d].conv = None
  BY <1>1 DEF Knows
<1>4. CASE delivery' = [delivery EXCEPT ![d].step = "tx"]
  BY <1>1, <1>2, <1>3, <1>4, NextProceeds
<1>5. ASSUME NEW row \in RowsWithId(delivery[d].msg),
             delivery' = [delivery EXCEPT ![d].conv = row.conv, ![d].step = "duplicate"]
      PROVE  Proceeds(d)
  <2>1. /\ row.conv \in ConvIds
        /\ convs[row.conv].contact = From[delivery[d].msg] /\ convs[row.conv].status # "none"
    BY RowWithId
  <2> DEFINE seen == delivery[d].seen
  <2>2. seen \in Rows
    BY <1>1 DEF DeliveryRows
  <2>3. delivery' = [delivery EXCEPT ![d].conv = row.conv, ![d].seen = seen, ![d].step = "duplicate"]
    BY <1>1, <1>5 DEF DeliveryRows, TypeOK
  <2> HIDE DEF seen
  <2>4. QED
    BY <1>1, <1>2, <1>3, <2>1, <2>2, <2>3, FoundProceeds
<1>6. QED
  BY <1>4, <1>5 DEF findInboundDuplicate

\* A delivery that goes on with the row it has stored.
LEMMA RowKeptProceeds ==
    ASSUME IInv, NEW d \in Deliveries, Only(d), SameRequest(d),
           TablesUnchanged, notices' = notices, ops' = ops,
           delivery[d].step \in {"ai", "notice_find"},
           delivery'[d].step \in {"notice_find", "notice_create"},
           delivery'[d].result \in {"blocked", "handoff"}, delivery'[d].conv = delivery[d].conv
    PROVE  Proceeds(d)
<1> USE NoneIsNoName DEF Names
<1>1. /\ TypeOK /\ Knows(d) /\ FoundItsSenders(d) /\ HasStored(d) /\ Stored' = Stored
  BY Before DEF TablesUnchanged, Stored
<1>2. delivery[d].result # "error" /\ delivery[d].log # "processed"
  BY <1>1 DEF Knows, EndSteps
<1>3. Moves(d) /\ StaysUncertain(d)
  BY <1>2 DEF Moves, SameRequest, StaysUncertain, Uncertain, AfterStore
<1>4. Knows(d)'
  BY <1>1, <1>2 DEF Knows, SameRequest, EndSteps, OnItsRow, Decisions
<1>5. FoundItsSenders(d)'
  BY <1>1 DEF FoundItsSenders, TablesUnchanged, SameRequest
<1>6. [by |-> d, msg |-> delivery[d].msg, conv |-> delivery[d].conv] \in Stored
  BY <1>1 DEF HasStored, OnItsRow
<1>7. HasStored(d)'
  BY <1>1, <1>2, <1>6 DEF HasStored, SameRequest, OnItsRow
<1>8. QED
  BY <1>1, <1>3, <1>4, <1>5, <1>7 DEF Proceeds, Local, TypeOK

\* The row of a delivery that has stored its message.
LEMMA ItsRow ==
    ASSUME IInv, NEW d \in Deliveries, delivery[d].step \in OnItsRow
    PROVE  \E row \in Stored : row.by = d /\ row.msg = delivery[d].msg
<1>1. [by |-> d, msg |-> delivery[d].msg, conv |-> delivery[d].conv] \in Stored
  BY Before DEF HasStored
<1>2. QED
  BY <1>1

LEMMA DecideReplyStep ==
    ASSUME IInv, NEW d \in Deliveries, DecideReply(d)
    PROVE  Proceeds(d)
<1>1. delivery[d].step = "ai" /\ TablesUnchanged /\ notices' = notices /\ ops' = ops
  BY DEF DecideReply, TablesUnchanged
<1>2. TypeOK /\ Knows(d)
  BY Before
<1>3. PICK decision \in {"reply", "handoff", "no_reply"} :
          Goto(d, IF decision = "handoff" THEN "notice_find" ELSE "mark", decision)
  BY DEF DecideReply
<1>4. decision \in Decisions /\ decision \in Outcomes /\ decision \in Results
  BY DEF Decisions, Outcomes, Results
<1>5. CASE decision = "handoff"
  <2>1. Goto(d, "notice_find", decision) /\ "notice_find" \in Steps
    BY <1>3, <1>5 DEF Steps
  <2>2. /\ Only(d) /\ SameRequest(d) /\ delivery'[d].step = "notice_find"
        /\ delivery'[d].result = decision /\ delivery'[d].conv = delivery[d].conv
    BY <1>2, <1>4, <2>1, GotoEffect
  <2>3. QED
    BY <1>1, <1>5, <2>2, RowKeptProceeds
<1>6. CASE decision # "handoff"
  <2>1. Goto(d, "mark", decision)
    BY <1>3, <1>6
  <2>2. \E row \in Stored : row.by = d /\ row.msg = delivery[d].msg
    BY <1>1, ItsRow DEF OnItsRow
  <2>3. ~Uncertain(d) /\ decision # "error"
    BY <1>1, <1>2 DEF Uncertain, Knows, EndSteps
  <2>4. notices' \in [ConvIds -> Nat]
    BY <1>1, <1>2 DEF TypeOK
  <2>5. QED
    BY <1>1, <1>4, <2>1, <2>2, <2>3, <2>4, EndProceeds DEF EndSteps
<1>7. QED
  BY <1>5, <1>6

\* At the notification the delivery has blocked or handed off an answer.
LEMMA NotifiedResult ==
    ASSUME IInv, NEW d \in Deliveries, delivery[d].step \in {"notice_find", "notice_create"}
    PROVE  /\ delivery[d].result \in {"blocked", "handoff"} /\ ~Uncertain(d)
           /\ delivery[d].conv \in ConvIds
<1>1. Knows(d) /\ delivery[d] \in DeliveryRows
  BY Before
<1>2. QED
  BY <1>1 DEF Knows, OnItsRow, Uncertain, EndSteps, DeliveryRows

\* ... and when it goes on, its event is marked processed.
LEMMA NotifiedProceeds ==
    ASSUME IInv, NEW d \in Deliveries, delivery[d].step \in {"notice_find", "notice_create"},
           Goto(d, "mark", delivery[d].result),
           TablesUnchanged, notices' \in [ConvIds -> Nat], ops' = ops
    PROVE  Proceeds(d)
<1>1. delivery[d].result \in {"blocked", "handoff"} /\ ~Uncertain(d)
  BY NotifiedResult
<1>2. delivery[d].result \in Outcomes /\ delivery[d].result \in Decisions
  BY <1>1 DEF Outcomes, Decisions
<1>3. \E row \in Stored : row.by = d /\ row.msg = delivery[d].msg
  BY ItsRow DEF OnItsRow
<1>4. QED
  BY <1>1, <1>2, <1>3, EndProceeds DEF EndSteps

LEMMA FindNoticeStep ==
    ASSUME IInv, NEW d \in Deliveries, FindNotice(d)
    PROVE  Proceeds(d)
<1> DEFINE row == [delivery[d] EXCEPT !.step = "notice_create"]
<1>1. delivery[d].step = "notice_find" /\ TablesUnchanged /\ notices' = notices /\ ops' = ops
  BY DEF FindNotice, TablesUnchanged
<1>2. TypeOK /\ delivery[d] \in DeliveryRows /\ delivery[d].result \in {"blocked", "handoff"}
  BY <1>1, Before, NotifiedResult
<1>3. CASE Goto(d, "mark", delivery[d].result)
  BY <1>1, <1>2, <1>3, NotifiedProceeds DEF TypeOK
<1>4. CASE delivery' = [delivery EXCEPT ![d].step = "notice_create"]
  <2>1. delivery' = [delivery EXCEPT ![d] = row]
    BY <1>2, <1>4 DEF TypeOK
  <2>2. /\ row \in DeliveryRows /\ row.step = "notice_create" /\ row.kind = delivery[d].kind
        /\ row.msg = delivery[d].msg /\ row.result = delivery[d].result
        /\ row.log = delivery[d].log /\ row.conv = delivery[d].conv
    BY <1>2 DEF DeliveryRows, Steps
  <2> HIDE DEF row
  <2>3. Only(d) /\ delivery'[d] = row
    BY <1>2, <2>1, <2>2, Replaced
  <2>4. QED
    BY <1>1, <1>2, <2>2, <2>3, RowKeptProceeds DEF SameRequest
<1>5. QED
  BY <1>3, <1>4 DEF FindNotice

LEMMA CreateNoticeStep ==
    ASSUME IInv, NEW d \in Deliveries, CreateNotice(d)
    PROVE  Proceeds(d)
<1>1. delivery[d].step = "notice_create" /\ TablesUnchanged /\ ops' = ops
  BY DEF CreateNotice, TablesUnchanged
<1>2. notices \in [ConvIds -> Nat] /\ delivery[d].conv \in ConvIds
  BY <1>1, Before, NotifiedResult DEF TypeOK
<1>3. notices' \in [ConvIds -> Nat]
  BY <1>2 DEF CreateNotice
<1>4. CASE Goto(d, "fail", "error")
  BY <1>1, <1>3, <1>4, ErrorProceeds DEF EndSteps
<1>5. CASE Goto(d, "mark", delivery[d].result)
  BY <1>1, <1>3, <1>5, NotifiedProceeds
<1>6. QED
  BY <1>4, <1>5 DEF CreateNotice

\* The event is marked, or the server stops: the delivery ends.
LEMMA LastProceeds ==
    ASSUME IInv, NEW d \in Deliveries, NEW step \in EndSteps, NEW log \in Logs,
           NEW result \in {None, delivery[d].result},
           delivery' = [delivery EXCEPT ![d].step = step, ![d].result = result, ![d].conv = None,
                                        ![d].seen = NoRow, ![d].log = log]
           \/ (step = "done" /\ result = delivery[d].result
               /\ delivery' = [delivery EXCEPT ![d].step = step, ![d].log = log]),
           TablesUnchanged, notices' = notices, ops' = ops,
           delivery[d].step \notin {"idle"} \cup EndSteps,
           Uncertain(d) => step = "crashed" \/ result = "error",
           log = "processed" => delivery[d].step = "mark" /\ step = "done" /\ result = delivery[d].result,
           delivery[d].step \in {"mark", "fail"} \/ step = "crashed"
    PROVE  Proceeds(d)
<1> USE NoneIsNoName DEF Names
<1>1. /\ TypeOK /\ delivery[d] \in DeliveryRows /\ Knows(d) /\ HasStored(d)
      /\ delivery \in [Deliveries -> DeliveryRows] /\ Stored' = Stored
  BY Before DEF TypeOK, DeliveryRows, TablesUnchanged, Stored
<1>2. PICK row \in DeliveryRows :
        /\ delivery' = [delivery EXCEPT ![d] = row]
        /\ row.step = step /\ row.kind = delivery[d].kind /\ row.msg = delivery[d].msg
        /\ row.result = result /\ row.log = log /\ row.conv = None
  <2>1. step \in Steps /\ result \in Results
    BY <1>1 DEF Steps, Results, DeliveryRows
  <2>2. CASE delivery' = [delivery EXCEPT ![d].step = step, ![d].result = result, ![d].conv = None,
                                        ![d].seen = NoRow, ![d].log = log]
    <3> DEFINE row == [delivery[d] EXCEPT !.step = step, !.result = result, !.conv = None,
                                          !.seen = NoRow, !.log = log]
    <3>1. delivery' = [delivery EXCEPT ![d] = row]
      BY <1>1, <2>2 DEF DeliveryRows
    <3>2. /\ row \in DeliveryRows
          /\ row.step = step /\ row.kind = delivery[d].kind /\ row.msg = delivery[d].msg
          /\ row.result = result /\ row.log = log /\ row.conv = None
      BY <1>1, <2>1, NoRowTyped DEF DeliveryRows
    <3> HIDE DEF row
    <3>3. QED
      BY <3>1, <3>2
  <2>3. CASE /\ step = "done" /\ result = delivery[d].result
             /\ delivery' = [delivery EXCEPT ![d].step = step, ![d].log = log]
    <3> DEFINE row == [delivery[d] EXCEPT !.step = step, !.log = log]
    <3>1. delivery' = [delivery EXCEPT ![d] = row]
      BY <1>1, <2>3 DEF DeliveryRows
    <3>2. delivery[d].conv = None
      BY <1>1, <2>3 DEF Knows
    <3>3. /\ row \in DeliveryRows
          /\ row.step = step /\ row.kind = delivery[d].kind /\ row.msg = delivery[d].msg
          /\ row.result = result /\ row.log = log /\ row.conv = None
      BY <1>1, <2>1, <2>3, <3>2 DEF DeliveryRows
    <3> HIDE DEF row
    <3>4. QED
      BY <3>1, <3>3
  <2>4. QED
    BY <2>2, <2>3
<1>3. Only(d) /\ delivery'[d] = row
  BY <1>1, <1>2, Replaced
<1>4. step \in AfterStore /\ step \notin {"count", "idle", "mark", "fail"}
  BY DEF AfterStore, EndSteps
<1>5. Moves(d)
  BY <1>2, <1>3, <1>4 DEF Moves
<1>6. StaysUncertain(d)
  BY <1>2, <1>3, <1>4 DEF StaysUncertain, Uncertain
<1>7. Knows(d)'
  BY <1>1, <1>2, <1>3, <1>4 DEF Knows, EndSteps, OnItsRow
<1>8. FoundItsSenders(d)'
  BY <1>2, <1>3 DEF FoundItsSenders
<1>9. HasStored(d)'
  <2>1. None \notin Decisions
    BY DEF Outcomes
  <2>2. step \notin OnItsRow
    BY DEF EndSteps, OnItsRow
  <2>3. QED
    BY <1>1, <1>2, <1>3, <1>4, <2>1, <2>2 DEF HasStored
<1>10. QED
  BY <1>1, <1>3, <1>5, <1>6, <1>7, <1>8, <1>9 DEF Proceeds, Local, TypeOK

LEMMA markProcessedStep ==
    ASSUME IInv, NEW d \in Deliveries, markProcessed(d)
    PROVE  Proceeds(d)
<1>1. delivery[d].step = "mark" /\ TablesUnchanged /\ notices' = notices /\ ops' = ops
  BY DEF markProcessed, TablesUnchanged
<1>2. ~Uncertain(d)
  BY <1>1, Before DEF Uncertain, Knows, EndSteps
<1>3. "done" \in EndSteps /\ "processed" \in Logs
  BY DEF EndSteps, Logs
<1>4. QED
  BY <1>1, <1>2, <1>3, LastProceeds DEF markProcessed, EndSteps

LEMMA markFailedStep ==
    ASSUME IInv, NEW d \in Deliveries, markFailed(d)
    PROVE  Proceeds(d)
<1>1. delivery[d].step = "fail" /\ TablesUnchanged /\ notices' = notices /\ ops' = ops
  BY DEF markFailed, TablesUnchanged
<1>2. Uncertain(d) => delivery[d].result = "error"
  BY <1>1 DEF Uncertain
<1>3. "done" \in EndSteps /\ "failed" \in Logs
  BY DEF EndSteps, Logs
<1>4. QED
  BY <1>1, <1>2, <1>3, LastProceeds DEF markFailed, EndSteps

LEMMA CrashStep ==
    ASSUME IInv, NEW d \in Deliveries, Crash(d)
    PROVE  Proceeds(d)
<1> DEFINE log == delivery[d].log
<1>1. /\ delivery[d].step \notin {"idle"} \cup EndSteps
      /\ TablesUnchanged /\ notices' = notices /\ ops' = ops
  BY DEF Crash, TablesUnchanged
<1>2. TypeOK /\ delivery[d] \in DeliveryRows /\ Knows(d)
  BY Before
<1>3. log \in Logs /\ log # "processed"
  BY <1>1, <1>2 DEF DeliveryRows, Knows, EndSteps
<1>4. delivery' = [delivery EXCEPT ![d].step = "crashed", ![d].result = None, ![d].conv = None,
                                   ![d].seen = NoRow, ![d].log = log]
  <2> DEFINE q == delivery[d]
             row == [q EXCEPT !.step = "crashed", !.result = None, !.conv = None, !.seen = NoRow]
  <2>1. delivery' = [delivery EXCEPT ![d] = row]
    BY DEF Crash
  <2>2. row = [q EXCEPT !.step = "crashed", !.result = None, !.conv = None, !.seen = NoRow,
                        !.log = q.log]
    BY <1>2 DEF DeliveryRows
  <2>3. QED
    BY <2>1, <2>2
<1>5. "crashed" \in EndSteps
  BY DEF EndSteps
<1> HIDE DEF log
<1>6. QED
  BY <1>1, <1>3, <1>4, <1>5, LastProceeds

LEMMA ThrowStep ==
    ASSUME IInv, NEW d \in Deliveries, Throw(d)
    PROVE  Proceeds(d)
<1> DEFINE step == IF delivery[d].step = "fail" THEN "done" ELSE ErrorStep(d)
<1>1. /\ delivery[d].step \notin {"idle"} \cup EndSteps
      /\ Goto(d, step, "error") /\ TablesUnchanged /\ notices' = notices /\ ops' = ops
  BY DEF Throw, TablesUnchanged
<1>2. step \in {"fail", "done"}
  BY DEF ErrorStep
<1>3. notices' \in [ConvIds -> Nat]
  BY <1>1, Before DEF TypeOK
<1> HIDE DEF step
<1>4. QED
  BY <1>1, <1>2, <1>3, ErrorProceeds

-----------------------------------------------------------------------------
(* Steps that write the tables *)

\* One conversation row is written.
LEMMA OneRowWritten ==
    ASSUME IInv, NEW c \in ConvIds, NEW row \in Rows, convs' = [convs EXCEPT ![c] = row]
    PROVE  /\ convs' \in [ConvIds -> Rows] /\ convs'[c] = row
           /\ \A e \in ConvIds : e # c => Updated(e) /\ CounterKept(e) /\ convs'[e] = convs[e]
<1>1. convs \in [ConvIds -> Rows]
  BY DEF IInv, TypeOK
<1>2. convs' \in [ConvIds -> Rows] /\ convs'[c] = row
  BY <1>1
<1>3. ASSUME NEW e \in ConvIds, e # c
      PROVE  Updated(e) /\ CounterKept(e) /\ convs'[e] = convs[e]
  <2>1. convs'[e] = convs[e]
    BY <1>1, <1>3
  <2>2. QED
    BY <2>1, StatusesApart DEF Updated, CounterKept, CounterWas
<1>4. QED
  BY <1>2, <1>3

\* A step of a delivery that writes the tables.
LEMMA WritingStep ==
    ASSUME IInv, TypeOK', NEW d \in Deliveries, Only(d), ConvsMove, Stored \subseteq Stored',
           NothingStored \/ \E row : Stores(row), Moves(d), Local(d)', CounterBounds'
    PROVE  IInv'
<1>1. \A e \in Deliveries : Moves(e) /\ Local(e)'
  <2> TAKE e \in Deliveries
  <2>1. CASE e = d
    BY <2>1
  <2>2. CASE e # d
    <3>1. delivery'[e] = delivery[e]
      BY <2>2 DEF Only
    <3>2. QED
      BY <3>1, UnmovedDelivery, OthersKeepLocal
  <2>3. QED
    BY <2>1, <2>2
<1>2. /\ FreshIsEmpty' /\ MessageInSendersConversation' /\ RowsOfDeliveries'
      /\ UniqueIds' /\ IsFiniteSet(Stored)' /\ WindowFromCustomer'
  BY <1>1, TablesKept
<1>3. QED
  BY <1>1, <1>2 DEF IInv

\* The same, when it stores and counts nothing.
LEMMA ConversationStep ==
    ASSUME IInv, TypeOK', NEW d \in Deliveries, Only(d), NEW c \in ConvIds, NEW row \in Rows,
           convs' = [convs EXCEPT ![c] = row], UNCHANGED <<messages, deleted>>,
           Updated(c) \/ Created(c) \/ Removed(c), CounterKept(c),
           Moves(d), StaysUncertain(d), Local(d)'
    PROVE  IInv'
<1>1. NothingStored /\ Stored \subseteq Stored'
  BY DEF NothingStored, Stored
<1>2. \A e \in ConvIds : CounterKept(e) /\ (Updated(e) \/ Created(e) \/ Removed(e))
  BY OneRowWritten
<1>3. \A e \in Deliveries : StaysUncertain(e)
  BY UnmovedDelivery DEF Only
<1>4. CounterBounds'
  BY <1>1, <1>2, <1>3, CountersKept
<1>5. QED
  BY <1>1, <1>2, <1>4, WritingStep DEF ConvsMove

\* The window that a delivery opens is justified by its message.
LEMMA WindowJustified ==
    ASSUME NEW d \in Deliveries, NEW c \in ConvIds, delivery'[d].msg # None,
           convs'[c].contact = From[delivery'[d].msg],
           convs'[c].lastCustomerMessageAt = EventAt[delivery'[d].msg]
    PROVE  Justified(c)'
BY DEF Justified

LEMMA NewRowTyped ==
    ASSUME NEW m \in Messages
    PROVE  /\ NewRow(From[m], EventAt[m]) \in Rows /\ Exists(NewRow(From[m], EventAt[m]))
           /\ NewRow(From[m], EventAt[m]).contact = From[m]
           /\ NewRow(From[m], EventAt[m]).unreadCount = 0
           /\ NewRow(From[m], EventAt[m]).lastCustomerMessageAt = EventAt[m]
<1>1. From[m] \in Contacts /\ EventAt[m] \in Nat
  BY InboundAssumption
<1>2. QED
  BY <1>1 DEF NewRow, Rows, Exists, Statuses, OpenStatuses

LEMMA CreateConversationStep ==
    ASSUME IInv, NEW d \in Deliveries, CreateConversation(d)
    PROVE  IInv'
<1> USE NoneIsNoName DEF Names
<1> DEFINE m == delivery[d].msg
           row == NewRow(From[m], EventAt[m])
           step == IF m \in Identified THEN "duplicate" ELSE "store"
<1>1. /\ delivery[d].step = "new_conversation" /\ TypeOK /\ Knows(d) /\ HasStored(d)
      /\ delivery[d] \in DeliveryRows /\ delivery \in [Deliveries -> DeliveryRows]
  BY Before DEF CreateConversation, TypeOK, DeliveryRows
<1>2. PICK c \in Fresh :
         /\ convs' = [convs EXCEPT ![c] = row]
         /\ delivery' = [delivery EXCEPT ![d].conv = c, ![d].seen = row, ![d].step = step]
  BY DEF CreateConversation
<1>3. UNCHANGED <<messages, deleted, notices, ops>>
  BY DEF CreateConversation
<1>4. m \in Messages /\ delivery[d].kind = "evolution"
  BY <1>1 DEF Knows
<1>5. /\ row \in Rows /\ Exists(row) /\ row.contact = From[m] /\ row.unreadCount = 0
      /\ row.lastCustomerMessageAt = EventAt[m]
  BY <1>4, NewRowTyped
<1>6. step \in {"duplicate", "store"}
  OBVIOUS
<1>7. c \in ConvIds /\ convs[c].status = "none" /\ ~Exists(convs[c])
  BY StatusesApart DEF Fresh
<1> HIDE DEF row, step
<1> DEFINE next == [delivery[d] EXCEPT !.conv = c, !.seen = row, !.step = step]
<1>8. delivery' = [delivery EXCEPT ![d] = next]
  BY <1>1, <1>2 DEF DeliveryRows
<1>9. /\ next \in DeliveryRows /\ next.step = step /\ next.kind = delivery[d].kind
      /\ next.msg = m /\ next.result = delivery[d].result
      /\ next.log = delivery[d].log /\ next.conv = c /\ next.seen = row
  BY <1>1, <1>5, <1>6, <1>7 DEF DeliveryRows, Steps
<1> HIDE DEF next
<1>10. Only(d) /\ delivery'[d] = next
  BY <1>1, <1>8, <1>9, Replaced
<1>11. convs' \in [ConvIds -> Rows] /\ convs'[c] = row
  BY <1>2, <1>5, <1>7, OneRowWritten
<1>12. TypeOK'
  BY <1>1, <1>3, <1>10, <1>11 DEF TypeOK, Only, DeliveryRows
<1>13. Moves(d) /\ StaysUncertain(d)
  BY <1>1, <1>6, <1>9, <1>10 DEF Moves, StaysUncertain, Uncertain, AfterStore, EndSteps, Knows
<1>14. Created(c) /\ CounterKept(c)
  <2>1. Justified(c)'
    BY <1>4, <1>5, <1>7, <1>9, <1>10, <1>11, WindowJustified
  <2>2. QED
    BY <1>5, <1>7, <1>11, <2>1, StatusesApart DEF Created, CounterKept, CounterWas
<1>15. Knows(d)'
  BY <1>1, <1>4, <1>5, <1>6, <1>7, <1>9, <1>10 DEF Knows, EndSteps, OnItsRow
<1>16. FoundItsSenders(d)'
  BY <1>5, <1>9, <1>10, <1>11, StatusesApart DEF FoundItsSenders
<1>17. HasStored(d)'
  BY <1>1, <1>3, <1>6, <1>9, <1>10 DEF HasStored, OnItsRow, Stored, Knows
<1>18. QED
  BY <1>2, <1>3, <1>5, <1>7, <1>10, <1>12, <1>13, <1>14, <1>15, <1>16, <1>17, ConversationStep DEF Local

LEMMA StoreMessageStep ==
    ASSUME IInv, NEW d \in Deliveries, StoreMessage(d)
    PROVE  IInv'
<1> USE NoneIsNoName DEF Names
<1> DEFINE m == delivery[d].msg
           c == delivery[d].conv
           row == [by |-> d, msg |-> m, conv |-> c]
           next == [delivery[d] EXCEPT !.step = "count"]
<1>1. /\ delivery[d].step = "store" /\ TypeOK /\ Knows(d) /\ HasStored(d) /\ FoundItsSenders(d)
      /\ delivery[d] \in DeliveryRows /\ delivery \in [Deliveries -> DeliveryRows]
      /\ delivery[d].step \notin {"idle"} \cup AfterStore
  BY Before DEF StoreMessage, TypeOK, DeliveryRows, AfterStore, EndSteps
<1>2. UNCHANGED <<deleted, convs, notices, ops>>
  BY DEF StoreMessage
<1>3. CASE ViolatesUniqueIndex(m)
  <2>1. Goto(d, SuccessStep(d), "duplicate") /\ TablesUnchanged
    BY <1>2, <1>3 DEF StoreMessage, TablesUnchanged
  <2>2. Proceeds(d)
    BY <1>1, <1>2, <1>3, <2>1, DuplicateProceeds DEF ViolatesUniqueIndex
  <2>3. QED
    BY <2>2, ProceedsKeepsInv
<1>4. CASE ~ViolatesUniqueIndex(m) /\ ~Exists(convs[c])
  <2>1. Goto(d, ErrorStep(d), "error") /\ TablesUnchanged /\ ErrorStep(d) \in {"fail", "done"}
    BY <1>2, <1>4 DEF StoreMessage, TablesUnchanged, ErrorStep
  <2>2. Proceeds(d)
    BY <1>1, <1>2, <2>1, ErrorProceeds DEF TypeOK, AfterStore
  <2>3. QED
    BY <2>2, ProceedsKeepsInv
<1>5. CASE ~ViolatesUniqueIndex(m) /\ Exists(convs[c])
  <2>1. messages' = messages \cup {row} /\ delivery' = [delivery EXCEPT ![d].step = "count"]
    BY <1>5 DEF StoreMessage
  <2>2. m \in Messages /\ c \in ConvIds /\ row \in MessageRows
    BY <1>1 DEF Knows, DeliveryRows, MessageRows
  <2>3. delivery' = [delivery EXCEPT ![d] = next]
    BY <1>1, <2>1 DEF DeliveryRows
  <2>4. /\ next \in DeliveryRows /\ next.step = "count" /\ next.kind = delivery[d].kind
        /\ next.msg = m /\ next.result = delivery[d].result
        /\ next.log = delivery[d].log /\ next.conv = c /\ next.seen = delivery[d].seen
    BY <1>1 DEF DeliveryRows, Steps
  <2> HIDE DEF next
  <2>5. Only(d) /\ delivery'[d] = next
    BY <1>1, <2>3, <2>4, Replaced
  <2>6. TypeOK'
    BY <1>1, <1>2, <2>1, <2>2, <2>5 DEF TypeOK, Only, DeliveryRows, MessageRows
  <2>7. convs[c].contact = From[m]
    BY <1>1, <1>5, <2>2, StatusesApart DEF FoundItsSenders
  <2>8. Moves(d)
    BY <1>1, <2>4, <2>5 DEF Moves, AfterStore
  <2>9. Stores(row)
    BY <1>1, <1>2, <1>5, <2>1, <2>2, <2>4, <2>5, <2>7 DEF Stores, AfterStore
  <2>10. Stored' = Stored \cup {row}
    BY <1>2, <2>1 DEF Stored
  <2>11. ConvsMove /\ \A e \in ConvIds : CounterKept(e)
    BY <1>2, UnmovedTables
  <2>12. Local(d)'
    <3>1. Knows(d)'
      BY <1>1, <2>4, <2>5 DEF Knows, EndSteps, OnItsRow
    <3>2. FoundItsSenders(d)'
      BY <1>1, <1>2, <2>4, <2>5 DEF FoundItsSenders
    <3>3. HasStored(d)'
      BY <1>1, <2>4, <2>5, <2>10 DEF HasStored, OnItsRow, Knows
    <3>4. QED
      BY <3>1, <3>2, <3>3 DEF Local
  <2>13. IsFiniteSet(Stored)'
    BY <2>10, FS_AddElement DEF IInv
  <2>14. CounterBounds'
    <3> SUFFICES ASSUME NEW e \in ConvIds, Exists(convs'[e])
                 PROVE  convs'[e].unreadCount <= Cardinality(Perhaps(e)') /\ Cardinality(Surely(e)') <= convs'[e].unreadCount
      BY DEF CounterBounds
    <3>1. \A x \in Stored : x.by \in Deliveries /\ x.by # d
      BY <1>1, Before, StoredTyped DEF MessageRows
    <3>2. \A x \in Stored : delivery'[x.by] = delivery[x.by]
      BY <2>5, <3>1 DEF Only
    <3>3. Perhaps(e) \subseteq Perhaps(e)'
      BY <2>10, <3>2 DEF Perhaps, InboundOf, Awaiting, Stored
    <3>4. Surely(e)' \subseteq Surely(e)
      <4>1. row.by = d /\ delivery'[d].step = "count"
        BY <2>4, <2>5
      <4>2. row \notin Surely(e)'
        BY <4>1 DEF Surely, Uncounted
      <4>3. QED
        BY <2>10, <3>2, <4>2 DEF Surely, InboundOf, Uncounted, Stored
    <3>5. QED
      BY <2>6, <2>11, <2>13, <3>3, <3>4, BoundsKept
  <2>15. QED
    BY <2>5, <2>6, <2>8, <2>9, <2>10, <2>11, <2>12, <2>14, WritingStep
<1>6. QED
  BY <1>3, <1>4, <1>5

LEMMA CountedRowTyped ==
    ASSUME NEW row \in Rows, NEW seenStatus \in Statuses, NEW at \in Nat, NEW new,
           new = countInbound(row, seenStatus, at) \/ (Exists(row) /\ new = touchInbound(row, at))
    PROVE  /\ new \in Rows /\ Exists(new) /\ new.contact = row.contact
           /\ new.unreadCount = row.unreadCount + 1 /\ new.lastCustomerMessageAt = at
<1>1. CASE new = countInbound(row, seenStatus, at)
  <2> DEFINE status == IF seenStatus = "closed" THEN "waiting_customer" ELSE seenStatus
             count == row.unreadCount + 1
  <2>1. status \in Statuses /\ count \in Nat
    BY DEF Statuses, OpenStatuses, Rows
  <2>2. new = [row EXCEPT !.status = status, !.unreadCount = count, !.lastCustomerMessageAt = at]
    BY <1>1 DEF countInbound, Rows
  <2> HIDE DEF status, count
  <2>3. /\ new \in Rows /\ new.status = status /\ new.contact = row.contact
        /\ new.unreadCount = count /\ new.lastCustomerMessageAt = at
    BY <2>1, <2>2 DEF Rows
  <2>4. QED
    BY <2>1, <2>3 DEF Exists, count
<1>2. CASE Exists(row) /\ new = touchInbound(row, at)
  <2> DEFINE count == row.unreadCount + 1
  <2>1. count \in Nat
    BY DEF Rows
  <2>2. new = [row EXCEPT !.unreadCount = count, !.lastCustomerMessageAt = at]
    BY <1>2 DEF touchInbound, Rows
  <2> HIDE DEF count
  <2>3. /\ new \in Rows /\ new.status = row.status /\ new.contact = row.contact
        /\ new.unreadCount = count /\ new.lastCustomerMessageAt = at
    BY <2>1, <2>2 DEF Rows
  <2>4. QED
    BY <1>2, <2>3 DEF Exists, count
<1>3. QED
  BY <1>1, <1>2

\* The delivery counts the one row it has stored.
LEMMA CountMessageStep ==
    ASSUME IInv, NEW d \in Deliveries, CountMessage(d)
    PROVE  IInv'
<1> USE NoneIsNoName DEF Names
<1>1. /\ delivery[d].step = "count" /\ TypeOK /\ Knows(d) /\ HasStored(d) /\ FoundItsSenders(d)
      /\ delivery[d] \in DeliveryRows
  BY Before DEF CountMessage
<1>2. UNCHANGED <<messages, deleted, notices, ops>>
  BY DEF CountMessage
<1>3. PICK m \in Messages, c \in ConvIds :
         /\ m = delivery[d].msg /\ c = delivery[d].conv
         /\ [by |-> d, msg |-> m, conv |-> c] \in Stored
  BY <1>1 DEF Knows, DeliveryRows, HasStored, OnItsRow
<1> DEFINE row == [by |-> d, msg |-> m, conv |-> c]
<1>4. CASE ~Exists(convs[c])
  <2>1. Goto(d, ErrorStep(d), "error") /\ TablesUnchanged /\ ErrorStep(d) \in {"fail", "done"}
    BY <1>2, <1>3, <1>4 DEF CountMessage, TablesUnchanged, ErrorStep
  <2>2. Proceeds(d)
    BY <1>1, <1>2, <2>1, ErrorProceeds DEF TypeOK, EndSteps
  <2>3. QED
    BY <2>2, ProceedsKeepsInv
<1>5. CASE Exists(convs[c])
  <2> DEFINE new == IF delivery[d].kind = "evolution"
                    THEN countInbound(convs[c], delivery[d].seen.status, EventAt[m])
                    ELSE touchInbound(convs[c], EventAt[m])
             step == SuccessStep(d)
  <2>1. convs' = [convs EXCEPT ![c] = new] /\ Goto(d, step, "stored")
    BY <1>3, <1>5 DEF CountMessage
  <2>2. EventAt[m] \in Nat /\ convs[c] \in Rows
    BY <1>1, <1>3, InboundAssumption DEF TypeOK
  <2>3. delivery[d].kind = "evolution" => delivery[d].seen.status \in Statuses
    BY <1>1 DEF Knows, Exists
  <2>4. \E seenStatus \in Statuses : \/ new = countInbound(convs[c], seenStatus, EventAt[m])
                                     \/ Exists(convs[c]) /\ new = touchInbound(convs[c], EventAt[m])
    <3>1. "closed" \in Statuses
      BY DEF Statuses
    <3>2. QED
      BY <1>5, <2>3, <3>1
  <2> HIDE DEF new
  <2>5. /\ new \in Rows /\ Exists(new) /\ new.contact = convs[c].contact
        /\ new.unreadCount = convs[c].unreadCount + 1 /\ new.lastCustomerMessageAt = EventAt[m]
    BY <2>2, <2>4, CountedRowTyped
  <2>6. step \in {"mark", "done"} /\ step \in Steps /\ "stored" \in Results
    BY DEF SuccessStep, Steps, EndSteps, Results, Outcomes
  <2> HIDE DEF step
  <2>7. /\ Only(d) /\ SameRequest(d)
        /\ delivery'[d].step = step /\ delivery'[d].result = "stored" /\ delivery'[d].conv = None
    BY <1>1, <2>1, <2>6, GotoEffect
  <2>8. convs' \in [ConvIds -> Rows] /\ convs'[c] = new
    BY <1>3, <2>1, <2>5, OneRowWritten
  <2>9. TypeOK' /\ NothingStored
    BY <1>1, <1>2, <2>7, <2>8 DEF TypeOK, Only, DeliveryRows, NothingStored, Stored
  <2>10. Moves(d)
    BY <2>6, <2>7 DEF Moves, SameRequest, AfterStore, EndSteps
  <2>11. Updated(c)
    <3>1. convs[c].contact = From[m]
      BY <1>1, <1>3, <1>5, StatusesApart DEF FoundItsSenders
    <3>2. Justified(c)'
      BY <1>3, <2>5, <2>7, <2>8, <3>1, WindowJustified DEF SameRequest
    <3>3. QED
      BY <1>5, <2>5, <2>8, <3>2 DEF Updated
  <2>12. ConvsMove
    BY <2>1, <2>5, <1>3, <2>11, OneRowWritten DEF ConvsMove
  <2>13. Local(d)'
    <3>1. Knows(d)'
      BY <1>1, <1>3, <2>6, <2>7 DEF Knows, SameRequest, EndSteps, OnItsRow
    <3>2. FoundItsSenders(d)'
      BY <2>7 DEF FoundItsSenders
    <3>3. HasStored(d)'
      <4>1. delivery'[d].step \notin OnItsRow /\ "stored" \notin Decisions
        BY <2>6, <2>7 DEF OnItsRow, Decisions
      <4>2. \E x \in Stored' : x.msg = delivery'[d].msg
        BY <1>3, <2>7, <2>9 DEF NothingStored, SameRequest
      <4>3. QED
        BY <2>7, <4>1, <4>2 DEF HasStored
    <3>4. QED
      BY <3>1, <3>2, <3>3 DEF Local
  <2>14. CounterBounds'
    <3> SUFFICES ASSUME NEW e \in ConvIds, Exists(convs'[e])
                 PROVE  convs'[e].unreadCount <= Cardinality(Perhaps(e)') /\ Cardinality(Surely(e)') <= convs'[e].unreadCount
      BY DEF CounterBounds
    <3>1. \A x \in Stored : x.by \in Deliveries /\ (x.by = d => x = row)
      BY <1>3, StoredTyped DEF MessageRows, IInv, RowsOfDeliveries
    <3>2. \A x \in Stored : x # row => delivery'[x.by] = delivery[x.by]
      BY <2>7, <3>1 DEF Only
    <3>3. row.by = d /\ row.conv = c /\ delivery'[d].step # "count" /\ IsFiniteSet(Stored)'
          /\ row \in Stored
      BY <1>3, <2>6, <2>7, <2>9 DEF NothingStored, IInv
    <3> HIDE DEF row
    <3>4. InboundOf(e)' = InboundOf(e) /\ InboundOf(e) \subseteq Stored
      BY <2>9 DEF InboundOf, NothingStored, Stored
    <3>5. CASE e = c
      <4>1. CounterGrew(c)
        BY <1>5, <2>5, <2>8, StatusesApart DEF CounterGrew, CounterWas
      <4>2. row \in InboundOf(c) /\ row \notin Perhaps(c)
        BY <1>1, <3>3 DEF InboundOf, Stored, Perhaps, Awaiting
      <4>3. Perhaps(c) \cup {row} \subseteq Perhaps(c)'
        BY <3>2, <3>3, <3>4, <3>5, <4>2 DEF Perhaps, Awaiting
      <4>4. Surely(c)' \subseteq Surely(c) \cup {row}
        BY <3>2, <3>4, <3>5 DEF Surely, Uncounted
      <4>5. QED
        BY <1>3, <2>9, <3>3, <3>5, <4>1, <4>2, <4>3, <4>4, BoundsGrow
    <3>6. CASE e # c
      <4>1. row \notin InboundOf(e)
        BY <3>3, <3>6 DEF InboundOf
      <4>2. Perhaps(e) \subseteq Perhaps(e)' /\ Surely(e)' \subseteq Surely(e)
        BY <3>2, <3>4, <4>1 DEF Perhaps, Awaiting, Surely, Uncounted
      <4>3. CounterKept(e)
        BY <1>3, <2>1, <2>5, <3>6, OneRowWritten
      <4>4. QED
        BY <2>9, <3>3, <4>2, <4>3, BoundsKept
    <3>7. QED
      BY <3>5, <3>6
  <2>15. Stored \subseteq Stored'
    BY <2>9 DEF NothingStored
  <2>16. QED
    BY <2>7, <2>9, <2>10, <2>12, <2>13, <2>14, <2>15, WritingStep
<1>6. QED
  BY <1>4, <1>5

LEMMA ReceivedRowTyped ==
    ASSUME NEW row \in Rows, Exists(row), NEW resume \in BOOLEAN, NEW at \in Nat, NEW new,
           new = receiveInbound(row, resume, at)
    PROVE  /\ new \in Rows /\ Exists(new) /\ new.contact = row.contact
           /\ new.unreadCount = row.unreadCount + 1 /\ new.lastCustomerMessageAt = at
<1> DEFINE status == IF resume THEN "waiting_customer" ELSE row.status
           paused == IF resume THEN FALSE ELSE row.botPaused
           count == row.unreadCount + 1
<1>1. status \in Statuses /\ count \in Nat
  BY DEF Statuses, OpenStatuses, Rows, Exists
<1>2. paused \in BOOLEAN
  <2>1. row.botPaused \in BOOLEAN
    BY DEF Rows
  <2>2. QED
    BY <2>1, Zenon
<1>3. new = [row EXCEPT !.status = status, !.botPaused = paused, !.unreadCount = count,
                        !.lastCustomerMessageAt = at]
  BY DEF receiveInbound, Rows
<1> HIDE DEF status, paused, count
<1>4. /\ new \in Rows /\ new.status = status /\ new.contact = row.contact
      /\ new.unreadCount = count /\ new.lastCustomerMessageAt = at
  BY <1>1, <1>2, <1>3 DEF Rows
<1>5. QED
  BY <1>1, <1>4 DEF Exists, count

\* What a commit finds: the conversation that the transaction has read, if it is still
\* there, or a new one.
CommitsTo(d, c, before) ==
    /\ c \in ConvIds
    /\ \/ /\ delivery[d].conv = None /\ convs[c].status = "none"
          /\ before = NewRow(From[delivery[d].msg], EventAt[delivery[d].msg])
       \/ /\ delivery[d].conv = c /\ Exists(convs[c])
          /\ before = convs[c]

LEMMA CommitsToSenders ==
    ASSUME IInv, NEW d \in Deliveries, delivery[d].step = "commit", NEW c, NEW before,
           CommitsTo(d, c, before)
    PROVE  /\ before \in Rows /\ Exists(before) /\ before.contact = From[delivery[d].msg]
           /\ before.unreadCount = CounterWas(c) /\ convs[c].status # "removed"
<1> USE NoneIsNoName DEF Names
<1>1. TypeOK /\ Knows(d) /\ FoundItsSenders(d)
  BY Before
<1>2. delivery[d].msg \in Messages
  BY <1>1 DEF Knows
<1>3. CASE delivery[d].conv = None
  <2>1. /\ convs[c].status = "none"
        /\ before = NewRow(From[delivery[d].msg], EventAt[delivery[d].msg])
    BY <1>3 DEF CommitsTo
  <2>2. ~Exists(convs[c])
    BY <2>1, StatusesApart
  <2>3. QED
    BY <1>2, <2>1, <2>2, NewRowTyped DEF CounterWas
<1>4. CASE delivery[d].conv # None
  <2>1. delivery[d].conv = c /\ Exists(convs[c]) /\ before = convs[c] /\ c \in ConvIds
    BY <1>4 DEF CommitsTo
  <2>2. convs[c].contact = From[delivery[d].msg]
    BY <1>1, <1>4, <2>1, StatusesApart DEF FoundItsSenders
  <2>3. QED
    BY <1>1, <2>1, <2>2, StatusesApart DEF TypeOK, CounterWas
<1>5. QED
  BY <1>3, <1>4

\* The n8n transaction stores the row and counts it at once.
LEMMA CommitStores ==
    ASSUME IInv, NEW d \in Deliveries, delivery[d].step = "commit",
           ~ViolatesUniqueIndex(delivery[d].msg),
           NEW c, NEW before, CommitsTo(d, c, before),
           NEW resume \in BOOLEAN, NEW blocked \in BOOLEAN,
           convs' = [convs EXCEPT ![c] = receiveInbound(before, resume, EventAt[delivery[d].msg])],
           messages' = messages \cup {[by |-> d, msg |-> delivery[d].msg, conv |-> c]},
           delivery' = [delivery EXCEPT ![d].conv = c, ![d].seen = NoRow,
                                        ![d].step = IF blocked THEN "notice_find" ELSE "ai",
                                        ![d].result = IF blocked THEN "blocked" ELSE None],
           UNCHANGED <<deleted, notices, ops>>
    PROVE  IInv'
<1> USE NoneIsNoName DEF Names
<1>1. /\ TypeOK /\ Knows(d) /\ HasStored(d) /\ FoundItsSenders(d)
      /\ delivery[d] \in DeliveryRows /\ delivery \in [Deliveries -> DeliveryRows]
      /\ delivery[d].step \notin {"idle"} \cup AfterStore
  BY Before DEF TypeOK, DeliveryRows, AfterStore, EndSteps
<1>2. PICK m \in Messages : m = delivery[d].msg
  BY <1>1 DEF Knows
<1> DEFINE new == receiveInbound(before, resume, EventAt[m])
           row == [by |-> d, msg |-> m, conv |-> c]
           step == IF blocked THEN "notice_find" ELSE "ai"
           result == IF blocked THEN "blocked" ELSE None
           next == [delivery[d] EXCEPT !.conv = c, !.seen = NoRow, !.step = step, !.result = result]
<1>3. /\ c \in ConvIds /\ before \in Rows /\ Exists(before) /\ before.contact = From[m]
      /\ before.unreadCount = CounterWas(c) /\ convs[c].status # "removed"
  <2>1. c \in ConvIds
    BY DEF CommitsTo
  <2>2. QED
    BY <1>2, <2>1, CommitsToSenders
<1>4. /\ new \in Rows /\ Exists(new) /\ new.contact = From[m]
      /\ new.unreadCount = CounterWas(c) + 1 /\ new.lastCustomerMessageAt = EventAt[m]
  <2>1. EventAt[m] \in Nat
    BY InboundAssumption
  <2>2. QED
    BY <1>3, <2>1, ReceivedRowTyped
<1>5. convs' = [convs EXCEPT ![c] = new] /\ messages' = messages \cup {row}
  BY <1>2
<1>6. row \in MessageRows /\ row.by = d /\ row.msg = m /\ row.conv = c
  BY <1>3 DEF MessageRows
<1>7. /\ step \in {"notice_find", "ai"} /\ result \in {"blocked", None}
      /\ step = "notice_find" => result = "blocked"
  OBVIOUS
<1>8. delivery' = [delivery EXCEPT ![d] = next]
  BY <1>1 DEF DeliveryRows
<1> HIDE DEF new, row, step, result
<1>9. /\ next \in DeliveryRows /\ next.step = step /\ next.kind = delivery[d].kind
      /\ next.msg = m /\ next.result = result /\ next.log = delivery[d].log /\ next.conv = c
  <2>1. step \in Steps /\ result \in Results
    BY <1>7 DEF Steps, Results, Outcomes, Decisions
  <2>2. QED
    BY <1>1, <1>2, <1>3, <2>1, NoRowTyped DEF DeliveryRows
<1> HIDE DEF next
<1>10. Only(d) /\ delivery'[d] = next
  BY <1>1, <1>8, <1>9, Replaced
<1>11. convs' \in [ConvIds -> Rows] /\ convs'[c] = new
  BY <1>3, <1>4, <1>5, OneRowWritten
<1>12. TypeOK'
  BY <1>1, <1>5, <1>6, <1>10, <1>11 DEF TypeOK, Only, DeliveryRows, MessageRows
<1>13. Moves(d)
  BY <1>2, <1>7, <1>9, <1>10 DEF Moves, AfterStore
<1>14. Stores(row)
  BY <1>1, <1>2, <1>4, <1>5, <1>6, <1>7, <1>9, <1>10, <1>11 DEF Stores, AfterStore
<1>15. Stored' = Stored \cup {row}
  BY <1>5 DEF Stored
<1>16. Updated(c) \/ Created(c)
  <2>1. Justified(c)'
    <3>1. delivery'[d].msg = m /\ m # None
      BY <1>2, <1>9, <1>10
    <3>2. convs'[c].contact = From[m] /\ convs'[c].lastCustomerMessageAt = EventAt[m]
      BY <1>4, <1>11
    <3>3. QED
      BY <1>3, <3>1, <3>2, WindowJustified
  <2>2. CASE delivery[d].conv = None
    BY <1>4, <1>11, <2>1, <2>2 DEF CommitsTo, Created
  <2>3. CASE delivery[d].conv # None
    <3>1. Exists(convs[c]) /\ before = convs[c]
      BY <2>3 DEF CommitsTo
    <3>2. QED
      BY <1>3, <1>4, <1>11, <2>1, <3>1 DEF Updated
  <2>4. QED
    BY <2>2, <2>3
<1>17. ConvsMove
  BY <1>3, <1>4, <1>5, <1>16, OneRowWritten DEF ConvsMove
<1>18. Local(d)'
  <2>1. Knows(d)'
    BY <1>1, <1>2, <1>3, <1>7, <1>9, <1>10 DEF Knows, EndSteps, OnItsRow, Outcomes, Decisions
  <2>2. FoundItsSenders(d)'
    BY <1>4, <1>9, <1>10, <1>11, StatusesApart DEF FoundItsSenders
  <2>3. HasStored(d)'
    <3> DEFINE its == [by |-> d, msg |-> delivery'[d].msg, conv |-> delivery'[d].conv]
    <3>1. /\ its \in Stored'
          /\ delivery'[d].log # "processed" /\ delivery'[d].step # "mark"
      <4>1. delivery'[d].msg = m /\ delivery'[d].conv = c
        BY <1>9, <1>10
      <4>2. its = row
        BY <4>1 DEF row
      <4>3. QED
        BY <1>1, <1>7, <1>9, <1>10, <1>15, <4>2 DEF Knows
    <3>2. \E x \in Stored' : x.by = d /\ x.msg = delivery'[d].msg
      BY <1>6, <1>9, <1>10, <1>15
    <3>3. QED
      BY <3>1, <3>2 DEF HasStored
  <2>4. QED
    BY <2>1, <2>2, <2>3 DEF Local
<1>19. IsFiniteSet(Stored)'
  BY <1>15, FS_AddElement DEF IInv
<1>20. CounterBounds'
  <2> SUFFICES ASSUME NEW e \in ConvIds, Exists(convs'[e])
               PROVE  convs'[e].unreadCount <= Cardinality(Perhaps(e)') /\ Cardinality(Surely(e)') <= convs'[e].unreadCount
    BY DEF CounterBounds
  <2>1. \A x \in Stored : x.by \in Deliveries /\ x.by # d
    BY <1>1, Before, StoredTyped DEF MessageRows
  <2>2. \A x \in Stored : delivery'[x.by] = delivery[x.by]
    BY <1>10, <2>1 DEF Only
  <2>3. row \notin Stored /\ delivery'[d].step # "count"
    BY <1>6, <1>7, <1>9, <1>10, <2>1
  <2>4. CASE e = c
    <3>1. CounterGrew(e)
      BY <1>3, <1>4, <1>11, <2>4 DEF CounterGrew
    <3>2. row \notin Perhaps(e)
      BY <2>3 DEF Perhaps, InboundOf, Stored
    <3>3. Perhaps(e) \cup {row} \subseteq Perhaps(e)'
      <4>1. \A x \in Perhaps(e) : x \in Perhaps(e)'
        BY <1>15, <2>2 DEF Perhaps, InboundOf, Awaiting, Stored
      <4>2. row \in Perhaps(e)'
        BY <1>6, <1>15, <2>3, <2>4 DEF Perhaps, InboundOf, Awaiting, Stored
      <4>3. QED
        BY <4>1, <4>2
    <3>4. Surely(e)' \subseteq Surely(e) \cup {row}
      BY <1>15, <2>2 DEF Surely, InboundOf, Uncounted, Stored
    <3>5. QED
      BY <1>12, <1>19, <3>1, <3>2, <3>3, <3>4, BoundsGrow
  <2>5. CASE e # c
    <3>1. CounterKept(e)
      BY <1>3, <1>4, <1>5, <2>5, OneRowWritten
    <3>2. Perhaps(e) \subseteq Perhaps(e)'
      BY <1>15, <2>2 DEF Perhaps, InboundOf, Awaiting, Stored
    <3>3. Surely(e)' \subseteq Surely(e)
      BY <1>6, <1>15, <2>2, <2>5 DEF Surely, InboundOf, Uncounted, Stored
    <3>4. QED
      BY <1>12, <1>19, <3>1, <3>2, <3>3, BoundsKept
  <2>6. QED
    BY <2>4, <2>5
<1>21. QED
  BY <1>10, <1>12, <1>13, <1>14, <1>15, <1>17, <1>18, <1>20, WritingStep

LEMMA CommitInboundStep ==
    ASSUME IInv, NEW d \in Deliveries, CommitInbound(d)
    PROVE  IInv'
<1> USE NoneIsNoName DEF Names
<1> DEFINE m == delivery[d].msg
           created == delivery[d].conv = None
           refused == ViolatesUniqueIndex(m) \/ (~created /\ ~Exists(convs[delivery[d].conv]))
<1>1. delivery[d].step = "commit" /\ TypeOK /\ delivery[d] \in DeliveryRows
  BY Before DEF CommitInbound, At
<1>2. UNCHANGED <<deleted, notices, ops>>
  BY DEF CommitInbound
<1>3. CASE refused
  <2>1. Goto(d, "fail", "error") /\ TablesUnchanged
    BY <1>2, <1>3 DEF CommitInbound, TablesUnchanged
  <2>2. Proceeds(d)
    BY <1>1, <1>2, <2>1, ErrorProceeds DEF TypeOK, EndSteps
  <2>3. QED
    BY <2>2, ProceedsKeepsInv
<1>4. CASE ~refused
  <2> DEFINE Before_(c) == IF created THEN NewRow(From[m], EventAt[m]) ELSE convs[c]
             resume == ~created /\ shouldResumeAiAutomation(delivery[d].seen)
             After(c) == receiveInbound(Before_(c), resume, EventAt[m])
             Blocked(c, aiEnabled) == isHumanTakeoverActive(After(c)) \/ ~aiEnabled
  <2>1. PICK c \in IF created THEN Fresh ELSE {delivery[d].conv}, aiEnabled \in BOOLEAN :
           /\ convs' = [convs EXCEPT ![c] = After(c)]
           /\ messages' = messages \cup {[by |-> d, msg |-> m, conv |-> c]}
           /\ delivery' = [delivery EXCEPT
                             ![d].conv = c, ![d].seen = NoRow,
                             ![d].step = IF Blocked(c, aiEnabled) THEN "notice_find" ELSE "ai",
                             ![d].result = IF Blocked(c, aiEnabled) THEN "blocked" ELSE None]
    BY <1>4 DEF CommitInbound
  <2>2. CommitsTo(d, c, Before_(c))
    BY <1>1, <1>4 DEF CommitsTo, Fresh, DeliveryRows
  <2> DEFINE before == Before_(c)
             blocked == IF Blocked(c, aiEnabled) THEN TRUE ELSE FALSE
             resumed == IF resume THEN TRUE ELSE FALSE
  <2>3. After(c) = receiveInbound(before, resumed, EventAt[m])
    BY DEF receiveInbound
  <2>4. blocked \in BOOLEAN /\ resumed \in BOOLEAN /\ (blocked <=> Blocked(c, aiEnabled))
    OBVIOUS
  <2> HIDE DEF Before_, Blocked, After, resume
  <2>5. delivery' = [delivery EXCEPT ![d].conv = c, ![d].seen = NoRow,
                                     ![d].step = IF blocked THEN "notice_find" ELSE "ai",
                                     ![d].result = IF blocked THEN "blocked" ELSE None]
    BY <2>1, <2>4
  <2>6. convs' = [convs EXCEPT ![c] = receiveInbound(before, resumed, EventAt[m])]
    BY <2>1, <2>3
  <2> HIDE DEF before, blocked, resumed
  <2>7. CommitsTo(d, c, before) /\ ~ViolatesUniqueIndex(m)
    BY <1>4, <2>2 DEF before
  <2>8. messages' = messages \cup {[by |-> d, msg |-> m, conv |-> c]}
    BY <2>1
  <2>9. blocked \in BOOLEAN /\ resumed \in BOOLEAN
    BY <2>4
  <2> HIDE DEF created, refused
  <2>10. QED
    BY <1>1, <1>2, <2>5, <2>6, <2>7, <2>8, <2>9, CommitStores
<1>5. QED
  BY <1>3, <1>4

LEMMA RefreshedRowTyped ==
    ASSUME NEW row \in Rows, NEW seen \in Rows, NEW at \in Nat, NEW new,
           new = refreshForWhatsapp(row, seen, at)
    PROVE  /\ new \in Rows /\ new.status = row.status /\ new.contact = row.contact
           /\ new.unreadCount = row.unreadCount
           /\ new.lastCustomerMessageAt \in {at, row.lastCustomerMessageAt}
<1> DEFINE paused == isHumanTakeoverActive(seen)
           last == IF at > seen.lastCustomerMessageAt THEN at ELSE row.lastCustomerMessageAt
<1>1. paused \in BOOLEAN
  <2>1. seen.botPaused \in BOOLEAN /\ seen.handoffRequired \in BOOLEAN
    BY DEF Rows
  <2>2. QED
    BY <2>1, Zenon DEF isHumanTakeoverActive, hasHumanAssignment
<1>2. last \in Nat /\ last \in {at, row.lastCustomerMessageAt}
  BY DEF Rows
<1>3. new = [row EXCEPT !.botPaused = paused, !.lastCustomerMessageAt = last]
  BY DEF refreshForWhatsapp, Rows
<1> HIDE DEF paused, last
<1>4. QED
  BY <1>1, <1>2, <1>3 DEF Rows

\* The workflow's transaction creates or refreshes the conversation alone.
LEMMA CommitConversationStep ==
    ASSUME IInv, NEW d \in Deliveries, CommitConversation(d)
    PROVE  IInv'
<1> USE NoneIsNoName DEF Names
<1>1. /\ TypeOK /\ Knows(d) /\ HasStored(d) /\ FoundItsSenders(d)
      /\ delivery[d] \in DeliveryRows /\ delivery \in [Deliveries -> DeliveryRows]
      /\ delivery[d].step = "commit" /\ delivery[d].kind = "workflow"
      /\ delivery[d].step \notin {"idle"} \cup AfterStore
  BY Before DEF CommitConversation, At, TypeOK, DeliveryRows, AfterStore, EndSteps
<1>2. UNCHANGED <<messages, deleted, notices, ops>>
  BY DEF CommitConversation
<1>3. PICK m \in Messages : m = delivery[d].msg
  BY <1>1 DEF Knows
<1> DEFINE created == delivery[d].conv = None
<1>4. CASE ~created /\ ~Exists(convs[delivery[d].conv])
  <2>1. Goto(d, "done", "error") /\ TablesUnchanged
    BY <1>2, <1>4 DEF CommitConversation, TablesUnchanged
  <2>2. Proceeds(d)
    BY <1>1, <1>2, <2>1, ErrorProceeds DEF TypeOK, AfterStore
  <2>3. QED
    BY <2>2, ProceedsKeepsInv
<1>5. CASE created \/ Exists(convs[delivery[d].conv])
  <2> DEFINE New(c) == IF created THEN NewRow(From[m], EventAt[m])
                       ELSE refreshForWhatsapp(convs[c], delivery[d].seen, EventAt[m])
             step == IF m \in Identified THEN "duplicate" ELSE "store"
             Next_(c) == [delivery[d] EXCEPT !.conv = c, !.seen = NoRow, !.step = step]
  <2>1. PICK c \in IF created THEN Fresh ELSE {delivery[d].conv} :
           /\ convs' = [convs EXCEPT ![c] = New(c)]
           /\ \/ Goto(d, "done", "resolved")
              \/ delivery' = [delivery EXCEPT ![d].conv = c, ![d].seen = NoRow, ![d].step = step]
    BY <1>1, <1>3, <1>5 DEF CommitConversation, TypeOK, Fresh, DeliveryRows
  <2>2. /\ c \in ConvIds
        /\ \/ created /\ convs[c].status = "none"
           \/ ~created /\ delivery[d].conv = c /\ Exists(convs[c])
    BY <1>1, <1>5, <2>1 DEF Fresh, DeliveryRows
  <2> DEFINE new == New(c)
             next == Next_(c)
  <2>3. /\ new \in Rows /\ Exists(new) /\ new.contact = From[m] /\ new.unreadCount = CounterWas(c)
        /\ new.lastCustomerMessageAt \in {EventAt[m], convs[c].lastCustomerMessageAt}
        /\ created => new.lastCustomerMessageAt = EventAt[m]
        /\ ~created => new.contact = convs[c].contact
    <3>1. CASE created
      <4>1. new = NewRow(From[m], EventAt[m]) /\ ~Exists(convs[c])
        BY <2>2, <3>1, StatusesApart
      <4> HIDE DEF new
      <4>2. QED
        BY <3>1, <4>1, NewRowTyped DEF CounterWas
    <3>2. CASE ~created
      <4> DEFINE old == convs[c]
                 seen == delivery[d].seen
                 at == EventAt[m]
      <4>1. new = refreshForWhatsapp(old, seen, at)
        BY <3>2
      <4>2. seen \in Rows /\ at \in Nat /\ old \in Rows
        BY <1>1, <2>2, InboundAssumption DEF DeliveryRows, TypeOK
      <4>3. convs[c].contact = From[m] /\ Exists(convs[c])
        BY <1>1, <1>3, <2>2, <3>2, StatusesApart DEF FoundItsSenders
      <4> HIDE DEF new, old, seen, at
      <4>4. /\ new \in Rows /\ new.status = old.status /\ new.contact = old.contact
            /\ new.unreadCount = old.unreadCount
            /\ new.lastCustomerMessageAt \in {at, old.lastCustomerMessageAt}
        <5> DEFINE result == refreshForWhatsapp(old, seen, at)
        <5>1. /\ result \in Rows /\ result.status = old.status /\ result.contact = old.contact
              /\ result.unreadCount = old.unreadCount
              /\ result.lastCustomerMessageAt \in {at, old.lastCustomerMessageAt}
          BY <4>2, RefreshedRowTyped
        <5>2. QED
          BY <4>1, <5>1
      <4>5. Exists(new) /\ CounterWas(c) = convs[c].unreadCount
        BY <4>3, <4>4 DEF CounterWas, Exists, old
      <4>6. QED
        BY <3>2, <4>3, <4>4, <4>5 DEF old, at
    <3>3. QED
      BY <3>1, <3>2
  <2>4. step \in {"duplicate", "store"}
    OBVIOUS
  <2>5. convs' = [convs EXCEPT ![c] = new]
    BY <2>1
  <2> HIDE DEF New, new, step
  <2>6. PICK row \in DeliveryRows :
          /\ Only(d) /\ delivery'[d] = row
          /\ row.kind = "workflow" /\ row.msg = m /\ row.log = delivery[d].log
          /\ \/ row.step = "done" /\ row.result = "resolved" /\ row.conv = None
             \/ row.step \in {"duplicate", "store"} /\ row.result = delivery[d].result /\ row.conv = c
    <3>1. CASE Goto(d, "done", "resolved")
      <4>1. "done" \in Steps /\ "resolved" \in Results
        BY DEF Steps, EndSteps, Results, Outcomes
      <4>2. /\ Only(d) /\ SameRequest(d) /\ delivery'[d].step = "done"
            /\ delivery'[d].result = "resolved" /\ delivery'[d].conv = None
        BY <1>1, <3>1, <4>1, GotoEffect
      <4>3. QED
        BY <1>1, <1>3, <4>2 DEF Only, SameRequest
    <3>2. CASE delivery' = [delivery EXCEPT ![d].conv = c, ![d].seen = NoRow, ![d].step = step]
      <4>1. delivery' = [delivery EXCEPT ![d] = next]
        BY <1>1, <3>2 DEF DeliveryRows
      <4>2. /\ next \in DeliveryRows /\ next.kind = "workflow" /\ next.msg = m
            /\ next.log = delivery[d].log /\ next.step = step
            /\ next.result = delivery[d].result /\ next.conv = c
        BY <1>1, <1>3, <2>2, <2>4, NoRowTyped DEF DeliveryRows, Steps
      <4> HIDE DEF next
      <4>3. Only(d) /\ delivery'[d] = next
        BY <1>1, <4>1, <4>2, Replaced
      <4>4. QED
        BY <2>4, <4>2, <4>3
    <3>3. QED
      BY <2>1, <3>1, <3>2
  <2>7. convs' \in [ConvIds -> Rows] /\ convs'[c] = new
    BY <2>2, <2>3, <2>5, OneRowWritten
  <2>8. TypeOK'
    BY <1>1, <1>2, <2>6, <2>7 DEF TypeOK, Only, DeliveryRows
  <2>9. Moves(d) /\ StaysUncertain(d)
    BY <1>1, <1>3, <2>6 DEF Moves, StaysUncertain, Uncertain, AfterStore, EndSteps, Knows
  <2>10. (Updated(c) \/ Created(c)) /\ CounterKept(c)
    <3>1. new.lastCustomerMessageAt = EventAt[m] => Justified(c)'
      BY <1>3, <2>2, <2>3, <2>6, <2>7, WindowJustified
    <3>2. CounterKept(c)
      BY <2>2, <2>3, <2>7, StatusesApart DEF CounterKept
    <3>3. CASE created
      BY <2>2, <2>3, <2>7, <3>1, <3>2, <3>3 DEF Created
    <3>4. CASE ~created
      BY <2>2, <2>3, <2>7, <3>1, <3>2, <3>4 DEF Updated
    <3>5. QED
      BY <3>3, <3>4
  <2>11. Knows(d)'
    BY <1>1, <1>3, <2>2, <2>6 DEF Knows, EndSteps, OnItsRow, AfterStore, Outcomes
  <2>12. FoundItsSenders(d)'
    BY <2>3, <2>6, <2>7, StatusesApart DEF FoundItsSenders
  <2>13. HasStored(d)'
    <3>1. delivery'[d].step \notin OnItsRow /\ delivery'[d].step # "mark" /\ delivery'[d].log # "processed"
      BY <1>1, <2>6 DEF OnItsRow, Knows
    <3>2. delivery'[d].result \in Decisions => delivery'[d].result = delivery[d].result
      BY <2>6 DEF Decisions
    <3>3. Stored' = Stored /\ delivery'[d].msg = delivery[d].msg
      BY <1>2, <1>3, <2>6 DEF Stored
    <3>4. QED
      BY <1>1, <3>1, <3>2, <3>3 DEF HasStored
  <2>14. Local(d)'
    BY <2>11, <2>12, <2>13 DEF Local
  <2>15. QED
    BY <1>2, <2>2, <2>3, <2>5, <2>6, <2>8, <2>9, <2>10, <2>14, ConversationStep
<1>6. QED
  BY <1>4, <1>5

-----------------------------------------------------------------------------
(* Agents *)

\* An update of one conversation by an agent.
OnlyStatus(old, new) ==
    /\ new \in Rows /\ Exists(new) /\ new.contact = old.contact
    /\ new.unreadCount = old.unreadCount
    /\ new.lastCustomerMessageAt = old.lastCustomerMessageAt

\* Each operation rewrites the four columns that decide who answers, and no other.
LEMMA FourColumns ==
    ASSUME NEW old \in Rows, NEW status \in Statuses, NEW assignee \in Agents \cup {None},
           NEW paused \in BOOLEAN, NEW required \in BOOLEAN
    PROVE  OnlyStatus(old, [old EXCEPT !.status = status, !.assignedTo = assignee,
                                       !.botPaused = paused, !.handoffRequired = required])
<1> DEFINE new == [old EXCEPT !.status = status, !.assignedTo = assignee,
                              !.botPaused = paused, !.handoffRequired = required]
<1>1. /\ new \in Rows /\ new.status = status /\ new.contact = old.contact
      /\ new.unreadCount = old.unreadCount /\ new.lastCustomerMessageAt = old.lastCustomerMessageAt
  BY DEF Rows
<1> HIDE DEF new
<1>2. OnlyStatus(old, new)
  BY <1>1 DEF OnlyStatus, Exists
<1>3. QED
  BY <1>2 DEF new

\* The forms that a write of one conversation takes.
WrittenBy(old, new) ==
    \/ \E s \in Statuses : new = updateStatus(old, s)
    \/ \E a \in Agents : new = assign(old, a)
    \/ \E r \in BOOLEAN, a \in Agents \cup {None} : new = handoffForWorkflow(old, r, a)
    \/ \E b \in BOOLEAN : new = reactivateBot(old, b)
    \/ \E s \in Statuses \cup {None}, a \in Agents \cup {None}, b \in BOOLEAN \cup {None} :
          new = update(old, s, a, b)
    \/ \E s \in Statuses : new = conversationEvent(old, s)

LEMMA WritesForms ==
    ASSUME NEW c \in ConvIds, NEW op \in DOMAIN Writes(c), NEW new \in Writes(c)[op]
    PROVE  WrittenBy(convs[c], new)
<1>1. OpenStatuses \subseteq Statuses /\ {"closed", "human_assigned", "bot_active"} \subseteq Statuses
  BY DEF Statuses, OpenStatuses
<1>2. op \in {"close", "status", "assign", "handoff", "reactivate", "update", "event"}
  BY DEF Writes
<1>3. CASE op = "close"
  BY <1>1, <1>3 DEF Writes, WrittenBy
<1>4. CASE op = "status"
  BY <1>1, <1>4 DEF Writes, WrittenBy
<1>5. CASE op = "assign"
  BY <1>5 DEF Writes, WrittenBy
<1>6. CASE op = "handoff"
  BY <1>6 DEF Writes, WrittenBy
<1>7. CASE op = "reactivate"
  BY <1>7 DEF Writes, WrittenBy
<1>8. CASE op = "update"
  BY <1>8 DEF Writes, WrittenBy
<1>9. CASE op = "event"
  BY <1>1, <1>9 DEF Writes, WrittenBy
<1>10. QED
  BY <1>2, <1>3, <1>4, <1>5, <1>6, <1>7, <1>8, <1>9

LEMMA WritesOnlyStatus ==
    ASSUME IInv, NEW c \in ConvIds, Exists(convs[c]), NEW op \in DOMAIN Writes(c),
           NEW new \in Writes(c)[op]
    PROVE  OnlyStatus(convs[c], new)
<1> DEFINE old == convs[c]
<1>1. /\ old \in Rows /\ old.status \in Statuses /\ old.assignedTo \in Agents \cup {None}
      /\ old.botPaused \in BOOLEAN /\ old.handoffRequired \in BOOLEAN
  BY DEF IInv, TypeOK, Rows, Exists
<1>2. WrittenBy(old, new)
  BY WritesForms
<1> HIDE DEF old
<1>3. ASSUME NEW s \in Statuses, new = updateStatus(old, s)
      PROVE  OnlyStatus(old, new)
  <2> DEFINE human == s \in {"human_assigned", "waiting_customer"}
             assignee == IF human THEN old.assignedTo ELSE None
  <2>1. assignee \in Agents \cup {None} /\ human \in BOOLEAN
    BY <1>1
  <2>2. new = [old EXCEPT !.status = s, !.assignedTo = assignee,
                          !.botPaused = human, !.handoffRequired = human]
    BY <1>1, <1>3 DEF updateStatus, Rows
  <2> HIDE DEF human, assignee
  <2>3. QED
    BY <1>1, <2>1, <2>2, FourColumns
<1>4. ASSUME NEW a \in Agents, new = assign(old, a)
      PROVE  OnlyStatus(old, new)
  <2>1. new = [old EXCEPT !.status = "human_assigned", !.assignedTo = a,
                          !.botPaused = TRUE, !.handoffRequired = TRUE]
    BY <1>1, <1>4 DEF assign, Rows
  <2>2. "human_assigned" \in Statuses /\ a \in Agents \cup {None} /\ TRUE \in BOOLEAN
    BY DEF Statuses, OpenStatuses
  <2>3. QED
    BY <1>1, <2>1, <2>2, FourColumns
<1>5. ASSUME NEW r \in BOOLEAN, NEW a \in Agents \cup {None}, new = handoffForWorkflow(old, r, a)
      PROVE  OnlyStatus(old, new)
  <2> DEFINE status == IF r THEN "waiting_customer" ELSE "bot_active"
             assignee == IF r THEN a ELSE None
  <2>1. status \in Statuses /\ assignee \in Agents \cup {None}
    BY DEF Statuses, OpenStatuses
  <2>2. new = [old EXCEPT !.status = status, !.assignedTo = assignee,
                          !.botPaused = r, !.handoffRequired = r]
    BY <1>1, <1>5 DEF handoffForWorkflow, Rows
  <2> HIDE DEF status, assignee
  <2>3. QED
    BY <1>1, <2>1, <2>2, FourColumns
<1>6. ASSUME NEW b \in BOOLEAN, new = reactivateBot(old, b)
      PROVE  OnlyStatus(old, new)
  <2> DEFINE status == IF b THEN "bot_active" ELSE "waiting_customer"
             assignee == IF b THEN None ELSE old.assignedTo
             paused == ~b
  <2>1. status \in Statuses /\ assignee \in Agents \cup {None} /\ paused \in BOOLEAN
    BY <1>1 DEF Statuses, OpenStatuses
  <2>2. new = [old EXCEPT !.status = status, !.assignedTo = assignee,
                          !.botPaused = paused, !.handoffRequired = paused]
    BY <1>1, <1>6 DEF reactivateBot, Rows
  <2> HIDE DEF status, assignee, paused
  <2>3. QED
    BY <1>1, <2>1, <2>2, FourColumns
<1>7. ASSUME NEW s \in Statuses \cup {None}, NEW a \in Agents \cup {None}, NEW b \in BOOLEAN \cup {None},
             new = update(old, s, a, b)
      PROVE  OnlyStatus(old, new)
  <2> DEFINE status == IF s = None THEN old.status ELSE s
             assignee == IF a = None THEN old.assignedTo ELSE a
             paused == IF b = None THEN old.botPaused ELSE ~b
             required == IF b = None THEN old.handoffRequired ELSE ~b
  <2>1. status \in Statuses /\ assignee \in Agents \cup {None}
    BY <1>1
  <2>2. paused \in BOOLEAN /\ required \in BOOLEAN
    <3>1. CASE b = None
      BY <1>1, <3>1
    <3>2. CASE b # None
      BY <3>2
    <3>3. QED
      BY <3>1, <3>2
  <2>3. new = [old EXCEPT !.status = status, !.assignedTo = assignee,
                          !.botPaused = paused, !.handoffRequired = required]
    BY <1>1, <1>7 DEF update, Rows
  <2> HIDE DEF status, assignee, paused, required
  <2>4. QED
    BY <1>1, <2>1, <2>2, <2>3, FourColumns
<1>8. ASSUME NEW s \in Statuses, new = conversationEvent(old, s)
      PROVE  OnlyStatus(old, new)
  <2> DEFINE assignee == old.assignedTo
             paused == old.botPaused
             required == old.handoffRequired
  <2>1. new = [old EXCEPT !.status = s, !.assignedTo = assignee,
                          !.botPaused = paused, !.handoffRequired = required]
    BY <1>1, <1>8 DEF conversationEvent, Rows
  <2> HIDE DEF assignee, paused, required
  <2>2. QED
    BY <1>1, <2>1, FourColumns DEF assignee, paused, required
<1>9. QED
  BY <1>2, <1>3, <1>4, <1>5, <1>6, <1>7, <1>8 DEF old, WrittenBy

\* The deliveries do not move while an agent acts.
LEMMA AgentStep ==
    ASSUME IInv, TypeOK', delivery' = delivery, ConvsMove, NothingStored,
           \A c \in ConvIds : CounterKept(c)
    PROVE  IInv'
<1>1. \A e \in Deliveries : Moves(e) /\ StaysUncertain(e) /\ Local(e)'
  BY UnmovedDelivery, OthersKeepLocal DEF NothingStored
<1>2. QED
  BY <1>1, QuietStep

LEMMA OperateStep ==
    ASSUME IInv, NEW c \in ConvIds, NEW op \in Ops, Operate(c, op)
    PROVE  IInv'
<1>1. /\ TypeOK /\ Exists(convs[c]) /\ op \in DOMAIN Writes(c) /\ ops < MaxOps /\ ops' = ops + 1
      /\ UNCHANGED <<messages, deleted, notices, delivery>>
  BY DEF Operate, IInv
<1>2. PICK new \in Writes(c)[op] : convs' = [convs EXCEPT ![c] = new]
  BY DEF Operate
<1>3. OnlyStatus(convs[c], new)
  BY <1>1, <1>2, WritesOnlyStatus
<1>4. new \in Rows
  BY <1>3 DEF OnlyStatus
<1>5. convs' \in [ConvIds -> Rows] /\ convs'[c] = new
  BY <1>2, <1>4, OneRowWritten
<1>6. ops' \in 0 .. MaxOps
  BY <1>1, InboundAssumption DEF TypeOK
<1>7. TypeOK' /\ NothingStored
  BY <1>1, <1>5, <1>6 DEF TypeOK, NothingStored, Stored
<1>8. Updated(c) /\ CounterKept(c)
  BY <1>1, <1>3, <1>5, StatusesApart DEF OnlyStatus, Updated, CounterKept, CounterWas
<1>9. ConvsMove /\ \A e \in ConvIds : CounterKept(e)
  BY <1>2, <1>4, <1>8, OneRowWritten DEF ConvsMove
<1>10. QED
  BY <1>1, <1>7, <1>9, AgentStep

LEMMA CreateByAgentStep ==
    ASSUME IInv, NEW contact \in Contacts, NEW status \in Statuses, NEW assignee \in Agents \cup {None},
           NEW botActive \in BOOLEAN, NEW withMessage \in BOOLEAN,
           CreateByAgent(contact, status, assignee, botActive, withMessage)
    PROVE  IInv'
<1> DEFINE at == IF withMessage THEN AgentTime ELSE 0
           new == create(contact, status, assignee, botActive, at)
           paused == status = "human_assigned" \/ ~botActive
           required == status = "human_assigned"
<1>1. /\ TypeOK /\ ops < MaxOps /\ ops' = ops + 1
      /\ UNCHANGED <<messages, deleted, notices, delivery>>
  BY DEF CreateByAgent, IInv
<1>2. PICK c \in Fresh : convs' = [convs EXCEPT ![c] = new]
  BY DEF CreateByAgent
<1>3. at \in Nat /\ at \in {0, AgentTime}
  BY InboundAssumption
<1>4. paused \in BOOLEAN /\ required \in BOOLEAN
  OBVIOUS
<1>5. new = [contact |-> contact, status |-> status, assignedTo |-> assignee, botPaused |-> paused,
             handoffRequired |-> required, unreadCount |-> 0, lastCustomerMessageAt |-> at]
  BY DEF create
<1> HIDE DEF at, new, paused, required
<1>6. /\ new \in Rows /\ Exists(new) /\ new.unreadCount = 0
      /\ new.lastCustomerMessageAt \in {0, AgentTime}
  BY <1>3, <1>4, <1>5 DEF Rows, Exists
<1>7. c \in ConvIds /\ convs[c].status = "none" /\ ~Exists(convs[c])
  BY StatusesApart DEF Fresh
<1>8. convs' \in [ConvIds -> Rows] /\ convs'[c] = new
  BY <1>2, <1>6, <1>7, OneRowWritten
<1>9. ops' \in 0 .. MaxOps
  BY <1>1, InboundAssumption DEF TypeOK
<1>10. TypeOK' /\ NothingStored
  BY <1>1, <1>8, <1>9 DEF TypeOK, NothingStored, Stored
<1>11. Created(c) /\ CounterKept(c)
  <2>1. Justified(c)'
    BY <1>6, <1>8 DEF Justified
  <2>2. QED
    BY <1>6, <1>7, <1>8, <2>1, StatusesApart DEF Created, CounterKept, CounterWas
<1>12. ConvsMove /\ \A e \in ConvIds : CounterKept(e)
  BY <1>2, <1>6, <1>7, <1>11, OneRowWritten DEF ConvsMove
<1>13. QED
  BY <1>1, <1>10, <1>12, AgentStep

LEMMA RemoveConversationStep ==
    ASSUME IInv, NEW c \in ConvIds, RemoveConversation(c)
    PROVE  IInv'
<1> DEFINE new == remove(convs[c])
<1>1. /\ TypeOK /\ ops < MaxOps /\ ops' = ops + 1 /\ delivery' = delivery
      /\ convs' = [convs EXCEPT ![c] = new] /\ notices' = [notices EXCEPT ![c] = 0]
      /\ messages' = {row \in messages : row.conv # c}
      /\ deleted' = deleted \cup (messages \ messages')
  BY DEF RemoveConversation, IInv
<1>2. new \in Rows /\ new.status = "removed" /\ ~Exists(new)
  <2>1. new = [NoRow EXCEPT !.status = "removed"]
    BY DEF remove
  <2> HIDE DEF new
  <2>2. new \in Rows /\ new.status = "removed"
    BY <2>1, NoRowTyped DEF Rows, AbsentStatuses
  <2>3. QED
    BY <2>2, StatusesApart
<1> HIDE DEF new
<1>3. convs' \in [ConvIds -> Rows] /\ convs'[c] = new
  BY <1>1, <1>2, OneRowWritten
<1>4. ops' \in 0 .. MaxOps /\ notices' \in [ConvIds -> Nat]
  BY <1>1, InboundAssumption DEF TypeOK
<1>5. NothingStored
  BY <1>1 DEF NothingStored, Stored
<1>6. TypeOK'
  BY <1>1, <1>3, <1>4 DEF TypeOK
<1>7. Removed(c) /\ CounterKept(c)
  BY <1>1, <1>2, <1>3 DEF Removed, CounterKept
<1>8. ConvsMove /\ \A e \in ConvIds : CounterKept(e)
  BY <1>1, <1>2, <1>7, OneRowWritten DEF ConvsMove
<1>9. QED
  BY <1>1, <1>5, <1>6, <1>8, AgentStep

LEMMA DeleteMessageStep ==
    ASSUME IInv, NEW row \in messages, DeleteMessage(row)
    PROVE  IInv'
<1>1. /\ TypeOK /\ ops < MaxOps /\ ops' = ops + 1 /\ UNCHANGED <<convs, notices, delivery>>
      /\ messages' = messages \ {row} /\ deleted' = deleted \cup {row}
  BY DEF DeleteMessage, IInv
<1>2. ops' \in 0 .. MaxOps
  BY <1>1, InboundAssumption DEF TypeOK
<1>3. NothingStored
  BY <1>1 DEF NothingStored, Stored
<1>4. TypeOK'
  BY <1>1, <1>2 DEF TypeOK
<1>5. QED
  BY <1>1, <1>3, <1>4, UnmovedTables, AgentStep

LEMMA ReadNoticesStep ==
    ASSUME IInv, NEW c \in ConvIds, ReadNotices(c)
    PROVE  IInv'
<1>1. /\ TypeOK /\ ops < MaxOps /\ ops' = ops + 1
      /\ UNCHANGED <<convs, messages, deleted, delivery>>
  BY DEF ReadNotices, IInv
<1>2. ops' \in 0 .. MaxOps
  BY <1>1, InboundAssumption DEF TypeOK
<1>3. notices' \in [ConvIds -> Nat]
  <2>1. PICK unread \in 0 .. notices[c] - 1 : notices' = [notices EXCEPT ![c] = unread]
    BY DEF ReadNotices
  <2>2. unread \in Nat
    BY <1>1 DEF TypeOK
  <2>3. QED
    BY <1>1, <2>1, <2>2 DEF TypeOK
<1>4. TypeOK' /\ NothingStored
  BY <1>1, <1>2, <1>3 DEF TypeOK, NothingStored, Stored
<1>5. QED
  BY <1>1, <1>4, UnmovedTables, AgentStep

-----------------------------------------------------------------------------
(* The inductive invariant *)

LEMMA InitInv == Init => IInv
<1> SUFFICES ASSUME Init
             PROVE  IInv
  OBVIOUS
<1> USE DEF Init
<1>1. TypeOK
  <2> DEFINE row == [step |-> "idle", kind |-> None, msg |-> None, conv |-> None,
                     seen |-> NoRow, result |-> None, log |-> "none"]
  <2>1. row \in DeliveryRows
    BY NoRowTyped DEF DeliveryRows, Steps, Results, Logs
  <2>2. delivery = [d \in Deliveries |-> row]
    OBVIOUS
  <2> HIDE DEF row
  <2>3. delivery \in [Deliveries -> DeliveryRows]
    BY <2>1, <2>2
  <2>4. convs \in [ConvIds -> Rows] /\ notices \in [ConvIds -> Nat] /\ ops \in 0 .. MaxOps
    BY NoRowTyped, InboundAssumption
  <2>5. QED
    BY <2>3, <2>4 DEF TypeOK, DeliveryRows
<1>2. Stored = {} /\ messages = {} /\ \A c \in ConvIds : convs[c].status = "none" /\ convs[c].contact = None
  BY DEF Stored, NoRow
<1>3. \A d \in Deliveries : Local(d)
  <2> TAKE d \in Deliveries
  <2>1. /\ delivery[d].step = "idle" /\ delivery[d].result = None /\ delivery[d].msg = None
        /\ delivery[d].conv = None /\ delivery[d].log = "none" /\ delivery[d].kind = None
    OBVIOUS
  <2>2. None \notin Outcomes
    BY NoneIsNoName DEF Names
  <2>3. Knows(d)
    BY <2>1, <2>2 DEF Knows, OnItsRow, EndSteps, Outcomes
  <2>4. FoundItsSenders(d) /\ HasStored(d)
    BY <2>1, <2>2 DEF FoundItsSenders, HasStored, OnItsRow, Outcomes
  <2>5. QED
    BY <2>3, <2>4 DEF Local
<1>4. FreshIsEmpty /\ MessageInSendersConversation /\ RowsOfDeliveries /\ UniqueIds
  BY <1>2 DEF FreshIsEmpty, MessageInSendersConversation, RowsOfDeliveries, UniqueIds
<1>5. IsFiniteSet(Stored)
  BY <1>2, FS_EmptySet
<1>6. \A c \in ConvIds : ~Exists(convs[c])
  BY <1>2, StatusesApart
<1>7. CounterBounds /\ WindowFromCustomer
  BY <1>6 DEF CounterBounds, WindowFromCustomer
<1>8. QED
  BY <1>1, <1>3, <1>4, <1>5, <1>7 DEF IInv

LEMMA StepInv ==
    ASSUME IInv, NEW d \in Deliveries, Step(d)
    PROVE  IInv'
<1>1. CASE \E kind \in Kinds, m \in Messages, ignored \in BOOLEAN : Receive(d, kind, m, ignored)
  BY <1>1, ReceiveStep, ProceedsKeepsInv
<1>2. CASE \E m \in Messages, c \in ConvIds : ReceiveForConversation(d, m, c)
  BY <1>2, ReceiveForConversationStep, ProceedsKeepsInv
<1>3. CASE FindConversation(d) \/ FindDuplicate(d) \/ findInboundDuplicate(d) \/ BeginTransaction(d)
  BY <1>3, FindConversationStep, FindDuplicateStep, findInboundDuplicateStep, BeginTransactionStep,
     ProceedsKeepsInv
<1>4. CASE CreateConversation(d) \/ StoreMessage(d) \/ CountMessage(d)
  BY <1>4, CreateConversationStep, StoreMessageStep, CountMessageStep
<1>5. CASE CommitInbound(d) \/ CommitConversation(d)
  BY <1>5, CommitInboundStep, CommitConversationStep
<1>6. CASE DecideReply(d) \/ FindNotice(d) \/ CreateNotice(d)
  BY <1>6, DecideReplyStep, FindNoticeStep, CreateNoticeStep, ProceedsKeepsInv
<1>7. CASE markProcessed(d) \/ markFailed(d) \/ Throw(d) \/ Crash(d)
  BY <1>7, markProcessedStep, markFailedStep, ThrowStep, CrashStep, ProceedsKeepsInv
<1>8. QED
  BY <1>1, <1>2, <1>3, <1>4, <1>5, <1>6, <1>7 DEF Step

LEMMA UnchangedInv ==
    ASSUME IInv, UNCHANGED vars
    PROVE  IInv'
<1>1. TypeOK' /\ NothingStored /\ convs' = convs /\ delivery' = delivery
  BY DEF IInv, TypeOK, vars, NothingStored, Stored
<1>2. QED
  BY <1>1, UnmovedTables, AgentStep

LEMMA NextInv ==
    ASSUME IInv, [Next]_vars
    PROVE  IInv'
<1>1. CASE \E d \in Deliveries : Step(d)
  BY <1>1, StepInv
<1>2. CASE \E c \in ConvIds : Agent(c)
  BY <1>2, OperateStep, RemoveConversationStep, ReadNoticesStep DEF Agent
<1>3. CASE AgentCreates
  BY <1>3, CreateByAgentStep DEF AgentCreates
<1>4. CASE \E row \in messages : DeleteMessage(row)
  BY <1>4, DeleteMessageStep
<1>5. CASE UNCHANGED vars
  BY <1>5, UnchangedInv
<1>6. QED
  BY <1>1, <1>2, <1>3, <1>4, <1>5 DEF Next, Rest

\* The inductive invariant holds in every state: what each delivery knows at its step, one
\* stored row per delivery and per identified message, and the bounds of the counter.
THEOREM Invariant == Spec => []IInv
<1>1. Init => IInv
  BY InitInv
<1>2. IInv /\ [Next]_vars => IInv'
  BY NextInv
<1>3. QED
  BY <1>1, <1>2, PTL DEF Spec

-----------------------------------------------------------------------------
(* The properties of the runs *)

\* Every variable keeps its type.
THEOREM TypeCorrect == Spec => []TypeOK
<1>1. IInv => TypeOK
  BY DEF IInv
<1>2. QED
  BY <1>1, Invariant, PTL

LEMMA BoundsAccount == IInv => UnreadAccountsForInbound
<1> SUFFICES ASSUME IInv, NEW c \in ConvIds, Exists(convs[c])
             PROVE  /\ convs[c].unreadCount <= Cardinality(InboundOf(c))
                    /\ Cardinality(InboundOf(c) \ Uncounted(c)) <= convs[c].unreadCount
  BY DEF UnreadAccountsForInbound
<1>1. /\ convs[c].unreadCount <= Cardinality(Perhaps(c))
      /\ Cardinality(Surely(c)) <= convs[c].unreadCount
  BY DEF IInv, CounterBounds
<1>2. /\ IsFiniteSet(InboundOf(c)) /\ Cardinality(Perhaps(c)) \in Nat /\ CounterWas(c) \in Nat
      /\ CounterWas(c) = convs[c].unreadCount
  BY CountersTyped DEF CounterWas
<1>3. Perhaps(c) \in SUBSET InboundOf(c) /\ Cardinality(InboundOf(c)) \in Nat
  BY <1>2, FS_CardinalityType DEF Perhaps
<1>4. Cardinality(Perhaps(c)) <= Cardinality(InboundOf(c))
  BY <1>2, <1>3, FS_Subset
<1>5. convs[c].unreadCount <= Cardinality(InboundOf(c))
  BY <1>1, <1>2, <1>3, <1>4
<1>6. QED
  BY <1>1, <1>5 DEF Surely

\* unreadCount counts each inbound message once, however often it was delivered, retried or
\* counted concurrently, and misses only those whose delivery stopped before the update.
THEOREM UnreadIsAccountedFor == Spec => []UnreadAccountsForInbound
<1>1. QED
  BY BoundsAccount, Invariant, PTL

LEMMA DecisionsApart == IInv => AtMostOneDecision
<1> SUFFICES ASSUME IInv, NEW d \in Deliveries, NEW e \in Deliveries,
                    delivery[d].result \in Decisions, delivery[e].result \in Decisions,
                    delivery[d].msg = delivery[e].msg, delivery[d].msg \in Identified,
                    ~DeletedByAgent(delivery[d].msg)
             PROVE  d = e
  BY DEF AtMostOneDecision
<1>1. PICK row \in Stored : row.by = d /\ row.msg = delivery[d].msg
  BY Before DEF HasStored
<1>2. PICK other \in Stored : other.by = e /\ other.msg = delivery[e].msg
  BY Before DEF HasStored
<1>3. row \in messages /\ other \in messages
  BY <1>1, <1>2 DEF Stored, DeletedByAgent
<1>4. row = other
  BY <1>1, <1>2, <1>3 DEF IInv, UniqueIds
<1>5. QED
  BY <1>1, <1>2, <1>4

\* The n8n entry decides at most once about an identified message, unless an agent deletes
\* the row that remembers it: no customer is answered twice.
THEOREM DecidedOnce == Spec => []AtMostOneDecision
<1>1. QED
  BY DecisionsApart, Invariant, PTL

\* A stored message is in an existing conversation of the contact that sent it, though the
\* conversation was looked up some steps before and may have been removed since.
THEOREM StoredWithItsSender == Spec => []MessageInSendersConversation
<1>1. IInv => MessageInSendersConversation
  BY DEF IInv
<1>2. QED
  BY <1>1, Invariant, PTL

\* The customer-service window is the time of a message of the conversation's own contact.
THEOREM WindowIsJustified == Spec => []WindowFromCustomer
<1>1. IInv => WindowFromCustomer
  BY DEF IInv
<1>2. QED
  BY <1>1, Invariant, PTL

LEMMA ProcessedStored == IInv => ProcessedMeansStored
<1> SUFFICES ASSUME IInv, NEW d \in Deliveries,
                    delivery[d].log = "processed", delivery[d].kind # "persist",
                    delivery[d].result # "ignored"
             PROVE  DeletedByAgent(delivery[d].msg) \/ \E row \in messages : row.msg = delivery[d].msg
  BY DEF ProcessedMeansStored
<1>1. PICK row \in Stored : row.msg = delivery[d].msg
  BY Before DEF HasStored
<1>2. QED
  BY <1>1 DEF Stored, DeletedByAgent

\* An event is marked processed only when its message has been stored: no duplicate that is
\* swallowed and no transaction that is rolled back loses a message.
THEOREM ProcessedIsStored == Spec => []ProcessedMeansStored
<1>1. QED
  BY ProcessedStored, Invariant, PTL

\* A step of a delivery leaves the other deliveries alone.
LEMMA OthersUnmoved ==
    ASSUME TypeOK, NEW e \in Deliveries, Step(e), NEW x \in Deliveries, x # e
    PROVE  delivery'[x] = delivery[x]
<1>1. delivery \in [Deliveries -> DeliveryRows]
  BY DEF TypeOK, DeliveryRows
<1>2. ASSUME NEW step, NEW result, Goto(e, step, result)
      PROVE  delivery'[x] = delivery[x]
  BY <1>1, <1>2 DEF Goto
<1>3. CASE \E kind \in Kinds, m \in Messages, ignored \in BOOLEAN : Receive(e, kind, m, ignored)
  BY <1>1, <1>3 DEF Receive
<1>4. CASE \E m \in Messages, c \in ConvIds : ReceiveForConversation(e, m, c)
  BY <1>1, <1>4 DEF ReceiveForConversation
<1>5. CASE FindConversation(e) \/ CreateConversation(e) \/ FindDuplicate(e)
  BY <1>1, <1>2, <1>5 DEF FindConversation, CreateConversation, FindDuplicate
<1>6. CASE StoreMessage(e) \/ CountMessage(e)
  BY <1>1, <1>2, <1>6 DEF StoreMessage, CountMessage
<1>7. CASE findInboundDuplicate(e) \/ BeginTransaction(e)
  BY <1>1, <1>2, <1>7 DEF findInboundDuplicate, BeginTransaction
<1>8. CASE CommitInbound(e)
  BY <1>1, <1>2, <1>8 DEF CommitInbound
<1>9. CASE CommitConversation(e)
  BY <1>1, <1>2, <1>9 DEF CommitConversation
<1>10. CASE DecideReply(e) \/ FindNotice(e) \/ CreateNotice(e)
  BY <1>1, <1>2, <1>10 DEF DecideReply, FindNotice, CreateNotice
<1>11. CASE markProcessed(e) \/ markFailed(e) \/ Throw(e) \/ Crash(e)
  BY <1>1, <1>2, <1>11 DEF markProcessed, markFailed, Throw, Crash
<1>12. QED
  BY <1>3, <1>4, <1>5, <1>6, <1>7, <1>8, <1>9, <1>10, <1>11 DEF Step

\* From the notification a delivery goes on to mark its event only with an unread notice of
\* its conversation; otherwise it fails.
LEMMA SignalledStep ==
    ASSUME IInv, Next, NEW d \in Deliveries,
           delivery[d].step \in {"notice_find", "notice_create"}, delivery'[d].step = "mark"
    PROVE  notices'[delivery[d].conv] > 0
<1>1. TypeOK /\ delivery[d].conv \in ConvIds /\ notices \in [ConvIds -> Nat]
  BY Before, NotifiedResult DEF TypeOK
<1>2. "fail" \in Steps /\ "done" \in Steps /\ "error" \in Results
  BY DEF Steps, EndSteps, Results, Outcomes
<1>3. delivery' # delivery
  BY <1>1
<1>4. PICK e \in Deliveries : Step(e)
  BY <1>3 DEF Next, Rest, vars, Agent, AgentCreates, Operate, RemoveConversation, ReadNotices,
              CreateByAgent, DeleteMessage
<1>5. CASE e = d
  <2>1. FindNotice(d) \/ CreateNotice(d) \/ Throw(d) \/ Crash(d)
    <3>1. \A kind \in Kinds, m \in Messages, ignored \in BOOLEAN : ~Receive(d, kind, m, ignored)
      BY DEF Receive
    <3>2. \A m \in Messages, c \in ConvIds : ~ReceiveForConversation(d, m, c)
      BY DEF ReceiveForConversation
    <3>3. /\ ~FindConversation(d) /\ ~CreateConversation(d) /\ ~FindDuplicate(d)
          /\ ~StoreMessage(d) /\ ~CountMessage(d)
      BY DEF FindConversation, CreateConversation, FindDuplicate, StoreMessage, CountMessage, At
    <3>4. ~findInboundDuplicate(d) /\ ~BeginTransaction(d)
      BY DEF findInboundDuplicate, BeginTransaction, At
    <3>5. ~CommitInbound(d) /\ ~CommitConversation(d)
      BY DEF CommitInbound, CommitConversation, At
    <3>6. ~DecideReply(d) /\ ~markProcessed(d) /\ ~markFailed(d)
      BY DEF DecideReply, markProcessed, markFailed, At
    <3>7. Step(d)
      BY <1>4, <1>5
    <3>8. QED
      BY <3>1, <3>2, <3>3, <3>4, <3>5, <3>6, <3>7 DEF Step
  <2>2. CASE FindNotice(d)
    <3>1. CASE notices[delivery[d].conv] > 0
      BY <2>2, <3>1 DEF FindNotice
    <3>2. CASE ~(notices[delivery[d].conv] > 0)
      <4>1. delivery' = [delivery EXCEPT ![d].step = "notice_create"]
        BY <2>2, <3>2 DEF FindNotice
      <4>2. delivery'[d].step = "notice_create"
        BY <1>1, <4>1 DEF TypeOK
      <4>3. QED
        BY <4>2
    <3>3. QED
      BY <3>1, <3>2
  <2>3. CASE CreateNotice(d)
    <3>1. CASE Goto(d, "fail", "error")
      <4>1. delivery'[d].step = "fail"
        BY <1>1, <1>2, <3>1, GotoEffect
      <4>2. QED
        BY <4>1
    <3>2. CASE ~Goto(d, "fail", "error")
      <4>1. notices' = [notices EXCEPT ![delivery[d].conv] = @ + 1]
        BY <2>3, <3>2 DEF CreateNotice
      <4>2. QED
        BY <1>1, <4>1
    <3>3. QED
      BY <3>1, <3>2
  <2>4. CASE Throw(d)
    <3> DEFINE step == IF delivery[d].step = "fail" THEN "done" ELSE ErrorStep(d)
    <3>1. Goto(d, step, "error") /\ step \in {"fail", "done"}
      BY <2>4 DEF Throw, ErrorStep
    <3> HIDE DEF step
    <3>2. delivery'[d].step = step
      BY <1>1, <1>2, <3>1, GotoEffect
    <3>3. QED
      BY <3>1, <3>2
  <2>5. CASE Crash(d)
    <3>1. delivery'[d].step = "crashed"
      BY <1>1, <2>5 DEF Crash, TypeOK
    <3>2. QED
      BY <3>1
  <2>6. QED
    BY <2>1, <2>2, <2>3, <2>4, <2>5
<1>6. CASE e # d
  <2>1. \A x \in Deliveries : x # e => delivery'[x] = delivery[x]
    BY <1>1, <1>4, OthersUnmoved
  <2>2. QED
    BY <1>6, <2>1
<1>7. QED
  BY <1>5, <1>6

\* A blocked or handed off answer is marked processed only when an unread notice of that very
\* conversation exists, whoever read or created notices meanwhile.
THEOREM BlockedIsAlwaysSignalled == Spec => BlockedIsSignalled
<1>1. IInv /\ [Next]_vars =>
        [\A d \in Deliveries :
           /\ delivery[d].step \in {"notice_find", "notice_create"}
           /\ delivery'[d].step = "mark"
           => notices'[delivery[d].conv] > 0]_vars
  BY SignalledStep
<1>2. QED
  BY <1>1, Invariant, PTL DEF Spec, BlockedIsSignalled

-----------------------------------------------------------------------------
(* One open conversation, when only transactions open them *)

\* No conversation is opened, and no transaction begins.
OpensNothing ==
    \A c \in ConvIds : /\ Open(convs'[c]) => Open(convs[c]) /\ convs'[c].contact = convs[c].contact
                       /\ convs'[c].status # "human_assigned"
LocksNothing ==
    \A d \in Deliveries :
        /\ delivery'[d].step = "commit" => delivery'[d] = delivery[d]
        /\ delivery'[d].seen.status # "human_assigned"

LEMMA QuietSerialStep ==
    ASSUME SerialInv, OpensNothing, LocksNothing
    PROVE  SerialInv'
<1>1. LockExclusive /\ LockKnowsOpen /\ OneOpen
  BY DEF SerialInv
<1>2. LockExclusive'
  BY <1>1 DEF LockExclusive, LocksNothing
<1>3. LockKnowsOpen'
  <2> SUFFICES ASSUME NEW d \in Deliveries, delivery'[d].step = "commit",
                      NEW c \in ConvIds, convs'[c].contact = From[delivery'[d].msg], Open(convs'[c])
               PROVE  c = delivery'[d].conv
    BY DEF LockKnowsOpen, OpenOf
  <2>1. delivery'[d] = delivery[d] /\ Open(convs[c]) /\ convs'[c].contact = convs[c].contact
    BY DEF LocksNothing, OpensNothing
  <2>2. c \in OpenOf(From[delivery[d].msg])
    BY <2>1 DEF OpenOf
  <2>3. QED
    BY <1>1, <2>1, <2>2 DEF LockKnowsOpen
<1>4. OneOpen'
  <2> SUFFICES ASSUME NEW c \in ConvIds, NEW e \in ConvIds, Open(convs'[c]), Open(convs'[e]),
                      convs'[c].contact = convs'[e].contact
               PROVE  c = e
    BY DEF OneOpen
  <2>1. Open(convs[c]) /\ Open(convs[e]) /\ convs[c].contact = convs[e].contact
    BY DEF OpensNothing
  <2>2. QED
    BY <1>1, <2>1 DEF OneOpen
<1>5. NobodyWaits'
  BY DEF NobodyWaits, OpensNothing, LocksNothing
<1>6. QED
  BY <1>2, <1>3, <1>4, <1>5 DEF SerialInv

\* A step of a delivery that takes no lock and reads no conversation.
TakesNoLock(d) ==
    /\ delivery'[d].step # "commit"
    /\ delivery'[d].seen \in {NoRow, delivery[d].seen}

LEMMA UnlockedStep ==
    ASSUME SerialInv, TypeOK, NEW d \in Deliveries, Step(d), TakesNoLock(d), OpensNothing
    PROVE  SerialInv'
<1>1. LocksNothing
  <2> SUFFICES ASSUME NEW e \in Deliveries
               PROVE  /\ delivery'[e].step = "commit" => delivery'[e] = delivery[e]
                      /\ delivery'[e].seen.status # "human_assigned"
    BY DEF LocksNothing
  <2>1. delivery[e].seen.status # "human_assigned" /\ NoRow.status # "human_assigned"
    BY DEF SerialInv, NobodyWaits, NoRow
  <2>2. CASE e = d
    BY <2>1, <2>2 DEF TakesNoLock
  <2>3. CASE e # d
    BY <2>1, <2>3, OthersUnmoved
  <2>4. QED
    BY <2>2, <2>3
<1>2. QED
  BY <1>1, QuietSerialStep

LEMMA GotoTakesNoLock ==
    ASSUME TypeOK, NEW d \in Deliveries, NEW step \in Steps \ {"commit"}, NEW result \in Results,
           Goto(d, step, result)
    PROVE  TakesNoLock(d)
<1>1. delivery \in [Deliveries -> DeliveryRows]
  BY DEF TypeOK, DeliveryRows
<1>2. delivery'[d].step = step
  BY GotoEffect
<1>3. delivery'[d].seen = IF step \in {"notice_find", "ai", "store", "mark", "fail", "done"}
                          THEN NoRow ELSE delivery[d].seen
  BY <1>1 DEF Goto, DeliveryRows
<1>4. QED
  BY <1>2, <1>3 DEF TakesNoLock

LEMMA ConvsKeptOpenNothing ==
    ASSUME SerialInv, convs' = convs
    PROVE  OpensNothing
BY DEF OpensNothing, SerialInv, NobodyWaits

LEMMA ReceiveTakesNoLock ==
    ASSUME TypeOK, NEW d \in Deliveries, NEW kind \in Kinds, NEW m \in Messages,
           NEW ignored \in BOOLEAN, Receive(d, kind, m, ignored)
    PROVE  TakesNoLock(d)
<1> DEFINE log == IF kind = "workflow" THEN "none" ELSE "pending"
           result == IF ignored THEN "ignored" ELSE None
           step == CASE ignored \/ kind = "persist" -> "mark"
                     [] kind = "evolution" -> "conversation"
                     [] kind = "n8n" -> IF m \in Identified THEN "duplicate" ELSE "tx"
                     [] kind = "workflow" -> "events"
<1>1. delivery' = [delivery EXCEPT ![d].kind = kind, ![d].msg = m, ![d].log = log,
                                   ![d].result = result, ![d].step = step]
  BY DEF Receive
<1>2. kind \in {"evolution", "n8n", "persist", "workflow"}
  BY InboundAssumption
<1>3. step # "commit"
  BY <1>2
<1> HIDE DEF log, result, step
<1>4. delivery \in [Deliveries -> DeliveryRows]
  BY DEF TypeOK, DeliveryRows
<1>5. delivery'[d].step = step /\ delivery'[d].seen = delivery[d].seen
  BY <1>1, <1>4 DEF DeliveryRows
<1>6. QED
  BY <1>3, <1>5 DEF TakesNoLock

\* The steps of a delivery outside the two transactions, but for the evolution entry's look-up.
LEMMA OutsideTransactions ==
    ASSUME IInv, NEW d \in Deliveries, Step(d), ~BeginTransaction(d), ~FindConversation(d),
           ~CreateConversation(d), delivery[d].step # "commit" \/ Throw(d) \/ Crash(d)
    PROVE  TakesNoLock(d)
<1>1. TypeOK /\ Knows(d) /\ delivery[d] \in DeliveryRows /\ delivery \in [Deliveries -> DeliveryRows]
  BY Before DEF TypeOK, DeliveryRows
<1>2. ASSUME NEW step \in {"mark", "fail", "done", "notice_find"}, NEW result \in Results,
             Goto(d, step, result)
      PROVE  TakesNoLock(d)
  BY <1>1, <1>2, GotoTakesNoLock DEF Steps, EndSteps
<1>3. /\ SuccessStep(d) \in {"mark", "done"} /\ ErrorStep(d) \in {"fail", "done"}
      /\ Outcomes \subseteq Results /\ delivery[d].result \in Results
  BY <1>1 DEF SuccessStep, ErrorStep, Results, DeliveryRows
<1>4. {"duplicate", "stored", "error", "reply", "no_reply", "handoff"} \subseteq Results
  BY DEF Results, Outcomes, Decisions
<1>5. CASE \E kind \in Kinds, m \in Messages, ignored \in BOOLEAN : Receive(d, kind, m, ignored)
  BY <1>1, <1>5, ReceiveTakesNoLock
<1>6. CASE \E m \in Messages, c \in ConvIds : ReceiveForConversation(d, m, c)
  BY <1>1, <1>6 DEF ReceiveForConversation, TakesNoLock, DeliveryRows
<1>7. CASE FindDuplicate(d)
  <2>1. CASE Goto(d, SuccessStep(d), "duplicate")
    BY <1>2, <1>3, <1>4, <2>1
  <2>2. CASE delivery' = [delivery EXCEPT ![d].step = IF delivery[d].kind = "n8n" THEN "tx" ELSE "store"]
    BY <1>1, <2>2 DEF TakesNoLock, DeliveryRows
  <2>3. QED
    BY <1>7, <2>1, <2>2 DEF FindDuplicate
<1>8. CASE StoreMessage(d)
  <2>1. CASE Goto(d, SuccessStep(d), "duplicate") \/ Goto(d, ErrorStep(d), "error")
    BY <1>2, <1>3, <1>4, <2>1
  <2>2. CASE delivery' = [delivery EXCEPT ![d].step = "count"]
    BY <1>1, <2>2 DEF TakesNoLock, DeliveryRows
  <2>3. QED
    BY <1>8, <2>1, <2>2 DEF StoreMessage
<1>9. CASE CountMessage(d)
  <2>1. Goto(d, SuccessStep(d), "stored") \/ Goto(d, ErrorStep(d), "error")
    BY <1>9 DEF CountMessage
  <2>2. QED
    BY <1>2, <1>3, <1>4, <2>1
<1>10. CASE findInboundDuplicate(d)
  <2>1. \/ \E row \in RowsWithId(delivery[d].msg) :
              delivery' = [delivery EXCEPT ![d].conv = row.conv, ![d].step = "duplicate"]
        \/ delivery' = [delivery EXCEPT ![d].step = "tx"]
    BY <1>10 DEF findInboundDuplicate
  <2>2. ASSUME NEW conv, NEW step \in {"duplicate", "tx"},
               \/ delivery' = [delivery EXCEPT ![d].conv = conv, ![d].step = step]
               \/ delivery' = [delivery EXCEPT ![d].step = step]
        PROVE  TakesNoLock(d)
    BY <1>1, <2>2 DEF TakesNoLock, DeliveryRows
  <2>3. QED
    BY <2>1, <2>2
<1>11. CASE CommitInbound(d) \/ CommitConversation(d)
  <2>1. delivery[d].step = "commit"
    BY <1>11 DEF CommitInbound, CommitConversation, At
  <2>2. CASE Throw(d)
    BY <1>2, <1>4, <2>1, <2>2, <1>3 DEF Throw
  <2>3. CASE Crash(d)
    BY <1>1, <2>3 DEF Crash, TakesNoLock, DeliveryRows
  <2>4. QED
    BY <2>1, <2>2, <2>3
<1>12. CASE DecideReply(d)
  <2>1. PICK decision \in {"reply", "handoff", "no_reply"} :
          Goto(d, IF decision = "handoff" THEN "notice_find" ELSE "mark", decision)
    BY <1>12 DEF DecideReply
  <2>2. QED
    BY <1>2, <1>4, <2>1
<1>13. CASE FindNotice(d)
  <2>1. CASE Goto(d, "mark", delivery[d].result)
    BY <1>2, <1>3, <2>1
  <2>2. CASE delivery' = [delivery EXCEPT ![d].step = "notice_create"]
    BY <1>1, <2>2 DEF TakesNoLock, DeliveryRows
  <2>3. QED
    BY <1>13, <2>1, <2>2 DEF FindNotice
<1>14. CASE CreateNotice(d)
  <2>1. Goto(d, "mark", delivery[d].result) \/ Goto(d, "fail", "error")
    BY <1>14 DEF CreateNotice
  <2>2. QED
    BY <1>2, <1>3, <1>4, <2>1
<1>15. CASE markProcessed(d) \/ markFailed(d)
  BY <1>1, <1>15 DEF markProcessed, markFailed, TakesNoLock, DeliveryRows
<1>16. CASE Throw(d)
  <2>1. CASE delivery[d].step = "fail"
    <3>1. Goto(d, "done", "error")
      BY <1>16, <2>1 DEF Throw
    <3>2. QED
      BY <1>2, <1>4, <3>1
  <2>2. CASE delivery[d].step # "fail"
    <3>1. Goto(d, ErrorStep(d), "error")
      BY <1>16, <2>2 DEF Throw
    <3>2. QED
      BY <1>2, <1>3, <1>4, <3>1
  <2>3. QED
    BY <2>1, <2>2
<1>17. CASE Crash(d)
  BY <1>1, <1>17 DEF Crash, TakesNoLock, DeliveryRows
<1>18. QED
  BY <1>5, <1>6, <1>7, <1>8, <1>9, <1>10, <1>11, <1>12, <1>13, <1>14, <1>15, <1>16, <1>17
  DEF Step

\* A commit releases the lock, and so does one that is refused.
LEMMA CommitTakesNoLock ==
    ASSUME IInv, NEW d \in Deliveries, CommitInbound(d) \/ CommitConversation(d)
    PROVE  TakesNoLock(d) /\ delivery'[d].kind = delivery[d].kind
<1>1. TypeOK /\ delivery[d] \in DeliveryRows /\ delivery \in [Deliveries -> DeliveryRows]
  BY Before DEF TypeOK, DeliveryRows
<1>2. /\ {"fail", "done"} \subseteq Steps \ {"commit"} /\ {"error", "resolved"} \subseteq Results
  BY DEF Steps, EndSteps, Results, Outcomes
<1>3. CASE Goto(d, "fail", "error") \/ Goto(d, "done", "error") \/ Goto(d, "done", "resolved")
  BY <1>1, <1>2, <1>3, GotoTakesNoLock, GotoEffect DEF SameRequest
<1>4. CASE CommitInbound(d) /\ ~Goto(d, "fail", "error")
  <2> DEFINE m == delivery[d].msg
             created == delivery[d].conv = None
             Before_(c) == IF created THEN NewRow(From[m], EventAt[m]) ELSE convs[c]
             resume == ~created /\ shouldResumeAiAutomation(delivery[d].seen)
             After(c) == receiveInbound(Before_(c), resume, EventAt[m])
             Blocked(c, aiEnabled) == isHumanTakeoverActive(After(c)) \/ ~aiEnabled
  <2>1. PICK c \in IF created THEN Fresh ELSE {delivery[d].conv}, aiEnabled \in BOOLEAN :
           delivery' = [delivery EXCEPT
                          ![d].conv = c, ![d].seen = NoRow,
                          ![d].step = IF Blocked(c, aiEnabled) THEN "notice_find" ELSE "ai",
                          ![d].result = IF Blocked(c, aiEnabled) THEN "blocked" ELSE None]
    BY <1>4 DEF CommitInbound
  <2> HIDE DEF Blocked
  <2> DEFINE step == IF Blocked(c, aiEnabled) THEN "notice_find" ELSE "ai"
             result == IF Blocked(c, aiEnabled) THEN "blocked" ELSE None
  <2>2. step # "commit"
    OBVIOUS
  <2> HIDE DEF step
  <2>3. delivery' = [delivery EXCEPT ![d].conv = c, ![d].seen = NoRow, ![d].step = step, ![d].result = result]
    BY <2>1 DEF step
  <2> HIDE DEF result
  <2>4. d \in DOMAIN delivery /\ {"conv", "seen", "step", "result"} \subseteq DOMAIN delivery[d]
    BY <1>1 DEF DeliveryRows
  <2>5. /\ delivery'[d].seen = NoRow /\ delivery'[d].step = step
        /\ delivery'[d].kind = delivery[d].kind
    BY <2>3, <2>4
  <2>6. delivery'[d].seen = NoRow /\ delivery'[d].step # "commit"
    BY <2>2, <2>5
  <2>7. QED
    BY <2>5, <2>6 DEF TakesNoLock
<1>5. CASE CommitConversation(d) /\ ~Goto(d, "done", "error") /\ ~Goto(d, "done", "resolved")
  <2> DEFINE step == IF delivery[d].msg \in Identified THEN "duplicate" ELSE "store"
  <2>1. PICK c : delivery' = [delivery EXCEPT ![d].conv = c, ![d].seen = NoRow, ![d].step = step]
    BY <1>5 DEF CommitConversation
  <2>2. /\ delivery'[d].seen = NoRow /\ delivery'[d].step # "commit"
        /\ delivery'[d].kind = delivery[d].kind
    BY <1>1, <2>1 DEF DeliveryRows
  <2>3. QED
    BY <2>2 DEF TakesNoLock
<1>6. QED
  BY <1>3, <1>4, <1>5

\* Only four steps of a delivery write a conversation.
LEMMA WhichWrite ==
    ASSUME NEW d \in Deliveries, Step(d)
    PROVE  \/ convs' = convs
           \/ CreateConversation(d) \/ CommitInbound(d) \/ CommitConversation(d)
           \/ CountMessage(d) /\ Exists(convs[delivery[d].conv])
<1>1. CASE \E kind \in Kinds, m \in Messages, ignored \in BOOLEAN : Receive(d, kind, m, ignored)
  BY <1>1 DEF Receive
<1>2. CASE \E m \in Messages, c \in ConvIds : ReceiveForConversation(d, m, c)
  BY <1>2 DEF ReceiveForConversation
<1>3. CASE FindConversation(d) \/ FindDuplicate(d)
  BY <1>3 DEF FindConversation, FindDuplicate
<1>4. CASE StoreMessage(d) \/ findInboundDuplicate(d)
  BY <1>4 DEF StoreMessage, findInboundDuplicate
<1>5. CASE CountMessage(d)
  BY <1>5 DEF CountMessage
<1>6. CASE BeginTransaction(d)
  BY <1>6 DEF BeginTransaction
<1>7. CASE DecideReply(d) \/ FindNotice(d)
  BY <1>7 DEF DecideReply, FindNotice
<1>8. CASE CreateNotice(d)
  BY <1>8 DEF CreateNotice
<1>9. CASE markProcessed(d) \/ markFailed(d)
  BY <1>9 DEF markProcessed, markFailed
<1>10. CASE Throw(d) \/ Crash(d)
  BY <1>10 DEF Throw, Crash
<1>11. QED
  BY <1>1, <1>2, <1>3, <1>4, <1>5, <1>6, <1>7, <1>8, <1>9, <1>10 DEF Step

\* A transaction ends with its commit, an error or a crash.
LEMMA FromCommit ==
    ASSUME NEW d \in Deliveries, Step(d), delivery[d].step = "commit"
    PROVE  CommitInbound(d) \/ CommitConversation(d) \/ Throw(d) \/ Crash(d)
<1>1. \A kind \in Kinds, m \in Messages, ignored \in BOOLEAN : ~Receive(d, kind, m, ignored)
  BY DEF Receive
<1>2. \A m \in Messages, c \in ConvIds : ~ReceiveForConversation(d, m, c)
  BY DEF ReceiveForConversation
<1>3. ~FindConversation(d) /\ ~CreateConversation(d) /\ ~FindDuplicate(d)
  BY DEF FindConversation, CreateConversation, FindDuplicate
<1>4. ~StoreMessage(d) /\ ~CountMessage(d)
  BY DEF StoreMessage, CountMessage
<1>5. ~findInboundDuplicate(d) /\ ~BeginTransaction(d)
  BY DEF findInboundDuplicate, BeginTransaction
<1>6. ~DecideReply(d) /\ ~FindNotice(d) /\ ~CreateNotice(d)
  BY DEF DecideReply, FindNotice, CreateNotice
<1>7. ~markProcessed(d) /\ ~markFailed(d)
  BY DEF markProcessed, markFailed
<1>8. QED
  BY <1>1, <1>2, <1>3, <1>4, <1>5, <1>6, <1>7 DEF Step

\* Such a step opens no conversation, either.
LEMMA OutsideOpensNothing ==
    ASSUME IInv, SerialInv, OpenedInTransactions, NEW d \in Deliveries, Step(d),
           ~BeginTransaction(d),
           delivery[d].step # "commit" \/ Throw(d) \/ Crash(d)
    PROVE  OpensNothing
<1>1. TypeOK /\ Knows(d) /\ delivery[d] \in DeliveryRows
  BY Before
<1>2. CASE CountMessage(d) /\ Exists(convs[delivery[d].conv])
  <2> DEFINE c == delivery[d].conv
             old == convs[c]
             at == EventAt[delivery[d].msg]
             count == old.unreadCount + 1
             new == [old EXCEPT !.unreadCount = count, !.lastCustomerMessageAt = at]
  <2>1. delivery[d].kind # "evolution" /\ c \in ConvIds
    BY <1>1, <1>2 DEF Knows, OpenedInTransactions, CountMessage, OnItsRow, DeliveryRows
  <2>2. convs' = [convs EXCEPT ![c] = touchInbound(old, at)] /\ old \in Rows
    BY <1>1, <1>2, <2>1 DEF CountMessage, TypeOK
  <2>3. touchInbound(old, at) = new
    BY <2>2 DEF touchInbound, Rows
  <2> HIDE DEF count, at
  <2>4. new.status = old.status /\ new.contact = old.contact
    BY <2>2 DEF Rows
  <2> HIDE DEF new
  <2>5. ASSUME NEW e \in ConvIds
        PROVE  convs'[e].status = convs[e].status /\ convs'[e].contact = convs[e].contact
    BY <1>1, <2>1, <2>2, <2>3, <2>4 DEF TypeOK
  <2>6. QED
    BY <2>5 DEF OpensNothing, Open, SerialInv, NobodyWaits
<1>3. CASE ~(CountMessage(d) /\ Exists(convs[delivery[d].conv]))
  <2>1. delivery[d].step # "new_conversation"
    BY <1>1 DEF Knows, OpenedInTransactions
  <2>2. convs' = convs
    <3>1. CASE Throw(d) \/ Crash(d)
      BY <3>1 DEF Throw, Crash
    <3>2. CASE delivery[d].step # "commit"
      <4>1. ~CreateConversation(d)
        BY <2>1 DEF CreateConversation
      <4>2. ~CommitInbound(d) /\ ~CommitConversation(d)
        BY <3>2 DEF CommitInbound, CommitConversation, At
      <4>3. QED
        BY <1>3, <4>1, <4>2, WhichWrite
    <3>3. QED
      BY <3>1, <3>2
  <2>3. QED
    BY <2>2, ConvsKeptOpenNothing
<1>4. QED
  BY <1>2, <1>3

\* A transaction begins: it takes the lock, and knows the open conversation if there is one.
LEMMA BeginSerialStep ==
    ASSUME IInv, SerialInv, NEW d \in Deliveries, BeginTransaction(d)
    PROVE  SerialInv'
<1> DEFINE contact == From[delivery[d].msg]
<1>1. /\ TypeOK /\ Knows(d) /\ delivery[d] \in DeliveryRows /\ delivery \in [Deliveries -> DeliveryRows]
      /\ delivery[d].step = "tx" /\ delivery[d].conv = None /\ convs' = convs
  BY Before DEF BeginTransaction, TypeOK, DeliveryRows, Knows
<1>2. \A e \in Deliveries : e # d => delivery'[e] = delivery[e]
  BY <1>1, OthersUnmoved DEF Step
<1>3. /\ delivery'[d].msg = delivery[d].msg
      /\ \/ OpenOf(contact) = {} /\ delivery'[d].seen = delivery[d].seen
         \/ \E c \in OpenOf(contact) : delivery'[d].conv = c /\ delivery'[d].seen = convs[c]
  <2>1. CASE OpenOf(contact) = {} /\ Goto(d, "commit", None)
    <3>1. "commit" \in Steps /\ None \in Results
      BY DEF Steps, Results
    <3>2. delivery'[d].msg = delivery[d].msg
      BY <1>1, <2>1, <3>1, GotoEffect DEF SameRequest
    <3>3. delivery'[d].seen = delivery[d].seen
      BY <1>1, <2>1 DEF Goto, DeliveryRows
    <3>4. QED
      BY <2>1, <3>2, <3>3
  <2>2. ASSUME NEW c \in OpenOf(contact),
               delivery' = [delivery EXCEPT ![d].conv = c, ![d].seen = convs[c], ![d].step = "commit"]
        PROVE  delivery'[d].msg = delivery[d].msg /\ delivery'[d].conv = c /\ delivery'[d].seen = convs[c]
    BY <1>1, <2>2 DEF DeliveryRows
  <2>3. QED
    BY <2>1, <2>2 DEF BeginTransaction
<1>4. LockExclusive /\ LockKnowsOpen /\ OneOpen /\ NobodyWaits
  BY DEF SerialInv
<1>5. \A e \in Deliveries : delivery[e].step = "commit" => From[delivery[e].msg] # contact
  BY DEF BeginTransaction, ContactLocked
<1>6. LockExclusive'
  <2> SUFFICES ASSUME NEW x \in Deliveries, NEW y \in Deliveries,
                      delivery'[x].step = "commit", delivery'[y].step = "commit",
                      From[delivery'[x].msg] = From[delivery'[y].msg], x # y
               PROVE  FALSE
    BY DEF LockExclusive
  <2>1. CASE x = d
    BY <1>2, <1>3, <1>5, <2>1
  <2>2. CASE y = d
    BY <1>2, <1>3, <1>5, <2>2
  <2>3. CASE x # d /\ y # d
    BY <1>2, <1>4, <2>3 DEF LockExclusive
  <2>4. QED
    BY <2>1, <2>2, <2>3
<1>7. LockKnowsOpen'
  <2> SUFFICES ASSUME NEW x \in Deliveries, delivery'[x].step = "commit",
                      NEW c \in OpenOf(From[delivery'[x].msg])
               PROVE  c = delivery'[x].conv
    BY <1>1 DEF LockKnowsOpen, OpenOf
  <2>1. CASE x = d
    <3>1. c \in OpenOf(contact)
      BY <1>3, <2>1
    <3>2. PICK e \in OpenOf(contact) : delivery'[d].conv = e
      BY <1>3, <3>1
    <3>3. c = e
      BY <1>4, <3>1, <3>2 DEF OneOpen, OpenOf
    <3>4. QED
      BY <2>1, <3>2, <3>3
  <2>2. CASE x # d
    BY <1>2, <1>4, <2>2 DEF LockKnowsOpen
  <2>3. QED
    BY <2>1, <2>2
<1>8. OneOpen'
  BY <1>1, <1>4 DEF OneOpen
<1>9. NobodyWaits'
  <2>1. delivery'[d].seen.status # "human_assigned"
    BY <1>3, <1>4 DEF NobodyWaits, OpenOf
  <2>2. QED
    BY <1>1, <1>2, <1>4, <2>1 DEF NobodyWaits
<1>10. QED
  BY <1>6, <1>7, <1>8, <1>9 DEF SerialInv

\* A transaction opens a conversation for a contact that has none.
LEMMA OpeningSerialStep ==
    ASSUME IInv, SerialInv, NEW d \in Deliveries, Step(d), TakesNoLock(d),
           delivery[d].step = "commit", delivery[d].conv = None,
           NEW c \in ConvIds, NEW new \in Rows, convs' = [convs EXCEPT ![c] = new],
           new.contact = From[delivery[d].msg], new.status # "human_assigned"
    PROVE  SerialInv'
<1> USE NoneIsNoName DEF Names
<1>1. /\ TypeOK /\ LockExclusive /\ LockKnowsOpen /\ OneOpen /\ NobodyWaits
      /\ convs \in [ConvIds -> Rows]
  BY DEF IInv, SerialInv, TypeOK
<1>2. \A e \in Deliveries : e # d => delivery'[e] = delivery[e]
  BY <1>1, OthersUnmoved
<1>3. convs'[c] = new /\ \A e \in ConvIds : e # c => convs'[e] = convs[e]
  BY <1>1
<1>4. \A e \in ConvIds : ~(Open(convs[e]) /\ convs[e].contact = From[delivery[d].msg])
  BY <1>1 DEF LockKnowsOpen, OpenOf
<1>5. LockExclusive'
  BY <1>1, <1>2 DEF LockExclusive, TakesNoLock
<1>6. LockKnowsOpen'
  <2> SUFFICES ASSUME NEW x \in Deliveries, delivery'[x].step = "commit", NEW e \in ConvIds,
                      convs'[e].contact = From[delivery'[x].msg], Open(convs'[e])
               PROVE  e = delivery'[x].conv
    BY DEF LockKnowsOpen, OpenOf
  <2>1. x # d
    BY DEF TakesNoLock
  <2>2. delivery[x].step = "commit" /\ From[delivery[x].msg] # From[delivery[d].msg]
    BY <1>1, <1>2, <2>1 DEF LockExclusive
  <2>3. e # c
    BY <1>2, <1>3, <2>1, <2>2
  <2>4. QED
    BY <1>1, <1>2, <1>3, <2>1, <2>2, <2>3 DEF LockKnowsOpen, OpenOf
<1>7. OneOpen'
  <2> SUFFICES ASSUME NEW x \in ConvIds, NEW y \in ConvIds, Open(convs'[x]), Open(convs'[y]),
                      convs'[x].contact = convs'[y].contact, x # y
               PROVE  FALSE
    BY DEF OneOpen
  <2>1. CASE x = c
    BY <1>3, <1>4, <2>1
  <2>2. CASE y = c
    BY <1>3, <1>4, <2>2
  <2>3. CASE x # c /\ y # c
    BY <1>1, <1>3, <2>3 DEF OneOpen
  <2>4. QED
    BY <2>1, <2>2, <2>3
<1>8. NobodyWaits'
  <2>1. \A e \in ConvIds : convs'[e].status # "human_assigned"
    BY <1>1, <1>3 DEF NobodyWaits
  <2>2. \A e \in Deliveries : delivery'[e].seen.status # "human_assigned"
    BY <1>1, <1>2 DEF NobodyWaits, TakesNoLock, NoRow
  <2>3. QED
    BY <2>1, <2>2 DEF NobodyWaits
<1>9. QED
  BY <1>5, <1>6, <1>7, <1>8 DEF SerialInv

\* A transaction writes the conversation it has read.
LEMMA RewritingSerialStep ==
    ASSUME IInv, SerialInv, NEW d \in Deliveries, Step(d), TakesNoLock(d),
           NEW c \in ConvIds, NEW new \in Rows, convs' = [convs EXCEPT ![c] = new],
           new.contact = convs[c].contact, new.status = convs[c].status
    PROVE  SerialInv'
<1>1. TypeOK /\ convs \in [ConvIds -> Rows] /\ NobodyWaits
  BY DEF IInv, TypeOK, SerialInv
<1>2. ASSUME NEW e \in ConvIds
      PROVE  convs'[e].contact = convs[e].contact /\ convs'[e].status = convs[e].status
  BY <1>1
<1>3. OpensNothing
  BY <1>1, <1>2 DEF OpensNothing, Open, NobodyWaits
<1>4. QED
  BY <1>1, <1>3, UnlockedStep

\* A commit keeps the contact and the status of the row it finds or creates.
LEMMA CommitSerialStep ==
    ASSUME IInv, SerialInv, NEW d \in Deliveries, Step(d), TakesNoLock(d),
           delivery[d].step = "commit", NEW c, NEW before, CommitsTo(d, c, before),
           NEW new \in Rows, convs' = [convs EXCEPT ![c] = new],
           new.contact = before.contact, new.status = before.status
    PROVE  SerialInv'
<1>1. c \in ConvIds /\ before.contact = From[delivery[d].msg]
  BY CommitsToSenders DEF CommitsTo
<1>2. CASE delivery[d].conv = None /\ before = NewRow(From[delivery[d].msg], EventAt[delivery[d].msg])
  <2>1. new.status # "human_assigned"
    BY <1>2 DEF NewRow
  <2>2. QED
    BY <1>1, <1>2, <2>1, OpeningSerialStep
<1>3. CASE before = convs[c]
  BY <1>1, <1>3, RewritingSerialStep
<1>4. QED
  BY <1>2, <1>3 DEF CommitsTo

LEMMA RefusedSerialStep ==
    ASSUME IInv, SerialInv, NEW d \in Deliveries, Step(d), convs' = convs,
           NEW step \in {"fail", "done"}, Goto(d, step, "error")
    PROVE  SerialInv'
<1>1. TypeOK /\ step \in Steps \ {"commit"} /\ "error" \in Results
  BY DEF IInv, Steps, EndSteps, Results, Outcomes
<1>2. QED
  BY <1>1, GotoTakesNoLock, ConvsKeptOpenNothing, UnlockedStep

LEMMA CommitInboundSerialStep ==
    ASSUME IInv, SerialInv, NEW d \in Deliveries, CommitInbound(d)
    PROVE  SerialInv'
<1> DEFINE m == delivery[d].msg
           created == delivery[d].conv = None
           refused == ViolatesUniqueIndex(m) \/ (~created /\ ~Exists(convs[delivery[d].conv]))
<1>1. /\ delivery[d].step = "commit" /\ TypeOK /\ Knows(d) /\ delivery[d] \in DeliveryRows
      /\ delivery \in [Deliveries -> DeliveryRows] /\ Step(d)
  BY Before DEF CommitInbound, At, Step, TypeOK, DeliveryRows
<1>2. ~shouldResumeAiAutomation(delivery[d].seen)
  BY DEF SerialInv, NobodyWaits, shouldResumeAiAutomation
<1>3. CASE refused
  BY <1>1, <1>3, RefusedSerialStep DEF CommitInbound
<1>4. CASE ~refused
  <2> DEFINE Before_(c) == IF created THEN NewRow(From[m], EventAt[m]) ELSE convs[c]
             resume == ~created /\ shouldResumeAiAutomation(delivery[d].seen)
             After(c) == receiveInbound(Before_(c), resume, EventAt[m])
             Blocked(c, aiEnabled) == isHumanTakeoverActive(After(c)) \/ ~aiEnabled
  <2>1. PICK c \in IF created THEN Fresh ELSE {delivery[d].conv}, aiEnabled \in BOOLEAN :
           /\ convs' = [convs EXCEPT ![c] = After(c)]
           /\ messages' = messages \cup {[by |-> d, msg |-> m, conv |-> c]}
           /\ delivery' = [delivery EXCEPT
                             ![d].conv = c, ![d].seen = NoRow,
                             ![d].step = IF Blocked(c, aiEnabled) THEN "notice_find" ELSE "ai",
                             ![d].result = IF Blocked(c, aiEnabled) THEN "blocked" ELSE None]
    BY <1>4 DEF CommitInbound
  <2>2. CommitsTo(d, c, Before_(c))
    BY <1>1, <1>4, <2>1 DEF CommitsTo, Fresh, DeliveryRows
  <2>3. TakesNoLock(d)
    BY CommitTakesNoLock
  <2>4. PICK row : row = Before_(c)
    OBVIOUS
  <2>5. PICK at \in Nat : at = EventAt[m]
    BY <1>1, InboundAssumption DEF Knows
  <2> DEFINE new == receiveInbound(row, FALSE, at)
  <2>6. convs' = [convs EXCEPT ![c] = new]
    BY <1>2, <2>1, <2>4, <2>5 DEF receiveInbound
  <2>7. CommitsTo(d, c, row)
    BY <2>2, <2>4
  <2> HIDE DEF Before_, resume, After, Blocked, created, refused
  <2>8. row \in Rows /\ Exists(row)
    BY <1>1, <2>7, CommitsToSenders
  <2>9. new.status = row.status
    BY <2>8 DEF receiveInbound, Rows
  <2>10. PICK resumed \in BOOLEAN : new = receiveInbound(row, resumed, at)
    OBVIOUS
  <2> HIDE DEF new
  <2>11. new \in Rows /\ new.contact = row.contact
    BY <2>8, <2>10, ReceivedRowTyped
  <2>12. QED
    BY <1>1, <2>3, <2>6, <2>7, <2>9, <2>11, CommitSerialStep
<1>5. QED
  BY <1>3, <1>4

LEMMA CommitConversationSerialStep ==
    ASSUME IInv, SerialInv, NEW d \in Deliveries, CommitConversation(d)
    PROVE  SerialInv'
<1> DEFINE m == delivery[d].msg
           created == delivery[d].conv = None
           refused == ~created /\ ~Exists(convs[delivery[d].conv])
           step == IF m \in Identified THEN "duplicate" ELSE "store"
<1>1. /\ delivery[d].step = "commit" /\ TypeOK /\ Knows(d) /\ delivery[d] \in DeliveryRows
      /\ delivery \in [Deliveries -> DeliveryRows] /\ Step(d)
  BY Before DEF CommitConversation, At, Step, TypeOK, DeliveryRows
<1>2. CASE refused
  BY <1>1, <1>2, RefusedSerialStep DEF CommitConversation
<1>3. CASE ~refused
  <2> DEFINE Row(c) == IF created THEN NewRow(From[m], EventAt[m])
                       ELSE refreshForWhatsapp(convs[c], delivery[d].seen, EventAt[m])
             Before_(c) == IF created THEN NewRow(From[m], EventAt[m]) ELSE convs[c]
  <2>1. PICK c \in IF created THEN Fresh ELSE {delivery[d].conv} :
           /\ convs' = [convs EXCEPT ![c] = Row(c)]
           /\ \/ Goto(d, "done", "resolved")
              \/ delivery' = [delivery EXCEPT ![d].conv = c, ![d].seen = NoRow, ![d].step = step]
    BY <1>1, <1>3 DEF CommitConversation, TypeOK, Fresh, DeliveryRows
  <2>2. CommitsTo(d, c, Before_(c))
    BY <1>1, <1>3, <2>1 DEF CommitsTo, Fresh, DeliveryRows
  <2>3. TakesNoLock(d)
    BY CommitTakesNoLock
  <2>4. PICK row : row = Before_(c)
    OBVIOUS
  <2>5. PICK at \in Nat : at = EventAt[m]
    BY <1>1, InboundAssumption DEF Knows
  <2>6. PICK seen \in Rows : seen = delivery[d].seen
    BY <1>1 DEF DeliveryRows
  <2>7. CommitsTo(d, c, row)
    BY <2>2, <2>4
  <2>8. row \in Rows /\ c \in ConvIds
    BY <1>1, <2>7, CommitsToSenders DEF CommitsTo
  <2> DEFINE new == IF created THEN row ELSE refreshForWhatsapp(row, seen, at)
  <2>9. convs' = [convs EXCEPT ![c] = new]
    BY <2>1, <2>4, <2>5, <2>6
  <2> HIDE DEF Row, Before_, refused, step
  <2>10. new \in Rows /\ new.contact = row.contact /\ new.status = row.status
    <3>1. CASE created
      BY <2>8, <3>1
    <3>2. CASE ~created
      <4> DEFINE refreshed == refreshForWhatsapp(row, seen, at)
      <4>1. refreshed \in Rows /\ refreshed.contact = row.contact /\ refreshed.status = row.status
        BY <2>8, RefreshedRowTyped
      <4> HIDE DEF refreshed
      <4>2. new = refreshed
        BY <3>2 DEF refreshed
      <4> HIDE DEF new
      <4>3. QED
        BY <4>1, <4>2
    <3>3. QED
      BY <3>1, <3>2
  <2> HIDE DEF new, created
  <2>11. QED
    BY <1>1, <2>3, <2>7, <2>9, <2>10, CommitSerialStep
<1>4. QED
  BY <1>2, <1>3

LEMMA DeliverySerialStep ==
    ASSUME IInv, SerialInv, OpenedInTransactions, NEW d \in Deliveries, Step(d)
    PROVE  SerialInv'
<1>1. CASE BeginTransaction(d)
  BY <1>1, BeginSerialStep
<1>2. CASE CommitInbound(d) \/ CommitConversation(d)
  BY <1>2, CommitInboundSerialStep, CommitConversationSerialStep
<1>3. CASE ~BeginTransaction(d) /\ (delivery[d].step # "commit" \/ Throw(d) \/ Crash(d))
  <2>1. ~FindConversation(d) /\ ~CreateConversation(d)
    BY Before DEF Knows, OpenedInTransactions, FindConversation, CreateConversation
  <2>2. TakesNoLock(d) /\ OpensNothing
    BY <1>3, <2>1, OutsideTransactions, OutsideOpensNothing
  <2>3. QED
    BY <2>2, UnlockedStep DEF IInv
<1>4. QED
  BY <1>1, <1>2, <1>3, FromCommit

\* Agents only close conversations, remove them, and write elsewhere.
LEMMA AgentSerialStep ==
    ASSUME SerialInv, TypeOK, delivery' = delivery,
           NEW c \in ConvIds, NEW new \in Rows, convs' = [convs EXCEPT ![c] = new],
           new.status \in {"closed", "removed"}
    PROVE  SerialInv'
<1>1. NobodyWaits /\ convs \in [ConvIds -> Rows]
  BY DEF SerialInv, TypeOK
<1>2. OpensNothing
  BY <1>1 DEF OpensNothing, Open, OpenStatuses, NobodyWaits
<1>3. LocksNothing
  BY <1>1 DEF LocksNothing, NobodyWaits
<1>4. QED
  BY <1>2, <1>3, QuietSerialStep

LEMMA ElsewhereSerialStep ==
    ASSUME SerialInv, delivery' = delivery, convs' = convs
    PROVE  SerialInv'
<1>1. OpensNothing
  BY ConvsKeptOpenNothing
<1>2. LocksNothing
  BY DEF LocksNothing, SerialInv, NobodyWaits
<1>3. QED
  BY <1>1, <1>2, QuietSerialStep

LEMMA OperateSerialStep ==
    ASSUME IInv, SerialInv, Serial, NEW c \in ConvIds, NEW op \in Ops, Operate(c, op)
    PROVE  SerialInv'
<1>1. TypeOK /\ op \in DOMAIN Writes(c) /\ Exists(convs[c]) /\ delivery' = delivery
  BY DEF IInv, Operate
<1>2. op = "close"
  BY <1>1 DEF Serial, Writes
<1>3. PICK new \in Writes(c)[op] : convs' = [convs EXCEPT ![c] = new]
  BY DEF Operate
<1>4. new \in Rows
  BY <1>1, WritesOnlyStatus DEF OnlyStatus
<1>5. new = updateStatus(convs[c], "closed")
  BY <1>2, <1>3 DEF Writes
<1>6. convs[c] \in Rows
  BY <1>1 DEF TypeOK
<1>7. new.status = "closed"
  BY <1>5, <1>6 DEF updateStatus, Rows
<1>8. QED
  BY <1>1, <1>3, <1>4, <1>7, AgentSerialStep

LEMMA RemovalSerialStep ==
    ASSUME IInv, SerialInv, NEW c \in ConvIds, RemoveConversation(c)
    PROVE  SerialInv'
<1> DEFINE new == [NoRow EXCEPT !.status = "removed"]
<1>1. TypeOK /\ delivery' = delivery /\ convs' = [convs EXCEPT ![c] = new]
  BY DEF IInv, RemoveConversation, remove
<1>2. new \in Rows /\ new.status = "removed"
  BY NoRowTyped DEF Rows, AbsentStatuses
<1> HIDE DEF new
<1>3. QED
  BY <1>1, <1>2, AgentSerialStep

LEMMA InitSerial == Init => SerialInv
<1> SUFFICES ASSUME Init
             PROVE  SerialInv
  OBVIOUS
<1>1. /\ \A c \in ConvIds : convs[c].status = "none"
      /\ \A d \in Deliveries : delivery[d].step = "idle" /\ delivery[d].seen.status = "none"
  BY DEF Init, NoRow
<1>2. \A c \in ConvIds : ~Open(convs[c])
  BY <1>1 DEF Open, OpenStatuses
<1>3. QED
  BY <1>1, <1>2 DEF SerialInv, LockExclusive, LockKnowsOpen, OneOpen, NobodyWaits

LEMMA NextSerial ==
    ASSUME IInv, SerialInv, Serial, OpenedInTransactions, [Next]_vars
    PROVE  SerialInv'
<1>1. CASE \E d \in Deliveries : Step(d)
  BY <1>1, DeliverySerialStep
<1>2. CASE \E c \in ConvIds : Agent(c)
  <2>1. PICK c \in ConvIds : Agent(c)
    BY <1>2
  <2>2. CASE ReadNotices(c)
    BY <2>2, ElsewhereSerialStep DEF ReadNotices
  <2>3. QED
    BY <2>1, <2>2, OperateSerialStep, RemovalSerialStep DEF Agent
<1>3. CASE AgentCreates
  BY <1>3 DEF AgentCreates, CreateByAgent, Serial
<1>4. CASE \E row \in messages : DeleteMessage(row)
  BY <1>4, ElsewhereSerialStep DEF DeleteMessage
<1>5. CASE UNCHANGED vars
  BY <1>5, ElsewhereSerialStep DEF vars
<1>6. QED
  BY <1>1, <1>2, <1>3, <1>4, <1>5 DEF Next, Rest

\* A delivery keeps the entry that it came through.
LEMMA EntryKept ==
    ASSUME IInv, NEW d \in Deliveries, Step(d), delivery[d].step # "idle"
    PROVE  delivery'[d].kind = delivery[d].kind
<1>1. delivery \in [Deliveries -> DeliveryRows]
  BY DEF IInv, TypeOK, DeliveryRows
<1>2. ASSUME NEW step, NEW result, Goto(d, step, result)
      PROVE  delivery'[d].kind = delivery[d].kind
  BY <1>1, <1>2 DEF Goto, DeliveryRows
<1>3. CASE FindConversation(d)
  <2> DEFINE step == IF delivery[d].msg \in Identified THEN "duplicate" ELSE "store"
  <2>1. CASE Goto(d, "new_conversation", None)
    BY <1>2, <2>1
  <2>2. CASE ~Goto(d, "new_conversation", None)
    <3>1. PICK c : delivery' = [delivery EXCEPT ![d].conv = c, ![d].seen = convs[c], ![d].step = step]
      BY <1>3, <2>2 DEF FindConversation
    <3>2. QED
      BY <1>1, <3>1 DEF DeliveryRows
  <2>3. QED
    BY <2>1, <2>2
<1>4. CASE CreateConversation(d)
  BY <1>1, <1>4 DEF CreateConversation, DeliveryRows
<1>5. CASE FindDuplicate(d)
  BY <1>1, <1>2, <1>5 DEF FindDuplicate, DeliveryRows
<1>6. CASE StoreMessage(d)
  BY <1>1, <1>2, <1>6 DEF StoreMessage, DeliveryRows
<1>7. CASE CountMessage(d)
  BY <1>2, <1>7 DEF CountMessage
<1>8. CASE findInboundDuplicate(d)
  BY <1>1, <1>8 DEF findInboundDuplicate, DeliveryRows
<1>9. CASE BeginTransaction(d)
  <2>1. CASE Goto(d, "commit", None)
    BY <1>2, <2>1
  <2>2. ASSUME NEW c, delivery' = [delivery EXCEPT ![d].conv = c, ![d].seen = convs[c],
                                                   ![d].step = "commit"]
        PROVE  delivery'[d].kind = delivery[d].kind
    BY <1>1, <2>2 DEF DeliveryRows
  <2>3. QED
    BY <1>9, <2>1, <2>2 DEF BeginTransaction
<1>10. CASE CommitInbound(d) \/ CommitConversation(d)
  BY <1>10, CommitTakesNoLock
<1>11. CASE DecideReply(d) \/ FindNotice(d) \/ CreateNotice(d)
  BY <1>1, <1>2, <1>11 DEF DecideReply, FindNotice, CreateNotice, DeliveryRows
<1>12. CASE markProcessed(d) \/ markFailed(d)
  BY <1>1, <1>12 DEF markProcessed, markFailed, DeliveryRows
<1>13. CASE Throw(d) \/ Crash(d)
  BY <1>1, <1>2, <1>13 DEF Throw, Crash, DeliveryRows
<1>14. QED
  BY <1>3, <1>4, <1>5, <1>6, <1>7, <1>8, <1>9, <1>10, <1>11, <1>12, <1>13
     DEF Step, Receive, ReceiveForConversation

\* So an entry once used stays used.
LEMMA EntriesStay ==
    ASSUME IInv, [Next]_vars, OpenedInTransactions'
    PROVE  OpenedInTransactions
<1> SUFFICES ASSUME NEW d \in Deliveries, delivery[d].kind = "evolution"
             PROVE  FALSE
  BY DEF OpenedInTransactions
<1>1. delivery'[d].kind # "evolution"
  BY DEF OpenedInTransactions
<1>2. delivery[d].step # "idle"
  BY Before, InboundAssumption DEF Knows
<1>3. PICK e \in Deliveries : Step(e)
  BY <1>1 DEF Next, Rest, vars, Agent, AgentCreates, Operate, RemoveConversation, ReadNotices,
              CreateByAgent, DeleteMessage
<1>4. CASE e = d
  BY <1>1, <1>2, <1>3, <1>4, EntryKept
<1>5. CASE e # d
  BY <1>1, <1>3, <1>5, OthersUnmoved DEF IInv
<1>6. QED
  BY <1>4, <1>5

\* A contact never has two open conversations, however the deliveries of its messages
\* interleave, as long as only transactional entries have been used and agents neither
\* create nor reopen conversations (Serial): the lock of the contact's row orders the
\* look-ups.
THEOREM OneOpenPerContact ==
    ASSUME Serial
    PROVE  Spec => []OneOpenConversation
<1> DEFINE Inv == OpenedInTransactions => SerialInv
<1>1. IInv /\ Inv /\ [Next]_vars => Inv'
  BY NextSerial, EntriesStay
<1>2. Init => Inv
  BY InitSerial
<1>3. Inv => OneOpenConversation
  BY DEF SerialInv, OneOpen, OneOpenConversation
<1> HIDE DEF Inv
<1>4. QED
  BY <1>1, <1>2, <1>3, Invariant, PTL DEF Spec

-----------------------------------------------------------------------------
(* A takeover outlives the deliveries *)

\* Paused, although nobody is required: a conversation created so, or a pause that a refresh
\* has taken from another column.
PausedOnly(row) == row.botPaused = TRUE /\ row.handoffRequired = FALSE

\* The conversation that a transaction has read, and since then only others wrote, is paused
\* in this way only if it was taken over when it was read, and does not resume.
SeenTakeover ==
    \A d \in Deliveries :
        /\ delivery[d].step = "commit" /\ delivery[d].conv # None
        /\ PausedOnly(convs[delivery[d].conv])
        => /\ isHumanTakeoverActive(delivery[d].seen)
           /\ ~shouldResumeAiAutomation(delivery[d].seen)

PauseInv == LockExclusive /\ SeenTakeover

SameAssignment(old, new) ==
    new.assignedTo = old.assignedTo /\ new.handoffRequired = old.handoffRequired

\* What a step of a delivery does to the columns that decide who answers: nothing, in a
\* conversation that it creates, or in the one that its transaction has read.
Resumes(d, c) == shouldResumeAiAutomation(delivery[d].seen) /\ convs'[c].botPaused = FALSE
Refreshes(d, c) ==
    /\ convs'[c].status = convs[c].status
    /\ convs'[c].botPaused = isHumanTakeoverActive(delivery[d].seen)
WritesPause(d, c) ==
    \/ SameAssignment(convs[c], convs'[c]) /\ convs'[c].botPaused = convs[c].botPaused
    \/ convs[c].status = "none" /\ ~PausedOnly(convs'[c])
    \/ /\ delivery[d].step = "commit" /\ delivery[d].conv = c /\ Exists(convs[c])
       /\ SameAssignment(convs[c], convs'[c])
       /\ Resumes(d, c) \/ Refreshes(d, c)

LEMMA CountedKeepsPause ==
    ASSUME NEW row \in Rows, NEW status, NEW at, NEW new,
           new = countInbound(row, status, at) \/ new = touchInbound(row, at)
    PROVE  SameAssignment(row, new) /\ new.botPaused = row.botPaused
<1> DEFINE next == IF status = "closed" THEN "waiting_customer" ELSE status
           count == row.unreadCount + 1
<1>1. \/ new = [row EXCEPT !.status = next, !.unreadCount = count, !.lastCustomerMessageAt = at]
      \/ new = [row EXCEPT !.unreadCount = count, !.lastCustomerMessageAt = at]
  BY DEF countInbound, touchInbound, Rows
<1> HIDE DEF next, count
<1>2. QED
  BY <1>1 DEF SameAssignment, Rows

\* A message received in a conversation resumes the bot or leaves the pause.
ResumedIf(resume, row, new) ==
    /\ SameAssignment(row, new)
    /\ resume => new.botPaused = FALSE
    /\ ~resume => new.botPaused = row.botPaused

LEMMA ReceivedPause ==
    ASSUME NEW row \in Rows, NEW resume \in BOOLEAN, NEW at, NEW new,
           new = receiveInbound(row, resume, at)
    PROVE  ResumedIf(resume, row, new)
<1> DEFINE status == IF resume THEN "waiting_customer" ELSE row.status
           paused == IF resume THEN FALSE ELSE row.botPaused
           count == row.unreadCount + 1
<1>1. new = [row EXCEPT !.status = status, !.botPaused = paused, !.unreadCount = count,
                        !.lastCustomerMessageAt = at]
  BY DEF receiveInbound, Rows
<1>2. (resume => paused = FALSE) /\ (~resume => paused = row.botPaused)
  OBVIOUS
<1> HIDE DEF status, paused, count
<1>3. /\ new.assignedTo = row.assignedTo /\ new.handoffRequired = row.handoffRequired
      /\ new.botPaused = paused
  BY <1>1 DEF Rows
<1>4. QED
  BY <1>2, <1>3 DEF SameAssignment, ResumedIf

\* A refresh writes the pause that the row read calls for.
LEMMA RefreshedPause ==
    ASSUME NEW row \in Rows, NEW seen \in Rows, NEW at, NEW new,
           new = refreshForWhatsapp(row, seen, at)
    PROVE  /\ SameAssignment(row, new) /\ new.status = row.status
           /\ new.botPaused = isHumanTakeoverActive(seen)
<1> DEFINE paused == isHumanTakeoverActive(seen)
           last == IF at > seen.lastCustomerMessageAt THEN at ELSE row.lastCustomerMessageAt
<1>1. new = [row EXCEPT !.botPaused = paused, !.lastCustomerMessageAt = last]
  BY DEF refreshForWhatsapp, Rows
<1> HIDE DEF paused, last
<1>2. /\ new.assignedTo = row.assignedTo /\ new.handoffRequired = row.handoffRequired
      /\ new.status = row.status /\ new.botPaused = paused
  BY <1>1 DEF Rows
<1>3. QED
  BY <1>2 DEF SameAssignment, paused

\* A conversation that a delivery creates is not paused.
LEMMA NewRowUnpaused ==
    ASSUME NEW contact, NEW at
    PROVE  NewRow(contact, at).botPaused = FALSE
BY DEF NewRow

LEMMA CommitInboundPause ==
    ASSUME IInv, NEW d \in Deliveries, CommitInbound(d), NEW e \in ConvIds
    PROVE  WritesPause(d, e)
<1> DEFINE m == delivery[d].msg
           created == delivery[d].conv = None
           refused == ViolatesUniqueIndex(m) \/ (~created /\ ~Exists(convs[delivery[d].conv]))
           Before_(c) == IF created THEN NewRow(From[m], EventAt[m]) ELSE convs[c]
           resume == ~created /\ shouldResumeAiAutomation(delivery[d].seen)
<1>1. /\ delivery[d].step = "commit" /\ TypeOK /\ Knows(d) /\ delivery[d] \in DeliveryRows
      /\ convs \in [ConvIds -> Rows]
  BY Before DEF CommitInbound, At, TypeOK
<1>2. CASE refused
  <2>1. convs' = convs
    BY <1>2 DEF CommitInbound
  <2>2. QED
    BY <2>1 DEF WritesPause, SameAssignment
<1>3. CASE ~refused
  <2>1. PICK c \in IF created THEN Fresh ELSE {delivery[d].conv} :
           convs' = [convs EXCEPT ![c] = receiveInbound(Before_(c), resume, EventAt[m])]
    BY <1>3 DEF CommitInbound
  <2>2. CommitsTo(d, c, Before_(c))
    BY <1>1, <1>3, <2>1 DEF CommitsTo, Fresh, DeliveryRows
  <2>3. PICK row, new : row = Before_(c) /\ new = receiveInbound(row, resume, EventAt[m])
    OBVIOUS
  <2>4. resume \in BOOLEAN
    BY DEF shouldResumeAiAutomation
  <2>5. CommitsTo(d, c, row) /\ convs' = [convs EXCEPT ![c] = new]
    BY <2>1, <2>2, <2>3
  <2> HIDE DEF Before_, refused
  <2>6. row \in Rows /\ c \in ConvIds
    BY <1>1, <2>5, CommitsToSenders DEF CommitsTo
  <2>7. /\ SameAssignment(row, new)
        /\ resume => new.botPaused = FALSE
        /\ ~resume => new.botPaused = row.botPaused
    <3>1. PICK b \in BOOLEAN : b = resume
      BY <2>4
    <3>2. PICK at : at = EventAt[m]
      OBVIOUS
    <3>3. new = receiveInbound(row, b, at)
      BY <2>3, <3>1, <3>2
    <3> HIDE DEF resume
    <3>4. ResumedIf(b, row, new)
      BY <2>6, <3>3, ReceivedPause
    <3>5. QED
      BY <3>1, <3>4 DEF ResumedIf
  <2>8. CASE e # c
    <3>1. convs'[e] = convs[e]
      BY <1>1, <2>5, <2>8
    <3>2. QED
      BY <3>1 DEF WritesPause, SameAssignment
  <2>9. CASE e = c /\ created
    <3>1. convs'[c] = new /\ row = NewRow(From[m], EventAt[m])
      BY <1>1, <2>3, <2>5, <2>6, <2>9 DEF Before_
    <3>2. new.botPaused = FALSE
      BY <2>7, <3>1, NewRowUnpaused
    <3>3. convs[c].status = "none"
      BY <2>1, <2>9 DEF Fresh
    <3>4. QED
      BY <2>9, <3>1, <3>2, <3>3 DEF WritesPause, PausedOnly
  <2>10. CASE e = c /\ ~created
    <3>1. convs'[c] = new /\ row = convs[c] /\ delivery[d].conv = c
      BY <1>1, <2>1, <2>3, <2>5, <2>6, <2>10 DEF Before_
    <3>2. Exists(convs[c])
      BY <2>5, <2>10 DEF CommitsTo
    <3>3. CASE resume
      BY <1>1, <2>7, <2>10, <3>1, <3>2, <3>3 DEF WritesPause, Resumes
    <3>4. CASE ~resume
      BY <2>7, <2>10, <3>1, <3>4 DEF WritesPause
    <3>5. QED
      BY <3>3, <3>4
  <2>11. QED
    BY <2>8, <2>9, <2>10
<1>4. QED
  BY <1>2, <1>3

LEMMA CommitConversationPause ==
    ASSUME IInv, NEW d \in Deliveries, CommitConversation(d), NEW e \in ConvIds
    PROVE  WritesPause(d, e)
<1> DEFINE m == delivery[d].msg
           created == delivery[d].conv = None
           refused == ~created /\ ~Exists(convs[delivery[d].conv])
           Row(c) == IF created THEN NewRow(From[m], EventAt[m])
                     ELSE refreshForWhatsapp(convs[c], delivery[d].seen, EventAt[m])
<1>1. /\ delivery[d].step = "commit" /\ TypeOK /\ Knows(d) /\ delivery[d] \in DeliveryRows
      /\ convs \in [ConvIds -> Rows]
  BY Before DEF CommitConversation, At, TypeOK
<1>2. CASE refused
  <2>1. convs' = convs
    BY <1>2 DEF CommitConversation
  <2>2. QED
    BY <2>1 DEF WritesPause, SameAssignment
<1>3. CASE ~refused
  <2>1. PICK c \in IF created THEN Fresh ELSE {delivery[d].conv} :
           convs' = [convs EXCEPT ![c] = Row(c)]
    BY <1>1, <1>3 DEF CommitConversation, Fresh, DeliveryRows
  <2>2. c \in ConvIds /\ (created => convs[c].status = "none")
        /\ (~created => delivery[d].conv = c /\ Exists(convs[c]))
    BY <1>1, <1>3, <2>1 DEF Fresh, DeliveryRows
  <2>3. PICK new : new = Row(c)
    OBVIOUS
  <2>4. convs' = [convs EXCEPT ![c] = new]
    BY <2>1, <2>3
  <2>5. convs'[c] = new
    BY <1>1, <2>2, <2>4
  <2>6. CASE e # c
    <3>1. convs'[e] = convs[e]
      BY <1>1, <2>4, <2>6
    <3>2. QED
      BY <3>1 DEF WritesPause, SameAssignment
  <2>7. CASE e = c /\ created
    <3>1. new.botPaused = FALSE
      BY <2>3, <2>7, NewRowUnpaused
    <3>2. QED
      BY <2>2, <2>5, <2>7, <3>1 DEF WritesPause, PausedOnly
  <2>8. CASE e = c /\ ~created
    <3>1. new = refreshForWhatsapp(convs[c], delivery[d].seen, EventAt[m])
      BY <2>3, <2>8
    <3>2. convs[c] \in Rows /\ delivery[d].seen \in Rows
      BY <1>1, <2>2 DEF DeliveryRows
    <3>3. /\ SameAssignment(convs[c], new) /\ new.status = convs[c].status
          /\ new.botPaused = isHumanTakeoverActive(delivery[d].seen)
      BY <3>1, <3>2, RefreshedPause
    <3>4. QED
      BY <1>1, <2>2, <2>5, <2>8, <3>3 DEF WritesPause, Refreshes
  <2>9. QED
    BY <2>6, <2>7, <2>8
<1>4. QED
  BY <1>2, <1>3

\* Every step of a delivery.
LEMMA DeliveryWritesPause ==
    ASSUME IInv, NEW d \in Deliveries, Step(d), NEW e \in ConvIds
    PROVE  WritesPause(d, e)
<1>1. TypeOK /\ convs \in [ConvIds -> Rows] /\ Knows(d) /\ delivery[d] \in DeliveryRows
  BY Before DEF TypeOK
<1>2. CASE convs' = convs
  BY <1>2 DEF WritesPause, SameAssignment
<1>3. CASE CreateConversation(d)
  <2> DEFINE row == NewRow(From[delivery[d].msg], EventAt[delivery[d].msg])
  <2>1. PICK c \in Fresh : convs' = [convs EXCEPT ![c] = row]
    BY <1>3 DEF CreateConversation
  <2>2. row.botPaused = FALSE
    BY NewRowUnpaused
  <2> HIDE DEF row
  <2>3. c \in ConvIds /\ convs[c].status = "none" /\ convs'[c] = row
    BY <1>1, <2>1 DEF Fresh
  <2>4. e # c => convs'[e] = convs[e]
    BY <1>1, <2>1
  <2>5. QED
    BY <2>2, <2>3, <2>4 DEF WritesPause, PausedOnly, SameAssignment
<1>4. CASE CountMessage(d) /\ Exists(convs[delivery[d].conv])
  <2> DEFINE c == delivery[d].conv
             status == delivery[d].seen.status
             at == EventAt[delivery[d].msg]
             row == IF delivery[d].kind = "evolution" THEN countInbound(convs[c], status, at)
                    ELSE touchInbound(convs[c], at)
  <2>1. convs' = [convs EXCEPT ![c] = row]
    BY <1>4 DEF CountMessage
  <2>2. c \in ConvIds
    BY <1>1, <1>4 DEF CountMessage, Knows, OnItsRow, DeliveryRows
  <2>3. row = countInbound(convs[c], status, at) \/ row = touchInbound(convs[c], at)
    OBVIOUS
  <2>4. convs[c] \in Rows
    BY <1>1, <2>2
  <2> HIDE DEF row, at, status
  <2>5. SameAssignment(convs[c], row) /\ row.botPaused = convs[c].botPaused
    BY <2>3, <2>4, CountedKeepsPause
  <2> HIDE DEF c
  <2>6. convs'[c] = row /\ (e # c => convs'[e] = convs[e])
    BY <1>1, <2>1, <2>2
  <2>7. QED
    BY <2>5, <2>6 DEF WritesPause, SameAssignment
<1>5. CASE CommitInbound(d)
  BY <1>5, CommitInboundPause
<1>6. CASE CommitConversation(d)
  BY <1>6, CommitConversationPause
<1>7. QED
  BY <1>2, <1>3, <1>4, <1>5, <1>6, WhichWrite

BothAlike(row) == row.botPaused = row.handoffRequired

LEMMA BothColumns ==
    ASSUME NEW old \in Rows, NEW status, NEW assignee, NEW both
    PROVE  BothAlike([old EXCEPT !.status = status, !.assignedTo = assignee,
                                 !.botPaused = both, !.handoffRequired = both])
BY DEF BothAlike, Rows

\* An agent sets the pause and the requirement alike, or neither.
LEMMA AgentsPauseBoth ==
    ASSUME IInv, NEW c \in ConvIds, Exists(convs[c]), NEW op \in DOMAIN Writes(c),
           NEW new \in Writes(c)[op]
    PROVE  PausedOnly(new) => PausedOnly(convs[c])
<1> DEFINE old == convs[c]
<1>1. /\ old \in Rows /\ old.botPaused \in BOOLEAN /\ old.handoffRequired \in BOOLEAN
  BY DEF IInv, TypeOK, Rows
<1>2. WrittenBy(old, new)
  BY WritesForms
<1> HIDE DEF old
<1>3. BothAlike(new) => (PausedOnly(new) => PausedOnly(old))
  BY DEF BothAlike, PausedOnly
<1>4. ASSUME NEW s \in Statuses, new = updateStatus(old, s)
      PROVE  PausedOnly(new) => PausedOnly(old)
  <2> DEFINE human == s \in {"human_assigned", "waiting_customer"}
             assignee == IF human THEN old.assignedTo ELSE None
  <2>1. new = [old EXCEPT !.status = s, !.assignedTo = assignee,
                          !.botPaused = human, !.handoffRequired = human]
    BY <1>1, <1>4 DEF updateStatus, Rows
  <2> HIDE DEF human, assignee
  <2>2. BothAlike(new)
    BY <1>1, <2>1, BothColumns
  <2>3. QED
    BY <1>3, <2>2
<1>5. ASSUME NEW a \in Agents, new = assign(old, a)
      PROVE  PausedOnly(new) => PausedOnly(old)
  <2>1. new = [old EXCEPT !.status = "human_assigned", !.assignedTo = a,
                          !.botPaused = TRUE, !.handoffRequired = TRUE]
    BY <1>1, <1>5 DEF assign, Rows
  <2>2. BothAlike(new)
    BY <1>1, <2>1, BothColumns
  <2>3. QED
    BY <1>3, <2>2
<1>6. ASSUME NEW r \in BOOLEAN, NEW a \in Agents \cup {None}, new = handoffForWorkflow(old, r, a)
      PROVE  PausedOnly(new) => PausedOnly(old)
  <2> DEFINE status == IF r THEN "waiting_customer" ELSE "bot_active"
             assignee == IF r THEN a ELSE None
  <2>1. new = [old EXCEPT !.status = status, !.assignedTo = assignee,
                          !.botPaused = r, !.handoffRequired = r]
    BY <1>1, <1>6 DEF handoffForWorkflow, Rows
  <2> HIDE DEF status, assignee
  <2>2. BothAlike(new)
    BY <1>1, <2>1, BothColumns
  <2>3. QED
    BY <1>3, <2>2
<1>7. ASSUME NEW b \in BOOLEAN, new = reactivateBot(old, b)
      PROVE  PausedOnly(new) => PausedOnly(old)
  <2> DEFINE status == IF b THEN "bot_active" ELSE "waiting_customer"
             assignee == IF b THEN None ELSE old.assignedTo
             paused == ~b
  <2>1. new = [old EXCEPT !.status = status, !.assignedTo = assignee,
                          !.botPaused = paused, !.handoffRequired = paused]
    BY <1>1, <1>7 DEF reactivateBot, Rows
  <2> HIDE DEF status, assignee, paused
  <2>2. BothAlike(new)
    BY <1>1, <2>1, BothColumns
  <2>3. QED
    BY <1>3, <2>2
<1>8. ASSUME NEW s \in Statuses \cup {None}, NEW a \in Agents \cup {None}, NEW b \in BOOLEAN \cup {None},
             new = update(old, s, a, b)
      PROVE  PausedOnly(new) => PausedOnly(old)
  <2> DEFINE status == IF s = None THEN old.status ELSE s
             assignee == IF a = None THEN old.assignedTo ELSE a
             paused == IF b = None THEN old.botPaused ELSE ~b
             required == IF b = None THEN old.handoffRequired ELSE ~b
  <2>1. new = [old EXCEPT !.status = status, !.assignedTo = assignee,
                          !.botPaused = paused, !.handoffRequired = required]
    BY <1>1, <1>8 DEF update, Rows
  <2>2. b = None => paused = old.botPaused /\ required = old.handoffRequired
    OBVIOUS
  <2>3. b # None => paused = required
    OBVIOUS
  <2> HIDE DEF status, assignee, paused, required
  <2>4. CASE b # None
    <3>1. new = [old EXCEPT !.status = status, !.assignedTo = assignee,
                            !.botPaused = paused, !.handoffRequired = paused]
      BY <2>1, <2>3, <2>4
    <3>2. BothAlike(new)
      BY <1>1, <3>1, BothColumns
    <3>3. QED
      BY <1>3, <3>2
  <2>5. CASE b = None
    <3>1. new.botPaused = paused /\ new.handoffRequired = required
      BY <1>1, <2>1 DEF Rows
    <3>2. QED
      BY <2>2, <2>5, <3>1 DEF PausedOnly
  <2>6. QED
    BY <2>4, <2>5
<1>9. ASSUME NEW s \in Statuses, new = conversationEvent(old, s)
      PROVE  PausedOnly(new) => PausedOnly(old)
  <2>1. new.botPaused = old.botPaused /\ new.handoffRequired = old.handoffRequired
    BY <1>1, <1>9 DEF conversationEvent, Rows
  <2>2. QED
    BY <2>1 DEF PausedOnly
<1>10. QED
  BY <1>2, <1>4, <1>5, <1>6, <1>7, <1>8, <1>9 DEF old, WrittenBy

\* Whatever an agent or the workflow does, no conversation that exists becomes paused only.
AgentsPauseNone ==
    \A c \in ConvIds : PausedOnly(convs'[c]) => PausedOnly(convs[c]) \/ convs[c].status = "none"

LEMMA OperatePauses ==
    ASSUME IInv, NEW c \in ConvIds, NEW op \in Ops, Operate(c, op)
    PROVE  AgentsPauseNone
<1>1. TypeOK /\ Exists(convs[c]) /\ op \in DOMAIN Writes(c) /\ convs \in [ConvIds -> Rows]
  BY DEF Operate, IInv, TypeOK
<1>2. PICK new \in Writes(c)[op] : convs' = [convs EXCEPT ![c] = new]
  BY DEF Operate
<1>3. PausedOnly(new) => PausedOnly(convs[c])
  BY <1>1, <1>2, AgentsPauseBoth
<1>4. convs'[c] = new /\ \A e \in ConvIds : e # c => convs'[e] = convs[e]
  BY <1>1, <1>2
<1>5. QED
  BY <1>3, <1>4 DEF AgentsPauseNone

LEMMA CreationPauses ==
    ASSUME IInv, AgentCreates
    PROVE  AgentsPauseNone
<1>1. convs \in [ConvIds -> Rows]
  BY DEF IInv, TypeOK
<1>2. PICK c \in Fresh : \E new : convs' = [convs EXCEPT ![c] = new]
  BY DEF AgentCreates, CreateByAgent
<1>3. c \in ConvIds /\ convs[c].status = "none" /\ \A e \in ConvIds : e # c => convs'[e] = convs[e]
  BY <1>1, <1>2 DEF Fresh
<1>4. QED
  BY <1>3 DEF AgentsPauseNone

LEMMA RemovalPauses ==
    ASSUME IInv, NEW c \in ConvIds, RemoveConversation(c)
    PROVE  AgentsPauseNone
<1>1. convs \in [ConvIds -> Rows] /\ convs' = [convs EXCEPT ![c] = remove(convs[c])]
  BY DEF IInv, TypeOK, RemoveConversation
<1>2. remove(convs[c]).botPaused = FALSE
  BY DEF remove, NoRow
<1>3. convs'[c] = remove(convs[c]) /\ \A e \in ConvIds : e # c => convs'[e] = convs[e]
  BY <1>1
<1>4. QED
  BY <1>2, <1>3 DEF AgentsPauseNone, PausedOnly

LEMMA AgentPauseStep ==
    ASSUME IInv, PauseInv, delivery' = delivery, AgentsPauseNone
    PROVE  PauseInv'
<1>1. LockExclusive'
  BY DEF PauseInv, LockExclusive
<1>2. SeenTakeover'
  <2> SUFFICES ASSUME NEW d \in Deliveries, delivery[d].step = "commit", delivery[d].conv # None,
                      PausedOnly(convs'[delivery[d].conv])
               PROVE  /\ isHumanTakeoverActive(delivery[d].seen)
                      /\ ~shouldResumeAiAutomation(delivery[d].seen)
    BY DEF SeenTakeover
  <2>1. delivery[d].conv \in ConvIds /\ convs[delivery[d].conv].status # "none"
    BY Before DEF DeliveryRows, FoundItsSenders
  <2>2. PausedOnly(convs[delivery[d].conv])
    BY <2>1 DEF AgentsPauseNone
  <2>3. QED
    BY <2>2 DEF PauseInv, SeenTakeover
<1>3. QED
  BY <1>1, <1>2 DEF PauseInv

\* The lock is taken when a transaction begins, and only then.
LEMMA LocksAtBegin ==
    ASSUME IInv, NEW d \in Deliveries, Step(d), ~BeginTransaction(d)
    PROVE  delivery'[d].step # "commit"
<1>1. TypeOK /\ delivery[d] \in DeliveryRows /\ delivery \in [Deliveries -> DeliveryRows]
  BY Before DEF TypeOK, DeliveryRows
<1>2. CASE FindConversation(d)
  <2>1. CASE Goto(d, "new_conversation", None)
    <3>1. "new_conversation" \in Steps /\ None \in Results
      BY DEF Steps, Results
    <3>2. delivery'[d].step = "new_conversation"
      BY <1>1, <2>1, <3>1, GotoEffect
    <3>3. QED
      BY <3>2
  <2>2. CASE ~Goto(d, "new_conversation", None)
    <3> DEFINE step == IF delivery[d].msg \in Identified THEN "duplicate" ELSE "store"
    <3>1. PICK c : delivery' = [delivery EXCEPT ![d].conv = c, ![d].seen = convs[c], ![d].step = step]
      BY <1>2, <2>2 DEF FindConversation
    <3>2. QED
      BY <1>1, <3>1 DEF DeliveryRows
  <2>3. QED
    BY <2>1, <2>2
<1>3. CASE CreateConversation(d)
  <2> DEFINE step == IF delivery[d].msg \in Identified THEN "duplicate" ELSE "store"
  <2>1. PICK c, row : delivery' = [delivery EXCEPT ![d].conv = c, ![d].seen = row, ![d].step = step]
    BY <1>3 DEF CreateConversation
  <2>2. QED
    BY <1>1, <2>1 DEF DeliveryRows
<1>4. CASE CommitInbound(d) \/ CommitConversation(d)
  BY <1>4, CommitTakesNoLock DEF TakesNoLock
<1>5. CASE ~FindConversation(d) /\ ~CreateConversation(d) /\ ~CommitInbound(d) /\ ~CommitConversation(d)
  <2>1. delivery[d].step # "commit" \/ Throw(d) \/ Crash(d)
    BY <1>5, FromCommit
  <2>2. QED
    BY <1>5, <2>1, OutsideTransactions DEF TakesNoLock
<1>6. QED
  BY <1>2, <1>3, <1>4, <1>5

\* A transaction that begins has read the conversation as it is.
LEMMA BeginReadsRow ==
    ASSUME IInv, NEW d \in Deliveries, BeginTransaction(d)
    PROVE  /\ convs' = convs /\ delivery[d].conv = None
           /\ delivery'[d].msg = delivery[d].msg
           /\ delivery'[d].conv # None => delivery'[d].seen = convs[delivery'[d].conv]
<1>1. /\ TypeOK /\ delivery[d] \in DeliveryRows /\ delivery \in [Deliveries -> DeliveryRows]
      /\ delivery[d].conv = None /\ convs' = convs
  BY Before DEF BeginTransaction, TypeOK, DeliveryRows, Knows
<1>2. CASE Goto(d, "commit", None)
  <2>1. "commit" \in Steps /\ None \in Results
    BY DEF Steps, Results
  <2>2. delivery'[d].msg = delivery[d].msg /\ delivery'[d].conv = delivery[d].conv
    BY <1>1, <1>2, <2>1, GotoEffect DEF SameRequest
  <2>3. QED
    BY <1>1, <2>2
<1>3. ASSUME NEW c \in ConvIds,
             delivery' = [delivery EXCEPT ![d].conv = c, ![d].seen = convs[c], ![d].step = "commit"]
      PROVE  delivery'[d].msg = delivery[d].msg /\ delivery'[d].conv = c /\ delivery'[d].seen = convs[c]
  BY <1>1, <1>3 DEF DeliveryRows
<1>4. QED
  BY <1>1, <1>2, <1>3 DEF BeginTransaction, OpenOf

\* The rows of a contact are locked by one transaction at a time, whatever the entries.
LEMMA LockStep ==
    ASSUME IInv, LockExclusive, NEW d \in Deliveries, Step(d)
    PROVE  LockExclusive'
<1>1. \A e \in Deliveries : e # d => delivery'[e] = delivery[e]
  BY OthersUnmoved DEF IInv
<1>2. CASE ~BeginTransaction(d)
  <2>1. delivery'[d].step # "commit"
    BY <1>2, LocksAtBegin
  <2>2. QED
    BY <1>1, <2>1 DEF LockExclusive
<1>3. CASE BeginTransaction(d)
  <2>1. delivery'[d].msg = delivery[d].msg
    BY <1>3, BeginReadsRow
  <2>2. \A e \in Deliveries : delivery[e].step = "commit" => From[delivery[e].msg] # From[delivery[d].msg]
    BY <1>3 DEF BeginTransaction, ContactLocked
  <2> SUFFICES ASSUME NEW x \in Deliveries, NEW y \in Deliveries,
                      delivery'[x].step = "commit", delivery'[y].step = "commit",
                      From[delivery'[x].msg] = From[delivery'[y].msg], x # y
               PROVE  FALSE
    BY DEF LockExclusive
  <2>3. CASE x = d
    BY <1>1, <2>1, <2>2, <2>3
  <2>4. CASE y = d
    BY <1>1, <2>1, <2>2, <2>4
  <2>5. CASE x # d /\ y # d
    BY <1>1, <2>5 DEF LockExclusive
  <2>6. QED
    BY <2>3, <2>4, <2>5
<1>4. QED
  BY <1>2, <1>3

\* No delivery takes a conversation from under a transaction that has read it: it pauses
\* only the one that its own transaction has read, and the lock keeps those apart.
LEMMA SeenStep ==
    ASSUME IInv, PauseInv, NEW d \in Deliveries, Step(d)
    PROVE  SeenTakeover'
<1>1. \A x \in Deliveries : x # d => delivery'[x] = delivery[x]
  BY OthersUnmoved DEF IInv
<1> SUFFICES ASSUME NEW e \in Deliveries, delivery'[e].step = "commit", delivery'[e].conv # None,
                    PausedOnly(convs'[delivery'[e].conv])
             PROVE  /\ isHumanTakeoverActive(delivery'[e].seen)
                    /\ ~shouldResumeAiAutomation(delivery'[e].seen)
  BY DEF SeenTakeover
<1>2. CASE e = d
  <2>1. BeginTransaction(d)
    BY <1>2, LocksAtBegin
  <2>2. convs' = convs /\ delivery'[d].seen = convs[delivery'[d].conv]
    BY <1>2, <2>1, BeginReadsRow
  <2>3. delivery'[e].seen.botPaused = TRUE /\ delivery'[e].seen.handoffRequired = FALSE
    BY <1>2, <2>2 DEF PausedOnly
  <2>4. QED
    BY <2>3 DEF isHumanTakeoverActive, shouldResumeAiAutomation
<1>3. CASE e # d
  <2> DEFINE c == delivery[e].conv
  <2>1. delivery'[e] = delivery[e]
    BY <1>1, <1>3
  <2>2. /\ delivery[e].step = "commit" /\ c \in ConvIds /\ c # None /\ convs[c].status # "none"
        /\ convs[c].contact = From[delivery[e].msg] \/ convs[c].status = "removed"
    BY <2>1, Before DEF DeliveryRows, FoundItsSenders
  <2>3. WritesPause(d, c)
    BY <2>2, DeliveryWritesPause
  <2>4. ~(delivery[d].step = "commit" /\ delivery[d].conv = c /\ Exists(convs[c]))
    <3> SUFFICES ASSUME delivery[d].step = "commit", delivery[d].conv = c, Exists(convs[c])
                 PROVE  FALSE
      OBVIOUS
    <3>1. convs[c].contact = From[delivery[d].msg] /\ convs[c].contact = From[delivery[e].msg]
      BY <2>2, Before, StatusesApart DEF FoundItsSenders
    <3>2. QED
      BY <1>3, <2>2, <3>1 DEF PauseInv, LockExclusive
  <2>5. PausedOnly(convs[c])
    BY <2>1, <2>2, <2>3, <2>4 DEF WritesPause, SameAssignment, PausedOnly
  <2>6. QED
    BY <2>1, <2>2, <2>5 DEF PauseInv, SeenTakeover
<1>4. QED
  BY <1>2, <1>3

LEMMA InitPause == Init => PauseInv
BY DEF Init, PauseInv, LockExclusive, SeenTakeover

LEMMA NextPause ==
    ASSUME IInv, PauseInv, [Next]_vars
    PROVE  PauseInv'
<1>1. ASSUME NEW d \in Deliveries, Step(d)
      PROVE  PauseInv'
  <2>1. LockExclusive
    BY DEF PauseInv
  <2>2. QED
    BY <1>1, <2>1, LockStep, SeenStep DEF PauseInv
<1>2. CASE \E c \in ConvIds : Agent(c)
  <2>1. PICK c \in ConvIds : Agent(c)
    BY <1>2
  <2>2. delivery' = delivery
    BY <2>1 DEF Agent, Operate, RemoveConversation, ReadNotices
  <2>3. CASE ReadNotices(c)
    BY <2>2, <2>3, AgentPauseStep DEF ReadNotices, AgentsPauseNone
  <2>4. CASE \E op \in Ops : Operate(c, op)
    BY <2>2, <2>4, OperatePauses, AgentPauseStep
  <2>5. CASE RemoveConversation(c)
    BY <2>2, <2>5, RemovalPauses, AgentPauseStep
  <2>6. QED
    BY <2>1, <2>3, <2>4, <2>5 DEF Agent
<1>3. CASE AgentCreates
  <2>1. delivery' = delivery
    BY <1>3 DEF AgentCreates, CreateByAgent
  <2>2. QED
    BY <1>3, <2>1, CreationPauses, AgentPauseStep
<1>4. CASE \E row \in messages : DeleteMessage(row)
  BY <1>4, AgentPauseStep DEF DeleteMessage, AgentsPauseNone
<1>5. CASE UNCHANGED vars
  BY <1>5, AgentPauseStep DEF vars, AgentsPauseNone
<1>6. QED
  BY <1>1, <1>2, <1>3, <1>4, <1>5 DEF Next, Rest

LEMMA PauseInvariant == Spec => []PauseInv
<1>1. IInv /\ PauseInv /\ [Next]_vars => PauseInv'
  BY NextPause
<1>2. QED
  BY <1>1, InitPause, Invariant, PTL DEF Spec

\* A step of a delivery that would end a takeover finds it in the status alone.
LEMMA DeliveryEndsNoTakeover ==
    ASSUME IInv, PauseInv, NEW d \in Deliveries, Step(d), NEW c \in ConvIds,
           Exists(convs[c]), isHumanTakeoverActive(convs[c]), ~isHumanTakeoverActive(convs'[c])
    PROVE  OnlyStatusSaysSo(convs[c])
<1>1. /\ convs[c].botPaused \in BOOLEAN /\ convs[c].handoffRequired \in BOOLEAN
      /\ c # None /\ convs[c].status # "none"
  BY NoneIsNoName, StatusesApart DEF IInv, TypeOK, Rows, Names
<1>2. /\ ~convs'[c].botPaused /\ ~convs'[c].handoffRequired
      /\ convs'[c].status # "human_assigned" /\ convs'[c].assignedTo = None
  BY DEF isHumanTakeoverActive, hasHumanAssignment
<1>3. WritesPause(d, c)
  BY DeliveryWritesPause
<1>4. SameAssignment(convs[c], convs'[c])
  BY <1>1, <1>3 DEF WritesPause
<1>5. convs[c].handoffRequired = FALSE /\ convs[c].assignedTo = None
  BY <1>1, <1>2, <1>4 DEF SameAssignment
<1>6. convs[c].botPaused = FALSE
  <2> SUFFICES ASSUME convs[c].botPaused = TRUE
               PROVE  FALSE
    BY <1>1
  <2>1. PausedOnly(convs[c])
    BY <1>5 DEF PausedOnly
  <2>2. convs'[c].botPaused # convs[c].botPaused
    BY <1>2
  <2>3. delivery[d].step = "commit" /\ delivery[d].conv = c /\ (Resumes(d, c) \/ Refreshes(d, c))
    BY <1>1, <1>3, <2>2 DEF WritesPause
  <2>4. isHumanTakeoverActive(delivery[d].seen) /\ ~shouldResumeAiAutomation(delivery[d].seen)
    BY <1>1, <2>1, <2>3 DEF PauseInv, SeenTakeover
  <2>5. QED
    BY <1>2, <2>3, <2>4 DEF Resumes, Refreshes
<1>7. convs[c].status = "human_assigned"
  BY <1>5, <1>6 DEF isHumanTakeoverActive, hasHumanAssignment
<1>8. QED
  BY <1>5, <1>6, <1>7 DEF OnlyStatusSaysSo

LEMMA TakeoverStep ==
    ASSUME IInv, PauseInv, Next, NEW c \in ConvIds, ops' = ops,
           Exists(convs[c]), isHumanTakeoverActive(convs[c])
    PROVE  isHumanTakeoverActive(convs'[c]) \/ OnlyStatusSaysSo(convs[c])
<1>1. ops' # ops + 1
  BY DEF IInv, TypeOK
<1>2. CASE \E d \in Deliveries : Step(d)
  BY <1>2, DeliveryEndsNoTakeover
<1>3. CASE Rest
  BY <1>3 DEF Rest, vars
<1>4. QED
  BY <1>1, <1>2, <1>3 DEF Next, Agent, Operate, RemoveConversation, ReadNotices, AgentCreates,
     CreateByAgent, DeleteMessage

\* No delivery ends a takeover that botPaused, handoffRequired or assignedTo records, although
\* deliveries write the status and the pause back from rows read before an agent acted.
THEOREM TakeoverIsKept == Spec => TakeoverOutlivesDeliveries
<1>1. IInv /\ PauseInv /\ [Next]_vars =>
        [\A c \in ConvIds :
           /\ ops' = ops
           /\ Exists(convs[c]) /\ isHumanTakeoverActive(convs[c])
           => isHumanTakeoverActive(convs'[c]) \/ OnlyStatusSaysSo(convs[c])]_vars
  BY TakeoverStep
<1>2. QED
  BY <1>1, Invariant, PauseInvariant, PTL DEF Spec, TakeoverOutlivesDeliveries
=============================================================================
