---------------------- MODULE WhatsappSenderSafetyProofs ----------------------
(***************************************************************************)
(* The invariants of WhatsappSender, for any number of requests, messages  *)
(* of the customer and operations of agents: what the answer of a request  *)
(* says of the conversation and of the customer, and what the order of the *)
(* messages says of repeated replies and of suggestions.                   *)
(***************************************************************************)
EXTENDS WhatsappSender, FiniteSetTheorems, SequenceTheorems, WellFoundedInduction, TLAPS

RequestRows == [step : Steps, kind : Kinds \cup {None}, sender : Senders \cup {None},
                text : Texts \cup {None}, known : BOOLEAN, seen : Contexts,
                ext : Sends \cup {None}, checked : 0 .. MaxTime,
                question : Inbound \cup {None}, ended : SUBSET Sends, result : Results]
SentRows == [by : Sends, at : 1 .. MaxTime, checked : 0 .. MaxTime]

\* The steps of a request that has stored its text.
Recorded == {"touch", "question", "suggest", "reload"}

\* The messages stored now or deleted since, and who they are of.
Log == Range(messages) \cup deleted
Logged == {row.by : row \in Log}
By == {messages[i].by : i \in DOMAIN messages}
Gone == {row.by : row \in deleted}
Delivered == {sent[i].by : i \in DOMAIN sent}

\* One message is before another in the conversation.
Before(x, y) ==
    \E i, j \in DOMAIN messages : i < j /\ messages[i].by = x /\ messages[j].by = y

-----------------------------------------------------------------------------
(* The inductive invariant *)

Types ==
    /\ TypeOK
    /\ messages \in Seq(Messages) /\ sent \in Seq(SentRows)
    /\ conv.lastCustomerMessageAt \in 0 .. MaxTime
    /\ IsFiniteSet(Ended)

\* A request or the customer has one message at most, stored or deleted.
UniqueRows ==
    /\ \A i, j \in DOMAIN messages : messages[i].by = messages[j].by => i = j
    /\ By \cap Gone = {}

\* What a request knows at each step.
Knows(q) ==
    /\ q.step = "idle" => ~q.known /\ q.ended = {}
    /\ q.step # "idle" => <<q.kind, q.sender, q.known>> \in Callers /\ q.text \in Texts
    /\ q.step # "done" => q.result = None
    /\ q.step \in {"save_find", "save_near", "save_create"} => q.kind = "save"
    /\ q.step \in {"instance", "duplicate", "provider", "record", "reload"} => q.kind # "save"
    /\ q.step \in {"duplicate", "record"} \cup Recorded => q.known
    /\ q.step = "suggest" => q.question \in Inbound
    /\ q.result = "sent" => q.kind # "save"

\* What its step and its answer say of its message and of the customer.
Holds(s) ==
    LET q == request[s] IN
    /\ s \in Logged => q.step \in Recorded \cup {"done"}
    /\ q.step \in Recorded => s \in Logged
    /\ q.kind # "save" /\ s \in Logged => s \in Delivered
    /\ s \in Delivered => q.step \in {"record", "done"} \cup Recorded
    /\ q.step = "record" => s \in Delivered
    /\ q.kind # "save" /\ q.result = "skipped" => s \notin Delivered
    /\ q.result = "sent" => s \in Delivered /\ (q.known => s \in Logged)

\* A message is its writer's, and was stored after it was delivered.
RowsMatch ==
    /\ \A row \in Log :
         /\ row.by \in Sends => /\ row.sender = request[row.by].sender
                                /\ row.text = request[row.by].text
         /\ row.by \in Inbound => row.sender = "customer"
         /\ \A i \in DOMAIN sent : sent[i].by = row.by => sent[i].at <= row.at
    /\ \A i, j \in DOMAIN sent : sent[i].by = sent[j].by => i = j
    /\ \A i \in DOMAIN sent : sent[i].at <= clock

\* A date of a message of the customer, and a time at which the window was open.
CustomerAt(t) == \E row \in Log : row.sender = "customer" /\ row.at = t
Justified(t) == \E row \in Log : row.sender = "customer" /\ t - row.at < Window

WindowInv ==
    /\ conv.lastCustomerMessageAt # 0 => CustomerAt(conv.lastCustomerMessageAt)
    /\ \A s \in Sends :
         /\ request[s].step = "instance" /\ request[s].seen.lastCustomerMessageAt # 0
            => CustomerAt(request[s].seen.lastCustomerMessageAt)
         /\ request[s].step \in {"duplicate", "provider"} /\ request[s].known
            => Justified(request[s].checked)
    /\ \A i \in DOMAIN sent : request[sent[i].by].known => Justified(sent[i].checked)

\* A question is before its answer, as long as both are there.
QuestionInv ==
    /\ \A s \in Sends, x \in Inbound : request[s].step = "suggest" /\ request[s].question = x =>
         /\ x \in Logged
         /\ x \in By /\ s \in By => Before(x, s)
    /\ \A x \in Inbound, s \in Sends :
         [question |-> x, answer |-> s] \in suggestions => Before(x, s)

\* A bot text that is the same as one that was answered before the request began, and
\* what came between.
Repeats(first, again) ==
    /\ first \in request[again].ended
    /\ request[first].result = "sent"
    /\ request[first].known /\ request[again].known
    /\ request[first].sender = "bot" /\ request[again].sender = "bot"
    /\ request[first].text = request[again].text
Between(first, again) ==
    \/ \E row \in deleted : row.by # again
    \/ \E x \in By : x # again /\ Before(first, x)

RepeatInv ==
    /\ \A s \in Sends : request[s].ended \subseteq Ended \ {s}
    /\ \A f, s \in Sends, i \in DOMAIN sent :
         /\ request[s].step = "provider" /\ Repeats(f, s)
         /\ sent[i].by = f /\ clock - sent[i].at <= Recent
         => Between(f, s)
    /\ \A f, s \in Sends, i, j \in DOMAIN sent :
         /\ i < j /\ sent[i].by = f /\ sent[j].by = s /\ Repeats(f, s)
         /\ sent[j].at - sent[i].at <= Recent
         => Between(f, s)

IInv ==
    /\ Types /\ UniqueRows
    /\ \A s \in Sends : Knows(request[s]) /\ Holds(s)
    /\ RowsMatch /\ WindowInv /\ QuestionInv /\ RepeatInv /\ StatusOfItsOwnText

-----------------------------------------------------------------------------
(* Sequences and numbers *)

\* A set of numbers up to n has a greatest one.
LEMMA MaxIn ==
    ASSUME NEW n \in Nat, NEW S, S \subseteq 1 .. n, S # {}
    PROVE  Max(S) \in S /\ \A x \in S : x <= Max(S)
<1> DEFINE T == {n - x : x \in S}
<1>1. T \subseteq Nat /\ T # {}
  <2>1. \A x \in S : x \in 1 .. n /\ n - x \in Nat
    OBVIOUS
  <2>2. QED
    BY <2>1
<1>2. PICK y \in T : \A z \in T : ~(<<z, y>> \in OpToRel(<, Nat))
  BY <1>1, WFMin, NatLessThanWellFounded
<1>3. \A z \in T : ~(z < y)
  BY <1>1, <1>2 DEF OpToRel
<1>4. PICK x \in S : y = n - x
  OBVIOUS
<1>5. \A z \in S : x >= z
  <2>1. TAKE z \in S
  <2>2. n - z \in T /\ z \in 1 .. n /\ x \in 1 .. n
    OBVIOUS
  <2>3. QED
    BY <2>2, <1>3, <1>4
<1>6. \A z \in S : z \in Int
  OBVIOUS
<1> HIDE DEF T
<1>7. QED
  BY <1>5, <1>6 DEF Max

\* The elements of a concatenation, from the left and from where the second starts.
LEMMA Concatenated ==
    ASSUME NEW S, NEW a \in Seq(S), NEW b \in Seq(S)
    PROVE  /\ a \o b \in Seq(S) /\ Len(a \o b) = Len(a) + Len(b)
           /\ \A j \in 1 .. Len(a) : (a \o b)[j] = a[j]
           /\ \A j \in 1 .. Len(b) : (a \o b)[Len(a) + j] = b[j]
<1>1. /\ a \o b \in Seq(S) /\ Len(a \o b) = Len(a) + Len(b)
      /\ \A j \in 1 .. Len(a) + Len(b) : (a \o b)[j] = IF j <= Len(a) THEN a[j] ELSE b[j - Len(a)]
  BY ConcatProperties
<1>2. Len(a) \in Nat /\ Len(b) \in Nat
  BY LenProperties
<1>3. ASSUME NEW j \in 1 .. Len(a)
      PROVE  (a \o b)[j] = a[j]
  <2>1. j \in 1 .. Len(a) + Len(b) /\ j <= Len(a)
    BY <1>2
  <2>2. QED
    BY <1>1, <2>1
<1>4. ASSUME NEW j \in 1 .. Len(b)
      PROVE  (a \o b)[Len(a) + j] = b[j]
  <2>1. /\ Len(a) + j \in 1 .. Len(a) + Len(b) /\ ~(Len(a) + j <= Len(a))
        /\ (Len(a) + j) - Len(a) = j
    BY <1>2
  <2>2. QED
    BY <1>1, <2>1
<1>5. QED
  BY <1>1, <1>3, <1>4

\* The elements after an insertion at i.
LEMMA Inserted ==
    ASSUME NEW S, NEW seq \in Seq(S), NEW e \in S, NEW i \in 1 .. Len(seq) + 1
    PROVE  /\ InsertAt(seq, i, e) \in Seq(S) /\ Len(InsertAt(seq, i, e)) = Len(seq) + 1
           /\ InsertAt(seq, i, e)[i] = e
           /\ \A j \in 1 .. i - 1 : InsertAt(seq, i, e)[j] = seq[j]
           /\ \A j \in i .. Len(seq) : InsertAt(seq, i, e)[j + 1] = seq[j]
<1> DEFINE before == SubSeq(seq, 1, i - 1)
           rest == SubSeq(seq, i, Len(seq))
           front == before \o <<e>>
           all == front \o rest
<1>1. Len(seq) \in Nat /\ i \in Int /\ \A j \in 1 .. Len(seq) : seq[j] \in S
  BY LenProperties, ElementOfSeq
<1>2. PICK m \in Nat, n \in Nat : m = i - 1 /\ n = Len(seq) - m
  <2>1. i - 1 \in Nat /\ Len(seq) - (i - 1) \in Nat
    BY <1>1
  <2>2. QED
    BY <2>1
<1>3. /\ before \in Seq(S) /\ Len(before) = m
      /\ \A j \in 1 .. m : before[j] = seq[j]
  BY <1>1, <1>2, SubSeqProperties
<1>4. /\ rest \in Seq(S) /\ Len(rest) = n
      /\ \A j \in 1 .. n : rest[j] = seq[m + j]
  BY <1>1, <1>2, SubSeqProperties
<1>5. <<e>> \in Seq(S) /\ Len(<<e>>) = 1 /\ <<e>>[1] = e
  OBVIOUS
<1>6. InsertAt(seq, i, e) = all
  BY DEF InsertAt
<1> HIDE DEF before, rest
<1>7. /\ before \o <<e>> \in Seq(S)
      /\ Len(before \o <<e>>) = Len(before) + Len(<<e>>)
      /\ \A j \in 1 .. Len(before) : (before \o <<e>>)[j] = before[j]
      /\ \A j \in 1 .. Len(<<e>>) : (before \o <<e>>)[Len(before) + j] = <<e>>[j]
  <2>1. before \in Seq(S) /\ <<e>> \in Seq(S)
    BY <1>3, <1>5
  <2>2. before \o <<e>> \in Seq(S)
    BY <2>1, Concatenated
  <2>3. Len(before \o <<e>>) = Len(before) + Len(<<e>>)
    BY <2>1, Concatenated
  <2>4. \A j \in 1 .. Len(before) : (before \o <<e>>)[j] = before[j]
    BY <2>1, Concatenated
  <2>5. \A j \in 1 .. Len(<<e>>) : (before \o <<e>>)[Len(before) + j] = <<e>>[j]
    BY <2>1, Concatenated
  <2>6. QED
    BY <2>2, <2>3, <2>4, <2>5
<1>8. /\ front \in Seq(S) /\ Len(front) = m + 1
      /\ \A j \in 1 .. m : front[j] = before[j]
      /\ front[m + 1] = e
  BY <1>3, <1>5, <1>7
<1> HIDE DEF front
<1>9. /\ front \o rest \in Seq(S)
      /\ Len(front \o rest) = Len(front) + Len(rest)
      /\ \A j \in 1 .. Len(front) : (front \o rest)[j] = front[j]
      /\ \A j \in 1 .. Len(rest) : (front \o rest)[Len(front) + j] = rest[j]
  <2>1. front \in Seq(S) /\ rest \in Seq(S)
    BY <1>4, <1>8
  <2>2. front \o rest \in Seq(S)
    BY <2>1, Concatenated
  <2>3. Len(front \o rest) = Len(front) + Len(rest)
    BY <2>1, Concatenated
  <2>4. \A j \in 1 .. Len(front) : (front \o rest)[j] = front[j]
    BY <2>1, Concatenated
  <2>5. \A j \in 1 .. Len(rest) : (front \o rest)[Len(front) + j] = rest[j]
    BY <2>1, Concatenated
  <2>6. QED
    BY <2>2, <2>3, <2>4, <2>5
<1>10. /\ all \in Seq(S) /\ Len(all) = (m + 1) + n
       /\ \A j \in 1 .. m + 1 : all[j] = front[j]
       /\ \A j \in 1 .. n : all[(m + 1) + j] = rest[j]
  BY <1>4, <1>8, <1>9
<1> HIDE DEF all
<1>11. all[i] = e /\ Len(all) = Len(seq) + 1
  BY <1>1, <1>2, <1>8, <1>10
<1>12. \A j \in 1 .. i - 1 : all[j] = seq[j]
  BY <1>2, <1>3, <1>8, <1>10
<1>13. ASSUME NEW j \in i .. Len(seq)
       PROVE  all[j + 1] = seq[j]
  <2>1. PICK k \in 1 .. n : j = m + k
    <3>1. j - m \in 1 .. n /\ j = m + (j - m)
      BY <1>1, <1>2
    <3>2. QED
      BY <3>1
  <2>2. (m + 1) + k = j + 1
    BY <1>2, <2>1
  <2>3. all[(m + 1) + k] = seq[m + k]
    BY <1>4, <1>10
  <2>4. QED
    BY <2>1, <2>2, <2>3
<1>14. QED
  BY <1>6, <1>10, <1>11, <1>12, <1>13

\* The elements after the removal of the one at i.
LEMMA Removed ==
    ASSUME NEW S, NEW seq \in Seq(S), NEW i \in 1 .. Len(seq)
    PROVE  /\ RemoveAt(seq, i) \in Seq(S) /\ Len(RemoveAt(seq, i)) = Len(seq) - 1
           /\ \A j \in 1 .. i - 1 : RemoveAt(seq, i)[j] = seq[j]
           /\ \A j \in i .. Len(seq) - 1 : RemoveAt(seq, i)[j] = seq[j + 1]
<1> DEFINE before == SubSeq(seq, 1, i - 1)
           rest == SubSeq(seq, i + 1, Len(seq))
           all == before \o rest
<1>1. Len(seq) \in Nat /\ i \in Int /\ \A j \in 1 .. Len(seq) : seq[j] \in S
  BY LenProperties, ElementOfSeq
<1>2. PICK m \in Nat, n \in Nat : m = i - 1 /\ n = Len(seq) - i
  <2>1. i - 1 \in Nat /\ Len(seq) - i \in Nat
    BY <1>1
  <2>2. QED
    BY <2>1
<1>3. /\ before \in Seq(S) /\ Len(before) = m
      /\ \A j \in 1 .. m : before[j] = seq[j]
  BY <1>1, <1>2, SubSeqProperties
<1>4. /\ rest \in Seq(S) /\ Len(rest) = n
      /\ \A j \in 1 .. n : rest[j] = seq[i + j]
  BY <1>1, <1>2, SubSeqProperties
<1>5. RemoveAt(seq, i) = all
  BY DEF RemoveAt
<1> HIDE DEF before, rest
<1>6. /\ before \o rest \in Seq(S)
      /\ Len(before \o rest) = Len(before) + Len(rest)
      /\ \A j \in 1 .. Len(before) : (before \o rest)[j] = before[j]
      /\ \A j \in 1 .. Len(rest) : (before \o rest)[Len(before) + j] = rest[j]
  <2>1. before \in Seq(S) /\ rest \in Seq(S)
    BY <1>3, <1>4
  <2>2. before \o rest \in Seq(S)
    BY <2>1, Concatenated
  <2>3. Len(before \o rest) = Len(before) + Len(rest)
    BY <2>1, Concatenated
  <2>4. \A j \in 1 .. Len(before) : (before \o rest)[j] = before[j]
    BY <2>1, Concatenated
  <2>5. \A j \in 1 .. Len(rest) : (before \o rest)[Len(before) + j] = rest[j]
    BY <2>1, Concatenated
  <2>6. QED
    BY <2>2, <2>3, <2>4, <2>5
<1>7. /\ all \in Seq(S) /\ Len(all) = m + n
      /\ \A j \in 1 .. m : all[j] = before[j]
      /\ \A j \in 1 .. n : all[m + j] = rest[j]
  BY <1>3, <1>4, <1>6
<1> HIDE DEF all
<1>8. \A j \in 1 .. i - 1 : all[j] = seq[j]
  BY <1>2, <1>3, <1>7
<1>9. ASSUME NEW j \in i .. Len(seq) - 1
      PROVE  all[j] = seq[j + 1]
  <2>1. PICK k \in 1 .. n : j = m + k
    <3>1. j - m \in 1 .. n /\ j = m + (j - m)
      BY <1>1, <1>2
    <3>2. QED
      BY <3>1
  <2>2. i + k = j + 1
    BY <1>2, <2>1
  <2>3. all[m + k] = seq[i + k]
    BY <1>4, <1>7
  <2>4. QED
    BY <2>1, <2>2, <2>3
<1>10. Len(all) = Len(seq) - 1
  BY <1>1, <1>2, <1>7
<1>11. QED
  BY <1>5, <1>7, <1>8, <1>9, <1>10

-----------------------------------------------------------------------------
(* What a step does to the messages *)

SameRow(r, o) == r.by = o.by /\ r.sender = o.sender /\ r.text = o.text /\ r.at = o.at

\* The rows New are stored; others may be given a status, deleted or neither, and keep
\* their order.
TableStep(New) ==
    /\ messages' \in Seq(Messages) /\ deleted' \subseteq Messages /\ deleted \subseteq deleted'
    /\ UniqueRows'
    /\ New \subseteq Log'
    /\ \A row \in Log : \E new \in Log' : SameRow(new, row)
    /\ \A new \in Log' : new \in New \/ \E row \in Log : SameRow(new, row)
    /\ By' \subseteq By \cup {row.by : row \in New}
    /\ By \subseteq By' \cup Gone'
    /\ \A x, y \in By' : Before(x, y) => Before(x, y)'

\* The messages by their positions.
LEMMA Positions ==
    ASSUME messages \in Seq(Messages)
    PROVE  /\ Len(messages) \in Nat /\ DOMAIN messages = 1 .. Len(messages)
           /\ \A i \in 1 .. Len(messages) : messages[i] \in Messages
           /\ Range(messages) = {messages[i] : i \in 1 .. Len(messages)}
           /\ By = {messages[i].by : i \in 1 .. Len(messages)}
           /\ Range(messages) \subseteq Messages
<1>1. Len(messages) \in Nat /\ DOMAIN messages = 1 .. Len(messages)
  BY LenProperties
<1>2. \A i \in 1 .. Len(messages) : messages[i] \in Messages
  BY ElementOfSeq
<1>3. QED
  BY <1>1, <1>2 DEF Range, By

\* Who has a message has it stored or deleted.
LEMMA LoggedIs == Logged = By \cup Gone
<1>1. {row.by : row \in Range(messages)} = By
  BY DEF Range, By
<1>2. QED
  BY <1>1 DEF Logged, Log, Gone

\* A step that leaves the messages alone.
LEMMA NothingMoves ==
    ASSUME messages \in Seq(Messages), deleted \subseteq Messages, UniqueRows,
           UNCHANGED <<messages, deleted>>
    PROVE  TableStep({})
<1>1. Log' = Log /\ By' = By /\ Gone' = Gone /\ UniqueRows'
  BY DEF Log, By, Gone, UniqueRows
<1>2. \A x, y : Before(x, y) => Before(x, y)'
  BY DEF Before
<1>3. \A row \in Log : SameRow(row, row)
  BY DEF SameRow
<1>4. QED
  BY <1>1, <1>2, <1>3 DEF TableStep

\* A status is overwritten.
LEMMA StatusMoves ==
    ASSUME messages \in Seq(Messages), deleted \subseteq Messages, UniqueRows,
           messages' \in Seq(Messages), Len(messages') = Len(messages),
           \A i \in 1 .. Len(messages) : SameRow(messages'[i], messages[i]),
           UNCHANGED deleted
    PROVE  TableStep({})
<1>1. /\ DOMAIN messages = 1 .. Len(messages) /\ DOMAIN messages' = 1 .. Len(messages)
      /\ Range(messages) = {messages[i] : i \in 1 .. Len(messages)}
      /\ Range(messages') = {messages'[i] : i \in 1 .. Len(messages)}
      /\ By = {messages[i].by : i \in 1 .. Len(messages)}
  BY LenProperties DEF Range, By
<1>2. By' = {messages'[i].by : i \in 1 .. Len(messages)}
  BY <1>1 DEF By
<1>3. By' = By /\ Gone' = Gone
  BY <1>1, <1>2 DEF SameRow, Gone
<1>4. UniqueRows'
  BY <1>1, <1>3 DEF UniqueRows, SameRow
<1>5. \A x, y : Before(x, y) => Before(x, y)'
  BY <1>1 DEF Before, SameRow
<1>6. \A row \in Log : \E new \in Log' : SameRow(new, row)
  BY <1>1 DEF Log, SameRow
<1>7. \A new \in Log' : \E row \in Log : SameRow(new, row)
  BY <1>1 DEF Log, SameRow
<1>8. QED
  BY <1>3, <1>4, <1>5, <1>6, <1>7 DEF TableStep

\* A row is stored at a position; the rows behind it move up.
LEMMA InsertionMoves ==
    ASSUME messages \in Seq(Messages), deleted \subseteq Messages, UniqueRows,
           NEW k \in 1 .. Len(messages) + 1, NEW row \in Messages, row.by \notin Logged,
           messages' \in Seq(Messages), Len(messages') = Len(messages) + 1,
           messages'[k] = row,
           \A j \in 1 .. k - 1 : messages'[j] = messages[j],
           \A j \in k .. Len(messages) : messages'[j + 1] = messages[j],
           UNCHANGED deleted
    PROVE  /\ TableStep({row}) /\ Range(messages') = Range(messages) \cup {row}
           /\ By' = By \cup {row.by}
<1> DEFINE n == Len(messages)
           moved(j) == IF j < k THEN j ELSE j + 1
<1>1. /\ n \in Nat /\ DOMAIN messages = 1 .. n /\ DOMAIN messages' = 1 .. n + 1
      /\ Range(messages) = {messages[i] : i \in 1 .. n}
      /\ Range(messages') = {messages'[i] : i \in 1 .. n + 1}
      /\ By = {messages[i].by : i \in 1 .. n}
      /\ Logged = By \cup Gone
  BY LenProperties, LoggedIs DEF Range, By
<1>2. By' = {messages'[i].by : i \in 1 .. n + 1}
  BY <1>1 DEF By
<1>3. ASSUME NEW j \in 1 .. n
      PROVE  moved(j) \in 1 .. n + 1 /\ messages'[moved(j)] = messages[j] /\ moved(j) # k
  <2>1. CASE j < k
    BY <2>1, <1>1
  <2>2. CASE ~(j < k)
    <3>1. j \in k .. n /\ j + 1 \in 1 .. n + 1
      BY <2>2, <1>1
    <3>2. QED
      BY <2>2, <3>1
  <2>3. QED
    BY <2>1, <2>2
<1>4. ASSUME NEW i \in 1 .. n + 1, i # k
      PROVE  \E j \in 1 .. n : i = moved(j)
  <2>1. CASE i < k
    BY <2>1, <1>1
  <2>2. CASE ~(i < k)
    <3>1. i - 1 \in 1 .. n /\ ~(i - 1 < k) /\ (i - 1) + 1 = i
      BY <2>2, <1>1, <1>4
    <3>2. QED
      BY <3>1
  <2>3. QED
    BY <2>1, <2>2
<1>5. \A i, j \in 1 .. n : i < j => moved(i) < moved(j)
  BY <1>1
<1> HIDE DEF moved
<1>6. Range(messages') = Range(messages) \cup {row} /\ By' = By \cup {row.by}
  <2>1. ASSUME NEW i \in 1 .. n + 1
        PROVE  messages'[i] = row \/ \E j \in 1 .. n : messages'[i] = messages[j]
    BY <1>3, <1>4
  <2>2. \A j \in 1 .. n : \E i \in 1 .. n + 1 : messages'[i] = messages[j]
    BY <1>3
  <2>3. k \in 1 .. n + 1
    OBVIOUS
  <2>4. Range(messages') = Range(messages) \cup {row}
    BY <1>1, <2>1, <2>2, <2>3
  <2>5. By' = By \cup {row.by}
    <3>1. By = {messages[i].by : i \in 1 .. n}
      BY <1>1
    <3>2. \A x \in By' : x \in By \cup {row.by}
      BY <3>1, <1>2, <2>1
    <3>3. \A x \in By : x \in By'
      BY <3>1, <1>2, <2>2
    <3>4. row.by \in By'
      BY <1>2, <2>3
    <3>5. QED
      BY <3>2, <3>3, <3>4
  <2>6. QED
    BY <2>4, <2>5
<1>7. UniqueRows'
  <2>1. ASSUME NEW i \in 1 .. n + 1, NEW j \in 1 .. n + 1, messages'[i].by = messages'[j].by
        PROVE  i = j
    <3>1. CASE i = k \/ j = k
      <4>1. \A l \in 1 .. n : messages[l].by # row.by
        BY <1>1
      <4>2. \A l \in 1 .. n + 1 : l # k => messages'[l].by # row.by
        BY <4>1, <1>3, <1>4
      <4>3. QED
        BY <2>1, <3>1, <4>2
    <3>2. CASE i # k /\ j # k
      <4>1. PICK a \in 1 .. n, b \in 1 .. n : i = moved(a) /\ j = moved(b)
        BY <3>2, <1>4
      <4>2. messages[a].by = messages[b].by
        BY <4>1, <2>1, <1>3
      <4>3. QED
        BY <4>1, <4>2, <1>1 DEF UniqueRows
    <3>3. QED
      BY <3>1, <3>2
  <2>2. Gone' = Gone /\ row.by \notin Gone
    BY <1>1 DEF Gone
  <2>3. QED
    BY <2>1, <2>2, <1>1, <1>6 DEF UniqueRows
<1>8. \A x, y : Before(x, y) => Before(x, y)'
  <2>1. ASSUME NEW x, NEW y, Before(x, y)
        PROVE  Before(x, y)'
    <3>1. PICK i \in 1 .. n, j \in 1 .. n :
              i < j /\ messages[i].by = x /\ messages[j].by = y
      BY <2>1, <1>1 DEF Before
    <3>2. /\ moved(i) \in 1 .. n + 1 /\ moved(j) \in 1 .. n + 1 /\ moved(i) < moved(j)
          /\ messages'[moved(i)].by = x /\ messages'[moved(j)].by = y
      BY <3>1, <1>3, <1>5
    <3>3. QED
      BY <3>2, <1>1 DEF Before
  <2>2. QED
    BY <2>1
<1>9. Log' = Log \cup {row} /\ \A r : SameRow(r, r)
  BY <1>6 DEF Log, SameRow
<1>10. QED
  BY <1>6, <1>7, <1>8, <1>9 DEF TableStep

\* A row is deleted; the rows behind it move down.
LEMMA RemovalMoves ==
    ASSUME messages \in Seq(Messages), deleted \subseteq Messages, UniqueRows,
           NEW k \in 1 .. Len(messages),
           messages' \in Seq(Messages), Len(messages') = Len(messages) - 1,
           \A j \in 1 .. k - 1 : messages'[j] = messages[j],
           \A j \in k .. Len(messages) - 1 : messages'[j] = messages[j + 1],
           deleted' = deleted \cup {messages[k]}
    PROVE  /\ TableStep({}) /\ Range(messages') \subseteq Range(messages)
           /\ By' = By \ {messages[k].by}
<1> DEFINE n == Len(messages)
           was(j) == IF j < k THEN j ELSE j + 1
<1>1. /\ n \in Nat /\ DOMAIN messages = 1 .. n /\ DOMAIN messages' = 1 .. n - 1
      /\ Range(messages) = {messages[i] : i \in 1 .. n}
      /\ Range(messages') = {messages'[i] : i \in 1 .. n - 1}
      /\ By = {messages[i].by : i \in 1 .. n}
      /\ \A i \in 1 .. n : messages[i] \in Messages
  BY LenProperties, ElementOfSeq DEF Range, By
<1>2. By' = {messages'[i].by : i \in 1 .. n - 1}
  BY <1>1 DEF By
<1>3. ASSUME NEW j \in 1 .. n - 1
      PROVE  was(j) \in 1 .. n /\ messages'[j] = messages[was(j)] /\ was(j) # k
  <2>1. CASE j < k
    BY <2>1, <1>1
  <2>2. CASE ~(j < k)
    <3>1. j \in k .. n - 1 /\ j + 1 \in 1 .. n
      BY <2>2, <1>1
    <3>2. QED
      BY <2>2, <3>1
  <2>3. QED
    BY <2>1, <2>2
<1>4. ASSUME NEW i \in 1 .. n, i # k
      PROVE  \E j \in 1 .. n - 1 : i = was(j)
  <2>1. CASE i < k
    BY <2>1, <1>1
  <2>2. CASE ~(i < k)
    <3>1. i - 1 \in 1 .. n - 1 /\ ~(i - 1 < k) /\ (i - 1) + 1 = i
      BY <2>2, <1>1, <1>4
    <3>2. QED
      BY <3>1
  <2>3. QED
    BY <2>1, <2>2
<1>5. \A i, j \in 1 .. n - 1 : was(i) < was(j) => i < j
  BY <1>1
<1> HIDE DEF was
<1>6. /\ Range(messages') \subseteq Range(messages)
      /\ Range(messages) \subseteq Range(messages') \cup {messages[k]}
  <2>1. \A j \in 1 .. n - 1 : \E i \in 1 .. n : messages'[j] = messages[i]
    BY <1>3
  <2>2. \A i \in 1 .. n : messages[i] = messages[k] \/ \E j \in 1 .. n - 1 : messages[i] = messages'[j]
    BY <1>3, <1>4
  <2>3. \A x \in Range(messages') : x \in Range(messages)
    <3> SUFFICES ASSUME NEW j \in 1 .. n - 1 PROVE messages'[j] \in Range(messages)
      BY <1>1
    <3>1. PICK i \in 1 .. n : messages'[j] = messages[i]
      BY <2>1
    <3>2. QED
      BY <1>1, <3>1
  <2>4. \A x \in Range(messages) : x \in Range(messages') \cup {messages[k]}
    <3> SUFFICES ASSUME NEW i \in 1 .. n, messages[i] # messages[k]
                 PROVE  messages[i] \in Range(messages')
      BY <1>1
    <3>1. PICK j \in 1 .. n - 1 : messages[i] = messages'[j]
      BY <2>2
    <3>2. QED
      BY <1>1, <3>1
  <2>5. QED
    BY <2>3, <2>4
<1>7. By' = By \ {messages[k].by}
  <2>1. \A j \in 1 .. n - 1 : \E i \in 1 .. n : i # k /\ messages'[j] = messages[i]
    BY <1>3
  <2>2. \A i \in 1 .. n : i # k => \E j \in 1 .. n - 1 : messages[i] = messages'[j]
    BY <1>3, <1>4
  <2>3. \A i \in 1 .. n : i # k => messages[i].by # messages[k].by
    BY <1>1 DEF UniqueRows
  <2>4. By = {messages[i].by : i \in 1 .. n}
    BY <1>1
  <2>5. \A x \in By' : x \in By \ {messages[k].by}
    <3> SUFFICES ASSUME NEW j \in 1 .. n - 1 PROVE messages'[j].by \in By \ {messages[k].by}
      BY <1>2
    <3>1. PICK i \in 1 .. n : i # k /\ messages'[j] = messages[i]
      BY <2>1
    <3>2. QED
      BY <2>3, <2>4, <3>1
  <2>6. \A x \in By \ {messages[k].by} : x \in By'
    <3> SUFFICES ASSUME NEW i \in 1 .. n, messages[i].by # messages[k].by
                 PROVE  messages[i].by \in By'
      BY <2>4
    <3>1. PICK j \in 1 .. n - 1 : messages[i] = messages'[j]
      BY <2>2
    <3>2. QED
      BY <1>2, <3>1
  <2>7. QED
    BY <2>5, <2>6
<1>8. Gone' = Gone \cup {messages[k].by}
  BY DEF Gone
<1>9. UniqueRows'
  <2>1. ASSUME NEW i \in 1 .. n - 1, NEW j \in 1 .. n - 1, messages'[i].by = messages'[j].by
        PROVE  i = j
    <3>1. was(i) \in 1 .. n /\ was(j) \in 1 .. n /\ messages[was(i)].by = messages[was(j)].by
      BY <2>1, <1>3
    <3>2. was(i) = was(j)
      BY <3>1, <1>1 DEF UniqueRows
    <3>3. QED
      BY <3>2, <1>1 DEF was
  <2>2. By' \cap Gone' = {}
    BY <1>7, <1>8 DEF UniqueRows
  <2>3. QED
    BY <2>1, <2>2, <1>1 DEF UniqueRows
<1>10. \A x, y \in By' : Before(x, y) => Before(x, y)'
  <2>1. ASSUME NEW x \in By', NEW y \in By', Before(x, y)
        PROVE  Before(x, y)'
    <3>1. PICK i \in 1 .. n, j \in 1 .. n :
              i < j /\ messages[i].by = x /\ messages[j].by = y
      BY <2>1, <1>1 DEF Before
    <3>2. i # k /\ j # k
      BY <3>1, <1>7
    <3>3. PICK a \in 1 .. n - 1, b \in 1 .. n - 1 : i = was(a) /\ j = was(b)
      BY <3>2, <1>4
    <3>4. a < b /\ messages'[a].by = x /\ messages'[b].by = y
      BY <3>1, <3>3, <1>3, <1>5
    <3>5. QED
      BY <3>4, <1>1 DEF Before
  <2>2. QED
    BY <2>1
<1>11. Log' = Log /\ \A r : SameRow(r, r)
  <2>1. messages[k] \in Range(messages)
    BY <1>1
  <2>2. QED
    BY <2>1, <1>6 DEF Log, SameRow
<1>12. deleted' \subseteq Messages
  BY <1>1
<1>13. QED
  BY <1>6, <1>7, <1>8, <1>9, <1>10, <1>11, <1>12 DEF TableStep

\* All of them are deleted.
LEMMA ClearingMoves ==
    ASSUME messages \in Seq(Messages), deleted \subseteq Messages, UniqueRows,
           messages' = <<>>, deleted' = deleted \cup Range(messages)
    PROVE  /\ TableStep({}) /\ Range(messages') = {} /\ By' = {}
<1>1. messages' \in Seq(Messages) /\ DOMAIN messages' = {}
  OBVIOUS
<1>2. Range(messages') = {} /\ By' = {}
  BY <1>1 DEF Range, By
<1>3. Log' = Log /\ \A r : SameRow(r, r)
  BY <1>2 DEF Log, SameRow
<1>4. By \subseteq Gone'
  BY DEF By, Gone, Range
<1>5. UniqueRows'
  BY <1>1, <1>2 DEF UniqueRows
<1>6. deleted' \subseteq Messages
  BY Positions
<1>7. QED
  BY <1>1, <1>2, <1>3, <1>4, <1>5, <1>6 DEF TableStep

-----------------------------------------------------------------------------
(* What a step does to the request that takes it *)

Only(s) ==
    /\ request' \in [Sends -> RequestRows]
    /\ \A q \in Sends : q # s => request'[q] = request[q]

SameRequest(p, q) ==
    /\ q.kind = p.kind /\ q.sender = p.sender /\ q.text = p.text
    /\ q.known = p.known /\ q.ended = p.ended

\* The latest message is not the request's own text, given by the bot a short time ago.
NotRepeated(s) ==
    ~(/\ messages # <<>>
      /\ messages[Len(messages)].sender = "bot"
      /\ messages[Len(messages)].text = request[s].text
      /\ messages[Len(messages)].at >= clock - Recent)

TablesKept == UNCHANGED <<clock, conv, messages, deleted, sent, reports, ops>>

\* It begins.
Begins(s) ==
    /\ Only(s) /\ TablesKept /\ UNCHANGED suggestions
    /\ request[s].step = "idle"
    /\ LET q == request'[s] IN
       /\ Knows(q) /\ q.ended = Ended /\ q.result # "sent"
       /\ q.step \in {"instance", "save_find", "done"}
       /\ q.step = "instance" =>
            q.seen.lastCustomerMessageAt \in {0, conv.lastCustomerMessageAt}

\* It goes on, stores no message and sends no text.
Proceeds(s) ==
    /\ Only(s) /\ TablesKept
    /\ request[s].step \notin {"idle", "done"}
    /\ LET p == request[s]
           q == request'[s]
       IN
       /\ Knows(q) /\ SameRequest(p, q)
       /\ q.step \notin {"idle", "instance", "record"}
       /\ q.step \in Recorded => p.step \in Recorded
       /\ p.step \in {"record"} \cup Recorded => q.step \in {"done"} \cup Recorded
       /\ q.kind # "save" /\ q.result = "skipped" => p.step \in {"instance", "duplicate"}
       /\ q.result = "sent" => p.step \in Recorded
       /\ q.step \in {"duplicate", "provider"} /\ q.known =>
            \/ p.step = "duplicate" /\ q.checked = p.checked
            \/ /\ p.step = "instance" /\ q.checked = clock
               /\ checkWindow(p.seen.lastCustomerMessageAt)
       /\ q.step = "provider" /\ q.known /\ q.sender = "bot" =>
            p.step = "duplicate" /\ NotRepeated(s)
       /\ q.step = "suggest" =>
            /\ p.step = "question" /\ q.question \in By
            /\ s \in By => Before(q.question, s)
       /\ \/ UNCHANGED suggestions
          \/ /\ p.step = "suggest" /\ s \in By /\ p.question \in By
             /\ suggestions' = suggestions \cup {[question |-> p.question, answer |-> s]}

\* The provider accepts its text.
Delivers(s) ==
    /\ Only(s) /\ UNCHANGED <<clock, conv, messages, deleted, suggestions, reports, ops>>
    /\ request[s].step = "provider"
    /\ sent' = Append(sent, [by |-> s, at |-> clock, checked |-> request[s].checked])
    /\ LET q == request'[s] IN
       /\ Knows(q) /\ SameRequest(request[s], q)
       /\ q.step \in {"record", "done"} /\ q.result # "skipped"
       /\ q.result = "sent" => ~q.known

\* Its text is stored.
Records(s) ==
    /\ Only(s) /\ UNCHANGED <<clock, conv, deleted, suggestions, sent, reports, ops>>
    /\ request[s].step = "record" \/ request[s].step = "save_create"
    /\ messages' = Append(messages, OutboundRow(s))
    /\ LET q == request'[s] IN
       Knows(q) /\ SameRequest(request[s], q) /\ q.step = "touch"

Core == Types /\ UniqueRows /\ (\A s \in Sends : Knows(request[s]) /\ Holds(s))

Names == /\ None \notin Sends /\ None \notin Inbound /\ None \notin Texts /\ None \notin Outcomes
         /\ Sends \cap Inbound = {}

\* NULL is none of the values it is compared with, and nobody is a request and a message.
LEMMA NoneIsNoName == Names
BY SenderAssumption DEF Names

\* The types and facts of one request.
LEMMA RowOf ==
    ASSUME Core, NEW s \in Sends
    PROVE  /\ request \in [Sends -> RequestRows] /\ request[s] \in RequestRows
           /\ Knows(request[s]) /\ Holds(s)
BY DEF Core, Types, TypeOK, RequestRows

\* A request that ends keeps what it was asked.
LEMMA EndEffect ==
    ASSUME Core, NEW s \in Sends, NEW result \in Outcomes, End(s, result),
           request[s].step # "idle", result = "sent" => request[s].kind # "save"
    PROVE  /\ Only(s) /\ SameRequest(request[s], request'[s]) /\ Knows(request'[s])
           /\ request'[s].step = "done" /\ request'[s].result = result
<1> DEFINE row == [request[s] EXCEPT !.step = "done", !.result = result, !.seen = NoContext,
                                     !.ext = None, !.question = None, !.checked = 0]
<1>1. request \in [Sends -> RequestRows] /\ request[s] \in RequestRows /\ Knows(request[s])
  BY RowOf
<1>2. request' = [request EXCEPT ![s] = row]
  BY <1>1 DEF End, RequestRows
<1>3. NoContext \in Contexts /\ 0 \in 0 .. MaxTime /\ result \in Results /\ "done" \in Steps
  BY SenderAssumption DEF NoContext, Contexts, Results, Steps
<1>4. /\ row \in RequestRows
      /\ row.kind = request[s].kind /\ row.sender = request[s].sender /\ row.text = request[s].text
      /\ row.known = request[s].known /\ row.ended = request[s].ended
      /\ row.step = "done" /\ row.result = result
  BY <1>1, <1>3 DEF RequestRows
<1> HIDE DEF row
<1>5. request'[s] = row /\ Only(s)
  BY <1>1, <1>2, <1>4 DEF Only
<1>6. SameRequest(request[s], row)
  BY <1>4 DEF SameRequest
<1>7. Knows(row)
  BY <1>1, <1>4, NoneIsNoName DEF Knows, Recorded
<1>8. QED
  BY <1>4, <1>5, <1>6, <1>7

\* What createSuggestion may write.
SuggestionStep(s) ==
    \/ UNCHANGED suggestions
    \/ /\ request[s].step = "suggest" /\ s \in By /\ request[s].question \in By
       /\ suggestions' = suggestions \cup {[question |-> request[s].question, answer |-> s]}

\* Ending is a way to proceed, when the answer is one that the step may give.
LEMMA EndProceeds ==
    ASSUME Core, NEW s \in Sends, NEW result \in Outcomes, End(s, result), TablesKept,
           request[s].step \notin {"idle", "done"}, SuggestionStep(s),
           result = "skipped" => \/ request[s].kind = "save"
                                 \/ request[s].step \in {"instance", "duplicate"},
           result = "sent" => request[s].step \in Recorded /\ request[s].kind # "save"
    PROVE  Proceeds(s)
<1>1. /\ Only(s) /\ SameRequest(request[s], request'[s]) /\ Knows(request'[s])
      /\ request'[s].step = "done" /\ request'[s].result = result
  BY EndEffect
<1>2. request'[s].kind = request[s].kind
  BY <1>1 DEF SameRequest
<1>3. QED
  BY <1>1, <1>2 DEF Proceeds, SuggestionStep, Recorded

\* A request that goes to another step changes only its step.
LEMMA GotoEffect ==
    ASSUME Core, NEW s \in Sends, NEW step \in Steps, Goto(s, step)
    PROVE  /\ Only(s) /\ SameRequest(request[s], request'[s])
           /\ request'[s] = [request[s] EXCEPT !.step = step]
           /\ request'[s].step = step /\ request'[s].checked = request[s].checked
           /\ request'[s].result = request[s].result
           /\ request'[s].question = request[s].question
<1> DEFINE row == [request[s] EXCEPT !.step = step]
<1>1. request \in [Sends -> RequestRows] /\ request[s] \in RequestRows
  BY RowOf
<1>2. request' = [request EXCEPT ![s] = row]
  BY <1>1 DEF Goto, RequestRows
<1>3. /\ row \in RequestRows
      /\ row.kind = request[s].kind /\ row.sender = request[s].sender /\ row.text = request[s].text
      /\ row.known = request[s].known /\ row.ended = request[s].ended
      /\ row.step = step /\ row.result = request[s].result
      /\ row.checked = request[s].checked /\ row.question = request[s].question
  BY <1>1 DEF RequestRows
<1> HIDE DEF row
<1>4. request'[s] = row /\ Only(s)
  BY <1>1, <1>2, <1>3 DEF Only
<1>5. QED
  BY <1>3, <1>4 DEF SameRequest, row

\* The callers.
LEMMA CallerIs ==
    ASSUME NEW q, q.step # "idle", Knows(q)
    PROVE  /\ q.kind \in {"workflow", "automated_reply", "send", "agent", "save"}
           /\ q.kind \in Kinds /\ q.sender \in Senders /\ q.known \in BOOLEAN
           /\ q.sender \in {"bot", "human_agent", "system"}
           /\ q.kind \in {"agent", "save"} => q.known
<1>1. <<q.kind, q.sender, q.known>> \in Callers
  BY DEF Knows
<1>2. <<q.kind, q.sender, q.known>> \in
          ({"workflow", "automated_reply", "send"} \X {"bot", "human_agent", "system"} \X BOOLEAN)
          \cup {<<"agent", "human_agent", TRUE>>, <<"save", "bot", TRUE>>,
                <<"save", "human_agent", TRUE>>}
  BY <1>1, SenderAssumption
<1>3. q.kind \in Kinds /\ q.sender \in Senders
  BY <1>1 DEF Kinds, Senders
<1>4. QED
  BY <1>2, <1>3

\* The read of the conversation begins the request.
LEMMA BeginEffect ==
    ASSUME Core, NEW s \in Sends, NEW caller \in Callers, NEW text \in Texts,
           NEW given \in {"fine", "empty", "refused"},
           Begin(s, caller[1], caller[2], text, caller[3], given)
    PROVE  Begins(s)
<1> DEFINE kind == caller[1]
           sender == caller[2]
           known == caller[3]
           skipped == blockedByHuman(kind, sender, known) \/ (kind = "workflow" /\ given = "empty")
           refused == (known /\ ~Exists(conv)) \/ given # "fine"
           ends == refused \/ skipped
           row == [step |-> IF ends THEN "done" ELSE IF kind = "save" THEN "save_find" ELSE "instance",
                   kind |-> kind, sender |-> sender, text |-> text, known |-> known,
                   seen |-> IF ends \/ ~known \/ kind = "save" THEN NoContext
                            ELSE [lastCustomerMessageAt |-> conv.lastCustomerMessageAt,
                                  handoffRequired |-> conv.handoffRequired],
                   ext |-> None, checked |-> 0, question |-> None, ended |-> Ended,
                   result |-> IF known /\ ~Exists(conv) THEN "error"
                              ELSE IF skipped THEN "skipped"
                              ELSE IF refused THEN "error" ELSE None]
<1>1. request \in [Sends -> RequestRows] /\ request[s] \in RequestRows
  BY RowOf
<1>2. request[s].step = "idle" /\ request' = [request EXCEPT ![s] = row]
  BY DEF Begin
<1>3. TablesKept /\ UNCHANGED suggestions
  BY DEF Begin, TablesKept
<1>4. /\ kind \in {"workflow", "automated_reply", "send", "agent", "save"}
      /\ kind \in Kinds /\ sender \in Senders /\ known \in BOOLEAN
      /\ <<kind, sender, known>> \in Callers
  <2>1. caller \in ({"workflow", "automated_reply", "send"}
                       \X {"bot", "human_agent", "system"} \X BOOLEAN)
                   \cup {<<"agent", "human_agent", TRUE>>, <<"save", "bot", TRUE>>,
                         <<"save", "human_agent", TRUE>>}
    BY SenderAssumption
  <2>2. caller = <<caller[1], caller[2], caller[3]>> /\ caller[3] \in BOOLEAN
        /\ caller[1] \in {"workflow", "automated_reply", "send", "agent", "save"}
    <3>1. CASE caller \in ({"workflow", "automated_reply", "send"}
                              \X {"bot", "human_agent", "system"} \X BOOLEAN)
      BY <3>1
    <3>2. CASE caller \in {<<"agent", "human_agent", TRUE>>, <<"save", "bot", TRUE>>,
                           <<"save", "human_agent", TRUE>>}
      <4>1. ASSUME NEW k \in {"agent", "save"}, NEW t \in {"bot", "human_agent"},
                   caller = <<k, t, TRUE>>
            PROVE  caller = <<caller[1], caller[2], caller[3]>> /\ caller[3] \in BOOLEAN
                   /\ caller[1] \in {"workflow", "automated_reply", "send", "agent", "save"}
        BY <4>1
      <4>2. \E k \in {"agent", "save"}, t \in {"bot", "human_agent"} : caller = <<k, t, TRUE>>
        BY <3>2
      <4>3. QED
        BY <4>1, <4>2
    <3>3. QED
      BY <2>1, <3>1, <3>2
  <2>3. QED
    BY <2>2 DEF Kinds, Senders
<1>5. /\ NoContext \in Contexts /\ 0 \in 0 .. MaxTime
      /\ [lastCustomerMessageAt |-> conv.lastCustomerMessageAt,
          handoffRequired |-> conv.handoffRequired] \in Contexts
      /\ NoContext.lastCustomerMessageAt = 0
  BY SenderAssumption DEF Core, Types, TypeOK, Rows, NoContext, Contexts
<1>6. Ended \subseteq Sends
  BY DEF Ended
<1> DEFINE seen == row.seen
<1>7. row.seen \in Contexts /\ row.seen.lastCustomerMessageAt \in {0, conv.lastCustomerMessageAt}
  BY <1>5
<1>8. /\ row.step \in {"instance", "save_find", "done"}
      /\ row.step # "done" => ~ends
      /\ row.step = "instance" => kind # "save"
      /\ row.step = "save_find" => kind = "save"
      /\ row.result \in {"error", "skipped", None}
      /\ row.step # "done" => row.result = None
      /\ row.kind = kind /\ row.sender = sender /\ row.text = text /\ row.known = known
      /\ row.ended = Ended /\ row.ext = None /\ row.checked = 0 /\ row.question = None
  OBVIOUS
<1>9. row \in RequestRows
  <2>1. row.step \in Steps /\ row.result \in Results
    BY <1>8 DEF Steps, Results, Outcomes
  <2>2. QED
    BY <2>1, <1>4, <1>5, <1>6, <1>7, <1>8 DEF RequestRows
<1> HIDE DEF row
<1>10. request'[s] = row /\ Only(s)
  BY <1>1, <1>2, <1>9 DEF Only
<1>11. Knows(row)
  BY <1>4, <1>8, NoneIsNoName DEF Knows, Recorded, Names, Outcomes
<1>12. row.result # "sent"
  BY <1>8, NoneIsNoName DEF Names, Outcomes
<1>13. QED
  BY <1>2, <1>3, <1>7, <1>8, <1>10, <1>11, <1>12 DEF Begins

\* The window was open at the time that is kept, or the request ends.
LEMMA InstanceEffect ==
    ASSUME Core, NEW s \in Sends, NEW found \in BOOLEAN, resolveInstance(s, found)
    PROVE  Proceeds(s)
<1> DEFINE r == request[s]
           open == checkWindow(r.seen.lastCustomerMessageAt)
           next == IF r.known /\ r.sender = "bot" THEN "duplicate" ELSE "provider"
           seen == IF r.sender = "human_agent" THEN [r.seen EXCEPT !.lastCustomerMessageAt = 0]
                   ELSE NoContext
           row == [r EXCEPT !.checked = clock, !.seen = seen, !.step = next]
<1>1. /\ request \in [Sends -> RequestRows] /\ r \in RequestRows /\ Knows(r)
      /\ r.step = "instance" /\ TablesKept /\ UNCHANGED suggestions
  BY RowOf DEF resolveInstance, TablesKept
<1>2. CASE r.known /\ ~open
  <2>1. End(s, "skipped")
    BY <1>2 DEF resolveInstance
  <2>2. QED
    BY <2>1, <1>1, EndProceeds DEF SuggestionStep, Outcomes
<1>3. CASE (~r.known \/ open) /\ ~found
  <2>1. End(s, "error")
    BY <1>3 DEF resolveInstance
  <2>2. QED
    BY <2>1, <1>1, EndProceeds DEF SuggestionStep, Outcomes
<1>4. CASE (~r.known \/ open) /\ found
  <2>1. request' = [request EXCEPT ![s] = row]
    BY <1>4, <1>1 DEF resolveInstance, RequestRows
  <2>2. clock \in 0 .. MaxTime /\ seen \in Contexts /\ next \in Steps
    <3>1. clock \in 1 .. MaxTime /\ MaxTime \in Nat \ {0} /\ 0 \in 0 .. MaxTime
      BY SenderAssumption DEF Core, Types, TypeOK
    <3>2. r.seen \in Contexts
      BY <1>1 DEF RequestRows
    <3>3. [r.seen EXCEPT !.lastCustomerMessageAt = 0] \in Contexts /\ NoContext \in Contexts
      BY <3>1, <3>2 DEF Contexts, NoContext
    <3>4. QED
      BY <3>1, <3>3 DEF Steps
  <2>3. /\ row \in RequestRows /\ row.step = next /\ row.checked = clock
        /\ row.kind = r.kind /\ row.sender = r.sender /\ row.text = r.text
        /\ row.known = r.known /\ row.ended = r.ended /\ row.result = r.result
    <3> HIDE DEF next, seen, r
    <3>1. QED
      BY <2>2, <1>1 DEF RequestRows
  <2>4. next \in {"duplicate", "provider"} /\ (next = "duplicate" => r.known /\ r.sender = "bot")
        /\ (next = "provider" => ~(r.known /\ r.sender = "bot"))
    OBVIOUS
  <2> HIDE DEF row, next
  <2>5. request'[s] = row /\ Only(s)
    BY <1>1, <2>1, <2>3 DEF Only
  <2>6. Knows(row) /\ SameRequest(r, row)
    BY <1>1, <2>3, <2>4, NoneIsNoName DEF Knows, SameRequest, Recorded, Names, Outcomes
  <2>7. row.result # "sent" /\ row.result # "skipped"
    BY <1>1, <2>3, NoneIsNoName DEF Knows, Names, Outcomes
  <2>8. QED
    BY <1>1, <1>4, <2>3, <2>4, <2>5, <2>6, <2>7 DEF Proceeds, Recorded
<1>5. QED
  BY <1>2, <1>3, <1>4

\* A request that only goes to another step knows what it knew.
LEMMA GotoProceeds ==
    ASSUME Core, NEW s \in Sends, NEW step \in Steps, Goto(s, step), TablesKept, SuggestionStep(s),
           request[s].step \notin {"idle", "done"},
           step \notin {"idle", "instance", "duplicate", "record", "suggest", "done"},
           step \in Recorded <=> request[s].step \in Recorded,
           request[s].step = "record" => step \in Recorded,
           step = "provider" => request[s].step = "duplicate" /\ NotRepeated(s),
           step = "reload" => request[s].kind # "save",
           step \in {"save_find", "save_near", "save_create"} => request[s].kind = "save"
    PROVE  Proceeds(s)
<1>1. /\ Only(s) /\ SameRequest(request[s], request'[s])
      /\ request'[s].step = step /\ request'[s].checked = request[s].checked
      /\ request'[s].result = request[s].result
  BY GotoEffect
<1>2. /\ Knows(request[s]) /\ request[s].result = None
  BY RowOf DEF Knows
<1>3. Knows(request'[s])
  BY <1>1, <1>2, NoneIsNoName DEF Knows, SameRequest, Recorded, Names, Outcomes
<1>4. request'[s].result \notin {"sent", "skipped"}
  BY <1>1, <1>2, NoneIsNoName DEF Names, Outcomes
<1>5. QED
  BY <1>1, <1>3, <1>4 DEF Proceeds, SuggestionStep, Recorded

\* Past the duplicate check, the latest message is not the request's own text.
LEMMA DuplicateEffect ==
    ASSUME Core, NEW s \in Sends, findRecentDuplicateBotReply(s)
    PROVE  Proceeds(s)
<1>1. request[s].step = "duplicate" /\ TablesKept /\ UNCHANGED suggestions
  BY DEF findRecentDuplicateBotReply, TablesKept
<1>2. Knows(request[s])
  BY RowOf
<1>3. CASE End(s, "skipped")
  BY <1>1, <1>3, EndProceeds DEF SuggestionStep, Outcomes
<1>4. CASE Goto(s, "provider") /\ NotRepeated(s)
  BY <1>1, <1>2, <1>4, GotoProceeds DEF SuggestionStep, Steps, Recorded
<1>5. End(s, "skipped") \/ (Goto(s, "provider") /\ NotRepeated(s))
  BY DEF findRecentDuplicateBotReply, NotRepeated, latestMessage, Last
<1>6. QED
  BY <1>3, <1>4, <1>5

\* The provider accepts the text.
LEMMA ProviderEffect ==
    ASSUME Core, NEW s \in Sends, NEW identified \in BOOLEAN, NEW answered \in BOOLEAN,
           sendTextMessage(s, identified, answered)
    PROVE  Delivers(s)
<1> DEFINE r == request[s]
           row == [r EXCEPT !.ext = IF identified THEN s ELSE None, !.checked = 0, !.step = "record"]
<1>1. /\ request \in [Sends -> RequestRows] /\ r \in RequestRows /\ Knows(r) /\ r.step = "provider"
      /\ sent' = Append(sent, [by |-> s, at |-> clock, checked |-> r.checked])
      /\ UNCHANGED <<clock, conv, messages, deleted, suggestions, reports, ops>>
  BY RowOf DEF sendTextMessage
<1>2. ASSUME NEW result \in {"sent", "error"}, End(s, result), result = "sent" => ~r.known
      PROVE  Delivers(s)
  <2>1. r.kind # "save" /\ result \in Outcomes
    BY <1>1 DEF Knows, Outcomes
  <2>2. /\ Only(s) /\ SameRequest(r, request'[s]) /\ Knows(request'[s])
        /\ request'[s].step = "done" /\ request'[s].result = result
    BY <1>1, <1>2, <2>1, EndEffect
  <2>3. QED
    BY <1>1, <1>2, <2>2 DEF Delivers, SameRequest
<1>3. CASE answered /\ r.known
  <2>1. request' = [request EXCEPT ![s] = row]
    BY <1>1, <1>3 DEF sendTextMessage, RequestRows
  <2>2. /\ row \in RequestRows /\ row.step = "record"
        /\ row.kind = r.kind /\ row.sender = r.sender /\ row.text = r.text
        /\ row.known = r.known /\ row.ended = r.ended /\ row.result = r.result
    <3>1. 0 \in 0 .. MaxTime /\ "record" \in Steps
          /\ (IF identified THEN s ELSE None) \in Sends \cup {None}
      BY SenderAssumption DEF Steps
    <3>2. QED
      BY <1>1, <3>1 DEF RequestRows
  <2> HIDE DEF row
  <2>3. request'[s] = row /\ Only(s)
    BY <1>1, <2>1, <2>2 DEF Only
  <2>4. Knows(row) /\ SameRequest(r, row)
    BY <1>1, <1>3, <2>2, NoneIsNoName DEF Knows, SameRequest, Recorded, Names, Outcomes
  <2>5. row.result \notin {"sent", "skipped"}
    BY <1>1, <2>2, NoneIsNoName DEF Knows, Names, Outcomes
  <2>6. QED
    BY <1>1, <2>2, <2>3, <2>4, <2>5 DEF Delivers
<1>4. CASE ~answered
  BY <1>2, <1>4 DEF sendTextMessage
<1>5. CASE answered /\ ~r.known
  BY <1>2, <1>5 DEF sendTextMessage
<1>6. QED
  BY <1>3, <1>4, <1>5

\* The two ways to store a text.
LEMMA StoreEffect ==
    ASSUME Core, NEW s \in Sends, request[s].step = "record" \/ request[s].step = "save_create",
           messages' = Append(messages, OutboundRow(s)), Goto(s, "touch"),
           UNCHANGED <<clock, conv, deleted, suggestions, sent, reports, ops>>
    PROVE  Records(s)
<1>1. /\ Only(s) /\ SameRequest(request[s], request'[s])
      /\ request'[s].step = "touch" /\ request'[s].result = request[s].result
  BY GotoEffect DEF Steps
<1>2. Knows(request[s])
  BY RowOf
<1>3. request[s].known
  BY <1>2, CallerIs DEF Knows
<1>4. Knows(request'[s])
  BY <1>1, <1>2, <1>3, NoneIsNoName DEF Knows, SameRequest, Recorded, Names, Outcomes
<1>5. QED
  BY <1>1, <1>4 DEF Records

\* The text is recorded, or refused by a key.
LEMMA RecordEffect ==
    ASSUME Core, NEW s \in Sends, recordOutboundMessage(s)
    PROVE  Proceeds(s) \/ Records(s)
<1>1. request[s].step = "record"
  BY DEF recordOutboundMessage
<1>2. CASE ~Exists(conv) \/ WithExt(request[s].ext) # {}
  <2>1. End(s, "error") /\ TablesKept /\ UNCHANGED suggestions
    BY <1>2 DEF recordOutboundMessage, TablesKept
  <2>2. QED
    BY <1>1, <2>1, EndProceeds DEF SuggestionStep, Outcomes
<1>3. CASE ~(~Exists(conv) \/ WithExt(request[s].ext) # {})
  BY <1>1, <1>3, StoreEffect DEF recordOutboundMessage
<1>4. QED
  BY <1>2, <1>3

\* The same for the text of the workflow.
LEMMA SavedEffect ==
    ASSUME Core, NEW s \in Sends, createSaved(s)
    PROVE  Proceeds(s) \/ Records(s)
<1>1. request[s].step = "save_create" /\ Knows(request[s])
  BY RowOf DEF createSaved
<1>2. CASE ~Exists(conv)
  <2>1. End(s, "error") /\ TablesKept /\ UNCHANGED suggestions
    BY <1>2 DEF createSaved, TablesKept
  <2>2. QED
    BY <1>1, <2>1, EndProceeds DEF SuggestionStep, Outcomes
<1>3. CASE Exists(conv) /\ WithExt(request[s].ext) # {}
  <2>1. End(s, "skipped") /\ TablesKept /\ UNCHANGED suggestions
    BY <1>3 DEF createSaved, TablesKept
  <2>2. request[s].kind = "save"
    BY <1>1 DEF Knows
  <2>3. QED
    BY <1>1, <2>1, <2>2, EndProceeds DEF SuggestionStep, Outcomes
<1>4. CASE Exists(conv) /\ ~(WithExt(request[s].ext) # {})
  BY <1>1, <1>4, StoreEffect DEF createSaved
<1>5. QED
  BY <1>2, <1>3, <1>4
\* What follows once the text is stored.
LEMMA AfterRecordEffect ==
    ASSUME Core, NEW s \in Sends, AfterRecord(s), TablesKept, SuggestionStep(s),
           request[s].step \in Recorded
    PROVE  Proceeds(s)
<1>1. Knows(request[s])
  BY RowOf
<1>2. CASE request[s].kind = "agent"
  <2>1. Goto(s, "reload")
    BY <1>2 DEF AfterRecord
  <2>2. QED
    BY <1>1, <1>2, <2>1, GotoProceeds DEF Recorded, Steps
<1>3. CASE request[s].kind # "agent"
  <2>1. End(s, Stored(s))
    BY <1>3 DEF AfterRecord
  <2>2. Stored(s) \in Outcomes /\ Stored(s) # "skipped"
        /\ (Stored(s) = "sent" => request[s].kind # "save")
    BY DEF Stored, Outcomes
  <2>3. QED
    BY <2>1, <2>2, EndProceeds DEF Recorded
<1>4. QED
  BY <1>2, <1>3

\* After the times are written, a human's answer looks for its question.
LEMMA TouchEffect ==
    ASSUME Core, NEW s \in Sends, touchOutbound(s)
    PROVE  Proceeds(s)
<1>1. request[s].step = "touch" /\ TablesKept /\ SuggestionStep(s)
  BY DEF touchOutbound, TablesKept, SuggestionStep
<1>2. CASE End(s, "error")
  BY <1>1, <1>2, EndProceeds DEF Outcomes
<1>3. CASE Goto(s, "question")
  BY <1>1, <1>3, GotoProceeds DEF Recorded, Steps
<1>4. CASE AfterRecord(s)
  BY <1>1, <1>4, AfterRecordEffect DEF Recorded
<1>5. QED
  BY <1>2, <1>3, <1>4 DEF touchOutbound

\* The message of the inbox is read again.
LEMMA ReloadEffect ==
    ASSUME Core, NEW s \in Sends, reload(s)
    PROVE  Proceeds(s)
<1>1. request[s].step = "reload" /\ TablesKept /\ SuggestionStep(s)
  BY DEF reload, TablesKept, SuggestionStep
<1>2. request[s].kind # "save"
  BY <1>1, RowOf DEF Knows
<1>3. PICK result \in {"error", "sent"} : End(s, result)
  BY DEF reload
<1>4. QED
  BY <1>1, <1>2, <1>3, EndProceeds DEF Recorded, Outcomes

\* The look-up by identifier, and what the text is recorded with.
LEMMA FindSavedEffect ==
    ASSUME Core, NEW s \in Sends, NEW ext \in Sends \cup {None}, findSaved(s, ext)
    PROVE  Proceeds(s)
<1> DEFINE r == request[s]
           next == IF ext = None THEN "save_near" ELSE "save_create"
           row == [r EXCEPT !.ext = ext, !.step = next]
<1>1. /\ request \in [Sends -> RequestRows] /\ r \in RequestRows /\ Knows(r)
      /\ r.step = "save_find" /\ TablesKept /\ UNCHANGED suggestions /\ r.kind = "save"
  BY RowOf DEF findSaved, TablesKept, Knows
<1>2. CASE WithExt(ext) # {}
  <2>1. End(s, "skipped")
    BY <1>2 DEF findSaved
  <2>2. QED
    BY <1>1, <2>1, EndProceeds DEF SuggestionStep, Outcomes
<1>3. CASE ~(WithExt(ext) # {})
  <2>1. request' = [request EXCEPT ![s] = row]
    BY <1>3, <1>1 DEF findSaved, RequestRows
  <2>2. next \in {"save_near", "save_create"} /\ next \in Steps
    BY DEF Steps
  <2>3. /\ row \in RequestRows /\ row.step = next
        /\ row.kind = r.kind /\ row.sender = r.sender /\ row.text = r.text
        /\ row.known = r.known /\ row.ended = r.ended /\ row.result = r.result
    BY <1>1, <2>2 DEF RequestRows
  <2> HIDE DEF row, next
  <2>4. request'[s] = row /\ Only(s)
    BY <1>1, <2>1, <2>3 DEF Only
  <2>5. Knows(row) /\ SameRequest(r, row)
    BY <1>1, <2>2, <2>3, NoneIsNoName DEF Knows, SameRequest, Recorded, Names, Outcomes
  <2>6. row.result # "sent"
    BY <1>1, <2>3, NoneIsNoName DEF Knows, Names, Outcomes
  <2>7. QED
    BY <1>1, <2>2, <2>3, <2>4, <2>5, <2>6 DEF Proceeds, Recorded
<1>4. QED
  BY <1>2, <1>3

\* The look-up by content.
LEMMA NearDuplicateEffect ==
    ASSUME Core, NEW s \in Sends, findNearDuplicate(s)
    PROVE  Proceeds(s)
<1>1. /\ request[s].step = "save_near" /\ TablesKept /\ SuggestionStep(s)
      /\ request[s].kind = "save"
  BY RowOf DEF findNearDuplicate, TablesKept, SuggestionStep, Knows
<1>2. CASE End(s, "skipped")
  BY <1>1, <1>2, EndProceeds DEF Outcomes
<1>3. CASE Goto(s, "save_create")
  BY <1>1, <1>3, GotoProceeds DEF Recorded, Steps
<1>4. QED
  BY <1>2, <1>3 DEF findNearDuplicate

\* A message of the customer is not a request's.
LEMMA CustomersRow ==
    ASSUME Core, RowsMatch, NEW row \in Log
    PROVE  row \in Messages /\ (row.sender = "customer" <=> row.by \in Inbound)
<1>1. row \in Messages
  BY Positions DEF Core, Types, TypeOK, Log
<1>2. CASE row.by \in Inbound
  BY <1>1, <1>2 DEF RowsMatch
<1>3. CASE row.by \in Sends
  <2>1. row.sender = request[row.by].sender /\ row.by \in Logged
    BY <1>3 DEF RowsMatch, Logged
  <2>2. request[row.by].step # "idle" /\ Knows(request[row.by])
    BY <1>3, <2>1, RowOf DEF Holds, Recorded
  <2>3. row.sender \in {"bot", "human_agent", "system"}
    BY <2>1, <2>2, CallerIs
  <2>4. row.by \notin Inbound
    BY <1>3, NoneIsNoName DEF Names
  <2>5. QED
    BY <1>1, <2>3, <2>4
<1>4. QED
  BY <1>1, <1>2, <1>3 DEF Messages

\* Two ways to say that a message is stored.
LEMMA StoredIsLogged ==
    ASSUME NEW x
    PROVE  StoredBy(x) # {} <=> x \in By
BY DEF StoredBy, By, Range

\* The question that is found stands before the answer.
LEMMA QuestionEffect ==
    ASSUME Core, RowsMatch, NEW s \in Sends, NEW handedOffByAi \in BOOLEAN,
           findQuestion(s, handedOffByAi)
    PROVE  Proceeds(s)
<1> DEFINE r == request[s]
           questions == EarlierQuestions(s)
           asked == messages[Max(questions)].by
           row == [r EXCEPT !.question = asked, !.step = "suggest"]
<1>1. /\ request \in [Sends -> RequestRows] /\ r \in RequestRows /\ Knows(r)
      /\ r.step = "question" /\ TablesKept /\ UNCHANGED suggestions
  BY RowOf DEF findQuestion, TablesKept
<1>2. CASE AfterRecord(s)
  BY <1>1, <1>2, AfterRecordEffect DEF SuggestionStep, Recorded
<1>3. CASE questions # {} /\ request' = [request EXCEPT ![s].question = asked, ![s].step = "suggest"]
  <2>1. /\ Len(messages) \in Nat /\ DOMAIN messages = 1 .. Len(messages)
        /\ \A i, j \in 1 .. Len(messages) : messages[i].by = messages[j].by => i = j
    BY Positions DEF Core, Types, UniqueRows
  <2>2. questions \subseteq 1 .. Len(messages)
    BY <2>1 DEF EarlierQuestions
  <2>3. Max(questions) \in questions
    BY <1>3, <2>1, <2>2, MaxIn
  <2>4. PICK k \in questions : asked = messages[k].by
    BY <2>3
  <2>5. /\ k \in 1 .. Len(messages) /\ messages[k].sender = "customer"
        /\ StoredBy(s) # {} => k < PositionOf(s)
    BY <2>2, <2>4 DEF EarlierQuestions
  <2>6. asked \in By /\ messages[k] \in Log
    BY <2>1, <2>4, <2>5 DEF By, Log, Range
  <2>7. asked \in Inbound
    BY <2>4, <2>5, <2>6, CustomersRow
  <2>8. ASSUME s \in By
        PROVE  Before(asked, s)
    <3>1. PICK i \in 1 .. Len(messages) : messages[i].by = s
      BY <2>1, <2>8 DEF By
    <3>2. PositionOf(s) \in 1 .. Len(messages) /\ messages[PositionOf(s)].by = s
      BY <2>1, <3>1 DEF PositionOf
    <3>3. k < PositionOf(s)
      BY <2>5, <2>8, StoredIsLogged
    <3>4. QED
      BY <2>1, <2>4, <2>5, <3>2, <3>3 DEF Before
  <2> HIDE DEF asked, questions
  <2>9. request' = [request EXCEPT ![s] = row]
    BY <1>3, <1>1 DEF RequestRows
  <2>10. /\ row \in RequestRows /\ row.step = "suggest" /\ row.question = asked
         /\ row.kind = r.kind /\ row.sender = r.sender /\ row.text = r.text
         /\ row.known = r.known /\ row.ended = r.ended /\ row.result = r.result
    BY <1>1, <2>7 DEF RequestRows, Steps
  <2> HIDE DEF row
  <2>11. request'[s] = row /\ Only(s)
    BY <1>1, <2>9, <2>10 DEF Only
  <2>12. Knows(row) /\ SameRequest(r, row)
    BY <1>1, <2>7, <2>10, NoneIsNoName DEF Knows, SameRequest, Recorded, Names, Outcomes
  <2>13. row.result \notin {"sent", "skipped"}
    BY <1>1, <2>10, NoneIsNoName DEF Knows, Names, Outcomes
  <2>14. QED
    BY <1>1, <2>6, <2>8, <2>10, <2>11, <2>12, <2>13 DEF Proceeds, Recorded
<1>4. QED
  BY <1>2, <1>3 DEF findQuestion

\* The suggestion is written only if the question and the answer are stored.
LEMMA SuggestionEffect ==
    ASSUME Core, NEW s \in Sends, createSuggestion(s)
    PROVE  Proceeds(s)
<1>1. request[s].step = "suggest" /\ TablesKept
  BY DEF createSuggestion, TablesKept
<1>2. CASE StoredBy(s) # {} /\ StoredBy(request[s].question) # {}
  <2>1. /\ suggestions' = suggestions \cup {[question |-> request[s].question, answer |-> s]}
        /\ AfterRecord(s)
    BY <1>2 DEF createSuggestion
  <2>2. SuggestionStep(s)
    BY <1>1, <1>2, <2>1, StoredIsLogged DEF SuggestionStep
  <2>3. QED
    BY <1>1, <2>1, <2>2, AfterRecordEffect DEF Recorded
<1>3. CASE ~(StoredBy(s) # {} /\ StoredBy(request[s].question) # {})
  <2>1. End(s, "error") /\ UNCHANGED suggestions
    BY <1>3 DEF createSuggestion
  <2>2. QED
    BY <1>1, <2>1, EndProceeds DEF SuggestionStep, Outcomes
<1>4. QED
  BY <1>2, <1>3

\* A request cut short ends in an error.
LEMMA ThrowEffect ==
    ASSUME Core, NEW s \in Sends, Throw(s)
    PROVE  Proceeds(s)
<1>1. /\ request[s].step \notin {"idle", "done"} /\ TablesKept /\ UNCHANGED suggestions
      /\ End(s, "error")
  BY DEF Throw, TablesKept
<1>2. QED
  BY <1>1, EndProceeds DEF SuggestionStep, Outcomes

\* A step of a request has one of four shapes.
LEMMA StepShape ==
    ASSUME Core, RowsMatch, NEW s \in Sends, Step(s)
    PROVE  Begins(s) \/ Proceeds(s) \/ Delivers(s) \/ Records(s)
BY BeginEffect, InstanceEffect, DuplicateEffect, ProviderEffect, RecordEffect, TouchEffect,
   ReloadEffect, FindSavedEffect, NearDuplicateEffect, SavedEffect, QuestionEffect,
   SuggestionEffect, ThrowEffect DEF Step

-----------------------------------------------------------------------------
(* What the customer, the agents, the provider's reports and the time do *)

Environment(New) ==
    /\ UNCHANGED <<request, sent>>
    /\ clock' \in 1 .. MaxTime /\ clock <= clock'
    /\ TableStep(New)
    /\ \A row \in New : row.by \in Inbound /\ row.by \notin Logged /\ row.sender = "customer"
    /\ conv' \in Rows /\ conv'.lastCustomerMessageAt \in 0 .. MaxTime
    /\ conv'.lastCustomerMessageAt \in {0, conv.lastCustomerMessageAt} \cup {row.at : row \in New}
    /\ suggestions' \subseteq suggestions
    /\ \A g \in suggestions' : g.question \in By' /\ g.answer \in By'
    /\ reports' \subseteq [of : Sends \cup Inbound, status : ReportedStatuses]
    /\ ops' \in 0 .. MaxEvents
    /\ StatusOfItsOwnText'

\* The parts of the invariant that the steps of the others use.
LEMMA Typed ==
    ASSUME IInv
    PROVE  /\ Core /\ RowsMatch /\ StatusOfItsOwnText
           /\ messages \in Seq(Messages) /\ deleted \subseteq Messages /\ UniqueRows
           /\ clock \in 1 .. MaxTime /\ MaxTime \in Nat \ {0}
           /\ conv \in Rows /\ conv.lastCustomerMessageAt \in 0 .. MaxTime
           /\ reports \subseteq [of : Sends \cup Inbound, status : ReportedStatuses]
           /\ ops \in 0 .. MaxEvents /\ MaxEvents \in Nat
           /\ \A g \in suggestions : g.question \in By /\ g.answer \in By
<1>1. \A g \in suggestions : g.question \in By /\ g.answer \in By
  <2>1. TAKE g \in suggestions
  <2>2. /\ g.question \in Inbound /\ g.answer \in Sends
        /\ g = [question |-> g.question, answer |-> g.answer]
    BY DEF IInv, Types, TypeOK
  <2>3. Before(g.question, g.answer)
    BY <2>2 DEF IInv, QuestionInv
  <2>4. QED
    BY <2>3 DEF Before, By
<1>2. QED
  BY <1>1, SenderAssumption DEF IInv, Core, Types, TypeOK

\* The failures are finitely many, so that the bound on them is a comparison of numbers.
LEMMA Countable ==
    ASSUME IsFiniteSet(Ended)
    PROVE  Failures \in Nat
<1>1. {s \in Ended : request[s].result = "error"} \subseteq Ended
  OBVIOUS
<1>2. QED
  BY <1>1, FS_Subset, FS_CardinalityType DEF Failures

\* The bound on operations holds after one more.
LEMMA OneMore ==
    ASSUME IInv, ops + Failures < MaxEvents
    PROVE  ops + 1 \in 0 .. MaxEvents
<1>1. Failures \in Nat
  BY Countable DEF IInv, Types
<1>2. QED
  BY <1>1, Typed

\* A function on the first n numbers is a sequence.
LEMMA MappedRows ==
    ASSUME NEW S, NEW n \in Nat, NEW f \in [1 .. n -> S]
    PROVE  f \in Seq(S) /\ Len(f) = n
OBVIOUS

\* A row keeps the statuses it has, and a new one has none of the provider's.
LEMMA StatusKept ==
    ASSUME StatusOfItsOwnText, reports \subseteq reports',
           NEW New, Range(messages') \subseteq Range(messages) \cup New,
           \A row \in New : row.by \notin Sends \/ row.status = "sent"
    PROVE  StatusOfItsOwnText'
<1>1. ASSUME NEW row \in Range(messages'), row.by \in Sends, row.status # "sent"
      PROVE  \E of \in {row.by, row.ext} : [of |-> of, status |-> row.status] \in reports'
  <2>1. row \in Range(messages)
    BY <1>1
  <2>2. PICK of \in {row.by, row.ext} : [of |-> of, status |-> row.status] \in reports
    BY <1>1, <2>1 DEF StatusOfItsOwnText
  <2>3. QED
    BY <2>2
<1>2. QED
  BY <1>1 DEF StatusOfItsOwnText

\* A status is given to the rows of a set.
LEMMA StatusGiven ==
    ASSUME IInv, NEW Given, NEW status \in ReportedStatuses,
           messages' = [i \in DOMAIN messages |->
                          IF messages[i] \in Given
                          THEN [messages[i] EXCEPT !.status = status] ELSE messages[i]],
           UNCHANGED <<clock, conv, deleted, suggestions, sent, request>>,
           NEW of \in Sends \cup Inbound,
           reports' = reports \cup {[of |-> of, status |-> status]},
           \A row \in Given : row \in Range(messages) => of \in {row.by, row.ext},
           ops' \in 0 .. MaxEvents
    PROVE  Environment({})
<1> DEFINE n == Len(messages)
           new(i) == IF messages[i] \in Given
                     THEN [messages[i] EXCEPT !.status = status] ELSE messages[i]
<1>1. /\ n \in Nat /\ DOMAIN messages = 1 .. n
      /\ \A i \in 1 .. n : messages[i] \in Messages
      /\ Range(messages) = {messages[i] : i \in 1 .. n}
  BY Typed, Positions
<1>2. status \in {"sent", "delivered", "read", "failed"}
  BY SenderAssumption
<1>3. ASSUME NEW i \in 1 .. n
      PROVE  new(i) \in Messages /\ SameRow(new(i), messages[i]) /\ new(i).ext = messages[i].ext
             /\ (new(i).status = status \/ new(i) = messages[i])
  BY <1>1, <1>2 DEF Messages, SameRow
<1>4. messages' = [i \in 1 .. n |-> new(i)]
  BY <1>1
<1>5. ASSUME NEW i \in 1 .. n, ~(new(i) = messages[i])
      PROVE  messages[i] \in Given /\ new(i).status = status
  BY <1>3, <1>5
<1> HIDE DEF new
<1>6. messages' \in [1 .. n -> Messages]
  BY <1>3, <1>4
<1>7. messages' \in Seq(Messages) /\ Len(messages') = n /\ \A i \in 1 .. n : messages'[i] = new(i)
  BY <1>1, <1>4, <1>6, MappedRows
<1>8. TableStep({})
  BY <1>1, <1>3, <1>7, Typed, StatusMoves
<1>9. By' = By
  <2>1. By = {messages[i].by : i \in 1 .. n} /\ By' = {messages'[i].by : i \in 1 .. n}
    BY <1>1, <1>6 DEF By
  <2>2. \A i \in 1 .. n : messages'[i].by = messages[i].by
    BY <1>3, <1>7 DEF SameRow
  <2>3. QED
    BY <2>1, <2>2
<1>10. StatusOfItsOwnText'
  <2>1. ASSUME NEW row \in Range(messages'), row.by \in Sends, row.status # "sent"
        PROVE  \E o \in {row.by, row.ext} : [of |-> o, status |-> row.status] \in reports'
    <3>1. PICK i \in 1 .. n : row = new(i)
      BY <1>6, <1>7 DEF Range
    <3>2. CASE new(i) = messages[i]
      <4>1. row \in Range(messages)
        BY <1>1, <3>1, <3>2
      <4>2. PICK o \in {row.by, row.ext} : [of |-> o, status |-> row.status] \in reports
        BY <2>1, <4>1, Typed DEF StatusOfItsOwnText
      <4>3. QED
        BY <4>2
    <3>3. CASE ~(new(i) = messages[i])
      <4>1. messages[i] \in Given /\ row.status = status /\ messages[i] \in Range(messages)
        BY <1>1, <1>5, <3>1, <3>3
      <4>2. of \in {row.by, row.ext}
        BY <1>3, <3>1, <4>1 DEF SameRow
      <4>3. [of |-> of, status |-> row.status] \in reports'
        BY <4>1
      <4>4. QED
        BY <4>2, <4>3
    <3>4. QED
      BY <3>2, <3>3
  <2>2. QED
    BY <2>1 DEF StatusOfItsOwnText
<1>11. reports' \subseteq [of : Sends \cup Inbound, status : ReportedStatuses]
  BY Typed
<1>12. QED
  BY <1>8, <1>9, <1>10, <1>11, Typed DEF Environment

\* The provider reports the status of a text.
LEMMA ReportEffect ==
    ASSUME IInv, NEW ext \in Sends, NEW status \in ReportedStatuses, handleStatus(ext, status)
    PROVE  Environment({})
<1>1. /\ reports' = reports \cup {[of |-> ext, status |-> status]}
      /\ messages' = [i \in DOMAIN messages |->
                      IF messages[i] \in WithExt(ext)
                      THEN [messages[i] EXCEPT !.status = status] ELSE messages[i]]
      /\ UNCHANGED <<clock, conv, deleted, suggestions, sent, request, ops>>
  BY DEF handleStatus, findByExternalId
<1>2. \A row \in WithExt(ext) : row \in Range(messages) => ext \in {row.by, row.ext}
  BY DEF WithExt
<1>3. ops' \in 0 .. MaxEvents
  BY <1>1, Typed
<1>4. QED
  BY <1>1, <1>2, <1>3, StatusGiven

\* An agent gives a status to a row.
LEMMA UpdateEffect ==
    ASSUME IInv, NEW row \in Range(messages), NEW status \in ReportedStatuses,
           updateStatusOf(row, status)
    PROVE  Environment({})
<1> DEFINE Given == {row}
<1>1. /\ ops + Failures < MaxEvents /\ ops' = ops + 1
      /\ reports' = reports \cup {[of |-> row.by, status |-> status]}
      /\ UNCHANGED <<clock, conv, deleted, suggestions, sent, request>>
  BY DEF updateStatusOf
<1>2. messages' = [i \in DOMAIN messages |->
                     IF messages[i] \in Given
                     THEN [messages[i] EXCEPT !.status = status] ELSE messages[i]]
  BY DEF updateStatusOf
<1>3. row.by \in Sends \cup Inbound
  BY Typed, Positions DEF Messages
<1>4. ops' \in 0 .. MaxEvents
  BY <1>1, OneMore
<1>5. \A r \in Given : r \in Range(messages) => row.by \in {r.by, r.ext}
  OBVIOUS
<1> HIDE DEF Given
<1>6. QED
  BY <1>1, <1>2, <1>3, <1>4, <1>5, StatusGiven

\* The customer's message is stored, late or not, with the date of its event.
LEMMA CustomerEffect ==
    ASSUME IInv, NEW i \in Inbound, NEW late \in BOOLEAN, Customer(i, late)
    PROVE  \E row : Environment({row})
<1> DEFINE n == Len(messages)
<1>1. /\ n \in Nat /\ \A k \in 1 .. n : messages[k] \in Messages
      /\ clock \in 1 .. MaxTime
  BY Typed, Positions
<1>2. /\ i \notin Logged /\ (late => messages # <<>>)
      /\ UNCHANGED <<clock, deleted, suggestions, sent, request, reports, ops>>
  BY DEF Customer, Logged, Log
<1>3. PICK position \in 1 .. n + 1, at \in 1 .. MaxTime :
          /\ messages' = InsertAt(messages, position, InboundRow(i, at))
          /\ conv' = touchInbound(conv, at)
  <2>1. CASE late
    <3>1. messages = <<>> <=> Len(messages) = 0
      BY Typed, EmptySeq
    <3>2. messages # <<>>
      BY <1>2, <2>1, Zenon
    <3>3. n \in 1 .. n + 1 /\ n \in 1 .. n
      BY <1>1, <3>1, <3>2
    <3>4. messages[n].at \in 1 .. MaxTime
      BY <1>1, <3>3 DEF Messages
    <3>5. /\ messages' = InsertAt(messages, n, InboundRow(i, messages[n].at))
          /\ conv' = touchInbound(conv, messages[n].at)
      BY <2>1 DEF Customer
    <3>6. QED
      BY <3>3, <3>4, <3>5
  <2>2. CASE ~late
    <3>1. /\ messages' = InsertAt(messages, n + 1, InboundRow(i, clock))
          /\ conv' = touchInbound(conv, clock)
      BY <2>2 DEF Customer
    <3>2. n + 1 \in 1 .. n + 1
      BY <1>1
    <3>3. QED
      BY <3>1, <3>2, <1>1
  <2>3. QED
    BY <2>1, <2>2
<1> DEFINE row == InboundRow(i, at)
           New == {row}
<1>5. /\ row \in Messages /\ row.by = i /\ row.sender = "customer" /\ row.at = at
  BY <1>3 DEF InboundRow, Messages
<1>4. messages' = InsertAt(messages, position, row)
  BY <1>3
<1> HIDE DEF row
<1>6. /\ conv' \in Rows /\ conv'.lastCustomerMessageAt = at
  <2>1. conv \in Rows /\ at \in Nat /\ conv.unreadCount + 1 \in Nat
    BY <1>3, Typed DEF Rows
  <2>2. conv' = [conv EXCEPT !.unreadCount = conv.unreadCount + 1, !.lastCustomerMessageAt = at]
    BY <1>3 DEF touchInbound
  <2>3. QED
    BY <2>1, <2>2 DEF Rows
<1>7. /\ messages' \in Seq(Messages) /\ Len(messages') = n + 1 /\ messages'[position] = row
      /\ \A j \in 1 .. position - 1 : messages'[j] = messages[j]
      /\ \A j \in position .. n : messages'[j + 1] = messages[j]
  <2>1. messages \in Seq(Messages) /\ position \in 1 .. n + 1 /\ row \in Messages
    BY <1>3, <1>5, Typed
  <2>2. messages' \in Seq(Messages) /\ Len(messages') = n + 1
    BY <1>4, <2>1, Inserted
  <2>3. messages'[position] = row
    BY <1>4, <2>1, Inserted
  <2>4. \A j \in 1 .. position - 1 : messages'[j] = messages[j]
    BY <1>4, <2>1, Inserted
  <2>5. \A j \in position .. n : messages'[j + 1] = messages[j]
    BY <1>4, <2>1, Inserted
  <2>6. QED
    BY <2>2, <2>3, <2>4, <2>5
<1>8. TableStep({row}) /\ Range(messages') = Range(messages) \cup {row} /\ By' = By \cup {row.by}
  <2>1. /\ messages \in Seq(Messages) /\ deleted \subseteq Messages /\ UniqueRows
        /\ position \in 1 .. Len(messages) + 1 /\ row \in Messages /\ row.by \notin Logged
        /\ messages' \in Seq(Messages) /\ Len(messages') = Len(messages) + 1
        /\ messages'[position] = row /\ UNCHANGED deleted
        /\ \A j \in 1 .. position - 1 : messages'[j] = messages[j]
        /\ \A j \in position .. Len(messages) : messages'[j + 1] = messages[j]
    BY <1>2, <1>3, <1>5, <1>7, Typed
  <2>2. TableStep({row})
    BY <2>1, InsertionMoves
  <2>3. Range(messages') = Range(messages) \cup {row}
    BY <2>1, InsertionMoves
  <2>4. By' = By \cup {row.by}
    BY <2>1, InsertionMoves
  <2>5. QED
    BY <2>2, <2>3, <2>4
<1>9. StatusOfItsOwnText'
  <2>1. i \notin Sends
    BY NoneIsNoName DEF Names
  <2>2. \A r \in New : r.by \notin Sends \/ r.status = "sent"
    BY <1>5, <2>1
  <2>3. Range(messages') \subseteq Range(messages) \cup New
    BY <1>8
  <2>4. reports \subseteq reports' /\ StatusOfItsOwnText
    BY <1>2, Typed
  <2> HIDE DEF New
  <2>5. QED
    BY <2>2, <2>3, <2>4, StatusKept
<1>10. at \in 0 .. MaxTime
  BY <1>3
<1>11. Environment({row})
  BY <1>1, <1>2, <1>5, <1>6, <1>8, <1>9, <1>10, Typed DEF Environment
<1>12. QED
  BY <1>11

\* A takeover, or its end, leaves the messages and the date alone.
LEMMA OperateEffect ==
    ASSUME IInv, Operate
    PROVE  Environment({})
<1>1. /\ ops + Failures < MaxEvents /\ ops' = ops + 1
      /\ UNCHANGED <<clock, messages, deleted, suggestions, sent, request, reports>>
      /\ \/ \E a \in Agents : conv' = assign(conv, a)
         \/ conv' = conversationEvent(conv, "human_assigned")
         \/ conv' = reactivateBot(conv, TRUE)
  BY DEF Operate
<1>2. conv' \in Rows /\ conv'.lastCustomerMessageAt = conv.lastCustomerMessageAt
  <2>1. conv \in Rows
    BY Typed
  <2>2. CASE \E a \in Agents : conv' = assign(conv, a)
    BY <2>1, <2>2 DEF assign, Rows, Statuses, OpenStatuses
  <2>3. CASE conv' = conversationEvent(conv, "human_assigned")
    BY <2>1, <2>3 DEF conversationEvent, Rows, Statuses, OpenStatuses
  <2>4. CASE conv' = reactivateBot(conv, TRUE)
    BY <2>1, <2>4 DEF reactivateBot, Rows, Statuses, OpenStatuses
  <2>5. QED
    BY <1>1, <2>2, <2>3, <2>4
<1>3. TableStep({}) /\ By' = By
  BY <1>1, Typed, NothingMoves DEF By
<1>4. StatusOfItsOwnText'
  BY <1>1, Typed DEF StatusOfItsOwnText
<1>5. QED
  BY <1>1, <1>2, <1>3, <1>4, Typed, OneMore DEF Environment

\* A message is deleted, with its suggestions.
LEMMA DeletionEffect ==
    ASSUME IInv, NEW i \in DOMAIN messages, DeleteMessage(i)
    PROVE  Environment({})
<1>1. /\ ops + Failures < MaxEvents /\ ops' = ops + 1
      /\ messages' = RemoveAt(messages, i)
      /\ deleted' = deleted \cup {messages[i]}
      /\ suggestions' = {g \in suggestions : messages[i].by \notin {g.question, g.answer}}
      /\ UNCHANGED <<clock, conv, sent, request, reports>>
  BY DEF DeleteMessage
<1>2. i \in 1 .. Len(messages)
  BY Typed, Positions
<1>3. /\ messages' \in Seq(Messages) /\ Len(messages') = Len(messages) - 1
      /\ \A j \in 1 .. i - 1 : messages'[j] = messages[j]
      /\ \A j \in i .. Len(messages) - 1 : messages'[j] = messages[j + 1]
  BY <1>1, <1>2, Typed, Removed
<1>4. /\ TableStep({}) /\ Range(messages') \subseteq Range(messages)
      /\ By' = By \ {messages[i].by}
  BY <1>1, <1>2, <1>3, Typed, RemovalMoves
<1> DEFINE New == {}
<1>5. StatusOfItsOwnText'
  <2>1. Range(messages') \subseteq Range(messages) \cup New
    BY <1>4
  <2>2. \A r \in New : r.by \notin Sends \/ r.status = "sent"
    OBVIOUS
  <2>3. reports \subseteq reports' /\ StatusOfItsOwnText
    BY <1>1, Typed
  <2> HIDE DEF New
  <2>4. QED
    BY <2>1, <2>2, <2>3, StatusKept
<1>6. \A g \in suggestions' : g.question \in By' /\ g.answer \in By'
  BY <1>1, <1>4, Typed
<1>7. QED
  BY <1>1, <1>4, <1>5, <1>6, Typed, OneMore DEF Environment

\* The conversation is deleted, with all its messages and suggestions.
LEMMA RemoveEffect ==
    ASSUME IInv, RemoveConversation
    PROVE  Environment({})
<1>1. /\ ops + Failures < MaxEvents /\ ops' = ops + 1
      /\ conv' = remove(conv) /\ messages' = <<>> /\ deleted' = deleted \cup Range(messages)
      /\ suggestions' = {}
      /\ UNCHANGED <<clock, sent, request, reports>>
  BY DEF RemoveConversation
<1>2. conv' \in Rows /\ conv'.lastCustomerMessageAt = 0
  BY <1>1 DEF remove, NoRow, Rows, AbsentStatuses
<1>3. TableStep({}) /\ Range(messages') = {}
  BY <1>1, Typed, ClearingMoves
<1>4. StatusOfItsOwnText'
  BY <1>3 DEF StatusOfItsOwnText
<1>5. QED
  BY <1>1, <1>2, <1>3, <1>4, Typed, OneMore DEF Environment

\* Time passes.
LEMMA TickEffect ==
    ASSUME IInv, Tick
    PROVE  Environment({})
<1>1. /\ clock < MaxTime /\ clock' = clock + 1
      /\ UNCHANGED <<conv, messages, deleted, suggestions, sent, request, reports, ops>>
  BY DEF Tick
<1>2. clock' \in 1 .. MaxTime /\ clock <= clock'
  BY <1>1, Typed
<1>3. TableStep({}) /\ By' = By
  BY <1>1, Typed, NothingMoves DEF By
<1>4. StatusOfItsOwnText'
  BY <1>1, Typed DEF StatusOfItsOwnText
<1>5. QED
  BY <1>1, <1>2, <1>3, <1>4, Typed DEF Environment

\* Nothing happens.
LEMMA RestEffect ==
    ASSUME IInv, UNCHANGED vars
    PROVE  Environment({})
<1>1. UNCHANGED <<clock, conv, messages, deleted, suggestions, sent, request, reports, ops>>
  BY DEF vars
<1>2. TableStep({}) /\ By' = By
  BY <1>1, Typed, NothingMoves DEF By
<1>3. StatusOfItsOwnText'
  BY <1>1, Typed DEF StatusOfItsOwnText
<1>4. clock <= clock'
  BY <1>1, Typed
<1>5. QED
  BY <1>1, <1>2, <1>3, <1>4, Typed DEF Environment

-----------------------------------------------------------------------------
(* What stays true when the messages or the requests change *)

\* A date of the customer and an open window stay, and a stored message is one that was
\* or one of the new.
LEMMA LogGrows ==
    ASSUME NEW New, TableStep(New)
    PROVE  /\ \A t : CustomerAt(t) => CustomerAt(t)'
           /\ \A t : Justified(t) => Justified(t)'
           /\ Logged \subseteq Logged' /\ Logged' \subseteq Logged \cup {row.by : row \in New}
<1>1. \A row \in Log : \E new \in Log' : SameRow(new, row)
  BY DEF TableStep
<1>2. \A new \in Log' : new \in New \/ \E row \in Log : SameRow(new, row)
  BY DEF TableStep
<1>3. \A t : CustomerAt(t) => CustomerAt(t)'
  BY <1>1 DEF CustomerAt, SameRow
<1>4. \A t : Justified(t) => Justified(t)'
  BY <1>1 DEF Justified, SameRow
<1>5. Logged' = {row.by : row \in Log'}
  BY DEF Logged
<1>6. Logged \subseteq Logged'
  BY <1>1, <1>5 DEF Logged, SameRow
<1>7. Logged' \subseteq Logged \cup {row.by : row \in New}
  BY <1>2, <1>5 DEF Logged, SameRow
<1>8. QED
  BY <1>3, <1>4, <1>6, <1>7

\* What came between stays there, or was deleted.
LEMMA BetweenStays ==
    ASSUME NEW New, TableStep(New), NEW f, NEW a, f # a, Between(f, a)
    PROVE  Between(f, a)'
<1>1. CASE \E row \in deleted : row.by # a
  BY <1>1 DEF Between, TableStep
<1>2. CASE \E x \in By : x # a /\ Before(f, x)
  <2>1. PICK x \in By : x # a /\ Before(f, x)
    BY <1>2
  <2>2. f \in By
    BY <2>1 DEF Before, By
  <2>3. CASE x \in By' /\ f \in By'
    <3>1. Before(f, x)'
      BY <2>1, <2>3 DEF TableStep
    <3>2. QED
      BY <2>1, <2>3, <3>1 DEF Between
  <2>4. CASE ~(x \in By' /\ f \in By')
    <3>1. x \in Gone' \/ f \in Gone'
      BY <2>2, <2>4 DEF TableStep
    <3>2. Gone' = {row.by : row \in deleted'}
      BY DEF Gone
    <3>3. \E row \in deleted' : row.by # a
      BY <2>1, <3>1, <3>2
    <3>4. QED
      BY <3>3 DEF Between
  <2>5. QED
    BY <2>3, <2>4
<1>3. QED
  BY <1>1, <1>2 DEF Between

\* A request that ended stays as it was.
LEMMA EndedGrows ==
    ASSUME NEW s \in Sends, Only(s), request[s].step # "done"
    PROVE  /\ Ended \subseteq Ended' /\ Ended' \subseteq Ended \cup {s}
           /\ IsFiniteSet(Ended) => IsFiniteSet(Ended')
<1>1. Ended' = {q \in Sends : request'[q].step = "done"}
  BY DEF Ended
<1>2. Ended \subseteq Ended' /\ Ended' \subseteq Ended \cup {s}
  BY <1>1 DEF Only, Ended
<1>3. IsFiniteSet(Ended) => IsFiniteSet(Ended \cup {s})
  BY FS_AddElement
<1>4. QED
  BY <1>2, <1>3, FS_Subset

\* Two requests that repeat each other after a step did so before.
LEMMA RepeatsStays ==
    ASSUME NEW s \in Sends, Only(s), request[s].step # "done",
           \A q \in Sends : request[q].ended \subseteq Ended \ {q},
           NEW f \in Sends, NEW a \in Sends,
           a # s \/ SameRequest(request[s], request'[s]), Repeats(f, a)'
    PROVE  Repeats(f, a) /\ f # s /\ f # a
<1>1. /\ f \in request'[a].ended /\ request'[f].result = "sent"
      /\ request'[f].known /\ request'[a].known
      /\ request'[f].sender = "bot" /\ request'[a].sender = "bot"
      /\ request'[f].text = request'[a].text
  BY DEF Repeats
<1>2. /\ request'[a].ended = request[a].ended /\ request'[a].known = request[a].known
      /\ request'[a].sender = request[a].sender /\ request'[a].text = request[a].text
  BY DEF Only, SameRequest
<1>3. f \in Ended /\ f # a
  BY <1>1, <1>2
<1>4. f # s /\ request'[f] = request[f]
  BY <1>3 DEF Ended, Only
<1>5. Repeats(f, a)
  BY <1>1, <1>2, <1>4 DEF Repeats
<1>6. QED
  BY <1>3, <1>4, <1>5

-----------------------------------------------------------------------------
(* A step of a request preserves the invariant *)

\* The types, when what is written is typed.
LEMMA TypesStay ==
    ASSUME Types, NEW s \in Sends, Only(s), request[s].step # "done",
           UNCHANGED <<clock, conv, deleted, reports, ops>>,
           messages' \in Seq(Messages), sent' \in Seq(SentRows),
           suggestions' \subseteq [question : Inbound, answer : Sends]
    PROVE  Types'
<1>1. Range(messages') \subseteq Messages
  BY LenProperties, ElementOfSeq DEF Range
<1>2. Range(sent') \subseteq SentRows
  BY LenProperties, ElementOfSeq DEF Range
<1>3. IsFiniteSet(Ended')
  BY EndedGrows DEF Types
<1>4. TypeOK'
  BY <1>1, <1>2 DEF Types, TypeOK, Only, RequestRows, SentRows
<1>5. QED
  BY <1>3, <1>4 DEF Types

\* Nothing changes in the conversation.
LEMMA TablesStay ==
    ASSUME IInv, UNCHANGED <<messages, deleted, reports>>
    PROVE  /\ Log' = Log /\ Logged' = Logged /\ By' = By /\ Gone' = Gone /\ UniqueRows'
           /\ \A x, y : Before(x, y)' <=> Before(x, y)
           /\ \A t : CustomerAt(t) => CustomerAt(t)'
           /\ \A t : Justified(t) => Justified(t)'
           /\ \A f, a : Between(f, a) => Between(f, a)'
           /\ StatusOfItsOwnText'
<1>1. Log' = Log /\ Logged' = Logged /\ By' = By /\ Gone' = Gone
  BY DEF Log, Logged, By, Gone
<1>2. UniqueRows'
  BY <1>1 DEF IInv, UniqueRows
<1>3. \A x, y : Before(x, y)' <=> Before(x, y)
  BY DEF Before
<1>4. \A t : CustomerAt(t) => CustomerAt(t)'
  BY <1>1 DEF CustomerAt
<1>5. \A t : Justified(t) => Justified(t)'
  BY <1>1 DEF Justified
<1>6. \A f, a : Between(f, a) => Between(f, a)'
  BY <1>1, <1>3 DEF Between
<1>7. StatusOfItsOwnText'
  BY DEF IInv, StatusOfItsOwnText
<1>8. QED
  BY <1>1, <1>2, <1>3, <1>4, <1>5, <1>6, <1>7

\* A request that begins has no message and no delivery yet.
LEMMA BeginsPreserves ==
    ASSUME IInv, NEW s \in Sends, Begins(s)
    PROVE  IInv'
<1>1. /\ Only(s) /\ UNCHANGED <<clock, conv, messages, deleted, sent, reports, ops, suggestions>>
      /\ request[s].step = "idle" /\ request[s].step # "done"
      /\ Knows(request'[s]) /\ request'[s].ended = Ended /\ request'[s].result # "sent"
      /\ request'[s].step \in {"instance", "save_find", "done"}
      /\ request'[s].step = "instance" =>
           request'[s].seen.lastCustomerMessageAt \in {0, conv.lastCustomerMessageAt}
      /\ \A q \in Sends : q # s => request'[q] = request[q]
  BY DEF Begins, TablesKept, Only
<1>2. /\ Log' = Log /\ Logged' = Logged /\ By' = By /\ Gone' = Gone /\ UniqueRows'
      /\ \A x, y : Before(x, y)' <=> Before(x, y)
      /\ \A t : CustomerAt(t) => CustomerAt(t)'
      /\ \A t : Justified(t) => Justified(t)'
      /\ \A f, a : Between(f, a) => Between(f, a)'
      /\ StatusOfItsOwnText'
  BY <1>1, TablesStay
<1>3. Delivered' = Delivered
  BY <1>1 DEF Delivered
<1>4. s \notin Logged /\ s \notin Delivered
  BY <1>1 DEF IInv, Holds, Recorded
<1>5. \A i \in DOMAIN sent : sent[i].by \in Sends \ {s}
  <2>1. \A i \in DOMAIN sent : sent[i] \in SentRows
    BY LenProperties, ElementOfSeq DEF IInv, Types
  <2>2. QED
    BY <2>1, <1>4 DEF SentRows, Delivered
<1>6. Types'
  BY <1>1, TypesStay DEF IInv, Types, TypeOK
<1>7. \A q \in Sends : Knows(request'[q])
  BY <1>1 DEF IInv
<1>8. \A q \in Sends : Holds(q)'
  <2>1. TAKE q \in Sends
  <2>2. CASE q = s
    BY <2>2, <1>1, <1>2, <1>3, <1>4 DEF Holds, Recorded
  <2>3. CASE q # s
    <3>1. Holds(q) /\ request'[q] = request[q]
      BY <1>1, <2>3 DEF IInv
    <3>2. QED
      BY <3>1, <1>2, <1>3 DEF Holds
  <2>4. QED
    BY <2>2, <2>3
<1>9. RowsMatch'
  <2>1. \A row \in Log : row.by # s
    BY <1>4 DEF Logged
  <2>2. \A row \in Log' : row.by \in Sends => row.sender = request'[row.by].sender
                                             /\ row.text = request'[row.by].text
    BY <1>1, <1>2, <2>1 DEF IInv, RowsMatch
  <2>3. QED
    BY <1>1, <1>2, <2>2 DEF IInv, RowsMatch
<1>10. WindowInv'
  <2>1. conv'.lastCustomerMessageAt # 0 => CustomerAt(conv.lastCustomerMessageAt)'
    BY <1>1, <1>2 DEF IInv, WindowInv, CustomerAt
  <2>2. ASSUME NEW q \in Sends
        PROVE  /\ request'[q].step = "instance" /\ request'[q].seen.lastCustomerMessageAt # 0
                  => CustomerAt(request[q].seen.lastCustomerMessageAt)'
               /\ request'[q].step \in {"duplicate", "provider"} /\ request'[q].known
                  => Justified(request[q].checked)'
    <3>1. CASE q = s
      BY <3>1, <1>1, <1>2 DEF IInv, WindowInv, CustomerAt
    <3>2. CASE q # s
      BY <3>2, <1>1, <1>2 DEF IInv, WindowInv, CustomerAt, Justified
    <3>3. QED
      BY <3>1, <3>2
  <2>3. ASSUME NEW i \in DOMAIN sent, request'[sent[i].by].known
        PROVE  Justified(sent[i].checked)'
    BY <2>3, <1>1, <1>2, <1>5 DEF IInv, WindowInv, Justified
  <2>4. QED
    BY <2>1, <2>2, <2>3, <1>1 DEF WindowInv
<1>11. QuestionInv'
  BY <1>1, <1>2 DEF IInv, QuestionInv
<1>12. RepeatInv'
  <2>1. \A q \in Sends : request[q].ended \subseteq Ended \ {q}
    BY DEF IInv, RepeatInv
  <2>2. Ended \subseteq Ended' /\ s \notin Ended
    BY <1>1, EndedGrows DEF Ended
  <2>3. \A q \in Sends : request'[q].ended \subseteq Ended' \ {q}
    BY <1>1, <2>1, <2>2
  <2>4. ASSUME NEW f \in Sends, NEW a \in Sends, NEW i \in DOMAIN sent,
               request'[a].step = "provider", Repeats(f, a)',
               sent[i].by = f, clock - sent[i].at <= Recent
        PROVE  Between(f, a)'
    <3>1. a # s /\ request'[a] = request[a]
      BY <1>1, <2>4
    <3>2. Repeats(f, a)
      BY <1>1, <2>1, <2>4, <3>1, RepeatsStays
    <3>3. QED
      BY <2>4, <3>1, <3>2, <1>2 DEF IInv, RepeatInv
  <2>5. ASSUME NEW f \in Sends, NEW a \in Sends, NEW i \in DOMAIN sent, NEW j \in DOMAIN sent,
               i < j, sent[i].by = f, sent[j].by = a, Repeats(f, a)',
               sent[j].at - sent[i].at <= Recent
        PROVE  Between(f, a)'
    <3>1. a # s
      BY <1>5, <2>5
    <3>2. Repeats(f, a)
      BY <1>1, <2>1, <2>5, <3>1, RepeatsStays
    <3>3. QED
      BY <2>5, <3>2, <1>2 DEF IInv, RepeatInv
  <2>6. QED
    BY <2>3, <2>4, <2>5, <1>1 DEF RepeatInv
<1>13. (\A q \in Sends : Knows(request[q]) /\ Holds(q))'
  BY <1>7, <1>8 DEF Knows
<1>14. QED
  BY <1>2, <1>6, <1>9, <1>10, <1>11, <1>12, <1>13 DEF IInv

\* A text that passes the duplicate check, the same as one delivered a short time ago,
\* has a message behind that one.
LEMMA NotRepeatedMeans ==
    ASSUME IInv, NEW s \in Sends, request[s].step = "duplicate", NotRepeated(s),
           NEW f \in Sends, Repeats(f, s), f # s,
           NEW i \in DOMAIN sent, sent[i].by = f, clock - sent[i].at <= Recent
    PROVE  Between(f, s)
<1>1. f \in Logged /\ s \notin Logged
  BY DEF IInv, Holds, Repeats, Recorded
<1>2. CASE f \in Gone
  BY <1>2 DEF Between, Gone
<1>3. CASE f \in By
  <2>1. /\ Len(messages) \in Nat /\ DOMAIN messages = 1 .. Len(messages)
        /\ \A k \in 1 .. Len(messages) : messages[k] \in Messages
        /\ By = {messages[k].by : k \in 1 .. Len(messages)}
        /\ Range(messages) = {messages[k] : k \in 1 .. Len(messages)}
    BY Typed, Positions
  <2>2. PICK k \in 1 .. Len(messages) : messages[k].by = f
    BY <1>3, <2>1
  <2>3. messages[k] \in Log
    BY <2>1 DEF Log
  <2>4. /\ messages[k].sender = "bot" /\ messages[k].text = request[s].text
        /\ sent[i].at <= messages[k].at
    BY <2>2, <2>3 DEF IInv, RowsMatch, Repeats
  <2>5. messages[k].at \in Int /\ sent[i].at \in Int /\ clock \in Int /\ Recent \in Int
    <3>1. sent[i] \in SentRows
      BY LenProperties, ElementOfSeq DEF IInv, Types
    <3>2. messages[k].at \in Int /\ sent[i].at \in Int
      BY <2>1, <3>1 DEF Messages, SentRows
    <3>3. QED
      BY <3>2, Typed, SenderAssumption
  <2>6. messages[k].at >= clock - Recent
    BY <2>4, <2>5
  <2>7. messages # <<>> /\ Len(messages) \in 1 .. Len(messages)
    BY <2>1, <2>2
  <2>8. k # Len(messages)
    BY <2>4, <2>6, <2>7 DEF NotRepeated
  <2>9. k < Len(messages)
    BY <2>1, <2>8
  <2>10. /\ messages[Len(messages)].by \in By /\ messages[Len(messages)].by # s
         /\ Before(f, messages[Len(messages)].by)
    <3>1. messages[Len(messages)].by \in By
      BY <2>1, <2>7
    <3>2. messages[Len(messages)].by # s
      BY <1>1, <3>1, LoggedIs
    <3>3. Before(f, messages[Len(messages)].by)
      BY <2>1, <2>2, <2>7, <2>9 DEF Before
    <3>4. QED
      BY <3>1, <3>2, <3>3
  <2>11. QED
    BY <2>10 DEF Between
<1>4. QED
  BY <1>1, <1>2, <1>3, LoggedIs

\* A request that proceeds keeps what it was asked; it passes to the provider only if it
\* repeats nothing or something came between.
LEMMA ProceedsPreserves ==
    ASSUME IInv, NEW s \in Sends, Proceeds(s)
    PROVE  IInv'
<1>1. /\ Only(s) /\ UNCHANGED <<clock, conv, messages, deleted, sent, reports, ops>>
      /\ request[s].step # "idle" /\ request[s].step # "done"
      /\ Knows(request'[s]) /\ SameRequest(request[s], request'[s])
      /\ request'[s].step \notin {"idle", "instance", "record"}
      /\ \A q \in Sends : q # s => request'[q] = request[q]
  BY DEF Proceeds, TablesKept, Only
<1>2. /\ Log' = Log /\ Logged' = Logged /\ By' = By /\ Gone' = Gone /\ UniqueRows'
      /\ \A x, y : Before(x, y)' <=> Before(x, y)
      /\ \A t : CustomerAt(t) => CustomerAt(t)'
      /\ \A t : Justified(t) => Justified(t)'
      /\ \A f, a : Between(f, a) => Between(f, a)'
      /\ StatusOfItsOwnText'
  BY <1>1, TablesStay
<1>3. Delivered' = Delivered
  BY <1>1 DEF Delivered
<1>4. \A i \in DOMAIN sent : sent[i].by \in Sends
  <2>1. \A i \in DOMAIN sent : sent[i] \in SentRows
    BY LenProperties, ElementOfSeq DEF IInv, Types
  <2>2. QED
    BY <2>1 DEF SentRows
<1>5. /\ request'[s].kind = request[s].kind /\ request'[s].sender = request[s].sender
      /\ request'[s].text = request[s].text /\ request'[s].known = request[s].known
      /\ request'[s].ended = request[s].ended
  BY <1>1 DEF SameRequest
<1>6. Types'
  <2>1. suggestions' \subseteq [question : Inbound, answer : Sends]
    <3>1. suggestions \subseteq [question : Inbound, answer : Sends]
      BY DEF IInv, Types, TypeOK
    <3>2. CASE UNCHANGED suggestions
      BY <3>1, <3>2
    <3>3. CASE ~UNCHANGED suggestions
      <4>1. /\ request[s].step = "suggest"
            /\ suggestions' = suggestions
                              \cup {[question |-> request[s].question, answer |-> s]}
        BY <3>3 DEF Proceeds
      <4>2. request[s].question \in Inbound
        BY <4>1 DEF IInv, Knows
      <4>3. QED
        BY <3>1, <4>1, <4>2
    <3>4. QED
      BY <3>2, <3>3
  <2>2. QED
    BY <1>1, <2>1, TypesStay DEF IInv, Types
<1>7. \A q \in Sends : Knows(request'[q])
  BY <1>1 DEF IInv
<1>8. \A q \in Sends : Holds(q)'
  <2>1. TAKE q \in Sends
  <2>2. CASE q = s
    <3>1. /\ request'[s].step \in Recorded => request[s].step \in Recorded
          /\ request[s].step \in {"record"} \cup Recorded => request'[s].step \in {"done"} \cup Recorded
          /\ request'[s].kind # "save" /\ request'[s].result = "skipped"
             => request[s].step \in {"instance", "duplicate"}
          /\ request'[s].result = "sent" => request[s].step \in Recorded
      BY DEF Proceeds
    <3>2. Holds(s)
      BY DEF IInv
    <3>3. request'[s].result = "sent" => request'[s].kind # "save"
      BY <1>1 DEF Knows
    <3>4. s \in Logged => request'[s].step \in Recorded \cup {"done"}
      BY <1>1, <3>1, <3>2 DEF Holds
    <3>5. request'[s].step \in Recorded => s \in Logged
      BY <3>1, <3>2 DEF Holds
    <3>6. request'[s].kind # "save" /\ s \in Logged => s \in Delivered
      BY <1>5, <3>2 DEF Holds
    <3>7. s \in Delivered => request'[s].step \in {"record", "done"} \cup Recorded
      BY <1>1, <3>1, <3>2 DEF Holds
    <3>8. request'[s].kind # "save" /\ request'[s].result = "skipped" => s \notin Delivered
      BY <3>1, <3>2 DEF Holds, Recorded
    <3>9. request'[s].result = "sent" => s \in Delivered /\ s \in Logged
      BY <3>1, <3>2, <3>3, <3>6 DEF Holds
    <3>10. QED
      BY <1>1, <1>2, <1>3, <2>2, <3>4, <3>5, <3>6, <3>7, <3>8, <3>9 DEF Holds
  <2>3. CASE q # s
    <3>1. Holds(q) /\ request'[q] = request[q]
      BY <1>1, <2>3 DEF IInv
    <3>2. QED
      BY <3>1, <1>2, <1>3 DEF Holds
  <2>4. QED
    BY <2>2, <2>3
<1>9. RowsMatch'
  <2>1. \A row \in Log' : row.by \in Sends => row.sender = request'[row.by].sender
                                             /\ row.text = request'[row.by].text
    BY <1>1, <1>2, <1>5 DEF IInv, RowsMatch
  <2>2. QED
    BY <1>1, <1>2, <2>1 DEF IInv, RowsMatch
<1>10. WindowInv'
  <2>1. conv'.lastCustomerMessageAt # 0 => CustomerAt(conv.lastCustomerMessageAt)'
    BY <1>1, <1>2 DEF IInv, WindowInv, CustomerAt
  <2>2. ASSUME NEW q \in Sends
        PROVE  /\ request'[q].step = "instance" /\ request'[q].seen.lastCustomerMessageAt # 0
                  => CustomerAt(request[q].seen.lastCustomerMessageAt)'
               /\ request'[q].step \in {"duplicate", "provider"} /\ request'[q].known
                  => Justified(request[q].checked)'
    <3>1. CASE q = s
      <4>1. ASSUME request'[s].step \in {"duplicate", "provider"}, request'[s].known
            PROVE  \E row \in Log : row.sender = "customer" /\ request'[s].checked - row.at < Window
        <5>1. CASE request[s].step = "duplicate" /\ request'[s].checked = request[s].checked
          BY <4>1, <5>1, <1>5 DEF IInv, WindowInv, Justified
        <5>2. CASE /\ request[s].step = "instance" /\ request'[s].checked = clock
                   /\ checkWindow(request[s].seen.lastCustomerMessageAt)
          BY <5>2 DEF IInv, WindowInv, CustomerAt, checkWindow
        <5>3. QED
          BY <4>1, <5>1, <5>2 DEF Proceeds
      <4>2. QED
        BY <3>1, <4>1, <1>1, <1>2 DEF Justified
    <3>2. CASE q # s
      BY <3>2, <1>1, <1>2 DEF IInv, WindowInv, CustomerAt, Justified
    <3>3. QED
      BY <3>1, <3>2
  <2>3. ASSUME NEW i \in DOMAIN sent, request'[sent[i].by].known
        PROVE  Justified(sent[i].checked)'
    <3>1. request[sent[i].by].known
      BY <2>3, <1>1, <1>4, <1>5
    <3>2. QED
      BY <3>1, <1>1, <1>2 DEF IInv, WindowInv, Justified
  <2>4. QED
    BY <2>1, <2>2, <2>3, <1>1 DEF WindowInv
<1>11. QuestionInv'
  <2>1. ASSUME NEW q \in Sends, NEW x \in Inbound,
               request'[q].step = "suggest", request'[q].question = x
        PROVE  x \in Logged /\ (x \in By /\ q \in By => Before(x, q))
    <3>1. CASE q = s
      <4>1. x \in By /\ (s \in By => Before(x, s))
        BY <2>1, <3>1 DEF Proceeds
      <4>2. QED
        BY <3>1, <4>1, LoggedIs
    <3>2. CASE q # s
      BY <2>1, <3>2, <1>1 DEF IInv, QuestionInv
    <3>3. QED
      BY <3>1, <3>2
  <2>2. ASSUME NEW x \in Inbound, NEW q \in Sends, [question |-> x, answer |-> q] \in suggestions'
        PROVE  Before(x, q)
    <3>1. CASE [question |-> x, answer |-> q] \in suggestions
      BY <3>1 DEF IInv, QuestionInv
    <3>2. CASE ~([question |-> x, answer |-> q] \in suggestions)
      <4>1. /\ request[s].step = "suggest" /\ s \in By /\ request[s].question \in By
            /\ [question |-> x, answer |-> q] = [question |-> request[s].question, answer |-> s]
        BY <2>2, <3>2 DEF Proceeds
      <4>2. x = request[s].question /\ q = s
        BY <4>1
      <4>3. QED
        BY <4>1, <4>2 DEF IInv, QuestionInv
    <3>3. QED
      BY <3>1, <3>2
  <2>3. QED
    BY <2>1, <2>2, <1>2 DEF QuestionInv
<1>12. RepeatInv'
  <2>1. \A q \in Sends : request[q].ended \subseteq Ended \ {q}
    BY DEF IInv, RepeatInv
  <2>2. Ended \subseteq Ended'
    BY <1>1, EndedGrows
  <2>3. \A q \in Sends : request'[q].ended \subseteq Ended' \ {q}
    BY <1>1, <1>5, <2>1, <2>2
  <2>4. ASSUME NEW f \in Sends, NEW a \in Sends, NEW i \in DOMAIN sent,
               request'[a].step = "provider", Repeats(f, a)',
               sent[i].by = f, clock - sent[i].at <= Recent
        PROVE  Between(f, a)'
    <3>1. Repeats(f, a) /\ f # a
      BY <1>1, <2>1, <2>4, RepeatsStays
    <3>2. CASE a = s
      <4>1. request[s].known /\ request[s].sender = "bot"
        BY <3>1, <3>2 DEF Repeats
      <4>2. request[s].step = "duplicate" /\ NotRepeated(s)
        BY <2>4, <3>2, <4>1, <1>5 DEF Proceeds
      <4>3. Between(f, s)
        BY <2>4, <3>1, <3>2, <4>2, NotRepeatedMeans
      <4>4. QED
        BY <3>2, <4>3, <1>2
    <3>3. CASE a # s
      BY <2>4, <3>1, <3>3, <1>1, <1>2 DEF IInv, RepeatInv
    <3>4. QED
      BY <3>2, <3>3
  <2>5. ASSUME NEW f \in Sends, NEW a \in Sends, NEW i \in DOMAIN sent, NEW j \in DOMAIN sent,
               i < j, sent[i].by = f, sent[j].by = a, Repeats(f, a)',
               sent[j].at - sent[i].at <= Recent
        PROVE  Between(f, a)'
    <3>1. Repeats(f, a)
      BY <1>1, <2>1, <2>5, RepeatsStays
    <3>2. QED
      BY <2>5, <3>1, <1>2 DEF IInv, RepeatInv
  <2>6. QED
    BY <2>3, <2>4, <2>5, <1>1 DEF RepeatInv
<1>13. (\A q \in Sends : Knows(request[q]) /\ Holds(q))'
  BY <1>7, <1>8 DEF Knows
<1>14. QED
  BY <1>2, <1>6, <1>9, <1>10, <1>11, <1>12, <1>13 DEF IInv

\* A delivery is the request's only one, and its window was checked.
LEMMA DeliversPreserves ==
    ASSUME IInv, NEW s \in Sends, Delivers(s)
    PROVE  IInv'
<1> DEFINE text == [by |-> s, at |-> clock, checked |-> request[s].checked]
           n == Len(sent)
<1>1. /\ Only(s) /\ UNCHANGED <<clock, conv, messages, deleted, suggestions, reports, ops>>
      /\ request[s].step = "provider" /\ request[s].step # "done"
      /\ Knows(request'[s]) /\ SameRequest(request[s], request'[s])
      /\ request'[s].step \in {"record", "done"} /\ request'[s].result # "skipped"
      /\ request'[s].result = "sent" => ~request'[s].known
      /\ \A q \in Sends : q # s => request'[q] = request[q]
      /\ sent' = Append(sent, text)
  BY DEF Delivers, Only
<1>2. /\ Log' = Log /\ Logged' = Logged /\ By' = By /\ Gone' = Gone /\ UniqueRows'
      /\ \A x, y : Before(x, y)' <=> Before(x, y)
      /\ \A t : CustomerAt(t) => CustomerAt(t)'
      /\ \A t : Justified(t) => Justified(t)'
      /\ \A f, a : Between(f, a) => Between(f, a)'
      /\ StatusOfItsOwnText'
  BY <1>1, TablesStay
<1>3. text \in SentRows /\ clock \in Int
  <2>1. request[s].checked \in 0 .. MaxTime
    BY Typed, RowOf DEF RequestRows
  <2>2. QED
    BY <2>1, Typed DEF SentRows
<1>4. /\ sent \in Seq(SentRows) /\ n \in Nat /\ DOMAIN sent = 1 .. n
      /\ \A i \in 1 .. n : sent[i] \in SentRows
  BY LenProperties, ElementOfSeq DEF IInv, Types
<1>5. text.by = s /\ text.at = clock /\ text.checked = request[s].checked
  OBVIOUS
<1> HIDE DEF text
<1>6. /\ sent' \in Seq(SentRows) /\ DOMAIN sent' = 1 .. n + 1
      /\ \A i \in 1 .. n : sent'[i] = sent[i]
      /\ sent'[n + 1] = text
  <2>1. /\ Append(sent, text) \in Seq(SentRows) /\ Len(Append(sent, text)) = n + 1
        /\ \A i \in 1 .. n : Append(sent, text)[i] = sent[i]
        /\ Append(sent, text)[n + 1] = text
    BY <1>3, <1>4, AppendProperties
  <2>2. QED
    BY <1>1, <2>1, LenProperties
<1>7. /\ request'[s].kind = request[s].kind /\ request'[s].sender = request[s].sender
      /\ request'[s].text = request[s].text /\ request'[s].known = request[s].known
      /\ request'[s].ended = request[s].ended
  BY <1>1 DEF SameRequest
<1>8. Delivered' = Delivered \cup {s}
  <2>1. Delivered' = {sent'[i].by : i \in 1 .. n + 1}
    BY <1>6 DEF Delivered
  <2>2. Delivered = {sent[i].by : i \in 1 .. n}
    BY <1>4 DEF Delivered
  <2>3. \A i \in 1 .. n + 1 : i \in 1 .. n \/ i = n + 1
    BY <1>4
  <2>4. \A x \in Delivered' : x \in Delivered \cup {s}
    BY <2>1, <2>2, <2>3, <1>5, <1>6
  <2>5. \A x \in Delivered : x \in Delivered'
    <3>1. \A i \in 1 .. n : i \in 1 .. n + 1
      BY <1>4
    <3>2. QED
      BY <2>1, <2>2, <3>1, <1>6
  <2>6. s \in Delivered'
    <3>1. n + 1 \in 1 .. n + 1
      BY <1>4
    <3>2. QED
      BY <2>1, <3>1, <1>5, <1>6
  <2>7. QED
    BY <2>4, <2>5, <2>6
<1>9. s \notin Logged /\ s \notin Delivered
  BY <1>1 DEF IInv, Holds, Recorded
<1>10. \A i \in 1 .. n : sent[i].by \in Sends \ {s}
  BY <1>4, <1>9 DEF SentRows, Delivered
<1>11. Types'
  BY <1>1, <1>4, <1>6, TypesStay DEF IInv, Types, TypeOK
<1>12. \A q \in Sends : Knows(request'[q])
  BY <1>1 DEF IInv
<1>13. \A q \in Sends : Holds(q)'
  <2>1. TAKE q \in Sends
  <2>2. CASE q = s
    BY <2>2, <1>1, <1>2, <1>8, <1>9 DEF Holds, Recorded
  <2>3. CASE q # s
    <3>1. Holds(q) /\ request'[q] = request[q]
      BY <1>1, <2>3 DEF IInv
    <3>2. QED
      BY <2>3, <3>1, <1>2, <1>8 DEF Holds
  <2>4. QED
    BY <2>2, <2>3
<1>14. RowsMatch'
  <2>1. \A row \in Log : row.by # s
    BY <1>9 DEF Logged
  <2>2. \A row \in Log' : row.by \in Sends => row.sender = request'[row.by].sender
                                             /\ row.text = request'[row.by].text
    BY <1>1, <1>2, <2>1 DEF IInv, RowsMatch
  <2>3. \A row \in Log' : row.by \in Inbound => row.sender = "customer"
    BY <1>2 DEF IInv, RowsMatch
  <2>4. ASSUME NEW row \in Log', NEW i \in 1 .. n + 1, sent'[i].by = row.by
        PROVE  sent'[i].at <= row.at
    <3>1. i # n + 1
      BY <1>2, <1>5, <1>6, <2>1, <2>4
    <3>2. i \in 1 .. n
      BY <1>4, <3>1
    <3>3. QED
      BY <2>4, <3>2, <1>2, <1>4, <1>6 DEF IInv, RowsMatch
  <2>5. ASSUME NEW i \in 1 .. n + 1, NEW j \in 1 .. n + 1, sent'[i].by = sent'[j].by
        PROVE  i = j
    <3>1. CASE i \in 1 .. n /\ j \in 1 .. n
      BY <2>5, <3>1, <1>4, <1>6 DEF IInv, RowsMatch
    <3>2. CASE ~(i \in 1 .. n) \/ ~(j \in 1 .. n)
      <4>1. i = n + 1 \/ j = n + 1
        BY <3>2, <1>4
      <4>2. \A k \in 1 .. n + 1 : sent'[k].by = s => k = n + 1
        <5>1. \A k \in 1 .. n + 1 : k \in 1 .. n \/ k = n + 1
          BY <1>4
        <5>2. QED
          BY <5>1, <1>6, <1>10
      <4>3. QED
        BY <2>5, <4>1, <4>2, <1>5, <1>6
    <3>3. QED
      BY <3>1, <3>2
  <2>6. ASSUME NEW i \in 1 .. n + 1
        PROVE  sent'[i].at <= clock'
    <3>1. CASE i \in 1 .. n
      BY <3>1, <1>1, <1>4, <1>6 DEF IInv, RowsMatch
    <3>2. CASE ~(i \in 1 .. n)
      <4>1. i = n + 1
        BY <3>2, <1>4
      <4>2. QED
        BY <4>1, <1>1, <1>3, <1>5, <1>6
    <3>3. QED
      BY <3>1, <3>2
  <2>7. QED
    BY <2>2, <2>3, <2>4, <2>5, <2>6, <1>6 DEF RowsMatch
<1>15. WindowInv'
  <2>1. conv'.lastCustomerMessageAt # 0 => CustomerAt(conv.lastCustomerMessageAt)'
    BY <1>1, <1>2 DEF IInv, WindowInv, CustomerAt
  <2>2. ASSUME NEW q \in Sends
        PROVE  /\ request'[q].step = "instance" /\ request'[q].seen.lastCustomerMessageAt # 0
                  => CustomerAt(request[q].seen.lastCustomerMessageAt)'
               /\ request'[q].step \in {"duplicate", "provider"} /\ request'[q].known
                  => Justified(request[q].checked)'
    <3>1. CASE q = s
      BY <3>1, <1>1
    <3>2. CASE q # s
      BY <3>2, <1>1, <1>2 DEF IInv, WindowInv, CustomerAt, Justified
    <3>3. QED
      BY <3>1, <3>2
  <2>3. ASSUME NEW i \in 1 .. n + 1, request'[sent'[i].by].known
        PROVE  Justified(sent[i].checked)'
    <3>1. CASE i \in 1 .. n
      <4>1. sent'[i] = sent[i] /\ request[sent[i].by].known
        BY <2>3, <3>1, <1>1, <1>6, <1>10
      <4>2. \E row \in Log : row.sender = "customer" /\ sent[i].checked - row.at < Window
        BY <3>1, <4>1, <1>4 DEF IInv, WindowInv, Justified
      <4>3. QED
        BY <4>1, <4>2, <1>2 DEF Justified
    <3>2. CASE ~(i \in 1 .. n)
      <4>1. sent'[i] = text
        <5>1. i = n + 1
          BY <3>2, <1>4
        <5>2. QED
          BY <5>1, <1>6
      <4>2. request[s].known
        BY <2>3, <4>1, <1>5, <1>7
      <4>3. \E row \in Log : row.sender = "customer" /\ request[s].checked - row.at < Window
        BY <4>2, <1>1 DEF IInv, WindowInv, Justified
      <4>4. QED
        BY <4>1, <4>3, <1>2, <1>5 DEF Justified
    <3>3. QED
      BY <3>1, <3>2
  <2>4. QED
    BY <2>1, <2>2, <2>3, <1>6 DEF WindowInv
<1>16. QuestionInv'
  BY <1>1, <1>2 DEF IInv, QuestionInv
<1>17. RepeatInv'
  <2>1. \A q \in Sends : request[q].ended \subseteq Ended \ {q}
    BY DEF IInv, RepeatInv
  <2>2. Ended \subseteq Ended'
    BY <1>1, EndedGrows
  <2>3. \A q \in Sends : request'[q].ended \subseteq Ended' \ {q}
    BY <1>1, <1>7, <2>1, <2>2
  <2>4. ASSUME NEW f \in Sends, NEW a \in Sends, Repeats(f, a)'
        PROVE  Repeats(f, a) /\ f # s
    BY <1>1, <2>1, <2>4, RepeatsStays
  <2>5. ASSUME NEW f \in Sends, NEW a \in Sends, NEW i \in 1 .. n + 1,
               request'[a].step = "provider", Repeats(f, a)',
               sent'[i].by = f, clock - sent'[i].at <= Recent
        PROVE  Between(f, a)'
    <3>1. Repeats(f, a) /\ f # s /\ a # s /\ request'[a] = request[a]
      BY <1>1, <2>4, <2>5
    <3>2. i \in 1 .. n
      <4>1. i # n + 1
        BY <2>5, <3>1, <1>5, <1>6
      <4>2. QED
        BY <4>1, <1>4
    <3>3. QED
      BY <2>5, <3>1, <3>2, <1>2, <1>4, <1>6 DEF IInv, RepeatInv
  <2>6. ASSUME NEW f \in Sends, NEW a \in Sends, NEW i \in 1 .. n + 1, NEW j \in 1 .. n + 1,
               i < j, sent'[i].by = f, sent'[j].by = a, Repeats(f, a)',
               sent'[j].at - sent'[i].at <= Recent
        PROVE  Between(f, a)'
    <3>1. Repeats(f, a) /\ i \in 1 .. n
      BY <2>4, <2>6, <1>4
    <3>2. CASE j \in 1 .. n
      BY <2>6, <3>1, <3>2, <1>2, <1>4, <1>6 DEF IInv, RepeatInv
    <3>3. CASE ~(j \in 1 .. n)
      <4>1. sent'[j] = text
        <5>1. j = n + 1
          BY <3>3, <1>4
        <5>2. QED
          BY <5>1, <1>6
      <4>2. a = s /\ clock - sent[i].at <= Recent /\ sent[i].by = f
        BY <2>6, <3>1, <4>1, <1>5, <1>6
      <4>3. Between(f, s)
        BY <3>1, <4>2, <1>1, <1>4 DEF IInv, RepeatInv
      <4>4. QED
        BY <4>2, <4>3, <1>2
    <3>4. QED
      BY <3>2, <3>3
  <2>7. QED
    BY <2>3, <2>5, <2>6, <1>1, <1>6 DEF RepeatInv
<1>18. (\A q \in Sends : Knows(request[q]) /\ Holds(q))'
  BY <1>12, <1>13 DEF Knows
<1>19. QED
  BY <1>2, <1>11, <1>14, <1>15, <1>16, <1>17, <1>18 DEF IInv

\* A text is stored behind all messages, once.
LEMMA RecordsPreserves ==
    ASSUME IInv, NEW s \in Sends, Records(s)
    PROVE  IInv'
<1>1. /\ Only(s) /\ UNCHANGED <<clock, conv, deleted, suggestions, sent, reports, ops>>
      /\ request[s].step = "record" \/ request[s].step = "save_create"
      /\ request[s].step # "done" /\ request[s].step # "idle"
      /\ Knows(request'[s]) /\ SameRequest(request[s], request'[s])
      /\ request'[s].step = "touch"
      /\ \A q \in Sends : q # s => request'[q] = request[q]
      /\ messages' = Append(messages, OutboundRow(s))
  BY DEF Records, Only
<1>2. /\ request'[s].kind = request[s].kind /\ request'[s].sender = request[s].sender
      /\ request'[s].text = request[s].text /\ request'[s].known = request[s].known
      /\ request'[s].ended = request[s].ended
  BY <1>1 DEF SameRequest
<1>3. PICK row \in Messages : /\ row = OutboundRow(s) /\ row.by = s /\ row.status = "sent"
                              /\ row.sender = request[s].sender /\ row.text = request[s].text
                              /\ row.at = clock
  <2>1. request[s] \in RequestRows /\ Knows(request[s]) /\ clock \in 1 .. MaxTime
    BY Typed, RowOf
  <2>2. request[s].text \in Texts /\ request[s].sender \in Senders
    BY <1>1, <2>1, CallerIs DEF Knows
  <2>3. OutboundRow(s) \in Messages
    BY <2>1, <2>2 DEF OutboundRow, Messages, RequestRows
  <2>4. QED
    BY <2>3 DEF OutboundRow
<1>4. s \notin Logged
  BY <1>1 DEF IInv, Holds, Recorded
<1> DEFINE n == Len(messages)
<1>5. /\ messages' \in Seq(Messages) /\ Len(messages') = n + 1 /\ n \in Nat
      /\ messages'[n + 1] = row
      /\ \A j \in 1 .. (n + 1) - 1 : messages'[j] = messages[j]
      /\ \A j \in n + 1 .. n : messages'[j + 1] = messages[j]
  <2>1. messages \in Seq(Messages) /\ n \in Nat
    BY Typed, LenProperties
  <2>2. messages' = Append(messages, row)
    BY <1>1, <1>3
  <2>3. /\ messages' \in Seq(Messages) /\ Len(messages') = n + 1
        /\ \A j \in 1 .. n : messages'[j] = messages[j]
        /\ messages'[n + 1] = row
    BY <2>1, <2>2, AppendProperties
  <2>4. 1 .. (n + 1) - 1 = 1 .. n /\ n + 1 .. n = {}
    BY <2>1
  <2>5. QED
    BY <2>1, <2>3, <2>4
<1>6. TableStep({row}) /\ Range(messages') = Range(messages) \cup {row} /\ By' = By \cup {row.by}
  <2>1. PICK k \in 1 .. Len(messages) + 1 : k = n + 1
    BY <1>5
  <2>2. /\ messages \in Seq(Messages) /\ deleted \subseteq Messages /\ UniqueRows
        /\ row.by \notin Logged
        /\ messages' \in Seq(Messages) /\ Len(messages') = Len(messages) + 1
        /\ messages'[k] = row /\ UNCHANGED deleted
        /\ \A j \in 1 .. k - 1 : messages'[j] = messages[j]
        /\ \A j \in k .. Len(messages) : messages'[j + 1] = messages[j]
    BY <1>1, <1>3, <1>4, <1>5, <2>1, Typed
  <2>3. TableStep({row})
    BY <2>2, InsertionMoves
  <2>4. Range(messages') = Range(messages) \cup {row}
    BY <2>2, InsertionMoves
  <2>5. By' = By \cup {row.by}
    BY <2>2, InsertionMoves
  <2>6. QED
    BY <2>3, <2>4, <2>5
<1>7. Log' = Log \cup {row} /\ Logged' = Logged \cup {s}
  <2>1. Log' = Log \cup {row}
    BY <1>1, <1>6 DEF Log
  <2>2. Logged' = {r.by : r \in Log'}
    BY DEF Logged
  <2>3. QED
    BY <1>3, <2>1, <2>2 DEF Logged
<1> DEFINE New == {row}
<1>8. TableStep(New)
  BY <1>6
<1> HIDE DEF New
<1>9. /\ \A t : CustomerAt(t) => CustomerAt(t)'
      /\ \A t : Justified(t) => Justified(t)'
  BY <1>8, LogGrows
<1>10. \A f, a : f # a /\ Between(f, a) => Between(f, a)'
  BY <1>8, BetweenStays
<1>11. Delivered' = Delivered
  BY <1>1 DEF Delivered
<1>12. \A i \in DOMAIN sent : sent[i].by \in Sends
  <2>1. \A i \in DOMAIN sent : sent[i] \in SentRows
    BY LenProperties, ElementOfSeq DEF IInv, Types
  <2>2. QED
    BY <2>1 DEF SentRows
<1>13. Types'
  BY <1>1, <1>5, TypesStay DEF IInv, Types, TypeOK
<1>14. \A q \in Sends : Knows(request'[q])
  BY <1>1 DEF IInv
<1>15. \A q \in Sends : Holds(q)'
  <2>1. TAKE q \in Sends
  <2>2. CASE q = s
    <3>1. request'[s].result = None
      BY <1>1 DEF Knows
    <3>2. request'[s].kind # "save" => s \in Delivered
      <4>1. Knows(request[s]) /\ Holds(s)
        BY DEF IInv
      <4>2. QED
        BY <1>1, <1>2, <4>1 DEF Knows, Holds
    <3>3. request'[s].result # "sent" /\ request'[s].result # "skipped"
      BY <3>1, NoneIsNoName DEF Names, Outcomes
    <3>4. QED
      BY <2>2, <1>1, <1>7, <1>11, <3>2, <3>3 DEF Holds, Recorded
  <2>3. CASE q # s
    <3>1. Holds(q) /\ request'[q] = request[q]
      BY <1>1, <2>3 DEF IInv
    <3>2. QED
      BY <2>3, <3>1, <1>7, <1>11 DEF Holds
  <2>4. QED
    BY <2>2, <2>3
<1>16. RowsMatch'
  <2>1. ASSUME NEW r \in Log'
        PROVE  /\ r.by \in Sends => r.sender = request'[r.by].sender /\ r.text = request'[r.by].text
               /\ r.by \in Inbound => r.sender = "customer"
               /\ \A i \in DOMAIN sent : sent[i].by = r.by => sent[i].at <= r.at
    <3>1. CASE r \in Log
      BY <3>1, <1>1, <1>2 DEF IInv, RowsMatch
    <3>2. CASE r = row
      <4>1. s \notin Inbound
        BY NoneIsNoName DEF Names
      <4>2. QED
        BY <3>2, <4>1, <1>2, <1>3 DEF IInv, RowsMatch
    <3>3. QED
      BY <3>1, <3>2, <1>7
  <2>2. QED
    BY <2>1, <1>1 DEF IInv, RowsMatch
<1>17. WindowInv'
  <2>1. conv'.lastCustomerMessageAt # 0 => CustomerAt(conv.lastCustomerMessageAt)'
    BY <1>1, <1>9 DEF IInv, WindowInv, CustomerAt
  <2>2. ASSUME NEW q \in Sends
        PROVE  /\ request'[q].step = "instance" /\ request'[q].seen.lastCustomerMessageAt # 0
                  => CustomerAt(request[q].seen.lastCustomerMessageAt)'
               /\ request'[q].step \in {"duplicate", "provider"} /\ request'[q].known
                  => Justified(request[q].checked)'
    <3>1. CASE q = s
      BY <3>1, <1>1
    <3>2. CASE q # s
      <4>1. request'[q] = request[q]
        BY <3>2, <1>1
      <4>2. ASSUME request[q].step = "instance", request[q].seen.lastCustomerMessageAt # 0
            PROVE  CustomerAt(request[q].seen.lastCustomerMessageAt)'
        <5>1. PICK t : t = request[q].seen.lastCustomerMessageAt
          OBVIOUS
        <5>2. CustomerAt(t)'
          BY <4>2, <5>1, <1>9 DEF IInv, WindowInv
        <5>3. QED
          BY <4>1, <5>1, <5>2 DEF CustomerAt
      <4>3. ASSUME request[q].step \in {"duplicate", "provider"}, request[q].known
            PROVE  Justified(request[q].checked)'
        <5>1. PICK t : t = request[q].checked
          OBVIOUS
        <5>2. Justified(t)'
          BY <4>3, <5>1, <1>9 DEF IInv, WindowInv
        <5>3. QED
          BY <4>1, <5>1, <5>2 DEF Justified
      <4>4. QED
        BY <4>1, <4>2, <4>3
    <3>3. QED
      BY <3>1, <3>2
  <2>3. ASSUME NEW i \in DOMAIN sent, request'[sent[i].by].known
        PROVE  Justified(sent[i].checked)'
    <3>1. request[sent[i].by].known
      BY <2>3, <1>1, <1>2, <1>12
    <3>2. QED
      BY <3>1, <1>1, <1>9 DEF IInv, WindowInv, Justified
  <2>4. QED
    BY <2>1, <2>2, <2>3, <1>1 DEF WindowInv
<1>18. QuestionInv'
  <2>1. By' = By \cup {s} /\ s \notin Inbound
    BY <1>3, <1>6, NoneIsNoName DEF Names
  <2>2. \A x, y \in By' : Before(x, y) => Before(x, y)'
    BY <1>6 DEF TableStep
  <2>3. ASSUME NEW q \in Sends, NEW x \in Inbound,
               request'[q].step = "suggest", request'[q].question = x
        PROVE  x \in Logged' /\ (x \in By' /\ q \in By' => Before(x, q)')
    <3>1. q # s /\ request'[q] = request[q]
      BY <1>1, <2>3
    <3>2. x \in Logged /\ (x \in By /\ q \in By => Before(x, q))
      BY <2>3, <3>1 DEF IInv, QuestionInv
    <3>3. ASSUME x \in By', q \in By'
          PROVE  Before(x, q)'
      <4>1. x \in By /\ q \in By
        BY <2>1, <3>1, <3>3
      <4>2. Before(x, q)
        BY <3>2, <4>1
      <4>3. QED
        BY <2>2, <3>3, <4>2
    <3>4. QED
      BY <1>7, <3>2, <3>3
  <2>4. ASSUME NEW x \in Inbound, NEW q \in Sends, [question |-> x, answer |-> q] \in suggestions
        PROVE  Before(x, q)'
    <3>1. Before(x, q)
      BY <2>4 DEF IInv, QuestionInv
    <3>2. x \in By' /\ q \in By'
      BY <2>1, <3>1 DEF Before, By
    <3>3. QED
      BY <2>2, <3>1, <3>2
  <2>5. QED
    BY <2>3, <2>4, <1>1 DEF QuestionInv
<1>19. RepeatInv'
  <2>1. \A q \in Sends : request[q].ended \subseteq Ended \ {q}
    BY DEF IInv, RepeatInv
  <2>2. Ended \subseteq Ended'
    BY <1>1, EndedGrows
  <2>3. \A q \in Sends : request'[q].ended \subseteq Ended' \ {q}
    BY <1>1, <1>2, <2>1, <2>2
  <2>4. ASSUME NEW f \in Sends, NEW a \in Sends, Repeats(f, a)'
        PROVE  Repeats(f, a) /\ f # a
    BY <1>1, <2>1, <2>4, RepeatsStays
  <2>5. ASSUME NEW f \in Sends, NEW a \in Sends, NEW i \in DOMAIN sent,
               request'[a].step = "provider", Repeats(f, a)',
               sent[i].by = f, clock - sent[i].at <= Recent
        PROVE  Between(f, a)'
    <3>1. Repeats(f, a) /\ f # a /\ request'[a] = request[a]
      BY <1>1, <2>4, <2>5
    <3>2. Between(f, a)
      BY <2>5, <3>1 DEF IInv, RepeatInv
    <3>3. QED
      BY <3>1, <3>2, <1>10
  <2>6. ASSUME NEW f \in Sends, NEW a \in Sends, NEW i \in DOMAIN sent, NEW j \in DOMAIN sent,
               i < j, sent[i].by = f, sent[j].by = a, Repeats(f, a)',
               sent[j].at - sent[i].at <= Recent
        PROVE  Between(f, a)'
    <3>1. Repeats(f, a) /\ f # a
      BY <2>4, <2>6
    <3>2. Between(f, a)
      BY <2>6, <3>1 DEF IInv, RepeatInv
    <3>3. QED
      BY <3>1, <3>2, <1>10
  <2>7. QED
    BY <2>3, <2>5, <2>6, <1>1 DEF RepeatInv
<1>20. StatusOfItsOwnText'
  <2>1. \A r \in New : r.by \notin Sends \/ r.status = "sent"
    BY <1>3 DEF New
  <2>2. Range(messages') \subseteq Range(messages) \cup New
    BY <1>6 DEF New
  <2>3. reports \subseteq reports' /\ StatusOfItsOwnText
    BY <1>1, Typed
  <2>4. QED
    BY <2>1, <2>2, <2>3, StatusKept
<1>21. (\A q \in Sends : Knows(request[q]) /\ Holds(q))'
  BY <1>14, <1>15 DEF Knows
<1>22. UniqueRows'
  BY <1>6 DEF TableStep
<1>23. QED
  BY <1>13, <1>16, <1>17, <1>18, <1>19, <1>20, <1>21, <1>22 DEF IInv

-----------------------------------------------------------------------------
(* The rest of the system preserves it *)

\* The others store messages of the customer, delete, and change statuses.
LEMMA EnvironmentPreserves ==
    ASSUME IInv, NEW New, Environment(New)
    PROVE  IInv'
<1>1. /\ UNCHANGED <<request, sent>> /\ TableStep(New)
      /\ clock' \in 1 .. MaxTime /\ clock <= clock'
      /\ \A row \in New : row.by \in Inbound /\ row.by \notin Logged /\ row.sender = "customer"
      /\ conv'.lastCustomerMessageAt \in {0, conv.lastCustomerMessageAt} \cup {row.at : row \in New}
      /\ suggestions' \subseteq suggestions
      /\ \A g \in suggestions' : g.question \in By' /\ g.answer \in By'
  BY DEF Environment
<1>2. /\ \A t : CustomerAt(t) => CustomerAt(t)'
      /\ \A t : Justified(t) => Justified(t)'
      /\ Logged \subseteq Logged' /\ Logged' \subseteq Logged \cup {row.by : row \in New}
  BY <1>1, LogGrows
<1>3. \A f, a : f # a /\ Between(f, a) => Between(f, a)'
  BY <1>1, BetweenStays
<1>4. Delivered' = Delivered /\ Ended' = Ended
  BY <1>1 DEF Delivered, Ended
<1>5. \A q \in Sends : q \in Logged' <=> q \in Logged
  BY <1>1, <1>2, NoneIsNoName DEF Names
<1>6. \A i \in DOMAIN sent : sent[i] \in SentRows /\ sent[i].by \in Sends /\ sent[i].at \in Int
  <2>1. \A i \in DOMAIN sent : sent[i] \in SentRows
    BY LenProperties, ElementOfSeq DEF IInv, Types
  <2>2. QED
    BY <2>1 DEF SentRows
<1>7. clock \in Int /\ clock' \in Int /\ Recent \in Int
  BY <1>1, Typed, SenderAssumption
<1>8. Types'
  <2>1. messages' \in Seq(Messages) /\ deleted' \subseteq Messages
    BY <1>1 DEF TableStep
  <2>2. Range(messages') \subseteq Messages
    BY <2>1, LenProperties, ElementOfSeq DEF Range
  <2>3. suggestions' \subseteq [question : Inbound, answer : Sends]
    BY <1>1 DEF IInv, Types, TypeOK
  <2>4. TypeOK'
    BY <1>1, <2>1, <2>2, <2>3 DEF IInv, Types, TypeOK, Environment
  <2>5. QED
    BY <1>1, <1>4, <2>1, <2>4 DEF IInv, Types, Environment
<1>9. UniqueRows'
  BY <1>1 DEF TableStep
<1>10. \A q \in Sends : Holds(q)'
  BY <1>1, <1>4, <1>5 DEF IInv, Holds
<1>11. (\A q \in Sends : Knows(request[q]) /\ Holds(q))'
  BY <1>1, <1>10 DEF IInv, Knows
<1>12. RowsMatch'
  <2>1. ASSUME NEW r \in Log'
        PROVE  /\ r.by \in Sends => r.sender = request[r.by].sender /\ r.text = request[r.by].text
               /\ r.by \in Inbound => r.sender = "customer"
               /\ \A i \in DOMAIN sent : sent[i].by = r.by => sent[i].at <= r.at
    <3>1. CASE r \in New
      BY <3>1, <1>1, <1>6, NoneIsNoName DEF Names
    <3>2. CASE \E row \in Log : SameRow(r, row)
      BY <3>2 DEF IInv, RowsMatch, SameRow
    <3>3. QED
      BY <3>1, <3>2, <1>1 DEF TableStep
  <2>2. \A i \in DOMAIN sent : sent[i].at <= clock'
    BY <1>1, <1>6, <1>7 DEF IInv, RowsMatch
  <2>3. QED
    BY <2>1, <2>2, <1>1 DEF IInv, RowsMatch
<1>13. WindowInv'
  <2>1. conv'.lastCustomerMessageAt # 0 => CustomerAt(conv.lastCustomerMessageAt)'
    <3>1. CASE conv'.lastCustomerMessageAt \in {0, conv.lastCustomerMessageAt}
      BY <3>1, <1>2 DEF IInv, WindowInv, CustomerAt
    <3>2. CASE conv'.lastCustomerMessageAt \in {row.at : row \in New}
      BY <3>2, <1>1 DEF TableStep, CustomerAt
    <3>3. QED
      BY <3>1, <3>2, <1>1
  <2>2. ASSUME NEW q \in Sends
        PROVE  /\ request'[q].step = "instance" /\ request'[q].seen.lastCustomerMessageAt # 0
                  => CustomerAt(request[q].seen.lastCustomerMessageAt)'
               /\ request'[q].step \in {"duplicate", "provider"} /\ request'[q].known
                  => Justified(request[q].checked)'
    BY <1>1, <1>2 DEF IInv, WindowInv, CustomerAt, Justified
  <2>3. ASSUME NEW i \in DOMAIN sent, request[sent[i].by].known
        PROVE  Justified(sent[i].checked)'
    BY <2>3, <1>1, <1>2 DEF IInv, WindowInv, Justified
  <2>4. QED
    BY <2>1, <2>2, <2>3, <1>1 DEF WindowInv
<1>14. QuestionInv'
  <2>1. \A x, y \in By' : Before(x, y) => Before(x, y)'
    BY <1>1 DEF TableStep
  <2>2. By' \subseteq By \cup {row.by : row \in New}
    BY <1>1 DEF TableStep
  <2>3. ASSUME NEW q \in Sends, NEW x \in Inbound,
               request[q].step = "suggest", request[q].question = x
        PROVE  x \in Logged' /\ (x \in By' /\ q \in By' => Before(x, q)')
    <3>1. x \in Logged /\ (x \in By /\ q \in By => Before(x, q))
      BY <2>3 DEF IInv, QuestionInv
    <3>2. ASSUME x \in By', q \in By'
          PROVE  Before(x, q)'
      <4>1. x \in By /\ q \in By
        BY <1>1, <2>2, <3>1, <3>2, NoneIsNoName DEF Names
      <4>2. Before(x, q)
        BY <3>1, <4>1
      <4>3. QED
        BY <2>1, <3>2, <4>2
    <3>3. QED
      BY <1>2, <3>1, <3>2
  <2>4. ASSUME NEW x \in Inbound, NEW q \in Sends, [question |-> x, answer |-> q] \in suggestions'
        PROVE  Before(x, q)'
    <3>1. Before(x, q)
      BY <2>4, <1>1 DEF IInv, QuestionInv
    <3>2. x \in By' /\ q \in By'
      BY <2>4, <1>1
    <3>3. QED
      BY <2>1, <3>1, <3>2
  <2>5. QED
    BY <2>3, <2>4, <1>1 DEF QuestionInv
<1>15. RepeatInv'
  <2>1. \A f, a : Repeats(f, a)' => Repeats(f, a)
    BY <1>1 DEF Repeats
  <2>2. \A f, a \in Sends : Repeats(f, a) => f # a
    BY DEF IInv, RepeatInv, Repeats
  <2>3. ASSUME NEW f \in Sends, NEW a \in Sends, NEW i \in DOMAIN sent,
               request[a].step = "provider", Repeats(f, a)',
               sent[i].by = f, clock' - sent[i].at <= Recent
        PROVE  Between(f, a)'
    <3>1. Repeats(f, a) /\ f # a
      BY <2>1, <2>2, <2>3
    <3>2. clock - sent[i].at <= Recent
      BY <2>3, <1>1, <1>6, <1>7
    <3>3. Between(f, a)
      BY <2>3, <3>1, <3>2 DEF IInv, RepeatInv
    <3>4. QED
      BY <3>1, <3>3, <1>3
  <2>4. ASSUME NEW f \in Sends, NEW a \in Sends, NEW i \in DOMAIN sent, NEW j \in DOMAIN sent,
               i < j, sent[i].by = f, sent[j].by = a, Repeats(f, a)',
               sent[j].at - sent[i].at <= Recent
        PROVE  Between(f, a)'
    <3>1. Repeats(f, a) /\ f # a
      BY <2>1, <2>2, <2>4
    <3>2. Between(f, a)
      BY <2>4, <3>1 DEF IInv, RepeatInv
    <3>3. QED
      BY <3>1, <3>2, <1>3
  <2>5. QED
    BY <2>3, <2>4, <1>1, <1>4 DEF IInv, RepeatInv
<1>16. StatusOfItsOwnText'
  BY DEF Environment
<1>17. QED
  BY <1>8, <1>9, <1>11, <1>12, <1>13, <1>14, <1>15, <1>16 DEF IInv

-----------------------------------------------------------------------------
(* The invariant *)

\* The conversation is empty, or the customer has just written its first message.
LEMMA Opened ==
    ASSUME Init
    PROVE  \/ messages = <<>> /\ conv.lastCustomerMessageAt = 0 /\ conv \in Rows
           \/ \E i \in Inbound : /\ messages = <<InboundRow(i, 1)>> /\ conv \in Rows
                                 /\ conv.lastCustomerMessageAt = 1
<1>1. PICK contact \in Contacts :
         \/ conv = NewRow(contact, 0) /\ messages = <<>>
         \/ /\ conv = touchInbound(NewRow(contact, 1), 1)
            /\ \E i \in Inbound : messages = <<InboundRow(i, 1)>>
  BY DEF Init
<1>2. CASE conv = NewRow(contact, 0) /\ messages = <<>>
  <2>1. conv \in Rows /\ conv.lastCustomerMessageAt = 0
    BY <1>2 DEF NewRow, Rows, Statuses, OpenStatuses
  <2>2. QED
    BY <1>2, <2>1
<1>3. CASE /\ conv = touchInbound(NewRow(contact, 1), 1)
           /\ \E i \in Inbound : messages = <<InboundRow(i, 1)>>
  <2>1. PICK row \in Rows : row = NewRow(contact, 1)
    BY DEF NewRow, Rows, Statuses, OpenStatuses
  <2>2. conv = [row EXCEPT !.unreadCount = row.unreadCount + 1, !.lastCustomerMessageAt = 1]
    BY <1>3, <2>1 DEF touchInbound
  <2>3. row.unreadCount + 1 \in Nat
    BY DEF Rows
  <2>4. conv \in Rows /\ conv.lastCustomerMessageAt = 1
    BY <2>2, <2>3 DEF Rows
  <2>5. QED
    BY <1>3, <2>4
<1>4. QED
  BY <1>1, <1>2, <1>3

\* What follows from the rows there are at the start.
LEMMA FirstRows ==
    ASSUME Init
    PROVE  /\ messages \in Seq(Messages) /\ UniqueRows /\ conv \in Rows
           /\ conv.lastCustomerMessageAt \in 0 .. MaxTime
           /\ \A row \in Log : row.by \in Inbound /\ row.sender = "customer"
           /\ conv.lastCustomerMessageAt # 0 => CustomerAt(conv.lastCustomerMessageAt)
<1>1. deleted = {} /\ MaxTime \in Nat \ {0}
  BY SenderAssumption DEF Init
<1>2. CASE messages = <<>> /\ conv.lastCustomerMessageAt = 0 /\ conv \in Rows
  <2>1. DOMAIN messages = {} /\ messages \in Seq(Messages)
    BY <1>2
  <2>2. Log = {} /\ By = {}
    BY <1>1, <2>1 DEF Log, Range, By
  <2>3. QED
    BY <1>1, <1>2, <2>1, <2>2 DEF UniqueRows
<1>3. ASSUME NEW i \in Inbound, messages = <<InboundRow(i, 1)>>, conv \in Rows,
             conv.lastCustomerMessageAt = 1
      PROVE  /\ messages \in Seq(Messages) /\ UniqueRows /\ conv \in Rows
             /\ conv.lastCustomerMessageAt \in 0 .. MaxTime
             /\ \A row \in Log : row.by \in Inbound /\ row.sender = "customer"
             /\ CustomerAt(conv.lastCustomerMessageAt)
  <2>1. PICK row \in Messages : /\ row = InboundRow(i, 1) /\ row.by = i
                                /\ row.sender = "customer" /\ row.at = 1
    <3>1. InboundRow(i, 1) \in Messages
      BY <1>1 DEF InboundRow, Messages
    <3>2. QED
      BY <3>1 DEF InboundRow
  <2>2. messages = <<row>>
    BY <1>3, <2>1
  <2>3. messages \in Seq(Messages) /\ DOMAIN messages = {1} /\ messages[1] = row
    BY <2>2
  <2>4. Log = {row} /\ Gone = {}
    BY <1>1, <2>3 DEF Log, Range, Gone
  <2>5. UniqueRows
    BY <2>3, <2>4 DEF UniqueRows
  <2>6. QED
    BY <1>1, <1>3, <2>1, <2>3, <2>4, <2>5 DEF CustomerAt
<1>4. QED
  BY <1>2, <1>3, Opened

\* It holds at the start.
LEMMA InitInv == Init => IInv
<1> SUFFICES ASSUME Init PROVE IInv
  OBVIOUS
<1>1. /\ clock = 1 /\ deleted = {} /\ suggestions = {} /\ sent = <<>> /\ reports = {} /\ ops = 0
      /\ request = [s \in Sends |->
                    [step |-> "idle", kind |-> None, sender |-> None, text |-> None,
                     known |-> FALSE, seen |-> NoContext, ext |-> None, checked |-> 0,
                     question |-> None, ended |-> {}, result |-> None]]
      /\ MaxTime \in Nat \ {0} /\ MaxEvents \in Nat
  BY SenderAssumption DEF Init
<1>2. /\ messages \in Seq(Messages) /\ UniqueRows /\ conv \in Rows
      /\ conv.lastCustomerMessageAt \in 0 .. MaxTime
      /\ \A row \in Log : row.by \in Inbound /\ row.sender = "customer"
      /\ conv.lastCustomerMessageAt # 0 => CustomerAt(conv.lastCustomerMessageAt)
  BY FirstRows
<1>3. \A s \in Sends : /\ request[s].step = "idle" /\ ~request[s].known /\ request[s].ended = {}
                       /\ request[s].result = None
  BY <1>1
<1>4. Ended = {} /\ DOMAIN sent = {} /\ sent \in Seq(SentRows) /\ Delivered = {}
  <2>1. Ended = {}
    BY <1>3 DEF Ended
  <2>2. DOMAIN sent = {} /\ sent \in Seq(SentRows)
    BY <1>1
  <2>3. QED
    BY <2>1, <2>2 DEF Delivered
<1>5. None # "sent" /\ None # "skipped"
  BY NoneIsNoName DEF Names, Outcomes
<1>6. request \in [Sends -> RequestRows]
  <2>1. NoContext \in Contexts /\ 0 \in 0 .. MaxTime
    BY <1>1 DEF NoContext, Contexts
  <2>2. QED
    BY <1>1, <2>1 DEF RequestRows, Steps, Results
<1>7. Types
  <2>1. Range(messages) \subseteq Messages
    BY <1>2, Positions
  <2>2. Range(sent) = {}
    BY <1>4 DEF Range
  <2>3. TypeOK
    BY <1>1, <1>2, <1>6, <2>1, <2>2 DEF TypeOK, RequestRows
  <2>4. QED
    BY <1>2, <1>4, <2>3, FS_EmptySet DEF Types
<1>8. \A s \in Sends : s \notin Logged
  BY <1>2, NoneIsNoName DEF Logged, Names
<1>9. \A s \in Sends : Knows(request[s]) /\ Holds(s)
  BY <1>3, <1>4, <1>5, <1>8 DEF Knows, Holds, Recorded
<1>10. RowsMatch
  BY <1>2, <1>4, NoneIsNoName DEF RowsMatch, Names
<1>11. WindowInv
  BY <1>2, <1>3, <1>4 DEF WindowInv
<1>12. QuestionInv
  BY <1>1, <1>3 DEF QuestionInv
<1>13. RepeatInv
  BY <1>3, <1>4 DEF RepeatInv
<1>14. StatusOfItsOwnText
  <2>1. \A row \in Range(messages) : row.by \notin Sends
    BY <1>2, NoneIsNoName DEF Log, Names
  <2>2. QED
    BY <2>1 DEF StatusOfItsOwnText
<1>15. QED
  BY <1>2, <1>7, <1>9, <1>10, <1>11, <1>12, <1>13, <1>14 DEF IInv

\* Every step preserves it.
LEMMA NextInv == IInv /\ [Next]_vars => IInv'
<1> SUFFICES ASSUME IInv, [Next]_vars PROVE IInv'
  OBVIOUS
<1>1. ASSUME NEW s \in Sends, Step(s)
      PROVE  IInv'
  <2>1. Begins(s) \/ Proceeds(s) \/ Delivers(s) \/ Records(s)
    BY <1>1, Typed, StepShape
  <2>2. QED
    BY <2>1, BeginsPreserves, ProceedsPreserves, DeliversPreserves, RecordsPreserves
<1>2. CASE UNCHANGED vars
  BY <1>2, RestEffect, EnvironmentPreserves
<1>3. CASE Rest
  BY <1>2, <1>3 DEF Rest
<1>4. CASE Tick
  BY <1>4, TickEffect, EnvironmentPreserves
<1>5. ASSUME NEW ext \in Sends, NEW status \in ReportedStatuses, handleStatus(ext, status)
      PROVE  IInv'
  BY <1>5, ReportEffect, EnvironmentPreserves
<1>6. ASSUME NEW i \in Inbound, NEW late \in BOOLEAN, Customer(i, late)
      PROVE  IInv'
  BY <1>6, CustomerEffect, EnvironmentPreserves
<1>7. CASE Operate
  BY <1>7, OperateEffect, EnvironmentPreserves
<1>8. ASSUME NEW row \in Range(messages), NEW status \in ReportedStatuses, updateStatusOf(row, status)
      PROVE  IInv'
  BY <1>8, UpdateEffect, EnvironmentPreserves
<1>9. ASSUME NEW i \in DOMAIN messages, DeleteMessage(i)
      PROVE  IInv'
  BY <1>9, DeletionEffect, EnvironmentPreserves
<1>10. CASE RemoveConversation
  BY <1>10, RemoveEffect, EnvironmentPreserves
<1>11. QED
  BY <1>1, <1>2, <1>3, <1>4, <1>5, <1>6, <1>7, <1>8, <1>9, <1>10 DEF Next

\* The inductive invariant holds in every state: what a request knows, what its step and its
\* answer say of its message and of the customer, and what the order of the messages keeps.
THEOREM Invariant == Spec => []IInv
<1>1. Init => IInv
  BY InitInv
<1>2. IInv /\ [Next]_vars => IInv'
  BY NextInv
<1>3. QED
  BY <1>1, <1>2, PTL DEF Spec

-----------------------------------------------------------------------------
(* The properties of the runs *)

\* Every variable keeps its type.
THEOREM TypeCorrect == Spec => []TypeOK
<1>1. IInv => TypeOK
  BY DEF IInv, Types
<1>2. QED
  BY <1>1, Invariant, PTL

\* What a request holds is what its answer says.
LEMMA AnswerFollows == IInv => AnswerIsTrue
<1> SUFFICES ASSUME IInv, NEW s \in Sends, request[s].kind # "save"
             PROVE  /\ Cardinality(DeliveriesOf(s)) <= 1
                    /\ RowsOf(s) # {} => DeliveriesOf(s) # {}
                    /\ request[s].result = "skipped" => DeliveriesOf(s) = {}
                    /\ request[s].result = "sent" => /\ DeliveriesOf(s) # {}
                                                     /\ request[s].known => RowsOf(s) # {}
  BY DEF AnswerIsTrue
<1>1. DeliveriesOf(s) # {} <=> s \in Delivered
  BY DEF DeliveriesOf, Delivered
<1>2. RowsOf(s) # {} <=> s \in Logged
  BY DEF RowsOf, Logged, Log
<1>3. Cardinality(DeliveriesOf(s)) <= 1
  <2>1. CASE DeliveriesOf(s) = {}
    BY <2>1, FS_EmptySet
  <2>2. CASE DeliveriesOf(s) # {}
    <3>1. PICK i \in DOMAIN sent : sent[i].by = s
      BY <2>2 DEF DeliveriesOf
    <3>2. DeliveriesOf(s) = {i}
      BY <3>1 DEF DeliveriesOf, IInv, RowsMatch
    <3>3. Cardinality({i}) = 1
      BY FS_Singleton
    <3>4. QED
      BY <3>2, <3>3
  <2>3. QED
    BY <2>1, <2>2
<1>4. Holds(s)
  BY DEF IInv
<1>5. QED
  BY <1>1, <1>2, <1>3, <1>4 DEF Holds

\* The answer of sendText is true of the customer and of the conversation, whatever calls
\* fail, whatever is deleted meanwhile and however many requests interleave.
THEOREM AnswersAreTrue == Spec => []AnswerIsTrue
<1>1. QED
  BY AnswerFollows, Invariant, PTL

\* The message in between is behind the position of the first.
LEMMA RepetitionFollows == IInv => RepeatedReplyExplained
<1> SUFFICES ASSUME IInv, NEW i \in DOMAIN sent, NEW j \in DOMAIN sent, i < j,
                    Repeats(sent[i].by, sent[j].by), sent[j].at - sent[i].at <= Recent
             PROVE  \/ \E row \in deleted : row.by # sent[j].by
                    \/ \E k \in DOMAIN messages : /\ k > PositionOf(sent[i].by)
                                                  /\ messages[k].by # sent[j].by
  BY DEF RepeatedReplyExplained, Repeats
<1>1. PICK f \in Sends, a \in Sends : sent[i].by = f /\ sent[j].by = a
  <2>1. sent[i] \in SentRows /\ sent[j] \in SentRows
    BY LenProperties, ElementOfSeq DEF IInv, Types
  <2>2. QED
    BY <2>1 DEF SentRows
<1>2. Between(f, a)
  BY <1>1 DEF IInv, RepeatInv
<1>3. CASE \E x \in By : x # a /\ Before(f, x)
  <2>1. PICK l \in DOMAIN messages, k \in DOMAIN messages :
            l < k /\ messages[l].by = f /\ messages[k].by # a
    BY <1>3 DEF Before
  <2>2. PositionOf(f) = l
    BY <2>1 DEF PositionOf, IInv, UniqueRows
  <2>3. k > l
    <3>1. DOMAIN messages = 1 .. Len(messages) /\ Len(messages) \in Nat
      BY Typed, Positions
    <3>2. QED
      BY <2>1, <3>1
  <2>4. QED
    BY <1>1, <2>1, <2>2, <2>3
<1>4. QED
  BY <1>1, <1>2, <1>3 DEF Between

\* sendText repeats a reply that was answered "sent" a short time ago only when another
\* message stands behind that reply, or one was deleted: the duplicate check of the latest
\* message catches every other sequential repetition.
THEOREM RepetitionsAreExplained == Spec => []RepeatedReplyExplained
<1>1. QED
  BY RepetitionFollows, Invariant, PTL

\* A text goes out only if a message of the customer was within the window when it was
\* checked, although the date is read from the row before, and moves back with late messages.
THEOREM WindowIsHonoured == Spec => []WindowHonoured
<1>1. IInv => WindowHonoured
  BY DEF IInv, WindowInv, Justified, Log, WindowHonoured
<1>2. QED
  BY <1>1, Invariant, PTL

\* The rows of a suggestion are there, in order.
LEMMA QuestionFollows == IInv => SuggestionAnswersEarlierQuestion
<1> SUFFICES ASSUME IInv, NEW g \in suggestions
             PROVE  \E q, a \in DOMAIN messages :
                       q < a /\ messages[q].by = g.question /\ messages[a].by = g.answer
  BY DEF SuggestionAnswersEarlierQuestion
<1>1. /\ g.question \in Inbound /\ g.answer \in Sends
      /\ g = [question |-> g.question, answer |-> g.answer]
  BY DEF IInv, Types, TypeOK
<1>2. Before(g.question, g.answer)
  BY <1>1 DEF IInv, QuestionInv
<1>3. QED
  BY <1>2 DEF Before

\* A suggestion of createKbSuggestionFromHumanReply pairs an answer with a question that
\* stands before it in the conversation, whatever is written or deleted in between.
THEOREM QuestionsComeFirst == Spec => []SuggestionAnswersEarlierQuestion
<1>1. QED
  BY QuestionFollows, Invariant, PTL

\* A stored text has no status but those reported or given for it.
THEOREM StatusesAreTheirOwn == Spec => []StatusOfItsOwnText
<1>1. IInv => StatusOfItsOwnText
  BY DEF IInv
<1>2. QED
  BY <1>1, Invariant, PTL
=============================================================================
