----------------------------- MODULE WebhookProofs -----------------------------
(***************************************************************************)
(* Theorems about Webhook, for any number of deliveries, workers, retries  *)
(* and faults.                                                             *)
(***************************************************************************)
EXTENDS Webhook, DataProofs

\* What the row and the workers may look like.  The rows the poller and the
\* admin work on do not matter here: they never write "delivered".
DeliveryTypes ==
    /\ row \in [Deliveries -> [status : Statuses, attempts : Nat]]
    /\ work \in [Workers -> WorkStates]

\* DeliveredMeansAccepted is not inductive: MarkDelivered writes what Post has
\* seen some steps before.  In between the worker carries the fact.
DeliveredInv ==
    /\ DeliveryTypes
    /\ DeliveredMeansAccepted
    /\ \A w \in Workers : work[w].pc = "delivered" => work[w].d \in accepted

\* A busy worker has a delivery.
LEMMA BusyWorker ==
    ASSUME DeliveryTypes, NEW w \in Workers, work[w].pc # "idle"
    PROVE  work[w] \in [pc : WorkSteps, d : Deliveries, n : Nat]
<1>1. work[w] \in WorkStates
    BY DEF DeliveryTypes
<1> QED
    BY <1>1 DEF WorkStates, NoWork

\* An UPDATE that does not write "delivered", or writes it of a delivery the
\* endpoint has taken, keeps the rows' part of the invariant, whether or not
\* it is lost.
LEMMA ExecKeeps ==
    ASSUME DeliveryTypes, DeliveredMeansAccepted, accepted \subseteq accepted',
           NEW d, NEW status \in Statuses, NEW attempts, NEW due2,
           d \in Deliveries => attempts \in Nat,
           status = "delivered" => d \in accepted,
           Exec(d, status, attempts, due2)
    PROVE  /\ row' \in [Deliveries -> [status : Statuses, attempts : Nat]]
           /\ DeliveredMeansAccepted'
<1>1. CASE row' = [row EXCEPT ![d] = [status |-> status, attempts |-> attempts]]
    BY <1>1 DEF DeliveryTypes, DeliveredMeansAccepted
<1>2. CASE row' = row
    BY <1>2 DEF DeliveryTypes, DeliveredMeansAccepted
<1> QED
    BY <1>1, <1>2 DEF Exec

\* Nothing is delivered at first.
LEMMA DeliveredInit == WebhookInit => DeliveredInv
BY DEF WebhookInit, DeliveredInv, DeliveryTypes, DeliveredMeansAccepted, Statuses,
       WorkStates, NoWork

\* No worker, poller, admin or fault writes "delivered" of a delivery the
\* endpoint has not taken.
LEMMA DeliveredStep == DeliveredInv /\ [WebhookNext]_webhookVars => DeliveredInv'
<1> SUFFICES ASSUME DeliveredInv, [WebhookNext]_webhookVars
             PROVE  DeliveredInv'
    OBVIOUS
<1> USE DEF DeliveredInv
<1>1. ASSUME NEW d \in Deliveries, Insert(d)
      PROVE  DeliveredInv'
    BY <1>1 DEF Insert, DeliveryTypes, DeliveredMeansAccepted, Statuses
<1>2. ASSUME NEW d \in Deliveries,
             Publish(d) \/ RetryTimeComes(d) \/ RetryCheck(d) \/ RetryPublish(d)
      PROVE  DeliveredInv'
    BY <1>2 DEF Publish, RetryTimeComes, RetryCheck, RetryPublish, DeliveryTypes,
                DeliveredMeansAccepted
<1>3. ASSUME NEW w \in Workers, NEW d \in Deliveries, Receive(w, d)
      PROVE  DeliveredInv'
  <2>1. /\ row' \in [Deliveries -> [status : Statuses, attempts : Nat]]
        /\ DeliveredMeansAccepted'
    <3>1. row[d].attempts + 1 \in Nat
        BY DEF DeliveryTypes
    <3> QED
        BY <1>3, <3>1, ExecKeeps DEF Receive, Statuses
  <2>2. [pc |-> "post", d |-> d, n |-> 0] \in WorkStates
      BY DEF WorkStates, WorkSteps
  <2> QED
      BY <1>3, <2>1, <2>2 DEF Receive, SetWork, DeliveryTypes
<1>4. ASSUME NEW w \in Workers, Post(w)
      PROVE  DeliveredInv'
  <2>1. work[w] \in [pc : WorkSteps, d : Deliveries, n : Nat]
      BY <1>4, BusyWorker DEF Post, Doing
  <2>2. PICK taken \in BOOLEAN, answered \in BOOLEAN :
            /\ accepted' = IF taken THEN accepted \cup {work[w].d} ELSE accepted
            /\ work' = [work EXCEPT ![w] = [work[w] EXCEPT
                          !.pc = IF taken /\ answered THEN "delivered" ELSE "failed"]]
      BY <1>4 DEF Post, SetWork
  <2>3. [work[w] EXCEPT !.pc = IF taken /\ answered THEN "delivered" ELSE "failed"]
            \in [pc : WorkSteps, d : Deliveries, n : Nat]
      BY <2>1 DEF WorkSteps
  <2>4. work' \in [Workers -> WorkStates]
      BY <2>2, <2>3 DEF DeliveryTypes, WorkStates
  <2>5. \A v \in Workers : work'[v].pc = "delivered" => work'[v].d \in accepted'
      BY <2>1, <2>2 DEF DeliveryTypes
  <2> QED
      BY <1>4, <2>2, <2>4, <2>5 DEF Post, DeliveryTypes, DeliveredMeansAccepted
<1>5. ASSUME NEW w \in Workers, MarkDelivered(w)
      PROVE  DeliveredInv'
  <2>1. work[w] \in [pc : WorkSteps, d : Deliveries, n : Nat]
      BY <1>5, BusyWorker DEF MarkDelivered, Doing
  <2>2. /\ row' \in [Deliveries -> [status : Statuses, attempts : Nat]]
        /\ DeliveredMeansAccepted'
    <3>1. row[work[w].d].attempts \in Nat
        BY <2>1 DEF DeliveryTypes
    <3>2. work[w].d \in accepted
        BY <1>5 DEF MarkDelivered, Doing
    <3> QED
        BY <1>5, <3>1, <3>2, ExecKeeps DEF MarkDelivered, Statuses
  <2> QED
      BY <1>5, <2>2 DEF MarkDelivered, SetWork, DeliveryTypes, WorkStates, NoWork
<1>6. ASSUME NEW w \in Workers, ReadAttempts(w)
      PROVE  DeliveredInv'
  <2>1. work[w] \in [pc : WorkSteps, d : Deliveries, n : Nat]
      BY <1>6, BusyWorker DEF ReadAttempts, Doing
  <2>2. PICK r \in WorkStates : work' = [work EXCEPT ![w] = r] /\ r.pc # "delivered"
    <3>1. [work[w] EXCEPT !.pc = "judge", !.n = row[work[w].d].attempts]
              \in [pc : WorkSteps, d : Deliveries, n : Nat]
        BY <2>1 DEF DeliveryTypes, WorkSteps
    <3>2. NoWork \in WorkStates /\ NoWork.pc # "delivered"
        BY DEF WorkStates, NoWork
    <3>3. [work[w] EXCEPT !.pc = "judge", !.n = row[work[w].d].attempts].pc = "judge"
        BY <2>1
    <3> QED
        BY <1>6, <3>1, <3>2, <3>3 DEF ReadAttempts, SetWork, WorkStates
  <2> QED
      BY <1>6, <2>2 DEF ReadAttempts, DeliveryTypes, DeliveredMeansAccepted
<1>7. ASSUME NEW w \in Workers, JudgeFailure(w)
      PROVE  DeliveredInv'
  <2>1. work[w] \in [pc : WorkSteps, d : Deliveries, n : Nat]
      BY <1>7, BusyWorker DEF JudgeFailure, Doing
  <2>2. row[work[w].d].attempts \in Nat
      BY <2>1 DEF DeliveryTypes
  <2>3. /\ row' \in [Deliveries -> [status : Statuses, attempts : Nat]]
        /\ DeliveredMeansAccepted'
      BY <1>7, <2>2, ExecKeeps DEF JudgeFailure, Statuses
  <2> QED
      BY <1>7, <2>3 DEF JudgeFailure, SetWork, DeliveryTypes, WorkStates, NoWork
<1>8. ASSUME NEW w \in Workers, Redeliver(w)
      PROVE  DeliveredInv'
    BY <1>8 DEF Redeliver, DeliveryTypes, DeliveredMeansAccepted
<1>9. CASE PollSelect \/ PollPublish
    BY <1>9 DEF PollSelect, PollPublish, DeliveryTypes, DeliveredMeansAccepted
<1>10. CASE PollMark
  <2>1. Head(poll.rows) \in Deliveries => row[Head(poll.rows)].attempts \in Nat
      BY DEF DeliveryTypes
  <2>2. /\ row' \in [Deliveries -> [status : Statuses, attempts : Nat]]
        /\ DeliveredMeansAccepted'
      BY <1>10, <2>1, ExecKeeps DEF PollMark, Statuses
  <2> QED
      BY <1>10, <2>2 DEF PollMark, DeliveryTypes
<1>11. ASSUME NEW d \in Deliveries, RetryReset(d)
       PROVE  DeliveredInv'
  <2>1. /\ row' \in [Deliveries -> [status : Statuses, attempts : Nat]]
        /\ DeliveredMeansAccepted'
      BY <1>11, ExecKeeps DEF RetryReset, Statuses
  <2> QED
      BY <1>11, <2>1 DEF RetryReset, DeliveryTypes
<1>12. CASE Crash
    BY <1>12 DEF Crash, DeliveryTypes, DeliveredMeansAccepted, WorkStates, NoWork
<1>13. CASE UNCHANGED webhookVars
    BY <1>13 DEF webhookVars, DeliveryTypes, DeliveredMeansAccepted
<1> QED
    BY <1>1, <1>2, <1>3, <1>4, <1>5, <1>6, <1>7, <1>8, <1>9, <1>10, <1>11, <1>12, <1>13
    DEF WebhookNext, WorkerStep, PollStep

\* A row says delivered only if the endpoint has taken the webhook, however
\* many workers, duplicate messages, lost updates, crashes and admins there
\* are (DeliverWebhook, PollRetries and RetryDLQ on one row).
THEOREM DeliveredIsAccepted == WebhookSpec => []DeliveredMeansAccepted
<1>1. DeliveredInv => DeliveredMeansAccepted
    BY DEF DeliveredInv
<1> QED
    BY DeliveredInit, DeliveredStep, <1>1, PTL DEF WebhookSpec

--------------------------------------------------------------------------------
(* The types *)

\* WebhookTypeOK is not inductive: that PollRetries never lists a row twice
\* comes from the list of rows that are due, which therefore has to be free of
\* repetitions; and its loop ends with its list.
WebhookTypes ==
    /\ DeliveryTypes
    /\ due \in Seq(Deliveries) /\ IsInjective(due)
    /\ queue \in [Deliveries -> Nat]
    /\ maker \in [Deliveries -> MakerSteps]
    /\ poll \in [pc : {"idle", "publish", "mark"}, rows : Seq(Deliveries)]
    /\ IsInjective(poll.rows) /\ (poll.pc = "idle" <=> poll.rows = <<>>)
    /\ admin \in [Deliveries -> [reset : Nat, publish : Nat]]
    /\ posts \in [Deliveries -> Nat]
    /\ accepted \in SUBSET Deliveries
    /\ left \in [TroubleKinds -> Nat]
    /\ \A kind \in TroubleKinds : left[kind] <= Budget[kind]

\* The inductive types give the type invariant.
LEMMA WebhookTypesSuffice == WebhookTypes => WebhookTypeOK
BY DEF WebhookTypes, WebhookTypeOK, DeliveryTypes

\* A new member goes to the end of the list.
LEMMA AppendNew ==
    ASSUME NEW T, NEW list \in Seq(T), IsInjective(list), NEW x \in T, x \notin ToSet(list)
    PROVE  Append(list, x) \in Seq(T) /\ IsInjective(Append(list, x))
<1> DEFINE new == Append(list, x)
           n == Len(list)
<1>1. /\ n \in Nat /\ DOMAIN list = 1..n
      /\ new \in Seq(T) /\ DOMAIN new = 1..(n + 1)
      /\ \A i \in 1..n : new[i] = list[i]
      /\ new[n + 1] = x
  OBVIOUS
<1>2. \A i \in 1..n : list[i] # x
  BY <1>1 DEF ToSet
<1>3. \A i \in 1..(n + 1) : i \in 1..n \/ i = n + 1
  BY <1>1
<1> HIDE DEF new, n
<1>4. IsInjective(new)
  BY <1>1, <1>2, <1>3 DEF IsInjective
<1>5. QED
  BY <1>1, <1>4 DEF new

\* Due or not, a row is listed once.
LEMMA DueLists ==
    ASSUME WebhookTypes, NEW d \in Deliveries
    PROVE  /\ NotDue(d) \in Seq(Deliveries) /\ IsInjective(NotDue(d))
           /\ DueNow(d) \in Seq(Deliveries) /\ IsInjective(DueNow(d))
<1>1. /\ NotDue(d) \in Seq(Deliveries) /\ IsInjective(NotDue(d))
      /\ d \notin ToSet(NotDue(d))
  BY AmongIsList DEF NotDue, WebhookTypes
<1>2. QED
  BY <1>1, AppendNew DEF DueNow

\* What PollRetries takes: rows that are retrying, each once
LEMMA SelectedIsList ==
    ASSUME WebhookTypes
    PROVE  /\ Selected \in Seq(Deliveries) /\ IsInjective(Selected)
           /\ \A d \in ToSet(Selected) : row[d].status = "retrying"
<1> DEFINE S == {d \in Deliveries : row[d].status = "retrying"}
           all == Among(due, S)
           k == IF Len(all) < PollLimit THEN Len(all) ELSE PollLimit
           some == SubSeq(all, 1, k)
<1>1. /\ all \in Seq(Deliveries) /\ IsInjective(all)
      /\ \A d \in ToSet(all) : d \in S
  <2> HIDE DEF S
  <2>1. QED
    BY AmongIsList DEF WebhookTypes
<1>2. Selected = some
  BY DEF Selected
<1>3. Len(all) \in Nat /\ k \in 0..Len(all)
  BY <1>1, WebhookAssumption
<1> HIDE DEF k, all
<1>4. /\ some \in Seq(Deliveries) /\ Len(some) = k
      /\ \A i \in 1..k : some[i] = all[i]
  <2>1. 1 \in 1..(Len(all) + 1) /\ k \in (1 - 1)..Len(all) /\ k - 1 + 1 = k
    BY <1>3
  <2>2. \A i \in 1..k : 1 + i - 1 = i
    BY <1>3
  <2>3. QED
    BY <1>1, <2>1, <2>2, SubSeqProperties
<1> HIDE DEF some
<1>5. DOMAIN some = 1..k /\ DOMAIN all = 1..Len(all) /\ 1..k \subseteq 1..Len(all)
  BY <1>1, <1>3, <1>4
<1>6. IsInjective(some) /\ \A d \in ToSet(some) : d \in ToSet(all)
  BY <1>1, <1>4, <1>5 DEF IsInjective, ToSet
<1>7. QED
  BY <1>1, <1>2, <1>4, <1>6

\* The rest of a list without repetitions
LEMMA TailIsList ==
    ASSUME NEW T, NEW list \in Seq(T), list # <<>>, IsInjective(list)
    PROVE  /\ Head(list) \in T /\ Head(list) \in ToSet(list)
           /\ Tail(list) \in Seq(T) /\ IsInjective(Tail(list))
           /\ ToSet(Tail(list)) = ToSet(list) \ {Head(list)}
<1> DEFINE n == Len(list)
           rest == Tail(list)
<1>1. n \in Nat \ {0} /\ DOMAIN list = 1..n /\ Head(list) = list[1] /\ list[1] \in T
  OBVIOUS
<1>2. rest \in Seq(T) /\ DOMAIN rest = 1..(n - 1) /\ \A i \in 1..(n - 1) : rest[i] = list[i + 1]
  OBVIOUS
<1>3. \A i \in 1..(n - 1) : i + 1 \in 1..n /\ i + 1 # 1
  BY <1>1
<1>4. \A i \in 1..n : i = 1 \/ (i - 1 \in 1..(n - 1) /\ (i - 1) + 1 = i)
  BY <1>1
<1>5. 1 \in 1..n
  BY <1>1
<1> HIDE DEF n, rest
<1>6. IsInjective(rest)
  <2>1. SUFFICES ASSUME NEW i \in 1..(n - 1), NEW j \in 1..(n - 1), rest[i] = rest[j]
                 PROVE  i = j
    BY <1>2 DEF IsInjective
  <2>2. i + 1 = j + 1
    BY <1>1, <1>2, <1>3, <2>1 DEF IsInjective
  <2>3. QED
    BY <1>1, <2>2
<1>7. ToSet(rest) = ToSet(list) \ {Head(list)}
  <2>1. \A x \in ToSet(rest) : x \in ToSet(list) /\ x # list[1]
    BY <1>1, <1>2, <1>3, <1>5 DEF ToSet, IsInjective
  <2>2. \A x \in ToSet(list) : x # list[1] => x \in ToSet(rest)
    <3>1. ASSUME NEW i \in 1..n, list[i] # list[1]
          PROVE  list[i] \in ToSet(rest)
      <4>1. i - 1 \in 1..(n - 1) /\ (i - 1) + 1 = i
        BY <1>4, <3>1
      <4>2. rest[i - 1] = list[i]
        BY <1>2, <4>1
      <4>3. QED
        BY <1>2, <4>1, <4>2 DEF ToSet
    <3>2. QED
      BY <1>1, <3>1 DEF ToSet
  <2>3. QED
    BY <1>1, <2>1, <2>2
<1>8. QED
  BY <1>1, <1>2, <1>5, <1>6, <1>7 DEF rest, ToSet

LEMMA WebhookSpendTypes ==
    ASSUME WebhookTypes, NEW kind \in TroubleKinds, Spend(kind)
    PROVE  /\ left' \in [TroubleKinds -> Nat]
           /\ \A k \in TroubleKinds : left'[k] <= Budget[k]
<1>1. /\ left \in [TroubleKinds -> Nat] /\ \A k \in TroubleKinds : left[k] <= Budget[k]
      /\ left' = [left EXCEPT ![kind] = left[kind] - 1] /\ left[kind] > 0
  BY DEF WebhookTypes, Spend
<1>2. Budget \in [TroubleKinds -> Nat]
  BY WebhookAssumption
<1>3. left[kind] - 1 \in Nat /\ left[kind] - 1 <= Budget[kind]
  <2>1. left[kind] \in Nat /\ left[kind] <= Budget[kind] /\ Budget[kind] \in Nat
    BY <1>1, <1>2
  <2>2. QED
    BY <1>1, <2>1
<1>4. left' \in [TroubleKinds -> Nat]
  BY <1>1, <1>3
<1>5. \A k \in TroubleKinds : left'[k] = IF k = kind THEN left[kind] - 1 ELSE left[k]
  BY <1>1
<1>6. QED
  BY <1>1, <1>3, <1>4, <1>5

\* What a discarded error can do to the list and the budget
LEMMA ExecTypes ==
    ASSUME WebhookTypes, NEW d, NEW status, NEW attempts,
           NEW due2 \in Seq(Deliveries), IsInjective(due2), Exec(d, status, attempts, due2)
    PROVE  /\ due' \in Seq(Deliveries) /\ IsInjective(due')
           /\ left' \in [TroubleKinds -> Nat]
           /\ \A k \in TroubleKinds : left'[k] <= Budget[k]
<1>1. CASE Spend("db") /\ UNCHANGED <<row, due>>
  <2>1. "db" \in TroubleKinds
    BY DEF TroubleKinds
  <2>2. QED
    BY <1>1, <2>1, WebhookSpendTypes DEF WebhookTypes
<1>2. CASE due' = due2 /\ UNCHANGED left
  BY <1>2 DEF WebhookTypes
<1>3. QED
  BY <1>1, <1>2 DEF Exec

LEMMA WebhookTypesInit == WebhookInit => WebhookTypes
<1> SUFFICES ASSUME WebhookInit PROVE WebhookTypes
  OBVIOUS
<1>1. DeliveryTypes
  BY DeliveredInit DEF DeliveredInv
<1>2. <<>> \in Seq(Deliveries) /\ IsInjective(<<>>)
  BY DEF IsInjective
<1>3. /\ queue \in [Deliveries -> Nat] /\ maker \in [Deliveries -> MakerSteps]
      /\ posts \in [Deliveries -> Nat] /\ accepted \in SUBSET Deliveries
      /\ admin \in [Deliveries -> [reset : Nat, publish : Nat]] /\ due = <<>>
  BY DEF WebhookInit, MakerSteps, NoAdmin
<1>4. /\ poll \in [pc : {"idle", "publish", "mark"}, rows : Seq(Deliveries)]
      /\ poll.rows = <<>> /\ poll.pc = "idle"
  BY <1>2 DEF WebhookInit, NoPoll
<1>5. left \in [TroubleKinds -> Nat] /\ \A kind \in TroubleKinds : left[kind] <= Budget[kind]
  BY WebhookAssumption DEF WebhookInit
<1>6. QED
  BY <1>1, <1>2, <1>3, <1>4, <1>5 DEF WebhookTypes

\* What is left of PollRetries' list
LEMMA PollNextTypes ==
    ASSUME WebhookTypes, NEW rows \in Seq(Deliveries), IsInjective(rows), poll' = PollNext(rows)
    PROVE  /\ poll' \in [pc : {"idle", "publish", "mark"}, rows : Seq(Deliveries)]
           /\ IsInjective(poll'.rows) /\ (poll'.pc = "idle" <=> poll'.rows = <<>>)
           /\ poll'.rows = rows /\ poll'.pc # "mark"
BY DEF PollNext, NoPoll

\* The statements of PollRetries
LEMMA PollTypes ==
    ASSUME WebhookTypes, PollStep
    PROVE  /\ poll' \in [pc : {"idle", "publish", "mark"}, rows : Seq(Deliveries)]
           /\ IsInjective(poll'.rows) /\ (poll'.pc = "idle" <=> poll'.rows = <<>>)
           /\ queue' \in [Deliveries -> Nat]
           /\ due' \in Seq(Deliveries) /\ IsInjective(due')
           /\ left' \in [TroubleKinds -> Nat]
           /\ \A k \in TroubleKinds : left'[k] <= Budget[k]
<1>0. /\ poll \in [pc : {"idle", "publish", "mark"}, rows : Seq(Deliveries)]
      /\ queue \in [Deliveries -> Nat]
      /\ poll.rows \in Seq(Deliveries) /\ IsInjective(poll.rows)
      /\ poll.pc # "idle" => poll.rows # <<>>
  BY DEF WebhookTypes
<1>1. poll.pc # "idle" => /\ Head(poll.rows) \in Deliveries
                          /\ Tail(poll.rows) \in Seq(Deliveries) /\ IsInjective(Tail(poll.rows))
  BY <1>0, TailIsList
<1>2. CASE PollSelect
  <2>1. poll' = [pc |-> "publish", rows |-> Selected] /\ Selected # <<>>
    BY <1>2 DEF PollSelect
  <2>2. Selected \in Seq(Deliveries) /\ IsInjective(Selected)
    BY SelectedIsList
  <2>3. QED
    <3>1. /\ due \in Seq(Deliveries) /\ IsInjective(due) /\ left \in [TroubleKinds -> Nat]
          /\ \A k \in TroubleKinds : left[k] <= Budget[k]
      BY DEF WebhookTypes
    <3>2. UNCHANGED <<queue, due, left>>
      BY <1>2 DEF PollSelect
    <3>3. /\ poll' \in [pc : {"idle", "publish", "mark"}, rows : Seq(Deliveries)]
          /\ poll'.rows = Selected /\ poll'.pc # "idle"
      BY <2>1, <2>2
    <3>4. QED
      BY <1>0, <2>1, <2>2, <3>1, <3>2, <3>3
<1>3. CASE PollPublish
  <2>1. poll.pc = "publish"
    BY <1>3 DEF PollPublish
  <2>2. CASE Enqueue(Head(poll.rows)) /\ poll' = [poll EXCEPT !.pc = "mark"] /\ UNCHANGED left
    <3>1. poll'.pc = "mark" /\ poll'.rows = poll.rows
          /\ poll' \in [pc : {"idle", "publish", "mark"}, rows : Seq(Deliveries)]
      BY <1>0, <2>2
    <3>2. queue' \in [Deliveries -> Nat]
      BY <1>0, <1>1, <2>1, <2>2 DEF Enqueue
    <3>3. QED
      BY <1>0, <1>3, <2>1, <2>2, <3>1, <3>2 DEF PollPublish, WebhookTypes
  <2>3. CASE Spend("pubsub") /\ poll' = PollNext(Tail(poll.rows)) /\ UNCHANGED queue
    <3>1. "pubsub" \in TroubleKinds
      BY DEF TroubleKinds
    <3>2. /\ left' \in [TroubleKinds -> Nat]
          /\ \A k \in TroubleKinds : left'[k] <= Budget[k]
      BY <2>3, <3>1, WebhookSpendTypes
    <3>3. QED
      BY <1>0, <1>1, <1>3, <2>1, <2>3, <3>2, PollNextTypes DEF PollPublish, WebhookTypes
  <2>4. QED
    BY <1>3, <2>2, <2>3 DEF PollPublish
<1>4. CASE PollMark
  <2>1. poll.pc = "mark" /\ poll' = PollNext(Tail(poll.rows)) /\ queue' = queue
    BY <1>4 DEF PollMark
  <2>2. Exec(Head(poll.rows), "pending", row[Head(poll.rows)].attempts, due)
    BY <1>4 DEF PollMark
  <2>3. /\ due' \in Seq(Deliveries) /\ IsInjective(due')
        /\ left' \in [TroubleKinds -> Nat]
        /\ \A k \in TroubleKinds : left'[k] <= Budget[k]
    BY <2>2, ExecTypes DEF WebhookTypes
  <2>4. QED
    BY <1>0, <1>1, <2>1, <2>3, PollNextTypes
<1>5. QED
  BY <1>2, <1>3, <1>4 DEF PollStep

\* A worker's, a maker's and an admin's steps
LEMMA WebhookTypesStep == WebhookTypes /\ DeliveredInv /\ [WebhookNext]_webhookVars => WebhookTypes'
<1> SUFFICES ASSUME WebhookTypes, DeliveredInv, [WebhookNext]_webhookVars
             PROVE  WebhookTypes'
  OBVIOUS
<1>0. DeliveryTypes'
  BY DeliveredStep DEF DeliveredInv
<1>t. /\ due \in Seq(Deliveries) /\ IsInjective(due)
      /\ queue \in [Deliveries -> Nat] /\ maker \in [Deliveries -> MakerSteps]
      /\ posts \in [Deliveries -> Nat] /\ accepted \in SUBSET Deliveries
      /\ admin \in [Deliveries -> [reset : Nat, publish : Nat]]
      /\ left \in [TroubleKinds -> Nat] /\ \A kind \in TroubleKinds : left[kind] <= Budget[kind]
  BY DEF WebhookTypes
<1>k. {"dup", "crash", "db", "pubsub", "admin"} = TroubleKinds
  BY DEF TroubleKinds
<1>1. ASSUME NEW d \in Deliveries, Insert(d)
      PROVE  WebhookTypes'
  <2>1. due' \in Seq(Deliveries) /\ IsInjective(due')
    BY <1>1, DueLists DEF Insert
  <2>2. maker' \in [Deliveries -> MakerSteps]
    BY <1>1, <1>t DEF Insert, MakerSteps
  <2>3. QED
    BY <1>0, <1>1, <1>t, <2>1, <2>2 DEF Insert, WebhookTypes
<1>2. ASSUME NEW d \in Deliveries, Publish(d)
      PROVE  WebhookTypes'
  <2>1. maker' \in [Deliveries -> MakerSteps]
    BY <1>2, <1>t DEF Publish, MakerSteps
  <2>2. queue' \in [Deliveries -> Nat]
    <3>1. queue' = [queue EXCEPT ![d] = queue[d] + 1] \/ queue' = queue
      BY <1>2 DEF Publish, Enqueue
    <3>2. queue \in [Deliveries -> Nat]
      BY <1>t
    <3>3. QED
      BY <3>1, <3>2
  <2>3. /\ left' \in [TroubleKinds -> Nat]
        /\ \A k \in TroubleKinds : left'[k] <= Budget[k]
    BY <1>2, <1>t, <1>k, WebhookSpendTypes DEF Publish
  <2>4. QED
    BY <1>0, <1>2, <1>t, <2>1, <2>2, <2>3 DEF Publish, WebhookTypes
<1>3. ASSUME NEW d \in Deliveries, RetryCheck(d)
      PROVE  WebhookTypes'
  <2>1. /\ left' \in [TroubleKinds -> Nat]
        /\ \A k \in TroubleKinds : left'[k] <= Budget[k]
    BY <1>3, <1>k, WebhookSpendTypes DEF RetryCheck
  <2>2. admin' \in [Deliveries -> [reset : Nat, publish : Nat]]
    <3>1. admin \in [Deliveries -> [reset : Nat, publish : Nat]]
      BY <1>t
    <3>2. admin' = [admin EXCEPT ![d].reset = @ + 1]
      BY <1>3 DEF RetryCheck
    <3>3. QED
      BY <3>1, <3>2
  <2>3. QED
    BY <1>0, <1>3, <1>t, <2>1, <2>2 DEF RetryCheck, WebhookTypes
<1>4. ASSUME NEW d \in Deliveries, RetryTimeComes(d)
      PROVE  WebhookTypes'
  <2>1. due' \in Seq(Deliveries) /\ IsInjective(due')
    BY <1>4, <1>t, AppendNew DEF RetryTimeComes
  <2>2. QED
    BY <1>0, <1>4, <1>t, <2>1 DEF RetryTimeComes, WebhookTypes
<1>5. ASSUME NEW w \in Workers, NEW d \in Deliveries, Receive(w, d)
      PROVE  WebhookTypes'
  <2>1. queue' \in [Deliveries -> Nat]
    <3>1. queue[d] - 1 \in Nat
      BY <1>5, <1>t DEF Receive
    <3>2. QED
      BY <1>5, <1>t, <3>1 DEF Receive
  <2>2. Exec(d, "delivering", row[d].attempts + 1, due)
    BY <1>5 DEF Receive
  <2>3. /\ due' \in Seq(Deliveries) /\ IsInjective(due')
        /\ left' \in [TroubleKinds -> Nat]
        /\ \A k \in TroubleKinds : left'[k] <= Budget[k]
    BY <1>t, <2>2, ExecTypes
  <2>4. QED
    BY <1>0, <1>5, <1>t, <2>1, <2>3 DEF Receive, WebhookTypes
<1>6. ASSUME NEW w \in Workers, Post(w)
      PROVE  WebhookTypes'
  <2>1. work[w].d \in Deliveries
    BY <1>6, BusyWorker DEF Post, Doing, DeliveredInv
  <2>2. posts' \in [Deliveries -> Nat] /\ accepted' \in SUBSET Deliveries
    BY <1>6, <1>t, <2>1 DEF Post
  <2>3. QED
    BY <1>0, <1>6, <1>t, <2>2 DEF Post, WebhookTypes
<1>7. ASSUME NEW w \in Workers, MarkDelivered(w)
      PROVE  WebhookTypes'
  <2>1. Exec(work[w].d, "delivered", row[work[w].d].attempts, due)
    BY <1>7 DEF MarkDelivered
  <2>2. /\ due' \in Seq(Deliveries) /\ IsInjective(due')
        /\ left' \in [TroubleKinds -> Nat]
        /\ \A k \in TroubleKinds : left'[k] <= Budget[k]
    BY <1>t, <2>1, ExecTypes
  <2>3. QED
    BY <1>0, <1>7, <1>t, <2>2 DEF MarkDelivered, WebhookTypes
<1>8. ASSUME NEW w \in Workers, ReadAttempts(w)
      PROVE  WebhookTypes'
  <2>1. /\ left' \in [TroubleKinds -> Nat]
        /\ \A k \in TroubleKinds : left'[k] <= Budget[k]
    BY <1>8, <1>t, <1>k, WebhookSpendTypes DEF ReadAttempts
  <2>2. QED
    BY <1>0, <1>8, <1>t, <2>1 DEF ReadAttempts, WebhookTypes
<1>9. ASSUME NEW w \in Workers, JudgeFailure(w)
      PROVE  WebhookTypes'
  <2>1. work[w].d \in Deliveries
    BY <1>9, BusyWorker DEF JudgeFailure, Doing, DeliveredInv
  <2>2. /\ due' \in Seq(Deliveries) /\ IsInjective(due')
        /\ left' \in [TroubleKinds -> Nat]
        /\ \A k \in TroubleKinds : left'[k] <= Budget[k]
    BY <1>9, <1>t, <2>1, ExecTypes, DueLists DEF JudgeFailure
  <2>3. QED
    BY <1>0, <1>9, <1>t, <2>2 DEF JudgeFailure, WebhookTypes
<1>10. ASSUME NEW w \in Workers, Redeliver(w)
       PROVE  WebhookTypes'
  <2>1. work[w].d \in Deliveries
    BY <1>10, BusyWorker DEF Redeliver, Doing, DeliveredInv
  <2>2. queue' \in [Deliveries -> Nat]
    BY <1>10, <1>t, <2>1 DEF Redeliver, Enqueue
  <2>3. /\ left' \in [TroubleKinds -> Nat]
        /\ \A k \in TroubleKinds : left'[k] <= Budget[k]
    BY <1>10, <1>k, WebhookSpendTypes DEF Redeliver
  <2>4. QED
    BY <1>0, <1>10, <1>t, <2>2, <2>3 DEF Redeliver, WebhookTypes
<1>11. CASE PollStep
  <2>1. UNCHANGED <<maker, admin, posts, accepted>>
    BY <1>11 DEF PollStep, PollSelect, PollPublish, PollMark
  <2>2. QED
    BY <1>0, <1>11, <1>t, <2>1, PollTypes DEF WebhookTypes
<1>12. ASSUME NEW d \in Deliveries, RetryReset(d)
       PROVE  WebhookTypes'
  <2>1. Exec(d, "pending", 0, DueNow(d))
    BY <1>12 DEF RetryReset
  <2>2. /\ due' \in Seq(Deliveries) /\ IsInjective(due')
        /\ left' \in [TroubleKinds -> Nat]
        /\ \A k \in TroubleKinds : left'[k] <= Budget[k]
    BY <1>t, <2>1, ExecTypes, DueLists
  <2>3. admin' \in [Deliveries -> [reset : Nat, publish : Nat]]
    <3>1. /\ admin[d] \in [reset : Nat, publish : Nat] /\ admin[d].reset > 0
          /\ admin' = [admin EXCEPT ![d].reset = @ - 1, ![d].publish = @ + 1]
      BY <1>12, <1>t DEF RetryReset
    <3>2. QED
      BY <1>t, <3>1
  <2>4. QED
    BY <1>0, <1>12, <1>t, <2>2, <2>3 DEF RetryReset, WebhookTypes
<1>13. ASSUME NEW d \in Deliveries, RetryPublish(d)
       PROVE  WebhookTypes'
  <2>1. admin' \in [Deliveries -> [reset : Nat, publish : Nat]]
    <3>1. admin \in [Deliveries -> [reset : Nat, publish : Nat]]
      BY <1>t
    <3>2. admin' = [admin EXCEPT ![d].publish = @ - 1] /\ admin[d].publish > 0
      BY <1>13 DEF RetryPublish
    <3>3. QED
      BY <3>1, <3>2
  <2>2. queue' \in [Deliveries -> Nat]
    <3>1. queue' = [queue EXCEPT ![d] = queue[d] + 1] \/ queue' = queue
      BY <1>13 DEF RetryPublish, Enqueue
    <3>2. queue \in [Deliveries -> Nat]
      BY <1>t
    <3>3. QED
      BY <3>1, <3>2
  <2>3. /\ left' \in [TroubleKinds -> Nat]
        /\ \A k \in TroubleKinds : left'[k] <= Budget[k]
    BY <1>13, <1>t, <1>k, WebhookSpendTypes DEF RetryPublish
  <2>4. QED
    BY <1>0, <1>13, <1>t, <2>1, <2>2, <2>3 DEF RetryPublish, WebhookTypes
<1>14. CASE Crash
  <2>1. queue' \in [Deliveries -> Nat]
    <3> DEFINE InHand(d) == {w \in Workers : ~Doing(w, "idle") /\ work[w].d = d}
    <3>1. ASSUME NEW d \in Deliveries
          PROVE  Cardinality(InHand(d)) \in Nat
      <4>1. InHand(d) \in SUBSET Workers
        OBVIOUS
      <4> HIDE DEF InHand
      <4>2. QED
        BY <4>1, WebhookAssumption, FS_Subset, FS_CardinalityType
    <3>2. queue' = [d \in Deliveries |-> queue[d] + Cardinality(InHand(d))]
      BY <1>14 DEF Crash
    <3> HIDE DEF InHand
    <3>3. QED
      BY <1>t, <3>1, <3>2
  <2>2. maker' \in [Deliveries -> MakerSteps]
    BY <1>14, <1>t DEF Crash, MakerSteps
  <2>3. /\ left' \in [TroubleKinds -> Nat]
        /\ \A k \in TroubleKinds : left'[k] <= Budget[k]
    BY <1>14, <1>k, WebhookSpendTypes DEF Crash
  <2>4. /\ poll' \in [pc : {"idle", "publish", "mark"}, rows : Seq(Deliveries)]
        /\ IsInjective(poll'.rows) /\ (poll'.pc = "idle" <=> poll'.rows = <<>>)
    <3>1. <<>> \in Seq(Deliveries) /\ IsInjective(<<>>)
      BY DEF IsInjective
    <3>2. poll'.rows = <<>> /\ poll'.pc = "idle" /\ poll' = [pc |-> "idle", rows |-> <<>>]
      BY <1>14 DEF Crash, NoPoll
    <3>3. QED
      BY <3>1, <3>2
  <2>5. admin' \in [Deliveries -> [reset : Nat, publish : Nat]]
    BY <1>14 DEF Crash, NoAdmin
  <2>6. QED
    BY <1>0, <1>14, <1>t, <2>1, <2>2, <2>3, <2>4, <2>5 DEF Crash, WebhookTypes
<1>15. CASE UNCHANGED webhookVars
  BY <1>0, <1>15 DEF webhookVars, WebhookTypes
<1>16. QED
  BY <1>1, <1>2, <1>3, <1>4, <1>5, <1>6, <1>7, <1>8, <1>9, <1>10, <1>11, <1>12, <1>13, <1>14, <1>15
     DEF WebhookNext, WorkerStep

LEMMA WebhookTypesAlways == WebhookSpec => [](WebhookTypes /\ DeliveredInv)
BY WebhookTypesInit, WebhookTypesStep, DeliveredInit, DeliveredStep, PTL DEF WebhookSpec

\* Every variable keeps its type; in particular no row is listed twice among
\* those that are due, however often workers and admins put it there.
THEOREM WebhookTypeCorrect == WebhookSpec => []WebhookTypeOK
BY WebhookTypesAlways, WebhookTypesSuffice, PTL

--------------------------------------------------------------------------------
(* Who is working on a delivery *)

\* A worker in state r has delivery d in hand.
On(r, d) == r.pc # "idle" /\ r.d = d

Retries == Len(RetryIntervals)

\* A worker in state r will find another retry in the schedule, should its
\* POST fail, where the row counts n attempts.
Hope(r, n) ==
    \/ r.pc \in {"post", "failed"} /\ n <= Retries
    \/ r.pc = "judge" /\ r.n \in 1..Retries

Busy(d) == {w \in Workers : On(work[w], d)}
Posting(d) == {w \in Workers : Doing(w, "post") /\ work[w].d = d}
Hopeful(d) == {w \in Workers : On(work[w], d) /\ Hope(work[w], row[d].attempts)}

nBusy(d) == Cardinality(Busy(d))
nPosting(d) == Cardinality(Posting(d))
nHopeful(d) == Cardinality(Hopeful(d))

LEMMA WorkersCounted ==
    ASSUME NEW S \in SUBSET Workers
    PROVE  /\ IsFiniteSet(S) /\ Cardinality(S) \in Nat
           /\ Cardinality(S) <= Cardinality(Workers)
           /\ Cardinality(S) = 0 <=> S = {}
           /\ Cardinality(S) = Cardinality(Workers) => S = Workers
           /\ \A w \in Workers : w \notin S => Cardinality(S \cup {w}) = Cardinality(S) + 1
           /\ \A w \in S : Cardinality(S \ {w}) = Cardinality(S) - 1
           /\ \A T \in SUBSET S : Cardinality(T) <= Cardinality(S)
<1>1. IsFiniteSet(Workers) /\ IsFiniteSet(S)
  BY WebhookAssumption, FS_Subset
<1>2. Cardinality(S) \in Nat /\ Cardinality(S) <= Cardinality(Workers)
  BY <1>1, FS_CardinalityType, FS_Subset
<1>3. Cardinality(S) = 0 <=> S = {}
  BY <1>1, FS_EmptySet
<1>4. Cardinality(S) = Cardinality(Workers) => S = Workers
  BY <1>1, FS_Subset
<1>5. \A w \in Workers : w \notin S => Cardinality(S \cup {w}) = Cardinality(S) + 1
  BY <1>1, FS_AddElement
<1>6. \A w \in S : Cardinality(S \ {w}) = Cardinality(S) - 1
  BY <1>1, FS_RemoveElement
<1>7. \A T \in SUBSET S : Cardinality(T) <= Cardinality(S)
  BY <1>1, FS_Subset
<1>8. QED
  BY <1>1, <1>2, <1>3, <1>4, <1>5, <1>6, <1>7

LEMMA TeamsAreNumbers ==
    \A d \in Deliveries : nBusy(d) \in Nat /\ nPosting(d) \in Nat /\ nHopeful(d) \in Nat /\ nBusy(d) <= Cardinality(Workers)
<1>1. \A d \in Deliveries : /\ Busy(d) \in SUBSET Workers
                            /\ Posting(d) \in SUBSET Workers /\ Hopeful(d) \in SUBSET Workers
  BY DEF Busy, Posting, Hopeful
<1>2. QED
  BY <1>1, WorkersCounted DEF nBusy, nPosting, nHopeful

LEMMA TeamsAreNumbersNext ==
    \A d \in Deliveries : nBusy(d)' \in Nat /\ nPosting(d)' \in Nat /\ nHopeful(d)' \in Nat
<1>1. \A d \in Deliveries : /\ Busy(d)' \in SUBSET Workers
                            /\ Posting(d)' \in SUBSET Workers /\ Hopeful(d)' \in SUBSET Workers
  BY DEF Busy, Posting, Hopeful
<1>2. QED
  BY <1>1, WorkersCounted DEF nBusy, nPosting, nHopeful

\* The teams of d, as far as they do not change
Untouched(d) ==
    /\ row'[d].attempts = row[d].attempts
    /\ \A v \in Workers : On(work[v], d) \/ On(work'[v], d) => work'[v] = work[v]

LEMMA UntouchedTeams ==
    ASSUME NEW d, Untouched(d)
    PROVE  Busy(d)' = Busy(d) /\ Posting(d)' = Posting(d) /\ Hopeful(d)' = Hopeful(d)
<1>1. Busy(d)' = Busy(d)
  BY DEF Untouched, Busy
<1>2. \A v \in Workers : Doing(v, "post") /\ work[v].d = d => On(work[v], d)
  BY DEF Doing, On
<1>3. \A v \in Workers : (Doing(v, "post") /\ work[v].d = d)' => On(work'[v], d)
  BY DEF Doing, On
<1>4. Posting(d)' = Posting(d)
  BY <1>2, <1>3 DEF Untouched, Posting, Doing
<1>5. Hopeful(d)' = Hopeful(d)
  BY DEF Untouched, Hopeful
<1>6. QED
  BY <1>1, <1>4, <1>5

\* A worker takes a message of d.
LEMMA Joins ==
    ASSUME WebhookTypes, NEW w \in Workers, NEW d \in Deliveries, work[w].pc = "idle",
           work' = [work EXCEPT ![w] = [pc |-> "post", d |-> d, n |-> 0]],
           row'[d].attempts \in {row[d].attempts, row[d].attempts + 1}
    PROVE  /\ nBusy(d)' = nBusy(d) + 1
           /\ nPosting(d)' = nPosting(d) + 1
           /\ nHopeful(d)' <= nHopeful(d) + 1
           /\ row'[d].attempts > Retries => nHopeful(d)' <= nHopeful(d)
           /\ \A e \in Deliveries \ {d} : row'[e] = row[e] => Untouched(e)
<1> DEFINE r == [pc |-> "post", d |-> d, n |-> 0]
<1>1. /\ work'[w] = r /\ \A v \in Workers \ {w} : work'[v] = work[v]
  BY DEF WebhookTypes, DeliveryTypes
<1>2. r.pc = "post" /\ r.d = d
  OBVIOUS
<1> HIDE DEF r
<1>3. w \notin Busy(d) /\ w \notin Posting(d)
  BY DEF Busy, Posting, On, Doing
<1>4. Busy(d)' = Busy(d) \cup {w}
  BY <1>1, <1>2 DEF Busy, On
<1>5. Posting(d)' = Posting(d) \cup {w}
  BY <1>1, <1>2 DEF Posting, Doing
<1>6. Busy(d) \in SUBSET Workers /\ Posting(d) \in SUBSET Workers
  BY DEF Busy, Posting
<1>7. nBusy(d)' = nBusy(d) + 1 /\ nPosting(d)' = nPosting(d) + 1
  BY <1>3, <1>4, <1>5, <1>6, WorkersCounted DEF nBusy, nPosting
<1>8. \A e \in Deliveries \ {d} : row'[e] = row[e] => Untouched(e)
  BY <1>1, <1>2 DEF Untouched, On
<1>9. /\ Hopeful(d)' \subseteq Hopeful(d) \cup {w}
      /\ row'[d].attempts > Retries => Hopeful(d)' \subseteq Hopeful(d)
  <2>1. row[d].attempts \in Nat /\ Retries \in Nat
    BY WebhookAssumption DEF WebhookTypes, DeliveryTypes, Retries
  <2>2. row'[d].attempts >= row[d].attempts /\ row'[d].attempts \in Nat
    BY <2>1
  <2>3. \A v \in Workers \ {w} : Hope(work'[v], row'[d].attempts) => Hope(work[v], row[d].attempts)
    BY <1>1, <2>1, <2>2 DEF Hope
  <2>4. Hopeful(d)' \subseteq Hopeful(d) \cup {w}
    BY <1>1, <2>3 DEF Hopeful
  <2>5. row'[d].attempts > Retries => ~Hope(work'[w], row'[d].attempts)
    BY <1>1, <1>2, <2>1, <2>2 DEF Hope
  <2>6. row'[d].attempts > Retries => Hopeful(d)' \subseteq Hopeful(d)
    BY <2>4, <2>5 DEF Hopeful
  <2>7. QED
    BY <2>4, <2>6
<1>10. nHopeful(d)' <= nHopeful(d) + 1 /\ (row'[d].attempts > Retries => nHopeful(d)' <= nHopeful(d))
  <2>1. Hopeful(d) \in SUBSET Workers /\ Hopeful(d) \cup {w} \in SUBSET Workers
    BY DEF Hopeful
  <2>2. nHopeful(d) \in Nat /\ Cardinality(Hopeful(d) \cup {w}) <= nHopeful(d) + 1
    <3>1. CASE w \in Hopeful(d)
      <4>1. Hopeful(d) \cup {w} = Hopeful(d)
        BY <3>1
      <4>2. nHopeful(d) \in Nat
        BY <2>1, WorkersCounted DEF nHopeful
      <4>3. QED
        BY <4>1, <4>2 DEF nHopeful
    <3>2. CASE w \notin Hopeful(d)
      BY <2>1, <3>2, WorkersCounted DEF nHopeful
    <3>3. QED
      BY <3>1, <3>2
  <2>3. /\ nHopeful(d)' <= Cardinality(Hopeful(d) \cup {w}) /\ nHopeful(d)' \in Nat
        /\ Cardinality(Hopeful(d) \cup {w}) \in Nat
    <3>1. Hopeful(d)' \in SUBSET (Hopeful(d) \cup {w}) /\ Hopeful(d)' \in SUBSET Workers
      BY <1>9, <2>1
    <3>2. QED
      BY <2>1, <3>1, WorkersCounted DEF nHopeful
  <2>4. row'[d].attempts > Retries => nHopeful(d)' <= nHopeful(d)
    BY <1>9, <2>1, WorkersCounted DEF nHopeful
  <2>5. QED
    BY <2>2, <2>3, <2>4
<1>11. QED
  BY <1>7, <1>8, <1>10

\* The status says that a retry waits, yet every worker has the delivery in
\* hand and none of them will write another one.
Stuck(d) ==
    IF row[d].status = "retrying" /\ Busy(d) = Workers /\ Hopeful(d) = {} THEN 1 ELSE 0

\* A worker goes on with d.
LEMMA MovesOn ==
    ASSUME WebhookTypes, NEW w \in Workers, NEW d \in Deliveries, On(work[w], d),
           NEW r, On(r, d), r.pc # "post", work' = [work EXCEPT ![w] = r], row' = row,
           Hope(r, row[d].attempts) => Hope(work[w], row[d].attempts)
    PROVE  /\ nBusy(d)' = nBusy(d)
           /\ nPosting(d)' = nPosting(d) - (IF work[w].pc = "post" THEN 1 ELSE 0)
           /\ nHopeful(d)' + Stuck(d)' <= nHopeful(d) + Stuck(d)
           /\ \A e \in Deliveries \ {d} : Untouched(e)
<1>1. work'[w] = r /\ \A v \in Workers \ {w} : work'[v] = work[v]
  BY DEF WebhookTypes, DeliveryTypes
<1>2. Busy(d)' = Busy(d)
  BY <1>1 DEF Busy
<1>3. nBusy(d)' = nBusy(d)
  BY <1>2 DEF nBusy
<1>4. nPosting(d)' = nPosting(d) - (IF work[w].pc = "post" THEN 1 ELSE 0)
  <2>1. Posting(d) \in SUBSET Workers /\ Posting(d)' = Posting(d) \ {w}
    BY <1>1 DEF Posting, Doing
  <2>2. w \in Posting(d) <=> work[w].pc = "post"
    BY DEF Posting, Doing, On
  <2>3. nPosting(d) \in Nat
    BY TeamsAreNumbers
  <2>4. CASE work[w].pc = "post"
    BY <2>1, <2>2, <2>3, <2>4, WorkersCounted DEF nPosting
  <2>5. CASE work[w].pc # "post"
    <3>1. Posting(d)' = Posting(d)
      BY <2>1, <2>2, <2>5
    <3>2. nPosting(d)' = nPosting(d)
      BY <3>1 DEF nPosting
    <3>3. QED
      BY <2>3, <2>5, <3>2
  <2>6. QED
    BY <2>4, <2>5
<1>5. nHopeful(d)' + Stuck(d)' <= nHopeful(d) + Stuck(d)
  <2>1. Hopeful(d)' \in SUBSET Hopeful(d) /\ Hopeful(d) \in SUBSET Workers
    BY <1>1 DEF Hopeful
  <2>2. /\ nHopeful(d) \in Nat /\ nHopeful(d)' \in Nat /\ nHopeful(d)' <= nHopeful(d)
        /\ Hopeful(d)' = {} <=> nHopeful(d)' = 0
        /\ Hopeful(d) = {} <=> nHopeful(d) = 0
    <3>1. Hopeful(d)' \in SUBSET Workers
      BY <2>1
    <3>2. QED
      BY <2>1, <3>1, WorkersCounted DEF nHopeful
  <2>3. /\ Stuck(d) \in {0, 1} /\ Stuck(d)' \in {0, 1}
        /\ Stuck(d)' = 1 => Stuck(d) = 1 \/ Hopeful(d) # {}
        /\ Stuck(d)' = 1 => Hopeful(d)' = {}
    BY <1>2 DEF Stuck
  <2>4. QED
    BY <2>2, <2>3
<1>6. \A e \in Deliveries \ {d} : Untouched(e)
  BY <1>1 DEF Untouched, On
<1>7. QED
  BY <1>3, <1>4, <1>5, <1>6

\* A worker is done with d.
LEMMA Leaves ==
    ASSUME WebhookTypes, NEW w \in Workers, NEW d \in Deliveries, On(work[w], d),
           work[w].pc # "post", work' = [work EXCEPT ![w] = NoWork],
           row'[d].attempts = row[d].attempts
    PROVE  /\ nBusy(d)' = nBusy(d) - 1 /\ nBusy(d) >= 1
           /\ nPosting(d)' = nPosting(d)
           /\ nHopeful(d)' <= nHopeful(d)
           /\ Hope(work[w], row[d].attempts) => nHopeful(d)' = nHopeful(d) - 1
           /\ Stuck(d)' = 0
           /\ \A e \in Deliveries \ {d} : row'[e] = row[e] => Untouched(e)
<1>1. work'[w] = NoWork /\ \A v \in Workers \ {w} : work'[v] = work[v]
  BY DEF WebhookTypes, DeliveryTypes
<1>2. NoWork.pc = "idle"
  BY DEF NoWork
<1>3. /\ Busy(d) \in SUBSET Workers /\ w \in Busy(d)
      /\ Busy(d)' = Busy(d) \ {w} /\ w \notin Busy(d)'
  BY <1>1, <1>2 DEF Busy, On
<1>4. nBusy(d)' = nBusy(d) - 1 /\ nBusy(d) \in Nat /\ nBusy(d) # 0
  BY <1>3, WorkersCounted DEF nBusy
<1>5. Posting(d)' = Posting(d)
  BY <1>1, <1>2 DEF Posting, Doing
<1>6. nPosting(d)' = nPosting(d)
  BY <1>5 DEF nPosting
<1>7. Hopeful(d) \in SUBSET Workers /\ Hopeful(d)' = Hopeful(d) \ {w}
  BY <1>1, <1>2 DEF Hopeful, On
<1>8. nHopeful(d)' <= nHopeful(d)
  BY <1>7, WorkersCounted DEF nHopeful
<1>9. ASSUME Hope(work[w], row[d].attempts)
      PROVE  nHopeful(d)' = nHopeful(d) - 1
  <2>1. w \in Hopeful(d)
    BY <1>9 DEF Hopeful
  <2>2. QED
    BY <1>7, <2>1, WorkersCounted DEF nHopeful
<1>10. Stuck(d)' = 0
  BY <1>3 DEF Stuck
<1>11. \A e \in Deliveries \ {d} : row'[e] = row[e] => Untouched(e)
  BY <1>1, <1>2 DEF Untouched, On
<1>12. QED
  BY <1>4, <1>6, <1>8, <1>9, <1>10, <1>11

--------------------------------------------------------------------------------
(* The account of a delivery: what keeps it going, and what it can still send *)

\* One, as long as the maker has a message to publish
Making(d) == IF maker[d] # "done" THEN 1 ELSE 0

\* PollRetries has published d and has not marked it yet; it will publish d.
Marking(d) == poll.pc = "mark" /\ Head(poll.rows) = d
ToPublish(d) == d \in ToSet(IF poll.pc = "mark" THEN Tail(poll.rows) ELSE poll.rows)

\* A retry waits for PollRetries: one that has been published counts as the
\* message it became, not as the status that is about to be overwritten.
RetryWaits(d) == ToPublish(d) \/ (row[d].status = "retrying" /\ ~Marking(d))
Waiting(d) == IF RetryWaits(d) THEN 1 ELSE 0

\* The requests RetryDLQ is at work on, and those that have not reset the
\* count yet
Resets(d) == admin[d].reset
Resetting(d) == Resets(d) > 0
Asked(d) == admin[d].reset + admin[d].publish

\* A delivery in the dead-letter queue that an admin may still take up
Dead(d) == IF row[d].status = "dlq" /\ ~Resetting(d) THEN 1 ELSE 0

\* Retries of the schedule that have not been started
Fresh(d) == IF row[d].attempts < Retries THEN Retries - row[d].attempts ELSE 0

\* What can lead to further POSTs: every message, worker, row or admin is
\* turned into at most one other.
Threads(d) == Making(d) + queue[d] + nBusy(d) + Waiting(d) + Asked(d) + Dead(d)

\* The POSTs sent and those that what is under way may still lead to
Chances(d) ==
    posts[d] + queue[d] + nPosting(d) + nHopeful(d) + Making(d) + Waiting(d) + Asked(d)
        + Fresh(d) + Stuck(d)

\* A step adds no more than k to the account of d.
Quiet(k, d) ==
    /\ Threads(d)' <= Threads(d) + k
    /\ Chances(d)' <= Chances(d) + k
    /\ Resets(d)' <= Resets(d)

\* All parts of the account are numbers.
Numeric(d) ==
    /\ Making(d) \in {0, 1} /\ Waiting(d) \in {0, 1} /\ Asked(d) \in Nat /\ Dead(d) \in {0, 1}
    /\ Resets(d) \in Nat /\ Stuck(d) \in {0, 1} /\ queue[d] \in Nat /\ posts[d] \in Nat /\ row[d].attempts \in Nat
    /\ nBusy(d) \in Nat /\ nPosting(d) \in Nat /\ nHopeful(d) \in Nat
    /\ Fresh(d) \in Nat /\ Retries \in Nat

LEMMA AccountNumbers == WebhookTypes => \A d \in Deliveries : Numeric(d)
<1> SUFFICES ASSUME WebhookTypes, NEW d \in Deliveries PROVE Numeric(d)
  OBVIOUS
<1>1. /\ Making(d) \in {0, 1} /\ Waiting(d) \in {0, 1} /\ Dead(d) \in {0, 1}
      /\ Stuck(d) \in {0, 1}
  BY DEF Making, Waiting, Dead, Stuck
<1>2. queue[d] \in Nat /\ posts[d] \in Nat /\ row[d].attempts \in Nat /\ Retries \in Nat
  BY WebhookAssumption DEF WebhookTypes, DeliveryTypes, Retries
<1>3. Fresh(d) \in Nat
  BY <1>2 DEF Fresh
<1>4. Asked(d) \in Nat /\ Resets(d) \in Nat
  BY DEF WebhookTypes, Asked, Resets
<1>5. QED
  BY <1>1, <1>2, <1>3, <1>4, TeamsAreNumbers DEF Numeric

LEMMA AccountNumbersNext == WebhookTypes' => \A d \in Deliveries : Numeric(d)'
<1> SUFFICES ASSUME WebhookTypes', NEW d \in Deliveries PROVE Numeric(d)'
  OBVIOUS
<1>1. /\ Making(d)' \in {0, 1} /\ Waiting(d)' \in {0, 1}
      /\ Dead(d)' \in {0, 1} /\ Stuck(d)' \in {0, 1}
  BY DEF Making, Waiting, Dead, Stuck
<1>2. queue'[d] \in Nat /\ posts'[d] \in Nat /\ row'[d].attempts \in Nat /\ Retries \in Nat
  BY WebhookAssumption DEF WebhookTypes, DeliveryTypes, Retries
<1>3. Fresh(d)' \in Nat
  BY <1>2 DEF Fresh
<1>4. Asked(d)' \in Nat /\ Resets(d)' \in Nat
  BY DEF WebhookTypes, Asked, Resets
<1>5. QED
  BY <1>1, <1>2, <1>3, <1>4, TeamsAreNumbersNext DEF Numeric

\* A step that does something else is no matter to d.
LEMMA Aside ==
    ASSUME WebhookTypes, WebhookTypes', NEW d \in Deliveries, NEW k \in Nat,
           Untouched(d), row'[d] = row[d], maker'[d] = maker[d], queue'[d] = queue[d],
           posts'[d] = posts[d], Waiting(d)' <= Waiting(d),
           admin'[d] = admin[d]
    PROVE  Quiet(k, d)
<1>1. Numeric(d) /\ Numeric(d)'
  BY AccountNumbers, AccountNumbersNext
<1>2. /\ nBusy(d)' = nBusy(d) /\ nPosting(d)' = nPosting(d) /\ nHopeful(d)' = nHopeful(d)
      /\ Stuck(d)' = Stuck(d)
  BY UntouchedTeams DEF nBusy, nPosting, nHopeful, Stuck
<1>3. /\ Making(d)' = Making(d) /\ Asked(d)' = Asked(d) /\ Resets(d)' = Resets(d)
      /\ Dead(d)' = Dead(d) /\ Fresh(d)' = Fresh(d)
  BY DEF Making, Asked, Dead, Fresh, Resets, Resetting
<1>4. QED
  BY <1>1, <1>2, <1>3 DEF Quiet, Threads, Chances, Numeric

--------------------------------------------------------------------------------
(* What each step adds to the account *)

\* What duplicates, lost updates and crashes may have added
Faults == Used("dup") + Used("db") + Used("crash") * Cardinality(Workers)

\* The faults of a step account for k.
Paid(k) == Faults' = Faults + k /\ Used("admin")' = Used("admin")

LEMMA FaultsPay ==
    ASSUME WebhookTypes
    PROVE  /\ Faults \in Nat /\ \A kind \in TroubleKinds : Used(kind) \in Nat
           /\ UNCHANGED left => Paid(0)
           /\ Spend("pubsub") => Paid(0)
           /\ Spend("dup") => Paid(1)
           /\ Spend("db") => Paid(1)
           /\ Spend("crash") => Paid(Cardinality(Workers))
           /\ Spend("admin") => Faults' = Faults /\ Used("admin")' = Used("admin") + 1
<1> DEFINE N == Cardinality(Workers)
<1>1. /\ left \in [TroubleKinds -> Nat] /\ Budget \in [TroubleKinds -> Nat]
      /\ \A kind \in TroubleKinds : left[kind] <= Budget[kind]
      /\ N \in Nat
  BY WebhookAssumption, FS_CardinalityType DEF WebhookTypes
<1>2. /\ "dup" \in TroubleKinds /\ "crash" \in TroubleKinds /\ "db" \in TroubleKinds
      /\ "pubsub" \in TroubleKinds /\ "admin" \in TroubleKinds
  BY DEF TroubleKinds
<1>3. \A kind \in TroubleKinds : Used(kind) \in Nat
  <2>1. ASSUME NEW kind \in TroubleKinds PROVE Used(kind) \in Nat
    <3>1. left[kind] \in Nat /\ Budget[kind] \in Nat /\ left[kind] <= Budget[kind]
      BY <1>1
    <3>2. QED
      BY <3>1 DEF Used
  <2>2. QED
    BY <2>1
<1>4. ASSUME NEW kind \in TroubleKinds, Spend(kind)
      PROVE  /\ Used(kind)' = Used(kind) + 1
             /\ \A k \in TroubleKinds : k # kind => Used(k)' = Used(k)
  <2>1. left' = [left EXCEPT ![kind] = left[kind] - 1]
    BY <1>4 DEF Spend
  <2>2. left'[kind] = left[kind] - 1 /\ \A k \in TroubleKinds : k # kind => left'[k] = left[k]
    BY <1>1, <2>1
  <2>3. left[kind] \in Nat /\ Budget[kind] \in Nat
    BY <1>1
  <2>4. QED
    BY <2>2, <2>3 DEF Used
<1>5. Faults = Used("dup") + Used("db") + Used("crash") * N
      /\ Faults' = Used("dup")' + Used("db")' + Used("crash")' * N
  BY DEF Faults
<1> HIDE DEF N
<1>6. Used("crash") * N \in Nat /\ (Used("crash") + 1) * N = Used("crash") * N + N
  BY <1>1, <1>2, <1>3
<1>7. Used("dup") \in Nat /\ Used("db") \in Nat /\ Used("admin") \in Nat
  BY <1>2, <1>3
<1>8. Faults \in Nat
  BY <1>5, <1>6, <1>7
<1>9. UNCHANGED left => Paid(0)
  <2>1. ASSUME UNCHANGED left
        PROVE  Used("dup")' = Used("dup") /\ Used("db")' = Used("db")
               /\ Used("crash")' = Used("crash") /\ Used("admin")' = Used("admin")
    BY <2>1 DEF Used
  <2>2. QED
    BY <1>5, <1>8, <2>1 DEF Paid
<1>10. Spend("pubsub") => Paid(0)
  BY <1>2, <1>4, <1>5, <1>8 DEF Paid
<1>11. Spend("dup") => Paid(1)
  BY <1>2, <1>4, <1>5, <1>6, <1>7 DEF Paid
<1>12. Spend("db") => Paid(1)
  BY <1>2, <1>4, <1>5, <1>6, <1>7 DEF Paid
<1>13. Spend("crash") => Paid(N)
  BY <1>1, <1>2, <1>4, <1>5, <1>6, <1>7 DEF Paid
<1>14. Spend("admin") => Faults' = Faults /\ Used("admin")' = Used("admin") + 1
  BY <1>2, <1>4, <1>5
<1>15. QED
  BY <1>3, <1>8, <1>9, <1>10, <1>11, <1>12, <1>13, <1>14 DEF N

\* A step of the account, for all deliveries
Accounted == \E k \in Nat : Paid(k) /\ \A e \in Deliveries : Quiet(k, e)

\* While PollRetries and RetryDLQ stand still, only a row that is written as
\* retrying can start to wait.
LEMMA WaitingKept ==
    ASSUME NEW d, poll' = poll, row'[d] = row[d] \/ row'[d].status # "retrying"
    PROVE  Waiting(d)' <= Waiting(d)
<1>1. RetryWaits(d)' => RetryWaits(d)
  BY DEF RetryWaits, ToPublish, Marking
<1>2. QED
  BY <1>1 DEF Waiting

\* A step of one delivery is no matter to the others.
LEMMA Others ==
    ASSUME WebhookTypes, WebhookTypes', NEW d \in Deliveries, NEW k \in Nat,
           poll' = poll, admin' = admin,
           \A e \in Deliveries \ {d} : /\ Untouched(e) /\ row'[e] = row[e] /\ maker'[e] = maker[e]
                                       /\ queue'[e] = queue[e] /\ posts'[e] = posts[e]
    PROVE  \A e \in Deliveries \ {d} : Quiet(k, e)
<1> SUFFICES ASSUME NEW e \in Deliveries \ {d} PROVE Quiet(k, e)
  OBVIOUS
<1>1. Waiting(e)' <= Waiting(e)
  BY WaitingKept
<1>2. QED
  BY <1>1, Aside

\* DeliverWebhook receives a message.
LEMMA ReceiveAccounted ==
    ASSUME WebhookTypes, WebhookTypes', NEW w \in Workers, NEW d \in Deliveries, Receive(w, d)
    PROVE  Accounted
<1>1. Numeric(d) /\ Numeric(d)'
  BY AccountNumbers, AccountNumbersNext
<1>2. /\ work[w].pc = "idle" /\ work' = [work EXCEPT ![w] = [pc |-> "post", d |-> d, n |-> 0]]
      /\ queue' = [queue EXCEPT ![d] = @ - 1]
      /\ UNCHANGED <<maker, poll, admin, posts>>
      /\ Exec(d, "delivering", row[d].attempts + 1, due)
  BY DEF Receive, SetWork, Doing
<1>3. /\ queue'[d] = queue[d] - 1
      /\ \A e \in Deliveries \ {d} : queue'[e] = queue[e]
  BY <1>2 DEF WebhookTypes
<1>4. /\ Making(d)' = Making(d) /\ Asked(d)' = Asked(d) /\ posts'[d] = posts[d]
      /\ Resets(d)' = Resets(d)
  BY <1>2 DEF Making, Asked, Resets, Resetting
<1>5. ASSUME NEW k \in Nat, Paid(k), Quiet(k, d), \A e \in Deliveries \ {d} : row'[e] = row[e],
             row'[d].attempts \in {row[d].attempts, row[d].attempts + 1}
      PROVE  Accounted
  <2>1. \A e \in Deliveries \ {d} : Untouched(e)
    BY <1>2, <1>5, Joins
  <2>2. \A e \in Deliveries \ {d} : Quiet(k, e)
    BY <1>2, <1>3, <1>5, <2>1, Others
  <2>3. QED
    BY <1>5, <2>2 DEF Accounted
<1>6. CASE row' = [row EXCEPT ![d] = [status |-> "delivering", attempts |-> row[d].attempts + 1]]
           /\ UNCHANGED left
  <2>1. /\ row'[d].attempts = row[d].attempts + 1 /\ row'[d].status = "delivering"
        /\ \A e \in Deliveries \ {d} : row'[e] = row[e]
    BY <1>6 DEF WebhookTypes, DeliveryTypes
  <2>2. /\ nBusy(d)' = nBusy(d) + 1 /\ nPosting(d)' = nPosting(d) + 1
        /\ nHopeful(d)' <= nHopeful(d) + 1
        /\ row'[d].attempts > Retries => nHopeful(d)' <= nHopeful(d)
    BY <1>2, <2>1, Joins
  <2>3. Waiting(d)' <= Waiting(d)
    BY <1>2, <2>1, WaitingKept
  <2>4. Dead(d)' = 0 /\ Stuck(d)' = 0
    BY <2>1 DEF Dead, Stuck
  <2>5. nHopeful(d)' + Fresh(d)' <= nHopeful(d) + Fresh(d)
    <3>1. row'[d].attempts <= Retries => Fresh(d)' = Fresh(d) - 1
      BY <1>1, <2>1 DEF Numeric, Fresh
    <3>2. row'[d].attempts > Retries => Fresh(d)' = 0
      BY <1>1, <2>1 DEF Numeric, Fresh
    <3>3. QED
      BY <1>1, <2>1, <2>2, <3>1, <3>2 DEF Numeric
  <2>6. Quiet(0, d)
    BY <1>1, <1>3, <1>4, <2>2, <2>3, <2>4, <2>5 DEF Quiet, Threads, Chances, Numeric
  <2>7. Paid(0)
    BY <1>6, FaultsPay
  <2>8. QED
    BY <1>5, <2>1, <2>6, <2>7
<1>7. CASE Spend("db") /\ row' = row
  <2>1. /\ nBusy(d)' = nBusy(d) + 1 /\ nPosting(d)' = nPosting(d) + 1
        /\ nHopeful(d)' <= nHopeful(d) + 1
    BY <1>2, <1>7, Joins
  <2>2. Waiting(d)' <= Waiting(d)
    BY <1>2, <1>7, WaitingKept
  <2>3. Dead(d)' = Dead(d) /\ Fresh(d)' = Fresh(d)
    BY <1>2, <1>7 DEF Dead, Fresh, Resets, Resetting
  <2>4. nHopeful(d)' + Stuck(d)' <= nHopeful(d) + 1
    <3>1. Stuck(d)' = 1 => nHopeful(d)' = 0
      <4>1. Stuck(d)' = 1 => Hopeful(d)' = {}
        BY DEF Stuck
      <4>2. Hopeful(d)' = {} => nHopeful(d)' = 0
        BY FS_EmptySet DEF nHopeful
      <4>3. QED
        BY <4>1, <4>2
    <3>2. QED
      BY <1>1, <2>1, <3>1 DEF Numeric
  <2>5. Quiet(1, d)
    BY <1>1, <1>3, <1>4, <2>1, <2>2, <2>3, <2>4 DEF Quiet, Threads, Chances, Numeric
  <2>6. Paid(1)
    BY <1>7, FaultsPay
  <2>7. QED
    BY <1>5, <1>7, <2>5, <2>6
<1>8. QED
  BY <1>2, <1>6, <1>7 DEF Exec

\* A step of one delivery
LEMMA OneAccounted ==
    ASSUME WebhookTypes, WebhookTypes', NEW d \in Deliveries, NEW k \in Nat,
           Paid(k), Quiet(k, d), poll' = poll, admin' = admin,
           \A e \in Deliveries \ {d} : /\ Untouched(e) /\ row'[e] = row[e] /\ maker'[e] = maker[e]
                                       /\ queue'[e] = queue[e] /\ posts'[e] = posts[e]
    PROVE  Accounted
<1>1. \A e \in Deliveries \ {d} : Quiet(k, e)
  BY Others
<1>2. QED
  BY <1>1 DEF Accounted

\* What a worker has in hand
LEMMA InHand ==
    ASSUME WebhookTypes, NEW w \in Workers, work[w].pc # "idle"
    PROVE  \E d \in Deliveries : /\ work[w].d = d /\ On(work[w], d)
                                 /\ work[w] \in [pc : WorkSteps, d : Deliveries, n : Nat]
BY BusyWorker DEF WebhookTypes, On

\* DeliverWebhook sends the request.
LEMMA PostAccounted ==
    ASSUME WebhookTypes, WebhookTypes', NEW w \in Workers, Post(w)
    PROVE  Accounted
<1>0. work[w].pc = "post"
  BY DEF Post, Doing
<1>1. PICK d \in Deliveries : /\ work[w].d = d /\ On(work[w], d)
                             /\ work[w] \in [pc : WorkSteps, d : Deliveries, n : Nat]
  BY <1>0, InHand
<1>2. /\ posts' = [posts EXCEPT ![d] = @ + 1]
      /\ UNCHANGED <<row, due, queue, maker, poll, admin, left>>
  BY <1>1 DEF Post
<1>3. PICK pc \in {"delivered", "failed"} :
         work' = [work EXCEPT ![w] = [work[w] EXCEPT !.pc = pc]]
  BY DEF Post, SetWork
<1> DEFINE r == [work[w] EXCEPT !.pc = pc]
<1>4. r.pc = pc /\ r.d = d
  BY <1>1
<1> HIDE DEF r
<1>5. /\ posts'[d] = posts[d] + 1
      /\ \A e \in Deliveries \ {d} : posts'[e] = posts[e]
  BY <1>1, <1>2 DEF WebhookTypes
<1>6. Hope(r, row[d].attempts) => Hope(work[w], row[d].attempts)
  BY <1>0, <1>3, <1>4 DEF Hope
<1>7. /\ nBusy(d)' = nBusy(d)
      /\ nPosting(d)' = nPosting(d) - 1
      /\ nHopeful(d)' + Stuck(d)' <= nHopeful(d) + Stuck(d)
      /\ \A e \in Deliveries \ {d} : Untouched(e)
  <2>1. On(r, d) /\ r.pc # "post" /\ work' = [work EXCEPT ![w] = r] /\ row' = row
    BY <1>2, <1>3, <1>4 DEF On, r
  <2>2. /\ nBusy(d)' = nBusy(d)
        /\ nPosting(d)' = nPosting(d) - (IF work[w].pc = "post" THEN 1 ELSE 0)
        /\ nHopeful(d)' + Stuck(d)' <= nHopeful(d) + Stuck(d)
        /\ \A e \in Deliveries \ {d} : Untouched(e)
    BY <1>1, <1>6, <2>1, MovesOn
  <2>3. QED
    BY <1>0, <2>2
<1>8. /\ Making(d)' = Making(d) /\ Asked(d)' = Asked(d) /\ Fresh(d)' = Fresh(d)
      /\ Dead(d)' = Dead(d) /\ Resets(d)' = Resets(d) /\ queue'[d] = queue[d]
      /\ Waiting(d)' <= Waiting(d)
  <2>1. Waiting(d)' <= Waiting(d)
    BY <1>2, WaitingKept
  <2>2. QED
    BY <1>2, <2>1 DEF Making, Asked, Resets, Resetting, Fresh, Dead
<1>9. Numeric(d) /\ Numeric(d)'
  BY <1>1, AccountNumbers, AccountNumbersNext
<1>10. Quiet(0, d)
  BY <1>5, <1>7, <1>8, <1>9 DEF Quiet, Threads, Chances, Numeric
<1>11. Paid(0)
  BY <1>2, FaultsPay
<1>12. \A e \in Deliveries \ {d} : /\ Untouched(e) /\ row'[e] = row[e] /\ maker'[e] = maker[e]
                                   /\ queue'[e] = queue[e] /\ posts'[e] = posts[e]
  BY <1>2, <1>5, <1>7
<1>13. QED
  BY <1>1, <1>2, <1>10, <1>11, <1>12, OneAccounted

\* A worker is done with d, whatever it could write.
LEMMA LeavesAccounted ==
    ASSUME WebhookTypes, WebhookTypes', NEW w \in Workers, NEW d \in Deliveries, On(work[w], d),
           work[w].pc # "post", work' = [work EXCEPT ![w] = NoWork],
           UNCHANGED <<queue, maker, poll, admin, posts>>,
           row'[d].attempts = row[d].attempts, \A e \in Deliveries \ {d} : row'[e] = row[e],
           NEW k \in Nat, Paid(k),
           Waiting(d)' + Dead(d)' <= Waiting(d) + Dead(d) + 1,
           Waiting(d)' <= Waiting(d) \/ Hope(work[w], row[d].attempts)
    PROVE  Accounted
<1>1. /\ nBusy(d)' = nBusy(d) - 1 /\ nBusy(d) >= 1
      /\ nPosting(d)' = nPosting(d)
      /\ nHopeful(d)' <= nHopeful(d)
      /\ Hope(work[w], row[d].attempts) => nHopeful(d)' = nHopeful(d) - 1
      /\ Stuck(d)' = 0
      /\ \A e \in Deliveries \ {d} : Untouched(e)
  BY Leaves
<1>2. /\ Making(d)' = Making(d) /\ Asked(d)' = Asked(d) /\ Fresh(d)' = Fresh(d)
      /\ Resets(d)' = Resets(d) /\ queue'[d] = queue[d] /\ posts'[d] = posts[d]
  BY DEF Making, Asked, Resets, Resetting, Fresh
<1>3. Numeric(d) /\ Numeric(d)'
  BY AccountNumbers, AccountNumbersNext
<1>4. nHopeful(d)' + Waiting(d)' <= nHopeful(d) + Waiting(d)
  BY <1>1, <1>3 DEF Numeric
<1>5. Threads(d)' <= Threads(d)
  BY <1>1, <1>2, <1>3 DEF Threads, Numeric
<1>6. Chances(d)' <= Chances(d)
  BY <1>1, <1>2, <1>3, <1>4 DEF Chances, Numeric
<1>7. Quiet(k, d)
  <2>1. Threads(d) \in Int /\ Chances(d) \in Int /\ Threads(d)' \in Int /\ Chances(d)' \in Int
    BY <1>3 DEF Threads, Chances, Numeric
  <2>2. QED
    BY <1>2, <1>3, <1>5, <1>6, <2>1 DEF Quiet, Numeric
<1>8. \A e \in Deliveries \ {d} : /\ Untouched(e) /\ row'[e] = row[e] /\ maker'[e] = maker[e]
                                  /\ queue'[e] = queue[e] /\ posts'[e] = posts[e]
  BY <1>1
<1>9. QED
  BY <1>7, <1>8, OneAccounted

\* What an UPDATE does to the row: it is written, or its error is lost
LEMMA ExecWrites ==
    ASSUME WebhookTypes, NEW d \in Deliveries, NEW status, NEW attempts, NEW due2,
           Exec(d, status, attempts, due2)
    PROVE  /\ \A e \in Deliveries \ {d} : row'[e] = row[e]
           /\ \/ /\ row'[d].status = status /\ row'[d].attempts = attempts
                 /\ due' = due2 /\ left' = left /\ Paid(0)
              \/ row' = row /\ Paid(1) /\ Spend("db")
<1>1. CASE /\ row' = [row EXCEPT ![d] = [status |-> status, attempts |-> attempts]]
           /\ due' = due2 /\ UNCHANGED left
  <2>1. /\ \A e \in Deliveries \ {d} : row'[e] = row[e]
        /\ row'[d] = [status |-> status, attempts |-> attempts]
    BY <1>1 DEF WebhookTypes, DeliveryTypes
  <2>2. Paid(0)
    BY <1>1, FaultsPay
  <2>3. QED
    BY <1>1, <2>1, <2>2
<1>2. CASE Spend("db") /\ UNCHANGED <<row, due>>
  BY <1>2, FaultsPay
<1>3. QED
  BY <1>1, <1>2 DEF Exec

LEMMA MarkDeliveredAccounted ==
    ASSUME WebhookTypes, WebhookTypes', NEW w \in Workers, MarkDelivered(w)
    PROVE  Accounted
<1>1. work[w].pc = "delivered"
  BY DEF MarkDelivered, Doing
<1>2. PICK d \in Deliveries : work[w].d = d /\ On(work[w], d)
  BY <1>1, InHand
<1>3. /\ Exec(d, "delivered", row[d].attempts, due)
      /\ work' = [work EXCEPT ![w] = NoWork] /\ UNCHANGED <<queue, maker, poll, admin, posts>>
  BY <1>2 DEF MarkDelivered, SetWork
<1>4. /\ \A e \in Deliveries \ {d} : row'[e] = row[e]
      /\ \/ row'[d].status = "delivered" /\ row'[d].attempts = row[d].attempts /\ Paid(0)
         \/ row' = row /\ Paid(1)
  BY <1>3, ExecWrites
<1>5. row'[d] = row[d] \/ row'[d].status = "delivered"
  BY <1>4
<1>6. Waiting(d)' <= Waiting(d)
  BY <1>3, <1>5, WaitingKept
<1>7. Dead(d)' <= Dead(d)
  BY <1>3, <1>5 DEF Dead, Resets, Resetting
<1>8. Waiting(d)' + Dead(d)' <= Waiting(d) + Dead(d) + 1
  <2>1. Numeric(d) /\ Numeric(d)'
    BY AccountNumbers, AccountNumbersNext
  <2>2. QED
    BY <1>6, <1>7, <2>1 DEF Numeric
<1>9. \E k \in Nat : Paid(k)
  BY <1>4
<1>10. row'[d].attempts = row[d].attempts /\ work[w].pc # "post"
  BY <1>1, <1>4
<1>11. QED
  BY <1>2, <1>3, <1>4, <1>6, <1>8, <1>9, <1>10, LeavesAccounted

\* handleDeliveryFailure reads the number of attempts.  As long as the schedule
\* holds another retry for what it reads, the row counts no more than that.
LEMMA ReadAttemptsAccounted ==
    ASSUME WebhookTypes, WebhookTypes', NEW w \in Workers, ReadAttempts(w)
    PROVE  Accounted
<1>1. work[w].pc = "failed"
  BY DEF ReadAttempts, Doing
<1>2. PICK d \in Deliveries : /\ work[w].d = d /\ On(work[w], d)
                             /\ work[w] \in [pc : WorkSteps, d : Deliveries, n : Nat]
  BY <1>1, InHand
<1>3. Numeric(d) /\ Numeric(d)'
  BY AccountNumbers, AccountNumbersNext
<1>4. UNCHANGED <<row, due, queue, maker, poll, admin, posts, accepted>>
  BY DEF ReadAttempts
<1>5. /\ Waiting(d)' <= Waiting(d) /\ Making(d)' = Making(d) /\ Asked(d)' = Asked(d)
      /\ Fresh(d)' = Fresh(d) /\ Dead(d)' = Dead(d) /\ Resets(d)' = Resets(d)
  <2>1. Waiting(d)' <= Waiting(d)
    BY <1>4, WaitingKept
  <2>2. QED
    BY <1>4, <2>1 DEF Making, Asked, Resets, Resetting, Fresh, Dead
<1> DEFINE r == [work[w] EXCEPT !.pc = "judge", !.n = row[d].attempts]
<1>6. CASE work' = [work EXCEPT ![w] = r] /\ UNCHANGED left
  <2>1. r.pc = "judge" /\ r.d = d /\ r.n = row[d].attempts
    BY <1>2
  <2>2. work' = [work EXCEPT ![w] = r]
    BY <1>6
  <2> HIDE DEF r
  <2>3. On(r, d) /\ r.pc # "post"
    BY <2>1 DEF On
  <2>4. Hope(r, row[d].attempts) => Hope(work[w], row[d].attempts)
    BY <1>1, <1>3, <2>1 DEF Hope, Numeric
  <2>5. /\ nBusy(d)' = nBusy(d)
        /\ nPosting(d)' = nPosting(d) - (IF work[w].pc = "post" THEN 1 ELSE 0)
        /\ nHopeful(d)' + Stuck(d)' <= nHopeful(d) + Stuck(d)
        /\ \A e \in Deliveries \ {d} : Untouched(e)
    BY <1>2, <1>4, <2>2, <2>3, <2>4, MovesOn
  <2>6. nPosting(d)' = nPosting(d)
    BY <1>1, <1>3, <2>5 DEF Numeric
  <2>7. Quiet(0, d)
    BY <1>3, <1>4, <1>5, <2>5, <2>6 DEF Quiet, Threads, Chances, Numeric
  <2>8. Paid(0)
    BY <1>6, FaultsPay
  <2>9. \A e \in Deliveries \ {d} : /\ Untouched(e) /\ row'[e] = row[e] /\ maker'[e] = maker[e]
                                    /\ queue'[e] = queue[e] /\ posts'[e] = posts[e]
    BY <1>4, <2>5
  <2>10. QED
    BY <1>4, <2>7, <2>8, <2>9, OneAccounted
<1>7. CASE work' = [work EXCEPT ![w] = NoWork] /\ Spend("db")
  <2>1. Paid(1)
    BY <1>7, FaultsPay
  <2>2. Waiting(d)' + Dead(d)' <= Waiting(d) + Dead(d) + 1
    BY <1>3, <1>5 DEF Numeric
  <2>3. work[w].pc # "post" /\ UNCHANGED <<queue, maker, poll, admin, posts>>
        /\ row'[d].attempts = row[d].attempts /\ \A e \in Deliveries \ {d} : row'[e] = row[e]
    BY <1>1, <1>4
  <2>4. QED
    BY <1>2, <1>5, <1>7, <2>1, <2>2, <2>3, LeavesAccounted
<1>8. QED
  BY <1>2, <1>6, <1>7 DEF ReadAttempts, SetWork

\* handleDeliveryFailure schedules a retry only for a number of attempts that
\* has one: the worker's hope becomes the row's.
LEMMA JudgeFailureAccounted ==
    ASSUME WebhookTypes, WebhookTypes', NEW w \in Workers, JudgeFailure(w)
    PROVE  Accounted
<1>1. work[w].pc = "judge"
  BY DEF JudgeFailure, Doing
<1>2. PICK d \in Deliveries : /\ work[w].d = d /\ On(work[w], d)
                             /\ work[w] \in [pc : WorkSteps, d : Deliveries, n : Nat]
  BY <1>1, InHand
<1>3. Numeric(d) /\ Numeric(d)'
  BY AccountNumbers, AccountNumbersNext
<1>4. /\ work' = [work EXCEPT ![w] = NoWork] /\ UNCHANGED <<queue, maker, poll, admin, posts>>
      /\ \/ /\ retryIntervalForAttempt(work[w].n) > 0
            /\ Exec(d, "retrying", row[d].attempts, NotDue(d))
         \/ /\ retryIntervalForAttempt(work[w].n) = 0
            /\ Exec(d, "dlq", row[d].attempts, due)
  BY <1>2 DEF JudgeFailure, SetWork
<1>5. work[w].n \in Nat
  BY <1>2
<1>6. retryIntervalForAttempt(work[w].n) > 0 => Hope(work[w], row[d].attempts)
  <2>1. retryIntervalForAttempt(work[w].n) > 0 => work[w].n \in 1..Retries
    <3> DEFINE n == work[w].n
    <3>1. n \in Nat /\ Retries \in Nat
      BY <1>3, <1>5 DEF Numeric
    <3>2. n < 1 \/ n > Retries => retryIntervalForAttempt(n) = 0
      BY DEF retryIntervalForAttempt, Retries
    <3> HIDE DEF n
    <3>3. ~(0 > 0)
      OBVIOUS
    <3>4. retryIntervalForAttempt(n) > 0 => n \in 1..Retries
      BY <3>1, <3>2, <3>3
    <3>5. QED
      BY <3>4 DEF n
  <2>2. QED
    BY <1>1, <2>1 DEF Hope
<1>7. /\ \A e \in Deliveries \ {d} : row'[e] = row[e]
      /\ row'[d].attempts = row[d].attempts
      /\ \E k \in Nat : Paid(k)
      /\ \/ row'[d].status = "retrying" /\ Hope(work[w], row[d].attempts)
         \/ row'[d].status = "dlq"
         \/ row' = row
  <2>1. CASE Exec(d, "retrying", row[d].attempts, NotDue(d)) /\ Hope(work[w], row[d].attempts)
    BY <2>1, ExecWrites
  <2>2. CASE Exec(d, "dlq", row[d].attempts, due)
    BY <2>2, ExecWrites
  <2>3. QED
    BY <1>4, <1>6, <2>1, <2>2
<1>8. Resets(d)' = Resets(d)
  BY <1>4 DEF Resets
<1>9. Waiting(d)' <= Waiting(d) \/ Hope(work[w], row[d].attempts)
  <2>1. CASE row'[d] = row[d] \/ row'[d].status # "retrying"
    BY <1>4, <2>1, WaitingKept
  <2>2. QED
    BY <1>7, <2>1
<1>10. Waiting(d)' + Dead(d)' <= Waiting(d) + Dead(d) + 1
  <2>1. CASE row'[d].status = "retrying"
    <3>1. Dead(d)' = 0
      BY <2>1 DEF Dead
    <3>2. QED
      BY <1>3, <3>1 DEF Numeric
  <2>2. CASE row'[d] = row[d] \/ row'[d].status = "dlq"
    <3>1. Waiting(d)' <= Waiting(d)
      BY <1>4, <2>2, WaitingKept
    <3>2. QED
      BY <1>3, <3>1 DEF Numeric
  <2>3. QED
    BY <1>7, <2>1, <2>2
<1>11. work[w].pc # "post"
  BY <1>1
<1>12. QED
  BY <1>2, <1>4, <1>7, <1>9, <1>10, <1>11, LeavesAccounted

\* A step of d that no worker takes: what it hands on, it had.
LEMMA HandedOn ==
    ASSUME WebhookTypes, WebhookTypes', NEW d \in Deliveries, NEW k \in Nat,
           work' = work, posts' = posts, row'[d].attempts = row[d].attempts,
           Resets(d)' \in {Resets(d), Resets(d) - 1}, Stuck(d)' <= Stuck(d),
           Making(d)' + queue'[d] + Waiting(d)' + Asked(d)' + Dead(d)'
               <= Making(d) + queue[d] + Waiting(d) + Asked(d) + Dead(d) + k,
           Making(d)' + queue'[d] + Waiting(d)' + Asked(d)'
               <= Making(d) + queue[d] + Waiting(d) + Asked(d) + k
    PROVE  Quiet(k, d)
<1>1. Numeric(d) /\ Numeric(d)'
  BY AccountNumbers, AccountNumbersNext
<1>2. /\ nBusy(d)' = nBusy(d) /\ nPosting(d)' = nPosting(d) /\ nHopeful(d)' = nHopeful(d)
  <2>1. Untouched(d)
    BY DEF Untouched
  <2>2. QED
    BY <2>1, UntouchedTeams DEF nBusy, nPosting, nHopeful
<1>3. Fresh(d)' = Fresh(d) /\ posts'[d] = posts[d]
  BY DEF Fresh
<1>4. QED
  BY <1>1, <1>2, <1>3 DEF Quiet, Threads, Chances, Numeric

\* The topic delivers a message again.
LEMMA RedeliverAccounted ==
    ASSUME WebhookTypes, WebhookTypes', NEW w \in Workers, Redeliver(w)
    PROVE  Accounted
<1>1. PICK d \in Deliveries : work[w].d = d
  BY InHand DEF Redeliver, Doing
<1>2. /\ queue' = [queue EXCEPT ![d] = @ + 1] /\ Spend("dup")
      /\ UNCHANGED <<row, due, maker, work, poll, admin, posts, accepted>>
  BY <1>1 DEF Redeliver, Enqueue
<1>3. queue'[d] = queue[d] + 1 /\ \A e \in Deliveries \ {d} : queue'[e] = queue[e]
  BY <1>2 DEF WebhookTypes
<1>4. Paid(1)
  BY <1>2, FaultsPay
<1>5. Numeric(d) /\ Numeric(d)'
  BY AccountNumbers, AccountNumbersNext
<1>6. /\ Making(d)' = Making(d) /\ Asked(d)' = Asked(d) /\ Dead(d)' = Dead(d)
      /\ Stuck(d)' = Stuck(d) /\ Resets(d)' = Resets(d) /\ Waiting(d)' = Waiting(d)
  BY <1>2 DEF Making, Asked, Resets, Resetting, Dead, Stuck, Busy, Hopeful, Waiting, RetryWaits,
              ToPublish, Marking
<1>7. Quiet(1, d)
  <2>1. Making(d)' + queue'[d] + Waiting(d)' + Asked(d)' + Dead(d)'
            <= Making(d) + queue[d] + Waiting(d) + Asked(d) + Dead(d) + 1
    BY <1>3, <1>5, <1>6 DEF Numeric
  <2>2. Making(d)' + queue'[d] + Waiting(d)' + Asked(d)'
            <= Making(d) + queue[d] + Waiting(d) + Asked(d) + 1
    BY <1>3, <1>5, <1>6 DEF Numeric
  <2>3. Stuck(d)' <= Stuck(d) /\ row'[d].attempts = row[d].attempts
    BY <1>2, <1>5, <1>6 DEF Numeric
  <2>4. QED
    BY <1>2, <1>6, <2>1, <2>2, <2>3, HandedOn
<1>8. \A e \in Deliveries \ {d} : /\ Untouched(e) /\ row'[e] = row[e] /\ maker'[e] = maker[e]
                                  /\ queue'[e] = queue[e] /\ posts'[e] = posts[e]
  BY <1>2, <1>3 DEF Untouched
<1>9. QED
  BY <1>2, <1>4, <1>7, <1>8, OneAccounted

\* CreateAndPublishWebhook inserts the row ...
LEMMA InsertAccounted ==
    ASSUME WebhookTypes, WebhookTypes', NEW d \in Deliveries, Insert(d)
    PROVE  Accounted
<1>1. /\ maker[d] = "idle" /\ row' = [row EXCEPT ![d].status = "pending"]
      /\ maker' = [maker EXCEPT ![d] = "publish"]
      /\ UNCHANGED <<queue, work, poll, admin, posts, accepted, left>>
  BY DEF Insert
<1>2. /\ row'[d].status = "pending" /\ row'[d].attempts = row[d].attempts
      /\ \A e \in Deliveries \ {d} : row'[e] = row[e]
  BY <1>1 DEF WebhookTypes, DeliveryTypes
<1>3. maker'[d] = "publish" /\ \A e \in Deliveries \ {d} : maker'[e] = maker[e]
  BY <1>1 DEF WebhookTypes
<1>4. /\ Making(d)' = Making(d) /\ Asked(d)' = Asked(d) /\ Dead(d)' = 0 /\ Stuck(d)' = 0
      /\ Resets(d)' = Resets(d) /\ queue'[d] = queue[d]
  BY <1>1, <1>2, <1>3 DEF Making, Asked, Resets, Resetting, Dead, Stuck
<1>5. Waiting(d)' <= Waiting(d)
  BY <1>1, <1>2, WaitingKept
<1>6. Numeric(d) /\ Numeric(d)'
  BY AccountNumbers, AccountNumbersNext
<1>7. Quiet(0, d)
  <2>1. Making(d)' + queue'[d] + Waiting(d)' + Asked(d)' + Dead(d)'
            <= Making(d) + queue[d] + Waiting(d) + Asked(d) + Dead(d) + 0
    BY <1>4, <1>5, <1>6 DEF Numeric
  <2>2. Making(d)' + queue'[d] + Waiting(d)' + Asked(d)'
            <= Making(d) + queue[d] + Waiting(d) + Asked(d) + 0
    BY <1>4, <1>5, <1>6 DEF Numeric
  <2>3. Stuck(d)' <= Stuck(d)
    BY <1>4, <1>6 DEF Numeric
  <2>4. QED
    BY <1>1, <1>2, <1>4, <2>1, <2>2, <2>3, HandedOn
<1>8. \A e \in Deliveries \ {d} : /\ Untouched(e) /\ row'[e] = row[e] /\ maker'[e] = maker[e]
                                  /\ queue'[e] = queue[e] /\ posts'[e] = posts[e]
  BY <1>1, <1>2, <1>3 DEF Untouched
<1>9. Paid(0)
  BY <1>1, FaultsPay
<1>10. QED
  BY <1>1, <1>7, <1>8, <1>9, OneAccounted

\* ... and publishes its message, or fails to.
LEMMA PublishAccounted ==
    ASSUME WebhookTypes, WebhookTypes', NEW d \in Deliveries, Publish(d)
    PROVE  Accounted
<1>1. /\ maker[d] = "publish" /\ maker' = [maker EXCEPT ![d] = "done"]
      /\ queue' = [queue EXCEPT ![d] = @ + 1] \/ queue' = queue
      /\ UNCHANGED <<row, due, work, poll, admin, posts, accepted>>
      /\ UNCHANGED left \/ Spend("pubsub")
  BY DEF Publish, Enqueue
<1>2. queue'[d] <= queue[d] + 1 /\ \A e \in Deliveries \ {d} : queue'[e] = queue[e]
  BY <1>1 DEF WebhookTypes
<1>3. maker'[d] = "done" /\ \A e \in Deliveries \ {d} : maker'[e] = maker[e]
  BY <1>1 DEF WebhookTypes
<1>4. /\ Making(d) = 1 /\ Making(d)' = 0 /\ Asked(d)' = Asked(d) /\ Dead(d)' = Dead(d)
      /\ Stuck(d)' = Stuck(d) /\ Resets(d)' = Resets(d) /\ Waiting(d)' = Waiting(d)
  BY <1>1, <1>3 DEF Making, Asked, Resets, Resetting, Dead, Stuck, Busy, Hopeful, Waiting,
                    RetryWaits, ToPublish, Marking
<1>5. Numeric(d) /\ Numeric(d)'
  BY AccountNumbers, AccountNumbersNext
<1>6. Quiet(0, d)
  <2>1. Making(d)' + queue'[d] + Waiting(d)' + Asked(d)' + Dead(d)'
            <= Making(d) + queue[d] + Waiting(d) + Asked(d) + Dead(d) + 0
    BY <1>2, <1>4, <1>5 DEF Numeric
  <2>2. Making(d)' + queue'[d] + Waiting(d)' + Asked(d)'
            <= Making(d) + queue[d] + Waiting(d) + Asked(d) + 0
    BY <1>2, <1>4, <1>5 DEF Numeric
  <2>3. Stuck(d)' <= Stuck(d) /\ row'[d].attempts = row[d].attempts
    BY <1>1, <1>4, <1>5 DEF Numeric
  <2>4. QED
    BY <1>1, <1>4, <2>1, <2>2, <2>3, HandedOn
<1>7. \A e \in Deliveries \ {d} : /\ Untouched(e) /\ row'[e] = row[e] /\ maker'[e] = maker[e]
                                  /\ queue'[e] = queue[e] /\ posts'[e] = posts[e]
  BY <1>1, <1>2, <1>3 DEF Untouched
<1>8. Paid(0)
  BY <1>1, FaultsPay
<1>9. QED
  BY <1>1, <1>6, <1>7, <1>8, OneAccounted

\* While PollRetries or RetryDLQ is at work, the workers stand still.
LEMMA AsideOfPoll ==
    ASSUME WebhookTypes, WebhookTypes', NEW d \in Deliveries, NEW k \in Nat,
           work' = work, maker' = maker, posts' = posts, admin' = admin,
           row'[d] = row[d], queue'[d] = queue[d], RetryWaits(d)' => RetryWaits(d)
    PROVE  Quiet(k, d)
<1>1. Untouched(d)
  BY DEF Untouched
<1>2. Waiting(d)' <= Waiting(d)
  BY DEF Waiting
<1>3. QED
  BY <1>1, <1>2, Aside

\* The clock, and a row that joins the due ones
LEMMA RetryTimeComesAccounted ==
    ASSUME WebhookTypes, WebhookTypes', NEW d \in Deliveries, RetryTimeComes(d)
    PROVE  Accounted
<1>1. UNCHANGED <<row, queue, maker, work, poll, admin, posts, accepted, left>>
  BY DEF RetryTimeComes
<1>2. \A e \in Deliveries : RetryWaits(e)' => RetryWaits(e)
  BY <1>1 DEF RetryWaits, ToPublish, Marking
<1>3. \A e \in Deliveries : Quiet(0, e)
  BY <1>1, <1>2, AsideOfPoll
<1>4. QED
  BY <1>1, <1>3, FaultsPay DEF Accounted

\* PollRetries takes rows that wait.
LEMMA PollSelectAccounted ==
    ASSUME WebhookTypes, WebhookTypes', PollSelect
    PROVE  Accounted
<1>1. /\ poll.pc = "idle" /\ poll'.pc = "publish" /\ poll'.rows = Selected
      /\ UNCHANGED <<row, due, queue, maker, work, admin, posts, accepted, left>>
  BY DEF PollSelect
<1>2. \A e \in Deliveries : RetryWaits(e)' => RetryWaits(e)
  <2>1. ASSUME NEW e \in Deliveries, RetryWaits(e)' PROVE RetryWaits(e)
    <3>1. e \in ToSet(Selected) \/ row[e].status = "retrying"
      BY <1>1, <2>1 DEF RetryWaits, ToPublish
    <3>2. row[e].status = "retrying"
      BY <3>1, SelectedIsList
    <3>3. QED
      BY <1>1, <3>2 DEF RetryWaits, Marking
  <2>2. QED
    BY <2>1
<1>3. \A e \in Deliveries : Quiet(0, e)
  BY <1>1, <1>2, AsideOfPoll
<1>4. QED
  BY <1>1, <1>3, FaultsPay DEF Accounted

\* PollRetries publishes the head of its list: the row's claim to a retry
\* becomes a message, until PollMark the status says otherwise.
LEMMA PollPublishAccounted ==
    ASSUME WebhookTypes, WebhookTypes', PollPublish
    PROVE  Accounted
<1>1. /\ poll.pc = "publish" /\ UNCHANGED <<row, due, maker, work, admin, posts, accepted>>
      /\ \/ /\ Enqueue(Head(poll.rows)) /\ poll' = [poll EXCEPT !.pc = "mark"]
            /\ UNCHANGED left
         \/ /\ Spend("pubsub") /\ poll' = PollNext(Tail(poll.rows)) /\ UNCHANGED queue
  BY DEF PollPublish
<1>2. /\ poll.rows \in Seq(Deliveries) /\ poll.rows # <<>> /\ IsInjective(poll.rows)
      /\ poll \in [pc : {"idle", "publish", "mark"}, rows : Seq(Deliveries)]
  BY <1>1 DEF WebhookTypes
<1>3. PICK d \in Deliveries : d = Head(poll.rows)
  BY <1>2
<1>4. /\ d \in ToSet(poll.rows) /\ Tail(poll.rows) \in Seq(Deliveries)
      /\ IsInjective(Tail(poll.rows)) /\ ToSet(Tail(poll.rows)) = ToSet(poll.rows) \ {d}
  BY <1>2, <1>3, TailIsList
<1>5. CASE Enqueue(d) /\ poll' = [poll EXCEPT !.pc = "mark"] /\ UNCHANGED left
  <2>1. poll'.pc = "mark" /\ poll'.rows = poll.rows
    BY <1>2, <1>5
  <2>2. queue'[d] = queue[d] + 1 /\ \A e \in Deliveries \ {d} : queue'[e] = queue[e]
    BY <1>5 DEF WebhookTypes, Enqueue
  <2>3. RetryWaits(d) /\ ~RetryWaits(d)'
    BY <1>1, <1>3, <1>4, <2>1 DEF RetryWaits, ToPublish, Marking
  <2>4. Waiting(d) = 1 /\ Waiting(d)' = 0
    BY <2>3 DEF Waiting
  <2>5. \A e \in Deliveries \ {d} : RetryWaits(e)' => RetryWaits(e)
    BY <1>1, <1>3, <1>4, <2>1 DEF RetryWaits, ToPublish, Marking
  <2>6. /\ Making(d)' = Making(d) /\ Asked(d)' = Asked(d) /\ Dead(d)' = Dead(d)
        /\ Stuck(d)' = Stuck(d) /\ Resets(d)' = Resets(d)
    BY <1>1 DEF Making, Asked, Resets, Resetting, Dead, Stuck, Busy, Hopeful
  <2>7. Numeric(d) /\ Numeric(d)'
    BY AccountNumbers, AccountNumbersNext
  <2>8. Quiet(0, d)
    <3>1. Making(d)' + queue'[d] + Waiting(d)' + Asked(d)' + Dead(d)'
              <= Making(d) + queue[d] + Waiting(d) + Asked(d) + Dead(d) + 0
      BY <2>2, <2>4, <2>6, <2>7 DEF Numeric
    <3>2. Making(d)' + queue'[d] + Waiting(d)' + Asked(d)'
              <= Making(d) + queue[d] + Waiting(d) + Asked(d) + 0
      BY <2>2, <2>4, <2>6, <2>7 DEF Numeric
    <3>3. Stuck(d)' <= Stuck(d) /\ row'[d].attempts = row[d].attempts
      BY <1>1, <2>6, <2>7 DEF Numeric
    <3>4. QED
      BY <1>1, <2>6, <3>1, <3>2, <3>3, HandedOn
  <2>9. \A e \in Deliveries \ {d} : Quiet(0, e)
    BY <1>1, <2>2, <2>5, AsideOfPoll
  <2>10. Paid(0)
    BY <1>5, FaultsPay
  <2>11. QED
    BY <2>8, <2>9, <2>10 DEF Accounted
<1>6. CASE Spend("pubsub") /\ poll' = PollNext(Tail(poll.rows)) /\ UNCHANGED queue
  <2>1. poll'.rows = Tail(poll.rows) /\ poll'.pc # "mark"
    BY <1>4, <1>6, PollNextTypes
  <2>2. \A e \in Deliveries : RetryWaits(e)' => RetryWaits(e)
    BY <1>1, <1>4, <2>1 DEF RetryWaits, ToPublish, Marking
  <2>3. \A e \in Deliveries : Quiet(0, e)
    BY <1>1, <1>6, <2>2, AsideOfPoll
  <2>4. QED
    BY <1>6, <2>3, FaultsPay DEF Accounted
<1>7. QED
  BY <1>1, <1>3, <1>5, <1>6

\* PollRetries marks the row it has published.
LEMMA PollMarkAccounted ==
    ASSUME WebhookTypes, WebhookTypes', PollMark
    PROVE  Accounted
<1>1. poll.pc = "mark" /\ poll' = PollNext(Tail(poll.rows))
      /\ UNCHANGED <<queue, maker, work, admin, posts, accepted>>
  BY DEF PollMark
<1>2. /\ poll.rows \in Seq(Deliveries) /\ poll.rows # <<>> /\ IsInjective(poll.rows)
  BY <1>1 DEF WebhookTypes
<1>3. PICK d \in Deliveries : d = Head(poll.rows)
  BY <1>2
<1>4. Tail(poll.rows) \in Seq(Deliveries) /\ IsInjective(Tail(poll.rows))
  BY <1>2, TailIsList
<1>5. poll'.rows = Tail(poll.rows) /\ poll'.pc # "mark"
  BY <1>1, <1>4, PollNextTypes
<1>6. \A e \in Deliveries : ToPublish(e)' <=> ToPublish(e)
  BY <1>1, <1>5 DEF ToPublish
<1>7. /\ \A e \in Deliveries \ {d} : row'[e] = row[e]
      /\ \/ row'[d].status = "pending" /\ row'[d].attempts = row[d].attempts /\ Paid(0)
         \/ row' = row /\ Paid(1)
  <2>1. Exec(d, "pending", row[d].attempts, due)
    BY <1>3 DEF PollMark
  <2>2. QED
    BY <2>1, ExecWrites
<1>8. \A e \in Deliveries \ {d} : RetryWaits(e)' => RetryWaits(e)
  BY <1>1, <1>3, <1>6, <1>7 DEF RetryWaits, Marking
<1>9. ASSUME NEW k \in Nat PROVE \A e \in Deliveries \ {d} : Quiet(k, e)
  BY <1>1, <1>7, <1>8, AsideOfPoll
<1>10. Numeric(d) /\ Numeric(d)'
  BY AccountNumbers, AccountNumbersNext
<1>11. /\ Making(d)' = Making(d) /\ Asked(d)' = Asked(d) /\ queue'[d] = queue[d]
       /\ Resets(d)' = Resets(d)
  BY <1>1 DEF Making, Asked, Resets, Resetting
<1>12. CASE row'[d].status = "pending" /\ row'[d].attempts = row[d].attempts /\ Paid(0)
  <2>1. RetryWaits(d)' => RetryWaits(d)
    BY <1>6, <1>12 DEF RetryWaits
  <2>2. Waiting(d)' <= Waiting(d) /\ Stuck(d)' = 0 /\ Dead(d)' = 0
    BY <1>12, <2>1 DEF Waiting, Stuck, Dead
  <2>3. Making(d)' + queue'[d] + Waiting(d)' + Asked(d)' + Dead(d)'
            <= Making(d) + queue[d] + Waiting(d) + Asked(d) + Dead(d) + 0
    BY <1>10, <1>11, <2>2 DEF Numeric
  <2>4. Making(d)' + queue'[d] + Waiting(d)' + Asked(d)'
            <= Making(d) + queue[d] + Waiting(d) + Asked(d) + 0
    BY <1>10, <1>11, <2>2 DEF Numeric
  <2>5. Stuck(d)' <= Stuck(d)
    BY <1>10, <2>2 DEF Numeric
  <2>6. Quiet(0, d)
    BY <1>1, <1>11, <1>12, <2>3, <2>4, <2>5, HandedOn
  <2>7. \A e \in Deliveries : Quiet(0, e)
    BY <1>9, <2>6
  <2>8. QED
    BY <1>12, <2>7 DEF Accounted
<1>13. CASE row' = row /\ Paid(1)
  <2>1. Waiting(d)' <= Waiting(d) + 1 /\ Stuck(d)' = Stuck(d) /\ Dead(d)' = Dead(d)
    <3>1. Stuck(d)' = Stuck(d) /\ Dead(d)' = Dead(d)
      BY <1>1, <1>11, <1>13 DEF Stuck, Dead, Resets, Resetting, Busy, Hopeful
    <3>2. QED
      BY <1>10, <3>1 DEF Numeric
  <2>2. Making(d)' + queue'[d] + Waiting(d)' + Asked(d)' + Dead(d)'
            <= Making(d) + queue[d] + Waiting(d) + Asked(d) + Dead(d) + 1
    BY <1>10, <1>11, <2>1 DEF Numeric
  <2>3. Making(d)' + queue'[d] + Waiting(d)' + Asked(d)'
            <= Making(d) + queue[d] + Waiting(d) + Asked(d) + 1
    BY <1>10, <1>11, <2>1 DEF Numeric
  <2>4. Stuck(d)' <= Stuck(d) /\ row'[d].attempts = row[d].attempts
    BY <1>10, <1>13, <2>1 DEF Numeric
  <2>5. Quiet(1, d)
    BY <1>1, <1>11, <2>2, <2>3, <2>4, HandedOn
  <2>6. \A e \in Deliveries : Quiet(1, e)
    BY <1>9, <2>5
  <2>7. QED
    BY <1>13, <2>6 DEF Accounted
<1>14. QED
  BY <1>7, <1>12, <1>13

LEMMA AsideOfAdmin ==
    ASSUME WebhookTypes, WebhookTypes', NEW d \in Deliveries, NEW k \in Nat,
           work' = work, maker' = maker, posts' = posts, poll' = poll,
           row'[d] = row[d], queue'[d] = queue[d], admin'[d] = admin[d]
    PROVE  Quiet(k, d)
<1>1. Untouched(d)
  BY DEF Untouched
<1>2. Waiting(d)' <= Waiting(d)
  BY WaitingKept
<1>3. QED
  BY <1>1, <1>2, Aside

\* RetryDLQ publishes its message, or fails to.
LEMMA RetryPublishAccounted ==
    ASSUME WebhookTypes, WebhookTypes', NEW d \in Deliveries, RetryPublish(d)
    PROVE  Accounted
<1>1. /\ admin[d].publish > 0 /\ admin' = [admin EXCEPT ![d].publish = @ - 1]
      /\ UNCHANGED <<row, due, maker, work, poll, posts, accepted>>
      /\ UNCHANGED left \/ Spend("pubsub")
  BY DEF RetryPublish
<1>2. queue' = [queue EXCEPT ![d] = @ + 1] \/ queue' = queue
  BY DEF RetryPublish, Enqueue
<1>3. queue'[d] <= queue[d] + 1 /\ \A e \in Deliveries \ {d} : queue'[e] = queue[e]
  BY <1>2 DEF WebhookTypes
<1>4. /\ admin'[d].reset = admin[d].reset /\ admin'[d].publish = admin[d].publish - 1
      /\ admin[d].reset \in Nat /\ admin[d].publish \in Nat
      /\ \A e \in Deliveries \ {d} : admin'[e] = admin[e]
  BY <1>1 DEF WebhookTypes
<1>5. /\ Making(d)' = Making(d) /\ Asked(d)' = Asked(d) - 1 /\ Resets(d)' = Resets(d)
      /\ Dead(d)' = Dead(d) /\ Stuck(d)' = Stuck(d)
  BY <1>1, <1>4 DEF Making, Asked, Resets, Resetting, Dead, Stuck, Busy, Hopeful
<1>6. Waiting(d)' <= Waiting(d)
  BY <1>1, WaitingKept
<1>7. Numeric(d) /\ Numeric(d)'
  BY AccountNumbers, AccountNumbersNext
<1>8. Quiet(0, d)
  <2>1. Making(d)' + queue'[d] + Waiting(d)' + Asked(d)' + Dead(d)'
            <= Making(d) + queue[d] + Waiting(d) + Asked(d) + Dead(d) + 0
    BY <1>3, <1>5, <1>6, <1>7 DEF Numeric
  <2>2. Making(d)' + queue'[d] + Waiting(d)' + Asked(d)'
            <= Making(d) + queue[d] + Waiting(d) + Asked(d) + 0
    BY <1>3, <1>5, <1>6, <1>7 DEF Numeric
  <2>3. Stuck(d)' <= Stuck(d) /\ row'[d].attempts = row[d].attempts
    BY <1>1, <1>5, <1>7 DEF Numeric
  <2>4. QED
    BY <1>1, <1>5, <2>1, <2>2, <2>3, HandedOn
<1>9. \A e \in Deliveries \ {d} : Quiet(0, e)
  BY <1>1, <1>3, <1>4, AsideOfAdmin
<1>10. Paid(0)
  BY <1>1, FaultsPay
<1>11. QED
  BY <1>8, <1>9, <1>10 DEF Accounted

\* RetryDLQ's UPDATE of d: the other deliveries do not change, and where it is
\* lost, d is as dead as before.
LEMMA RetryResetAccounted ==
    ASSUME WebhookTypes, WebhookTypes', NEW d \in Deliveries, RetryReset(d)
    PROVE  /\ Resetting(d) /\ Resets(d)' = Resets(d) - 1 /\ Asked(d)' = Asked(d)
           /\ \A k \in Nat : \A e \in Deliveries \ {d} : Quiet(k, e)
           /\ \/ Accounted
              \/ /\ Paid(0) /\ row'[d].status = "pending" /\ row'[d].attempts = 0
                 /\ UNCHANGED <<queue, maker, work, poll, posts>>
<1>1. /\ admin[d].reset > 0
      /\ admin' = [admin EXCEPT ![d].reset = @ - 1, ![d].publish = @ + 1]
      /\ Exec(d, "pending", 0, DueNow(d))
      /\ UNCHANGED <<queue, maker, work, poll, posts, accepted>>
  BY DEF RetryReset
<1>2. /\ admin'[d].reset = admin[d].reset - 1 /\ admin'[d].publish = admin[d].publish + 1
      /\ admin[d].reset \in Nat /\ admin[d].publish \in Nat
      /\ \A e \in Deliveries \ {d} : admin'[e] = admin[e]
  BY <1>1 DEF WebhookTypes
<1>3. Resetting(d) /\ Resets(d)' = Resets(d) - 1 /\ Asked(d)' = Asked(d)
  BY <1>1, <1>2 DEF Resetting, Resets, Asked
<1>4. /\ \A e \in Deliveries \ {d} : row'[e] = row[e]
      /\ \/ row'[d].status = "pending" /\ row'[d].attempts = 0 /\ Paid(0)
         \/ row' = row /\ Paid(1)
  BY <1>1, ExecWrites
<1>5. ASSUME NEW k \in Nat PROVE \A e \in Deliveries \ {d} : Quiet(k, e)
  BY <1>1, <1>2, <1>4, AsideOfAdmin
<1>6. CASE row' = row /\ Paid(1)
  <2>1. Numeric(d) /\ Numeric(d)'
    BY AccountNumbers, AccountNumbersNext
  <2>2. /\ Making(d)' = Making(d) /\ Stuck(d)' = Stuck(d) /\ queue'[d] = queue[d]
    BY <1>1, <1>6 DEF Making, Stuck, Busy, Hopeful
  <2>3. Waiting(d)' <= Waiting(d)
    BY <1>1, <1>6, WaitingKept
  <2>4. Making(d)' + queue'[d] + Waiting(d)' + Asked(d)' + Dead(d)'
            <= Making(d) + queue[d] + Waiting(d) + Asked(d) + Dead(d) + 1
    BY <1>3, <2>1, <2>2, <2>3 DEF Numeric
  <2>5. Making(d)' + queue'[d] + Waiting(d)' + Asked(d)'
            <= Making(d) + queue[d] + Waiting(d) + Asked(d) + 1
    BY <1>3, <2>1, <2>2, <2>3 DEF Numeric
  <2>6. Stuck(d)' <= Stuck(d) /\ row'[d].attempts = row[d].attempts
    BY <1>3, <1>6, <2>1, <2>2 DEF Numeric
  <2>7. Quiet(1, d)
    BY <1>1, <1>3, <2>4, <2>5, <2>6, HandedOn
  <2>8. \A e \in Deliveries : Quiet(1, e)
    BY <1>5, <2>7
  <2>9. Accounted
    BY <1>6, <2>8 DEF Accounted
  <2>10. QED
    BY <1>3, <1>5, <2>9
<1>7. QED
  BY <1>1, <1>3, <1>4, <1>5, <1>6

\* The process dies: what the workers had in hand becomes messages again.  A
\* delivery that waits only because PollRetries had not marked it yet is worth
\* one POST more; either it was stuck, or there is a worker to set against it.
LEMMA CrashAccounted ==
    ASSUME WebhookTypes, WebhookTypes', Crash
    PROVE  Accounted
<1> DEFINE N == Cardinality(Workers)
<1>1. /\ queue' = [d \in Deliveries |->
                     queue[d] + Cardinality({w \in Workers : ~Doing(w, "idle") /\ work[w].d = d})]
      /\ work' = [w \in Workers |-> NoWork] /\ poll' = NoPoll /\ admin' = NoAdmin
      /\ maker' = [d \in Deliveries |-> IF maker[d] = "publish" THEN "done" ELSE maker[d]]
      /\ UNCHANGED <<row, due, posts, accepted>> /\ Spend("crash")
  BY DEF Crash
<1>2. Workers \in SUBSET Workers
  OBVIOUS
<1>3. N \in Nat /\ N >= 1
  <2>1. N \in Nat /\ (N = 0 <=> Workers = {})
    BY <1>2, WorkersCounted
  <2>2. Workers # {}
    BY WebhookAssumption
  <2>3. QED
    BY <2>1, <2>2
<1>4. \A v \in Workers : work'[v].pc = "idle"
  BY <1>1 DEF NoWork
<1>5. ASSUME NEW d \in Deliveries
      PROVE  Quiet(N, d)
  <2>1. Numeric(d) /\ Numeric(d)'
    BY AccountNumbers, AccountNumbersNext
  <2>2. queue'[d] = queue[d] + nBusy(d)
    <3>1. Busy(d) = {w \in Workers : ~Doing(w, "idle") /\ work[w].d = d}
      BY DEF Busy, On, Doing
    <3>2. QED
      BY <1>1, <3>1 DEF nBusy
  <2>3. Busy(d)' = {} /\ Posting(d)' = {} /\ Hopeful(d)' = {}
    BY <1>4 DEF Busy, Posting, Hopeful, On, Doing
  <2>4. nBusy(d)' = 0 /\ nPosting(d)' = 0 /\ nHopeful(d)' = 0
    BY <2>3, FS_EmptySet DEF nBusy, nPosting, nHopeful
  <2>5. /\ Making(d)' <= Making(d) /\ Asked(d)' = 0 /\ Resets(d)' = 0 /\ Fresh(d)' = Fresh(d)
        /\ posts'[d] = posts[d]
    BY <1>1 DEF Making, Asked, Resets, Fresh, NoAdmin
  <2>6. Stuck(d)' = 0
    <3>1. Workers # {}
      BY WebhookAssumption
    <3>2. QED
      BY <2>3, <3>1 DEF Stuck
  <2>7. Waiting(d)' = 1 => row[d].status = "retrying"
    <3>1. poll'.pc = "idle" /\ poll'.rows = <<>>
      BY <1>1 DEF NoPoll
    <3>2. ~ToPublish(d)'
      BY <3>1 DEF ToPublish, ToSet
    <3>3. QED
      BY <1>1, <3>2 DEF Waiting, RetryWaits
  <2>8. Waiting(d)' + Dead(d)' <= 1
    <3>1. Dead(d)' = 1 => row[d].status = "dlq"
      BY <1>1 DEF Dead
    <3>2. QED
      BY <2>1, <2>7, <3>1 DEF Numeric
  <2>9. Threads(d)' <= Threads(d) + N
    BY <1>3, <2>1, <2>2, <2>4, <2>5, <2>8 DEF Threads, Numeric
  <2>10. nBusy(d) + Waiting(d)' <= nHopeful(d) + Stuck(d) + N
    <3>1. /\ Busy(d) \in SUBSET Workers /\ Hopeful(d) \in SUBSET Workers
      BY DEF Busy, Hopeful
    <3>2. /\ nBusy(d) <= N /\ (nBusy(d) = N => Busy(d) = Workers)
          /\ (nHopeful(d) = 0 <=> Hopeful(d) = {})
      BY <3>1, WorkersCounted DEF nBusy, nHopeful
    <3>3. CASE nBusy(d) < N \/ Waiting(d)' = 0
      BY <1>3, <2>1, <3>2, <3>3 DEF Numeric
    <3>4. CASE nBusy(d) = N /\ Waiting(d)' = 1
      <4>1. Hopeful(d) = {} => Stuck(d) = 1
        BY <2>7, <3>2, <3>4 DEF Stuck
      <4>2. nHopeful(d) + Stuck(d) >= 1
        BY <2>1, <3>2, <4>1 DEF Numeric
      <4>3. QED
        BY <1>3, <2>1, <3>4, <4>2 DEF Numeric
    <3>5. QED
      BY <1>3, <2>1, <3>2, <3>3, <3>4 DEF Numeric
  <2>11. Chances(d)' <= Chances(d) + N
    BY <1>3, <2>1, <2>2, <2>4, <2>5, <2>6, <2>10 DEF Chances, Numeric
  <2>12. QED
    BY <2>1, <2>5, <2>9, <2>11 DEF Quiet, Numeric
<1>6. Paid(N)
  BY <1>1, FaultsPay
<1> HIDE DEF N
<1>7. QED
  BY <1>3, <1>5, <1>6 DEF Accounted

--------------------------------------------------------------------------------
(* No more POSTs than messages, faults and admins account for *)

LEMMA StutterAccounted ==
    ASSUME WebhookTypes, WebhookTypes', UNCHANGED webhookVars
    PROVE  Accounted
<1>1. UNCHANGED <<row, due, queue, maker, work, poll, admin, posts, accepted, left>>
  BY DEF webhookVars
<1>2. \A e \in Deliveries : RetryWaits(e)' => RetryWaits(e)
  BY <1>1 DEF RetryWaits, ToPublish, Marking
<1>3. \A e \in Deliveries : Quiet(0, e)
  BY <1>1, <1>2, AsideOfPoll
<1>4. QED
  BY <1>1, <1>3, FaultsPay DEF Accounted

\* Every step but those of an admin who takes a delivery up keeps the account.
LEMMA StepAccounted ==
    ASSUME WebhookTypes, WebhookTypes', [WebhookNext]_webhookVars
    PROVE  \/ Accounted
           \/ \E d \in Deliveries : RetryCheck(d) \/ RetryReset(d)
<1>1. CASE \E d \in Deliveries : Insert(d) \/ Publish(d) \/ RetryTimeComes(d)
  BY <1>1, InsertAccounted, PublishAccounted, RetryTimeComesAccounted
<1>2. CASE \E w \in Workers, d \in Deliveries : Receive(w, d)
  BY <1>2, ReceiveAccounted
<1>3. CASE \E w \in Workers : WorkerStep(w) \/ Redeliver(w)
  BY <1>3, PostAccounted, MarkDeliveredAccounted, ReadAttemptsAccounted, JudgeFailureAccounted,
     RedeliverAccounted DEF WorkerStep
<1>4. CASE PollStep
  BY <1>4, PollSelectAccounted, PollPublishAccounted, PollMarkAccounted DEF PollStep
<1>5. CASE \E d \in Deliveries : RetryPublish(d)
  BY <1>5, RetryPublishAccounted
<1>6. CASE Crash
  BY <1>6, CrashAccounted
<1>7. CASE UNCHANGED webhookVars
  BY <1>7, StutterAccounted
<1>8. QED
  BY <1>1, <1>2, <1>3, <1>4, <1>5, <1>6, <1>7 DEF WebhookNext

\* What a delivery may cost per admin's request, the first of them its maker's
Share == 1 + Retries + Faults

\* Of the requests of the admins, all but one may add a message where there is
\* one already: they find the delivery in the dead-letter queue while another
\* request has not reset it yet.
Crowd == IF Used("admin") = 0 THEN 0 ELSE Used("admin") - 1

\* What a reset may cost: new retries, and a new hope for every busy worker
Reserve == Retries + Faults + Crowd

Allowance == (1 + Used("admin")) * Share + Used("admin") * (Used("admin") - 1)

\* The account is covered.  PostsBounded alone is not inductive, since a POST
\* has to have been due: Chances counts those under way.  A reset gives every
\* busy worker a new hope, and Threads bounds the busy workers; what it may
\* cost is set aside as soon as an admin takes up the delivery.
ScheduleBound ==
    \A d \in Deliveries :
        /\ Resets(d) <= Used("admin")
        /\ Threads(d) <= 1 + Faults + Crowd
        /\ Chances(d) + Resets(d) * Reserve <= Allowance

LEMMA AccountIsNumber ==
    \A d \in Deliveries :
        /\ Numeric(d) => Threads(d) \in Nat /\ Chances(d) \in Nat
        /\ Numeric(d)' => Threads(d)' \in Nat /\ Chances(d)' \in Nat
BY DEF Numeric, Threads, Chances

LEMMA ScheduleBoundInit == WebhookInit => ScheduleBound
<1> SUFFICES ASSUME WebhookInit PROVE ScheduleBound
  OBVIOUS
<1>0. WebhookTypes
  BY WebhookTypesInit
<1>1. \A d \in Deliveries : Asked(d) = 0 /\ Resets(d) = 0
  BY DEF WebhookInit, NoAdmin, Asked, Resets
<1>2. Faults \in Nat /\ Used("admin") = 0
  <2>1. left = Budget /\ Budget["admin"] \in Nat
    BY WebhookAssumption DEF WebhookInit, TroubleKinds
  <2>2. QED
    BY <1>0, <2>1, FaultsPay DEF Used
<1>3. ASSUME NEW d \in Deliveries
      PROVE  Threads(d) <= 1 + Faults /\ Chances(d) <= 1 + Retries /\ Chances(d) \in Nat
  <2>1. Numeric(d)
    BY <1>0, AccountNumbers
  <2>2. row[d].status = "none" /\ row[d].attempts = 0 /\ queue[d] = 0 /\ maker[d] = "idle" /\ posts[d] = 0
    BY DEF WebhookInit
  <2>3. poll.pc = "idle" /\ poll.rows = <<>> /\ \A w \in Workers : work[w].pc = "idle"
    BY DEF WebhookInit, NoPoll, NoWork
  <2>4. Busy(d) = {} /\ Posting(d) = {} /\ Hopeful(d) = {}
    BY <2>3 DEF Busy, Posting, Hopeful, On, Doing
  <2>5. nBusy(d) = 0 /\ nPosting(d) = 0 /\ nHopeful(d) = 0
    BY <2>4, FS_EmptySet DEF nBusy, nPosting, nHopeful
  <2>6. Making(d) = 1 /\ Asked(d) = 0 /\ Dead(d) = 0 /\ Stuck(d) = 0
    BY <1>1, <2>2 DEF Making, Dead, Stuck
  <2>7. Fresh(d) <= Retries
    BY <2>1, <2>2 DEF Fresh, Numeric
  <2>8. Waiting(d) = 0
    BY <2>2, <2>3 DEF Waiting, RetryWaits, ToPublish, ToSet
  <2>9. QED
    BY <1>2, <2>1, <2>2, <2>5, <2>6, <2>7, <2>8 DEF Threads, Chances, Numeric
<1>4. Retries \in Nat /\ Crowd = 0 /\ Allowance = 1 + Retries + Faults
  <2>1. Retries \in Nat
    BY WebhookAssumption DEF Retries
  <2>2. Share \in Nat /\ Share = 1 + Retries + Faults
    BY <1>2, <2>1 DEF Share
  <2>3. Allowance = (1 + 0) * Share + 0 * (0 - 1)
    BY <1>2 DEF Allowance
  <2>4. Allowance = Share
    BY <2>2, <2>3
  <2>5. QED
    BY <1>2, <2>1, <2>2, <2>4 DEF Crowd
<1>5. Reserve \in Nat
  BY <1>2, <1>4 DEF Reserve
<1>6. ASSUME NEW d \in Deliveries
      PROVE  /\ Resets(d) <= Used("admin") /\ Threads(d) <= 1 + Faults + Crowd
             /\ Chances(d) + Resets(d) * Reserve <= Allowance
  <2>1. Resets(d) * Reserve = 0
    BY <1>1, <1>5
  <2>2. Threads(d) \in Nat
    BY <1>0, AccountNumbers, AccountIsNumber
  <2>3. QED
    BY <1>1, <1>2, <1>3, <1>4, <2>1, <2>2
<1>7. QED
  BY <1>6 DEF ScheduleBound

\* A product grows with its factor.
LEMMA MoreOfThem == \A m \in Nat, n \in Nat, q \in Nat :
    /\ m * q \in Nat /\ n * q \in Nat
    /\ m <= n => m * q <= n * q
<1> SUFFICES ASSUME NEW m \in Nat, NEW n \in Nat, NEW q \in Nat
             PROVE  m * q \in Nat /\ n * q \in Nat /\ (m <= n => m * q <= n * q)
  OBVIOUS
<1>1. m * q \in Nat /\ n * q \in Nat
  OBVIOUS
<1>2. ASSUME m <= n PROVE m * q <= n * q
  <2>1. n - m \in Nat /\ n * q = m * q + (n - m) * q
    BY <1>2
  <2>2. (n - m) * q \in Nat
    BY <2>1
  <2> DEFINE x == m * q
             y == n * q
             z == (n - m) * q
  <2>3. y = x + z /\ x \in Nat /\ z \in Nat
    BY <1>1, <2>1, <2>2
  <2> HIDE DEF x, y, z
  <2>4. x <= y
    BY <2>3
  <2>5. QED
    BY <2>4 DEF x, y
<1>3. QED
  BY <1>1, <1>2

\* Faults enlarge every share, also what is set aside for the R resets to come.
LEMMA FaultsAffordable ==
    ASSUME NEW A \in Nat, NEW k \in Nat, NEW S \in Nat, NEW V \in Nat, NEW L \in Nat,
           NEW R \in Nat, NEW R2 \in Nat, NEW c \in Nat, NEW c2 \in Nat,
           R2 <= R, R <= A, c2 <= c + k, c + R * V <= (1 + A) * S + L
    PROVE  c2 + R2 * (V + k) <= (1 + A) * (S + k) + L
<1>1. R2 * (V + k) <= R * (V + k) /\ R * k <= A * k
  BY MoreOfThem
<1>2. R * (V + k) = R * V + R * k /\ (1 + A) * (S + k) = (1 + A) * S + k + A * k
  OBVIOUS
<1>3. /\ R2 * (V + k) \in Nat /\ R * (V + k) \in Nat /\ R * V \in Nat /\ R * k \in Nat
      /\ A * k \in Nat /\ (1 + A) * S \in Nat /\ (1 + A) * (S + k) \in Nat
  OBVIOUS
<1> DEFINE a == R2 * (V + k)
           b == R * (V + k)
           u == R * V
           v == R * k
           w == A * k
           X == (1 + A) * S
           Z == (1 + A) * (S + k)
<1>4. /\ a \in Nat /\ b \in Nat /\ u \in Nat /\ v \in Nat /\ w \in Nat /\ X \in Nat /\ Z \in Nat
      /\ a <= b /\ v <= w /\ b = u + v /\ Z = X + k + w /\ c + u <= X + L
  BY <1>1, <1>2, <1>3
<1> HIDE DEF a, b, u, v, w, X, Z
<1>5. c2 + a <= Z + L
  BY <1>4
<1>6. QED
  BY <1>5 DEF a, Z

\* One request more pays for its message, for the reset to come, and for what
\* it adds to the resets of the others.
LEMMA RequestAffordable ==
    ASSUME NEW A \in Nat, NEW S \in Nat, NEW V \in Nat, NEW V2 \in Nat,
           NEW R \in Nat, NEW R2 \in Nat, NEW c \in Nat, NEW c2 \in Nat,
           R2 <= R + 1, R <= A, c2 <= c + 1,
           V2 + 1 = S + A, A = 0 => V2 = V, A >= 1 => V2 = V + 1,
           c + R * V <= (1 + A) * S + A * (A - 1)
    PROVE  c2 + R2 * V2 <= (1 + (A + 1)) * S + (A + 1) * ((A + 1) - 1)
<1>1. R2 * V2 <= (R + 1) * V2
  BY MoreOfThem
<1>2. (R + 1) * V2 = R * V2 + V2 /\ R2 * V2 \in Nat /\ R * V2 \in Nat
  OBVIOUS
<1>3. CASE A = 0
  <2>1. R = 0 /\ V2 = S - 1 /\ R * V2 = 0 /\ R * V = 0
    BY <1>3
  <2>2. (1 + A) * S + A * (A - 1) = S /\ (1 + (A + 1)) * S + (A + 1) * ((A + 1) - 1) = S + S
    BY <1>3
  <2>3. c <= S /\ R2 * V2 <= S - 1
    BY <1>1, <1>2, <2>1, <2>2
  <2> DEFINE a == R2 * V2
  <2>4. a \in Nat /\ a <= S - 1
    BY <1>2, <2>3
  <2> HIDE DEF a
  <2>5. c2 + a <= S + S
    BY <2>3, <2>4
  <2>6. QED
    BY <2>2, <2>5 DEF a
<1>4. CASE A >= 1
  <2>1. V2 = V + 1 /\ V + 2 = S + A /\ R * V2 = R * V + R
    BY <1>4
  <2>2. (1 + (A + 1)) * S + (A + 1) * ((A + 1) - 1) = (1 + A) * S + A * (A - 1) + S + A + A
    BY <1>4
  <2>3. R * V \in Nat /\ (1 + A) * S \in Nat /\ A * (A - 1) \in Nat
    BY <1>4
  <2> DEFINE a == R2 * V2
             b == (R + 1) * V2
             u == R * V
             w == R * V2
             X == (1 + A) * S + A * (A - 1)
             Z == (1 + (A + 1)) * S + (A + 1) * ((A + 1) - 1)
  <2>4. /\ a \in Nat /\ u \in Nat /\ w \in Nat /\ X \in Nat
        /\ a <= b /\ b = w + V2 /\ w = u + R /\ Z = X + S + A + A /\ c + u <= X
    BY <1>1, <1>2, <2>1, <2>2, <2>3
  <2> HIDE DEF a, b, u, w, X, Z
  <2>5. c2 + a <= Z
    BY <2>1, <2>4
  <2>6. QED
    BY <2>5 DEF a, Z
<1>5. QED
  BY <1>3, <1>4

\* A reset is paid from what was set aside for it.
LEMMA ResetAffordable ==
    ASSUME NEW V \in Nat, NEW R \in Nat, NEW R2 \in Nat, NEW c \in Nat, NEW c2 \in Nat, NEW Z \in Nat,
           R2 + 1 = R, c2 <= c + V, c + R * V <= Z
    PROVE  c2 + R2 * V <= Z
<1>1. R * V = R2 * V + V /\ R2 * V \in Nat /\ R * V \in Nat
  OBVIOUS
<1> DEFINE a == R * V
           b == R2 * V
<1>2. a \in Nat /\ b \in Nat /\ a = b + V /\ c + a <= Z
  BY <1>1
<1> HIDE DEF a, b
<1>3. c2 + b <= Z
  BY <1>2
<1>4. QED
  BY <1>3 DEF b

\* The account's numbers
LEMMA ShareNumbers ==
    ASSUME WebhookTypes
    PROVE  /\ Faults \in Nat /\ Used("admin") \in Nat /\ Share \in Nat /\ Retries \in Nat
           /\ Share = 1 + Retries + Faults
           /\ Crowd \in Nat /\ Reserve \in Nat /\ Reserve = Retries + Faults + Crowd
           /\ Used("admin") * (Used("admin") - 1) \in Nat
           /\ (1 + Used("admin")) * Share \in Nat /\ Allowance \in Nat
<1>1. Faults \in Nat /\ Used("admin") \in Nat
  BY FaultsPay DEF TroubleKinds
<1>2. Retries \in Nat
  BY WebhookAssumption DEF Retries
<1>3. Share \in Nat /\ Share = 1 + Retries + Faults
  BY <1>1, <1>2 DEF Share
<1>4. Crowd \in Nat
  BY <1>1 DEF Crowd
<1>5. Reserve \in Nat /\ Reserve = Retries + Faults + Crowd
  BY <1>1, <1>2, <1>4 DEF Reserve
<1> DEFINE A == Used("admin")
           S == Share
<1>6. A \in Nat /\ S \in Nat
  BY <1>1, <1>3
<1> HIDE DEF A, S
<1>7. A * (A - 1) \in Nat
  <2>1. CASE A = 0
    BY <2>1
  <2>2. CASE A >= 1
    <3>1. A - 1 \in Nat
      BY <1>6, <2>2
    <3>2. QED
      BY <1>6, <3>1
  <2>3. QED
    BY <1>6, <2>1, <2>2
<1>8. (1 + A) * S \in Nat
  BY <1>6
<1>9. (1 + A) * S + A * (A - 1) \in Nat
  BY <1>7, <1>8
<1>10. QED
  BY <1>1, <1>2, <1>3, <1>4, <1>5, <1>7, <1>8, <1>9 DEF A, S, Allowance

LEMMA AccountedKeepsBound ==
    ASSUME WebhookTypes, WebhookTypes', ScheduleBound, Accounted
    PROVE  ScheduleBound'
<1>1. PICK k \in Nat : Paid(k) /\ \A e \in Deliveries : Quiet(k, e)
  BY DEF Accounted
<1>2. PICK A \in Nat, S \in Nat, F \in Nat, V \in Nat, C \in Nat, L \in Nat :
        /\ A = Used("admin") /\ S = Share /\ F = Faults /\ V = Reserve /\ C = Crowd
        /\ L = Used("admin") * (Used("admin") - 1)
  BY ShareNumbers
<1>3. /\ Used("admin")' = A /\ Faults' = F + k /\ Crowd' = C
      /\ Used("admin")' * (Used("admin")' - 1) = L
  BY <1>1, <1>2 DEF Paid, Crowd
<1>4. Share' = S + k /\ Reserve' = V + k
  <2>1. Share = 1 + Retries + Faults /\ Reserve = Retries + Faults + Crowd /\ Retries \in Nat
    BY ShareNumbers
  <2>2. Share' = 1 + Retries + (F + k) /\ Reserve' = Retries + (F + k) + C
    BY <1>3 DEF Share, Reserve
  <2>3. QED
    BY <1>2, <2>1, <2>2
<1>5. Allowance = (1 + A) * S + L /\ Allowance' = (1 + A) * (S + k) + L
  BY <1>2, <1>3, <1>4 DEF Allowance
<1>6. ASSUME NEW d \in Deliveries
      PROVE  /\ Resets(d)' <= Used("admin")' /\ Threads(d)' <= 1 + Faults' + Crowd'
             /\ Chances(d)' + Resets(d)' * Reserve' <= Allowance'
  <2>1. PICK t \in Nat, t2 \in Nat, c \in Nat, c2 \in Nat, R \in Nat, R2 \in Nat :
          /\ t = Threads(d) /\ t2 = Threads(d)' /\ c = Chances(d) /\ c2 = Chances(d)'
          /\ R = Resets(d) /\ R2 = Resets(d)'
    BY AccountNumbers, AccountNumbersNext, AccountIsNumber DEF Numeric
  <2>2. t2 <= t + k /\ c2 <= c + k /\ R2 <= R
    BY <1>1, <2>1 DEF Quiet
  <2>3. R <= A /\ t <= 1 + F + C /\ c + R * V <= (1 + A) * S + L
    BY <1>2, <1>5, <2>1 DEF ScheduleBound
  <2>4. c2 + R2 * (V + k) <= (1 + A) * (S + k) + L
    BY <2>2, <2>3, FaultsAffordable
  <2>5. R2 <= A /\ t2 <= 1 + (F + k) + C
    BY <2>2, <2>3
  <2>6. QED
    BY <1>3, <1>4, <1>5, <2>1, <2>4, <2>5
<1>7. QED
  BY <1>6 DEF ScheduleBound

\* An admin takes a dead delivery up: it costs one share more.
LEMMA RetryCheckKeepsBound ==
    ASSUME WebhookTypes, WebhookTypes', ScheduleBound, NEW d \in Deliveries, RetryCheck(d)
    PROVE  ScheduleBound'
<1>1. /\ row[d].status = "dlq" /\ Spend("admin")
      /\ admin' = [admin EXCEPT ![d].reset = @ + 1]
      /\ UNCHANGED <<row, due, queue, maker, work, poll, posts, accepted>>
  BY DEF RetryCheck
<1>2. PICK A \in Nat, S \in Nat, F \in Nat, V \in Nat, C \in Nat :
        /\ A = Used("admin") /\ S = Share /\ F = Faults /\ V = Reserve /\ C = Crowd
  BY ShareNumbers
<1>3. Used("admin")' = A + 1 /\ Faults' = F /\ Share' = S /\ Crowd' = A
  <2>1. Used("admin")' = A + 1 /\ Faults' = F
    BY <1>1, <1>2, FaultsPay
  <2>2. QED
    BY <1>2, <2>1 DEF Share, Crowd
<1>4. /\ A = 0 => C = 0
      /\ A >= 1 => C + 1 = A
  BY <1>2 DEF Crowd
<1>5. PICK V2 \in Nat : /\ V2 = Reserve' /\ V2 + 1 = S + A
                        /\ A = 0 => V2 = V
                        /\ A >= 1 => V2 = V + 1
  <2>1. Share = 1 + Retries + Faults /\ Reserve = Retries + Faults + Crowd /\ Retries \in Nat
    BY ShareNumbers
  <2>2. Reserve' = Retries + F + A
    BY <1>3 DEF Reserve
  <2>3. QED
    BY <1>2, <1>4, <2>1, <2>2
<1>6. /\ Allowance = (1 + A) * S + A * (A - 1)
      /\ Allowance' = (1 + (A + 1)) * S + (A + 1) * ((A + 1) - 1)
  BY <1>2, <1>3 DEF Allowance
<1>7. /\ admin'[d].reset = admin[d].reset + 1 /\ admin'[d].publish = admin[d].publish
      /\ admin[d].reset \in Nat /\ admin[d].publish \in Nat
      /\ \A e \in Deliveries \ {d} : admin'[e] = admin[e]
  BY <1>1 DEF WebhookTypes
<1>8. ASSUME NEW e \in Deliveries
      PROVE  /\ Threads(e)' <= Threads(e) + (IF Resets(e) = 0 THEN 0 ELSE 1)
             /\ Chances(e)' <= Chances(e) + 1 /\ Resets(e)' <= Resets(e) + 1
  <2>1. Numeric(e) /\ Numeric(e)'
    BY AccountNumbers, AccountNumbersNext
  <2>2. CASE e # d
    <3>1. Quiet(0, e)
      BY <1>1, <1>7, <2>2, AsideOfAdmin
    <3>2. Threads(e) \in Nat /\ Chances(e) \in Nat /\ Threads(e)' \in Nat /\ Chances(e)' \in Nat
      BY <2>1, AccountIsNumber
    <3>3. QED
      BY <2>1, <3>1, <3>2 DEF Quiet, Numeric
  <2>3. CASE e = d
    <3>1. Untouched(d)
      BY <1>1 DEF Untouched
    <3>2. /\ nBusy(d)' = nBusy(d) /\ nPosting(d)' = nPosting(d) /\ nHopeful(d)' = nHopeful(d)
          /\ Stuck(d)' = Stuck(d)
      BY <1>1, <3>1, UntouchedTeams DEF nBusy, nPosting, nHopeful, Stuck
    <3>3. /\ Asked(d)' = Asked(d) + 1 /\ Resets(d)' = Resets(d) + 1
          /\ Dead(d)' = 0 /\ (Resets(d) = 0 => Dead(d) = 1)
      BY <1>1, <1>7 DEF Dead, Asked, Resets, Resetting
    <3>4. Waiting(d)' <= Waiting(d)
      BY <1>1, WaitingKept
    <3>5. Making(d)' = Making(d) /\ Fresh(d)' = Fresh(d) /\ queue'[d] = queue[d] /\ posts'[d] = posts[d]
      BY <1>1 DEF Making, Fresh
    <3>6. CASE Resets(d) = 0
      BY <2>1, <2>3, <3>2, <3>3, <3>4, <3>5, <3>6 DEF Threads, Chances, Numeric
    <3>7. CASE Resets(d) # 0
      BY <2>1, <2>3, <3>2, <3>3, <3>4, <3>5, <3>7 DEF Threads, Chances, Numeric
    <3>8. QED
      BY <3>6, <3>7
  <2>4. QED
    BY <2>2, <2>3
<1>9. ASSUME NEW e \in Deliveries
      PROVE  /\ Resets(e)' <= Used("admin")' /\ Threads(e)' <= 1 + Faults' + Crowd'
             /\ Chances(e)' + Resets(e)' * Reserve' <= Allowance'
  <2>1. PICK t \in Nat, t2 \in Nat, c \in Nat, c2 \in Nat, R \in Nat, R2 \in Nat :
          /\ t = Threads(e) /\ t2 = Threads(e)' /\ c = Chances(e) /\ c2 = Chances(e)'
          /\ R = Resets(e) /\ R2 = Resets(e)'
    BY AccountNumbers, AccountNumbersNext, AccountIsNumber DEF Numeric
  <2>2. t2 <= t + (IF R = 0 THEN 0 ELSE 1) /\ c2 <= c + 1 /\ R2 <= R + 1
    BY <1>8, <2>1
  <2>3. R <= A /\ t <= 1 + F + C /\ c + R * V <= (1 + A) * S + A * (A - 1)
    BY <1>2, <1>6, <2>1 DEF ScheduleBound
  <2>4. c2 + R2 * V2 <= (1 + (A + 1)) * S + (A + 1) * ((A + 1) - 1)
    BY <1>5, <2>2, <2>3, RequestAffordable
  <2>5. R2 <= A + 1 /\ t2 <= 1 + F + A
    BY <1>4, <2>2, <2>3
  <2>6. QED
    BY <1>3, <1>5, <1>6, <2>1, <2>4, <2>5
<1>10. QED
  BY <1>9 DEF ScheduleBound

\* RetryDLQ starts the count again.  The workers that are busy with old
\* messages are given new hope; there are no more of them than faults and other
\* requests, since this request is the one thread that is not owed to those.
LEMMA ResetKeepsBound ==
    ASSUME WebhookTypes, WebhookTypes', ScheduleBound, NEW d \in Deliveries,
           Resetting(d), Resets(d)' = Resets(d) - 1, Asked(d)' = Asked(d),
           \A e \in Deliveries \ {d} : Quiet(0, e), Paid(0),
           row'[d].status = "pending", row'[d].attempts = 0,
           UNCHANGED <<queue, maker, work, poll, posts>>
    PROVE  ScheduleBound'
<1>1. PICK A \in Nat, F \in Nat, V \in Nat, C \in Nat, Z \in Nat, N \in Nat :
        /\ A = Used("admin") /\ F = Faults /\ V = Reserve /\ C = Crowd /\ Z = Allowance
        /\ N = Retries /\ V = N + F + C
  BY ShareNumbers
<1>2. /\ Used("admin")' = A /\ Faults' = F /\ Crowd' = C /\ Reserve' = V
      /\ Allowance' = Z
  <2>1. Used("admin")' = Used("admin") /\ Faults' = Faults
    BY <1>1 DEF Paid
  <2>2. Share' = Share
    BY <2>1 DEF Share
  <2>3. QED
    BY <1>1, <2>1, <2>2 DEF Crowd, Reserve, Allowance
<1>3. Numeric(d) /\ Numeric(d)'
  BY AccountNumbers, AccountNumbersNext
<1>4. Asked(d) >= 1
  <2>1. admin[d].reset \in Nat /\ admin[d].publish \in Nat /\ admin[d].reset > 0
    BY DEF WebhookTypes, Resetting, Resets
  <2>2. QED
    BY <2>1 DEF Asked
<1>5. /\ Making(d)' = Making(d) /\ Dead(d)' = 0 /\ Stuck(d)' = 0 /\ Fresh(d)' <= Retries
      /\ queue'[d] = queue[d] /\ posts'[d] = posts[d]
  <2>1. Fresh(d)' <= Retries
    BY <1>3 DEF Fresh, Numeric
  <2>2. QED
    BY <2>1 DEF Making, Dead, Stuck
<1>6. Waiting(d)' <= Waiting(d)
  BY WaitingKept
<1>7. nBusy(d)' = nBusy(d) /\ nPosting(d)' = nPosting(d)
  <2>1. Busy(d)' = Busy(d) /\ Posting(d)' = Posting(d)
    BY DEF Busy, Posting, Doing
  <2>2. QED
    BY <2>1 DEF nBusy, nPosting
<1>8. nHopeful(d)' <= nBusy(d)
  <2>1. Busy(d) \in SUBSET Workers /\ Hopeful(d)' \in SUBSET Busy(d)
    BY DEF Busy, Hopeful
  <2>2. QED
    BY <2>1, WorkersCounted DEF nBusy, nHopeful
<1>9. PICK t \in Nat, t2 \in Nat, c \in Nat, c2 \in Nat, R \in Nat, R2 \in Nat, b \in Nat :
        /\ t = Threads(d) /\ t2 = Threads(d)' /\ c = Chances(d) /\ c2 = Chances(d)'
        /\ R = Resets(d) /\ R2 = Resets(d)' /\ b = nBusy(d)
  BY <1>3, AccountIsNumber DEF Numeric
<1>10. t2 <= t /\ t >= b + 1
  <2>1. Threads(d)' <= Threads(d)
    BY <1>3, <1>5, <1>6, <1>7 DEF Threads, Numeric
  <2>2. Threads(d) >= nBusy(d) + 1
    BY <1>3, <1>4 DEF Threads, Numeric
  <2>3. QED
    BY <1>9, <2>1, <2>2
<1>11. c2 <= c + b + N
  <2>1. Chances(d)' <= Chances(d) + nBusy(d) + Retries
    BY <1>3, <1>5, <1>6, <1>7, <1>8 DEF Chances, Numeric
  <2>2. QED
    BY <1>1, <1>9, <2>1
<1>12. R <= A /\ t <= 1 + F + C /\ c + R * V <= Z /\ R2 + 1 = R
  BY <1>1, <1>9 DEF ScheduleBound
<1>13. c2 <= c + V
  BY <1>1, <1>10, <1>11, <1>12
<1>14. c2 + R2 * V <= Z
  BY <1>12, <1>13, ResetAffordable
<1>15. /\ Resets(d)' <= Used("admin")' /\ Threads(d)' <= 1 + Faults' + Crowd'
       /\ Chances(d)' + Resets(d)' * Reserve' <= Allowance'
  BY <1>2, <1>9, <1>10, <1>12, <1>14
<1>16. ASSUME NEW e \in Deliveries \ {d}
       PROVE  /\ Resets(e)' <= Used("admin")' /\ Threads(e)' <= 1 + Faults' + Crowd'
              /\ Chances(e)' + Resets(e)' * Reserve' <= Allowance'
  <2>1. PICK x \in Nat, x2 \in Nat, y \in Nat, y2 \in Nat, q \in Nat, q2 \in Nat :
          /\ x = Threads(e) /\ x2 = Threads(e)' /\ y = Chances(e) /\ y2 = Chances(e)'
          /\ q = Resets(e) /\ q2 = Resets(e)'
    BY AccountNumbers, AccountNumbersNext, AccountIsNumber DEF Numeric
  <2>2. Quiet(0, e)
    OBVIOUS
  <2>3. x2 <= x /\ y2 <= y /\ q2 <= q
    BY <2>1, <2>2 DEF Quiet
  <2>4. q <= A /\ x <= 1 + F + C /\ y + q * V <= Z
    BY <1>1, <2>1 DEF ScheduleBound
  <2>5. q2 * V <= q * V /\ q2 * V \in Nat /\ q * V \in Nat
    BY <2>3, MoreOfThem
  <2>6. y2 + q2 * V <= Z
    BY <2>3, <2>4, <2>5
  <2>7. QED
    BY <1>2, <2>1, <2>3, <2>4, <2>6
<1>17. QED
  BY <1>15, <1>16 DEF ScheduleBound

LEMMA ScheduleBoundStep ==
    ASSUME WebhookTypes, WebhookTypes', ScheduleBound, [WebhookNext]_webhookVars
    PROVE  ScheduleBound'
<1>1. CASE Accounted
  BY <1>1, AccountedKeepsBound
<1>2. CASE \E d \in Deliveries : RetryCheck(d)
  BY <1>2, RetryCheckKeepsBound
<1>3. ASSUME NEW d \in Deliveries, RetryReset(d) PROVE ScheduleBound'
  <2>1. /\ Resetting(d) /\ Resets(d)' = Resets(d) - 1 /\ Asked(d)' = Asked(d)
        /\ \A k \in Nat : \A e \in Deliveries \ {d} : Quiet(k, e)
        /\ \/ Accounted
           \/ /\ Paid(0) /\ row'[d].status = "pending" /\ row'[d].attempts = 0
              /\ UNCHANGED <<queue, maker, work, poll, posts>>
    BY <1>3, RetryResetAccounted
  <2>2. \A e \in Deliveries \ {d} : Quiet(0, e)
    BY <2>1
  <2>3. CASE /\ Paid(0) /\ row'[d].status = "pending" /\ row'[d].attempts = 0
             /\ UNCHANGED <<queue, maker, work, poll, posts>>
    BY <2>1, <2>2, <2>3, ResetKeepsBound
  <2>4. QED
    BY <1>1, <2>1, <2>3
<1>4. QED
  BY <1>1, <1>2, <1>3, StepAccounted

\* The account bounds what was posted.
LEMMA BoundSuffices == WebhookTypes /\ ScheduleBound => PostsBounded
<1> SUFFICES ASSUME WebhookTypes, ScheduleBound, NEW d \in Deliveries
             PROVE  posts[d] <= (1 + Used("admin"))
                      * (1 + Len(RetryIntervals) + Used("dup") + Used("db")
                           + Used("crash") * Cardinality(Workers))
                      + Used("admin") * (Used("admin") - 1)
  BY DEF PostsBounded
<1>1. posts[d] <= Chances(d) /\ posts[d] \in Nat /\ Chances(d) \in Nat
  <2>1. Numeric(d)
    BY AccountNumbers
  <2>2. QED
    BY <2>1, AccountIsNumber DEF Chances, Numeric
<1>2. 1 + Len(RetryIntervals) + Used("dup") + Used("db") + Used("crash") * Cardinality(Workers) = Share
  <2>1. /\ Used("dup") \in Nat /\ Used("db") \in Nat /\ Used("crash") \in Nat
        /\ Cardinality(Workers) \in Nat /\ Len(RetryIntervals) \in Nat
    <3>1. Workers \in SUBSET Workers
      OBVIOUS
    <3>2. QED
      BY <3>1, FaultsPay, WorkersCounted, WebhookAssumption DEF TroubleKinds
  <2> DEFINE n == Used("crash") * Cardinality(Workers)
  <2>2. n \in Nat
    BY <2>1
  <2>3. Share = 1 + Len(RetryIntervals) + (Used("dup") + Used("db") + n)
    BY DEF Share, Retries, Faults
  <2> HIDE DEF n
  <2>4. 1 + Len(RetryIntervals) + Used("dup") + Used("db") + n = Share
    BY <2>1, <2>2, <2>3
  <2>5. QED
    BY <2>4 DEF n
<1>3. posts[d] <= Allowance
  <2>1. PICK V \in Nat, R \in Nat, c \in Nat, Z \in Nat, p \in Nat :
          /\ V = Reserve /\ R = Resets(d) /\ c = Chances(d) /\ Z = Allowance /\ p = posts[d]
    BY <1>1, ShareNumbers, AccountNumbers DEF Numeric
  <2>2. p <= c /\ c + R * V <= Z /\ R * V \in Nat
    BY <1>1, <2>1 DEF ScheduleBound
  <2>3. p <= Z
    BY <2>2
  <2>4. QED
    BY <2>1, <2>3
<1>4. QED
  BY <1>2, <1>3 DEF Allowance

--------------------------------------------------------------------------------
(* No delivery is given up early *)

\* What was sent, or is being sent
Sent(d) == posts[d] + nPosting(d)
Exhausted(d) == Sent(d) > Retries

Undisturbed == Used("db") = 0 /\ Used("crash") = 0

\* DLQMeansExhausted is not inductive: handleDeliveryFailure gives up on what it
\* has read some steps before.  The row never counts more than was sent, and
\* what a worker carries was counted; a reset takes the count away, but only
\* from a delivery whose schedule was used up before.
Earned(d) ==
    /\ row[d].attempts <= Sent(d)
    /\ row[d].status = "dlq" \/ Resetting(d) => Exhausted(d)
    /\ \A w \in Workers : On(work[w], d) =>
        /\ work[w].pc \in {"post", "failed"} => row[d].attempts >= 1 \/ Exhausted(d)
        /\ work[w].pc = "judge" => (work[w].n >= 1 \/ Exhausted(d)) /\ work[w].n <= Sent(d)

DLQEarned == Undisturbed => \A d \in Deliveries : Earned(d)

\* While no update is lost and no process dies
LEMMA Calm ==
    ASSUME WebhookTypes, WebhookTypes', [WebhookNext]_webhookVars, Undisturbed'
    PROVE  Undisturbed /\ ~Spend("db") /\ ~Spend("crash")
<1>1. UNCHANGED left \/ \E kind \in TroubleKinds : Spend(kind)
  <2>1. /\ "dup" \in TroubleKinds /\ "crash" \in TroubleKinds /\ "db" \in TroubleKinds
        /\ "pubsub" \in TroubleKinds /\ "admin" \in TroubleKinds
    BY DEF TroubleKinds
  <2>2. CASE \E d \in Deliveries : Insert(d) \/ Publish(d) \/ RetryTimeComes(d)
    BY <2>1, <2>2 DEF Insert, Publish, RetryTimeComes
  <2>3. CASE \E w \in Workers, d \in Deliveries : Receive(w, d)
    BY <2>1, <2>3 DEF Receive, Exec
  <2>4. CASE \E w \in Workers : WorkerStep(w) \/ Redeliver(w)
    BY <2>1, <2>4 DEF WorkerStep, Redeliver, Post, MarkDelivered, ReadAttempts, JudgeFailure, Exec
  <2>5. CASE \E d \in Deliveries : RetryCheck(d) \/ RetryReset(d) \/ RetryPublish(d)
    BY <2>1, <2>5 DEF RetryCheck, RetryReset, RetryPublish, Exec
  <2>6. CASE PollStep \/ Crash
    BY <2>1, <2>6 DEF PollStep, PollSelect, PollPublish, PollMark, Crash, Exec
  <2>7. CASE UNCHANGED webhookVars
    BY <2>7 DEF webhookVars
  <2>8. QED
    BY <2>2, <2>3, <2>4, <2>5, <2>6, <2>7 DEF WebhookNext
<1>2. "db" \in TroubleKinds /\ "crash" \in TroubleKinds
  BY DEF TroubleKinds
<1>3. \A kind \in TroubleKinds : /\ left[kind] \in Nat /\ left'[kind] \in Nat
                                 /\ Budget[kind] \in Nat /\ left[kind] <= Budget[kind]
  BY WebhookAssumption DEF WebhookTypes
<1>4. left'["db"] = Budget["db"] /\ left'["crash"] = Budget["crash"]
  <2>1. Budget["db"] - left'["db"] = 0 /\ Budget["crash"] - left'["crash"] = 0
    BY DEF Undisturbed, Used
  <2>2. QED
    BY <1>2, <1>3, <2>1
<1>5. ASSUME NEW kind \in TroubleKinds, Spend(kind)
      PROVE  /\ left'[kind] = left[kind] - 1
             /\ \A k \in TroubleKinds : k # kind => left'[k] = left[k]
  <2>1. left' = [left EXCEPT ![kind] = left[kind] - 1] /\ left \in [TroubleKinds -> Nat]
    BY <1>5 DEF Spend, WebhookTypes
  <2>2. QED
    BY <2>1
<1>6. ~Spend("db") /\ ~Spend("crash")
  BY <1>2, <1>3, <1>4, <1>5
<1>7. left["db"] = Budget["db"] /\ left["crash"] = Budget["crash"]
  <2>1. CASE UNCHANGED left
    BY <1>4, <2>1
  <2>2. ASSUME NEW kind \in TroubleKinds, Spend(kind)
        PROVE  left["db"] = Budget["db"] /\ left["crash"] = Budget["crash"]
    <3>1. kind # "db" /\ kind # "crash"
      BY <1>6, <2>2
    <3>2. QED
      BY <1>2, <1>4, <1>5, <2>2, <3>1
  <2>3. QED
    BY <1>1, <2>1, <2>2
<1>8. QED
  BY <1>2, <1>3, <1>6, <1>7 DEF Undisturbed, Used

\* A step that changes neither the count nor the workers of d
LEMMA EarnedStill ==
    ASSUME NEW d \in Deliveries, Earned(d), Untouched(d), posts'[d] = posts[d],
           row'[d].status = "dlq" => row[d].status = "dlq",
           Resetting(d)' => row[d].status = "dlq" \/ Resetting(d)
    PROVE  Earned(d)'
<1>1. nPosting(d)' = nPosting(d)
  BY UntouchedTeams DEF nPosting
<1>2. Sent(d)' = Sent(d) /\ row'[d].attempts = row[d].attempts
  BY <1>1 DEF Sent, Untouched
<1>3. Exhausted(d)' <=> Exhausted(d)
  BY <1>2 DEF Exhausted
<1>4. (row[d].status = "dlq" \/ Resetting(d))' => Exhausted(d)'
  BY <1>3 DEF Earned
<1>5. \A w \in Workers : On(work'[w], d) => work'[w] = work[w]
  BY DEF Untouched
<1>6. QED
  BY <1>2, <1>3, <1>4, <1>5 DEF Earned

\* The worker w goes on with d; what was sent stays sent.
LEMMA EarnedGoesOn ==
    ASSUME NEW d \in Deliveries, NEW w \in Workers, Earned(d), Sent(d)' = Sent(d),
           row'[d].attempts = row[d].attempts,
           (row[d].status = "dlq" \/ Resetting(d))' =>
               row[d].status = "dlq" \/ Resetting(d) \/ Exhausted(d),
           \A v \in Workers \ {w} : work'[v] = work[v],
           On(work'[w], d) =>
               /\ work'[w].pc \in {"post", "failed"} => row[d].attempts >= 1 \/ Exhausted(d)
               /\ work'[w].pc = "judge" =>
                    (work'[w].n >= 1 \/ Exhausted(d)) /\ work'[w].n <= Sent(d)
    PROVE  Earned(d)'
<1>1. Exhausted(d)' <=> Exhausted(d)
  BY DEF Exhausted
<1>2. (row[d].status = "dlq" \/ Resetting(d))' => Exhausted(d)'
  BY <1>1 DEF Earned
<1>3. (row[d].attempts <= Sent(d))'
  BY DEF Earned
<1>4. ASSUME NEW v \in Workers, On(work'[v], d)
      PROVE  /\ work'[v].pc \in {"post", "failed"} => row[d].attempts >= 1 \/ Exhausted(d)
             /\ work'[v].pc = "judge" =>
                  (work'[v].n >= 1 \/ Exhausted(d)) /\ work'[v].n <= Sent(d)
  <2>1. CASE v = w
    BY <1>4, <2>1
  <2>2. CASE v # w
    <3>1. work'[v] = work[v] /\ On(work[v], d)
      BY <1>4, <2>2
    <3>2. QED
      BY <3>1 DEF Earned
  <2>3. QED
    BY <2>1, <2>2
<1>5. (\A v \in Workers : On(work[v], d) =>
        /\ work[v].pc \in {"post", "failed"} => row[d].attempts >= 1 \/ Exhausted(d)
        /\ work[v].pc = "judge" => (work[v].n >= 1 \/ Exhausted(d)) /\ work[v].n <= Sent(d))'
  BY <1>1, <1>4
<1>6. QED
  BY <1>2, <1>3, <1>5 DEF Earned

LEMMA ReceiveEarned ==
    ASSUME WebhookTypes, WebhookTypes', NEW w \in Workers, NEW d \in Deliveries, Receive(w, d),
           ~Spend("db"), \A e \in Deliveries : Earned(e)
    PROVE  \A e \in Deliveries : Earned(e)'
<1>1. /\ work[w].pc = "idle" /\ work' = [work EXCEPT ![w] = [pc |-> "post", d |-> d, n |-> 0]]
      /\ UNCHANGED <<maker, poll, admin, posts>>
      /\ Exec(d, "delivering", row[d].attempts + 1, due)
  BY DEF Receive, SetWork, Doing
<1>2. /\ row'[d].status = "delivering" /\ row'[d].attempts = row[d].attempts + 1
      /\ \A e \in Deliveries \ {d} : row'[e] = row[e]
  BY <1>1, ExecWrites
<1>3. /\ nPosting(d)' = nPosting(d) + 1
      /\ \A e \in Deliveries \ {d} : Untouched(e)
  BY <1>1, <1>2, Joins
<1>4. \A e \in Deliveries \ {d} : Earned(e)'
  <2>1. \A e \in Deliveries \ {d} : Resetting(e)' => Resetting(e)
    BY <1>1 DEF Resetting, Resets
  <2>2. QED
    BY <1>1, <1>2, <1>3, <2>1, EarnedStill
<1>5. Numeric(d) /\ Numeric(d)'
  BY AccountNumbers, AccountNumbersNext
<1>6. Sent(d) \in Nat /\ Sent(d)' = Sent(d) + 1
  BY <1>1, <1>3, <1>5 DEF Sent, Numeric
<1>7. Exhausted(d) => Exhausted(d)'
  <2>1. Retries \in Nat
    BY <1>5 DEF Numeric
  <2>2. QED
    BY <1>6, <2>1 DEF Exhausted
<1>8. row'[d].attempts <= Sent(d)' /\ row'[d].attempts >= 1
  BY <1>2, <1>5, <1>6 DEF Earned, Numeric
<1>9. (row[d].status = "dlq" \/ Resetting(d))' => Exhausted(d)'
  BY <1>1, <1>2, <1>7 DEF Earned, Resetting, Resets
<1>10. \A v \in Workers : On(work'[v], d) /\ work'[v].pc = "judge" =>
          (work'[v].n >= 1 \/ Exhausted(d)') /\ work'[v].n <= Sent(d)'
  <2>1. ASSUME NEW v \in Workers, On(work'[v], d), work'[v].pc = "judge"
        PROVE  (work'[v].n >= 1 \/ Exhausted(d)') /\ work'[v].n <= Sent(d)'
    <3>1. work'[v] = work[v]
      BY <1>1, <2>1 DEF WebhookTypes, DeliveryTypes
    <3>2. /\ On(work[v], d) /\ work[v].pc = "judge"
          /\ work[v] \in [pc : WorkSteps, d : Deliveries, n : Nat]
      BY <2>1, <3>1, InHand
    <3>3. (work[v].n >= 1 \/ Exhausted(d)) /\ work[v].n <= Sent(d) /\ work[v].n \in Nat
      BY <3>2 DEF Earned
    <3>4. QED
      BY <1>6, <1>7, <3>1, <3>3
  <2>2. QED
    BY <2>1
<1>11. Earned(d)'
  BY <1>8, <1>9, <1>10 DEF Earned
<1>12. QED
  BY <1>4, <1>11

\* The steps of a worker that has taken its message
LEMMA WorkerEarned ==
    ASSUME WebhookTypes, WebhookTypes', NEW w \in Workers, WorkerStep(w),
           ~Spend("db"), \A e \in Deliveries : Earned(e)
    PROVE  \A e \in Deliveries : Earned(e)'
<1>1. work[w].pc # "idle"
  BY DEF WorkerStep, Post, MarkDelivered, ReadAttempts, JudgeFailure, Doing
<1>2. PICK d \in Deliveries : /\ work[w].d = d /\ On(work[w], d)
                             /\ work[w] \in [pc : WorkSteps, d : Deliveries, n : Nat]
  BY <1>1, InHand
<1>3. Numeric(d) /\ Numeric(d)'
  BY AccountNumbers, AccountNumbersNext
<1>4. Sent(d) \in Nat /\ Retries \in Nat /\ row[d].attempts \in Nat
  BY <1>3 DEF Sent, Numeric
<1>5. ASSUME NEW r, r.d = d \/ r.pc = "idle", work' = [work EXCEPT ![w] = r], admin' = admin,
             \A e \in Deliveries \ {d} : row'[e] = row[e] /\ posts'[e] = posts[e],
             Earned(d)'
      PROVE  \A e \in Deliveries : Earned(e)'
  <2>1. work'[w] = r /\ \A v \in Workers \ {w} : work'[v] = work[v]
    BY <1>5 DEF WebhookTypes, DeliveryTypes
  <2>2. \A e \in Deliveries \ {d} : Untouched(e)
    BY <1>2, <1>5, <2>1 DEF Untouched, On
  <2>3. \A e \in Deliveries \ {d} : Resetting(e)' => Resetting(e)
    BY <1>5 DEF Resetting, Resets
  <2>4. \A e \in Deliveries \ {d} : Earned(e)'
    BY <1>5, <2>2, <2>3, EarnedStill
  <2>5. QED
    BY <1>5, <2>4
<1>6. CASE Post(w)
  <2>1. work[w].pc = "post"
    BY <1>6 DEF Post, Doing
  <2>2. /\ posts' = [posts EXCEPT ![d] = @ + 1]
        /\ UNCHANGED <<row, due, queue, maker, poll, admin, left>>
    BY <1>2, <1>6 DEF Post
  <2>3. PICK pc \in {"delivered", "failed"} :
           work' = [work EXCEPT ![w] = [work[w] EXCEPT !.pc = pc]]
    BY <1>6 DEF Post, SetWork
  <2> DEFINE r == [work[w] EXCEPT !.pc = pc]
  <2>4. r.pc = pc /\ r.d = d /\ work' = [work EXCEPT ![w] = r]
    BY <1>2, <2>3
  <2> HIDE DEF r
  <2>5. work'[w] = r /\ \A v \in Workers \ {w} : work'[v] = work[v]
    BY <2>4 DEF WebhookTypes, DeliveryTypes
  <2>6. Sent(d)' = Sent(d)
    <3>1. Posting(d) \in SUBSET Workers /\ w \in Posting(d) /\ Posting(d)' = Posting(d) \ {w}
      BY <1>2, <2>1, <2>3, <2>4, <2>5 DEF Posting, Doing
    <3>2. nPosting(d)' = nPosting(d) - 1
      BY <3>1, WorkersCounted DEF nPosting
    <3>3. posts'[d] = posts[d] + 1
      BY <2>2 DEF WebhookTypes
    <3>4. QED
      BY <1>3, <3>2, <3>3 DEF Sent, Numeric
  <2>7. row[d].attempts >= 1 \/ Exhausted(d)
    BY <1>2, <2>1 DEF Earned
  <2>8. row'[d].attempts = row[d].attempts /\ work'[w].pc # "judge"
        /\ ((row[d].status = "dlq" \/ Resetting(d))' => row[d].status = "dlq" \/ Resetting(d))
    BY <2>2, <2>3, <2>4, <2>5 DEF Resetting, Resets
  <2>9. Earned(d)'
    BY <2>5, <2>6, <2>7, <2>8, EarnedGoesOn
  <2>10. \A e \in Deliveries \ {d} : row'[e] = row[e] /\ posts'[e] = posts[e]
    BY <2>2 DEF WebhookTypes
  <2>11. QED
    BY <1>5, <2>2, <2>4, <2>9, <2>10
<1>7. ASSUME work[w].pc # "post", NEW r, r.d = d \/ r.pc = "idle", r.pc # "post",
             work' = [work EXCEPT ![w] = r], posts' = posts
      PROVE  Sent(d)' = Sent(d)
  <2>1. work'[w] = r /\ \A v \in Workers \ {w} : work'[v] = work[v]
    BY <1>7 DEF WebhookTypes, DeliveryTypes
  <2>2. Posting(d)' = Posting(d)
    BY <1>7, <2>1 DEF Posting, Doing
  <2>3. QED
    BY <1>7, <2>2 DEF Sent, nPosting
<1>8. ASSUME work[w].pc # "post", work' = [work EXCEPT ![w] = NoWork],
             UNCHANGED <<maker, poll, admin, posts>>,
             row'[d].attempts = row[d].attempts, \A e \in Deliveries \ {d} : row'[e] = row[e],
             row'[d].status = "dlq" => row[d].status = "dlq" \/ Exhausted(d)
      PROVE  \A e \in Deliveries : Earned(e)'
  <2>1. NoWork.pc = "idle"
    BY DEF NoWork
  <2>2. Sent(d)' = Sent(d)
    BY <1>7, <1>8, <2>1
  <2>3. work'[w] = NoWork /\ \A v \in Workers \ {w} : work'[v] = work[v]
    BY <1>8 DEF WebhookTypes, DeliveryTypes
  <2>4. ~On(work'[w], d)
    BY <2>1, <2>3 DEF On
  <2>5. (row[d].status = "dlq" \/ Resetting(d))' =>
               row[d].status = "dlq" \/ Resetting(d) \/ Exhausted(d)
    BY <1>8 DEF Resetting, Resets
  <2>6. Earned(d)'
    BY <1>8, <2>2, <2>3, <2>4, <2>5, EarnedGoesOn
  <2>7. QED
    BY <1>5, <1>8, <2>1, <2>6
<1>9. CASE MarkDelivered(w)
  <2>1. /\ work[w].pc # "post" /\ Exec(d, "delivered", row[d].attempts, due)
        /\ work' = [work EXCEPT ![w] = NoWork] /\ UNCHANGED <<maker, poll, admin, posts>>
    BY <1>2, <1>9 DEF MarkDelivered, SetWork, Doing
  <2>2. /\ \A e \in Deliveries \ {d} : row'[e] = row[e]
        /\ row'[d].attempts = row[d].attempts /\ row'[d].status # "dlq"
    BY <2>1, ExecWrites
  <2>3. QED
    BY <1>8, <2>1, <2>2
<1>10. CASE ReadAttempts(w)
  <2>1. work[w].pc = "failed" /\ UNCHANGED <<row, due, queue, maker, poll, admin, posts, accepted>>
    BY <1>10 DEF ReadAttempts, Doing
  <2> DEFINE r == [work[w] EXCEPT !.pc = "judge", !.n = row[d].attempts]
  <2>2. work' = [work EXCEPT ![w] = r]
    BY <1>2, <1>10 DEF ReadAttempts, SetWork
  <2>3. r.pc = "judge" /\ r.d = d /\ r.n = row[d].attempts
    BY <1>2
  <2> HIDE DEF r
  <2>4. work'[w] = r /\ \A v \in Workers \ {w} : work'[v] = work[v]
    BY <2>2 DEF WebhookTypes, DeliveryTypes
  <2>5. Sent(d)' = Sent(d)
    BY <1>7, <2>1, <2>2, <2>3
  <2>6. (row[d].attempts >= 1 \/ Exhausted(d)) /\ row[d].attempts <= Sent(d)
    BY <1>2, <2>1 DEF Earned
  <2>7. (row[d].status = "dlq" \/ Resetting(d))' => row[d].status = "dlq" \/ Resetting(d)
    BY <2>1 DEF Resetting, Resets
  <2>8. Earned(d)'
    BY <2>1, <2>3, <2>4, <2>5, <2>6, <2>7, EarnedGoesOn
  <2>9. QED
    BY <1>5, <2>1, <2>2, <2>3, <2>8
<1>11. CASE JudgeFailure(w)
  <2>1. /\ work[w].pc = "judge" /\ work' = [work EXCEPT ![w] = NoWork]
        /\ UNCHANGED <<maker, poll, admin, posts>>
        /\ \/ Exec(d, "retrying", row[d].attempts, NotDue(d))
           \/ /\ retryIntervalForAttempt(work[w].n) = 0
              /\ Exec(d, "dlq", row[d].attempts, due)
    BY <1>2, <1>11 DEF JudgeFailure, SetWork, Doing
  <2>2. (work[w].n >= 1 \/ Exhausted(d)) /\ work[w].n <= Sent(d) /\ work[w].n \in Nat
    BY <1>2, <2>1 DEF Earned
  <2>3. retryIntervalForAttempt(work[w].n) = 0 => Exhausted(d)
    <3> DEFINE n == work[w].n
    <3>1. \A i \in 1..Retries : RetryIntervals[i] # 0
      BY WebhookAssumption DEF Retries
    <3>2. ~(n < 1 \/ n > Retries) => retryIntervalForAttempt(n) = RetryIntervals[n]
      BY DEF retryIntervalForAttempt, Retries
    <3>3. n \in Nat
      BY <2>2
    <3> HIDE DEF n
    <3>4. retryIntervalForAttempt(n) = 0 => n < 1 \/ n > Retries
      BY <1>4, <3>1, <3>2, <3>3
    <3>5. QED
      BY <1>4, <2>2, <3>4 DEF n, Exhausted
  <2>4. /\ \A e \in Deliveries \ {d} : row'[e] = row[e]
        /\ row'[d].attempts = row[d].attempts
        /\ row'[d].status = "dlq" => Exhausted(d)
    <3>1. CASE Exec(d, "retrying", row[d].attempts, NotDue(d))
      BY <3>1, ExecWrites
    <3>2. CASE Exec(d, "dlq", row[d].attempts, due) /\ Exhausted(d)
      BY <3>2, ExecWrites
    <3>3. QED
      BY <2>1, <2>3, <3>1, <3>2
  <2>5. work[w].pc # "post"
    BY <2>1
  <2>6. QED
    BY <1>8, <2>1, <2>4, <2>5
<1>12. QED
  BY <1>6, <1>9, <1>10, <1>11 DEF WorkerStep

\* Everybody else: the maker, the poller, the clock and the topic
LEMMA OthersEarned ==
    ASSUME WebhookTypes, WebhookTypes', \A e \in Deliveries : Earned(e),
           work' = work, posts' = posts, \A e \in Deliveries : Resets(e)' = Resets(e),
           \A e \in Deliveries : /\ row'[e].attempts = row[e].attempts
                                 /\ row'[e].status = "dlq" => row[e].status = "dlq"
    PROVE  \A e \in Deliveries : Earned(e)'
<1>1. \A e \in Deliveries : Untouched(e)
  BY DEF Untouched
<1>2. \A e \in Deliveries : Resetting(e)' => Resetting(e)
  BY DEF Resetting
<1>3. QED
  BY <1>1, <1>2, EarnedStill

\* A delivery that an admin takes up is in the dead-letter queue.
LEMMA RetryCheckEarned ==
    ASSUME WebhookTypes, WebhookTypes', \A e \in Deliveries : Earned(e),
           NEW d \in Deliveries, RetryCheck(d)
    PROVE  \A e \in Deliveries : Earned(e)'
<1>1. /\ admin' = [admin EXCEPT ![d].reset = @ + 1] /\ row[d].status = "dlq"
      /\ UNCHANGED <<row, work, posts>>
  BY DEF RetryCheck
<1>2. \A e \in Deliveries : Untouched(e)
  BY <1>1 DEF Untouched
<1>3. \A e \in Deliveries : Resetting(e)' => row[e].status = "dlq" \/ Resetting(e)
  <2>1. \A e \in Deliveries \ {d} : admin'[e] = admin[e]
    BY <1>1 DEF WebhookTypes
  <2>2. QED
    BY <1>1, <2>1 DEF Resetting, Resets
<1>4. QED
  BY <1>1, <1>2, <1>3, EarnedStill

\* The count starts again for a delivery whose schedule is used up.  That of
\* another request that is still to reset it remains used up: what was sent,
\* was sent.
LEMMA RetryResetEarned ==
    ASSUME WebhookTypes, WebhookTypes', \A e \in Deliveries : Earned(e), ~Spend("db"),
           NEW d \in Deliveries, RetryReset(d)
    PROVE  \A e \in Deliveries : Earned(e)'
<1>1. /\ admin[d].reset > 0
      /\ admin' = [admin EXCEPT ![d].reset = @ - 1, ![d].publish = @ + 1]
      /\ Exec(d, "pending", 0, DueNow(d))
      /\ UNCHANGED <<queue, maker, work, poll, posts, accepted>>
  BY DEF RetryReset
<1>2. /\ row'[d].status = "pending" /\ row'[d].attempts = 0
      /\ \A e \in Deliveries \ {d} : row'[e] = row[e]
  BY <1>1, ExecWrites
<1>3. Resetting(d) /\ \A e \in Deliveries \ {d} : Resetting(e)' <=> Resetting(e)
  <2>1. \A e \in Deliveries \ {d} : admin'[e] = admin[e]
    BY <1>1 DEF WebhookTypes
  <2>2. QED
    BY <1>1, <2>1 DEF Resetting, Resets
<1>4. \A e \in Deliveries \ {d} : Earned(e)'
  <2>1. \A e \in Deliveries \ {d} : Untouched(e)
    BY <1>1, <1>2 DEF Untouched
  <2>2. QED
    BY <1>1, <1>2, <1>3, <2>1, EarnedStill
<1>5. Posting(d)' = Posting(d)
  BY <1>1 DEF Posting, Doing
<1>6. Sent(d)' = Sent(d) /\ Sent(d) \in Nat
  <2>1. Numeric(d)
    BY AccountNumbers
  <2>2. QED
    BY <1>1, <1>5, <2>1 DEF Sent, nPosting, Numeric
<1>7. Exhausted(d) /\ Exhausted(d)'
  BY <1>3, <1>6 DEF Earned, Exhausted
<1>8. Earned(d)'
  <2>1. row'[d].attempts <= Sent(d)'
    BY <1>2, <1>6
  <2>2. \A w \in Workers : On(work'[w], d) /\ work'[w].pc = "judge" => work'[w].n <= Sent(d)'
    BY <1>1, <1>6 DEF Earned
  <2>3. QED
    BY <1>7, <2>1, <2>2 DEF Earned
<1>9. QED
  BY <1>4, <1>8

LEMMA DLQEarnedInit == WebhookInit => DLQEarned
<1> SUFFICES ASSUME WebhookInit, NEW d \in Deliveries PROVE Earned(d)
  BY DEF DLQEarned
<1>1. Numeric(d)
  BY WebhookTypesInit, AccountNumbers
<1>2. row[d].status = "none" /\ row[d].attempts = 0 /\ \A w \in Workers : work[w].pc = "idle"
  BY DEF WebhookInit, NoWork
<1>3. ~Resetting(d) /\ \A w \in Workers : ~On(work[w], d)
  BY <1>2 DEF WebhookInit, NoAdmin, Resetting, Resets, On
<1>4. row[d].attempts <= Sent(d)
  BY <1>1, <1>2 DEF Sent, Numeric
<1>5. QED
  BY <1>2, <1>3, <1>4 DEF Earned

LEMMA DLQEarnedStep ==
    ASSUME WebhookTypes, WebhookTypes', DLQEarned, [WebhookNext]_webhookVars
    PROVE  DLQEarned'
<1> SUFFICES ASSUME Undisturbed'
             PROVE  \A e \in Deliveries : Earned(e)'
  BY DEF DLQEarned
<1>0. ~Spend("db") /\ ~Spend("crash") /\ \A e \in Deliveries : Earned(e)
  BY Calm DEF DLQEarned
<1>1. ASSUME NEW d \in Deliveries, Insert(d)
      PROVE  \A e \in Deliveries : Earned(e)'
  <2>1. row' = [row EXCEPT ![d].status = "pending"] /\ UNCHANGED <<work, admin, posts>>
    BY <1>1 DEF Insert
  <2>2. \A e \in Deliveries : /\ row'[e].attempts = row[e].attempts
                              /\ row'[e].status = "dlq" => row[e].status = "dlq"
    BY <2>1 DEF WebhookTypes, DeliveryTypes
  <2>3. QED
    BY <1>0, <2>1, <2>2, OthersEarned DEF Resets
<1>2. ASSUME NEW d \in Deliveries, Publish(d) \/ RetryTimeComes(d)
      PROVE  \A e \in Deliveries : Earned(e)'
  <2>1. UNCHANGED <<row, work, admin, posts>>
    BY <1>2 DEF Publish, RetryTimeComes
  <2>2. QED
    BY <1>0, <2>1, OthersEarned DEF Resets
<1>3. ASSUME NEW w \in Workers, Redeliver(w)
      PROVE  \A e \in Deliveries : Earned(e)'
  <2>1. UNCHANGED <<row, work, admin, posts>>
    BY <1>3 DEF Redeliver
  <2>2. QED
    BY <1>0, <2>1, OthersEarned DEF Resets
<1>4. CASE PollSelect \/ PollPublish
  <2>1. UNCHANGED <<row, work, admin, posts>>
    BY <1>4 DEF PollSelect, PollPublish
  <2>2. QED
    BY <1>0, <2>1, OthersEarned DEF Resets
<1>5. CASE PollMark
  <2>1. PICK d \in Deliveries : d = Head(poll.rows)
    <3>1. poll.rows \in Seq(Deliveries) /\ poll.rows # <<>>
      BY <1>5 DEF PollMark, WebhookTypes
    <3>2. QED
      BY <3>1
  <2>2. Exec(d, "pending", row[d].attempts, due) /\ UNCHANGED <<work, admin, posts>>
    BY <1>5, <2>1 DEF PollMark
  <2>3. /\ row'[d].status = "pending" /\ row'[d].attempts = row[d].attempts
        /\ \A e \in Deliveries \ {d} : row'[e] = row[e]
    BY <1>0, <2>2, ExecWrites
  <2>4. \A e \in Deliveries : /\ row'[e].attempts = row[e].attempts
                              /\ row'[e].status = "dlq" => row[e].status = "dlq"
    BY <2>3
  <2>5. QED
    BY <1>0, <2>2, <2>4, OthersEarned DEF Resets
<1>6. ASSUME NEW d \in Deliveries, RetryPublish(d)
      PROVE  \A e \in Deliveries : Earned(e)'
  <2>1. UNCHANGED <<row, work, posts>> /\ admin' = [admin EXCEPT ![d].publish = @ - 1]
    BY <1>6 DEF RetryPublish
  <2>2. \A e \in Deliveries : Resets(e)' = Resets(e)
    BY <2>1 DEF WebhookTypes, Resets
  <2>3. QED
    BY <1>0, <2>1, <2>2, OthersEarned
<1>7. CASE UNCHANGED webhookVars
  <2>1. UNCHANGED <<row, work, admin, posts>>
    BY <1>7 DEF webhookVars
  <2>2. QED
    BY <1>0, <2>1, OthersEarned DEF Resets
<1>8. ~Crash
  BY <1>0 DEF Crash
<1>9. ASSUME NEW w \in Workers, NEW d \in Deliveries, Receive(w, d)
      PROVE  \A e \in Deliveries : Earned(e)'
  BY <1>0, <1>9, ReceiveEarned
<1>10. ASSUME NEW w \in Workers, WorkerStep(w)
       PROVE  \A e \in Deliveries : Earned(e)'
  BY <1>0, <1>10, WorkerEarned
<1>11. ASSUME NEW d \in Deliveries, RetryCheck(d)
       PROVE  \A e \in Deliveries : Earned(e)'
  BY <1>0, <1>11, RetryCheckEarned
<1>12. ASSUME NEW d \in Deliveries, RetryReset(d)
       PROVE  \A e \in Deliveries : Earned(e)'
  BY <1>0, <1>12, RetryResetEarned
<1>13. QED
  BY <1>1, <1>2, <1>3, <1>4, <1>5, <1>6, <1>7, <1>8, <1>9, <1>10, <1>11, <1>12
  DEF WebhookNext, PollStep

\* What is in the dead-letter queue was earned.
LEMMA EarnedSuffices == DLQEarned => DLQMeansExhausted
<1> SUFFICES ASSUME DLQEarned, Undisturbed, NEW d \in Deliveries, row[d].status = "dlq"
             PROVE  posts[d] + Cardinality({w \in Workers : Doing(w, "post") /\ work[w].d = d})
                        > Len(RetryIntervals)
  BY DEF DLQMeansExhausted, Undisturbed
<1>1. Exhausted(d)
  BY DEF DLQEarned, Earned
<1>2. QED
  BY <1>1 DEF Exhausted, Sent, nPosting, Posting, Retries

\* The schedule of retries is kept from both sides, whatever workers, poller,
\* admins, duplicates, lost updates and crashes do to a row and its messages:
\* handleDeliveryFailure gives up on no delivery before its time, and the
\* endpoint sees no more requests than schedule, faults and admins account for.
THEOREM ScheduleKeptHolds == WebhookSpec => []ScheduleKept
<1>1. WebhookInit => ScheduleBound /\ DLQEarned
  BY ScheduleBoundInit, DLQEarnedInit
<1>2. /\ WebhookTypes /\ WebhookTypes' /\ ScheduleBound /\ DLQEarned
      /\ [WebhookNext]_webhookVars
      => ScheduleBound' /\ DLQEarned'
  BY ScheduleBoundStep, DLQEarnedStep
<1>3. WebhookTypes /\ ScheduleBound /\ DLQEarned => ScheduleKept
  BY BoundSuffices, EarnedSuffices DEF ScheduleKept
<1>4. WebhookSpec => []WebhookTypes
  BY WebhookTypesAlways, PTL
<1>5. QED
  BY <1>1, <1>2, <1>3, <1>4, PTL DEF WebhookSpec

================================================================================
