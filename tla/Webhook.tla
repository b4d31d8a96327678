-------------------------------- MODULE Webhook --------------------------------
(***************************************************************************)
(* The webhook service: a delivery is a row of webhook_deliveries and the  *)
(* messages of a Pub/Sub topic that ask a worker to POST it.  The row's    *)
(* status is written, without a transaction or a guard on what it was, by  *)
(* the maker of the delivery, by the workers (DeliverWebhook), by the cron *)
(* job PollRetries and by the admins (RetryDLQ); every SQL statement and   *)
(* every publication is a step, and the steps interleave.                  *)
(***************************************************************************)
EXTENDS Naturals, Sequences, FiniteSets, SequencesExt, Lists

CONSTANTS
    Deliveries,      \* webhooks that will be created
    Workers,         \* concurrent invocations of DeliverWebhook
    RetryIntervals,  \* the backoff schedule, in seconds
    PollLimit,       \* rows PollRetries takes at a time (50 in the code)
    Budget,          \* how often each kind of fault or admin step may happen
    Troubles         \* ... and how many of them in all

TroubleKinds == {"dup", "crash", "db", "pubsub", "admin"}

ASSUME WebhookAssumption ==
    /\ IsFiniteSet(Deliveries) /\ IsFiniteSet(Workers) /\ Workers # {}
    /\ RetryIntervals \in Seq(Nat \ {0})
    /\ PollLimit \in Nat \ {0}
    /\ Budget \in [TroubleKinds -> Nat] /\ Troubles \in Nat

VARIABLES
    row,      \* per delivery: status and attempt_count
    due,      \* deliveries whose next_retry_at has passed, earliest first
    queue,    \* per delivery: its messages waiting in the topic
    maker,    \* per delivery: where CreateAndPublishWebhook stands
    work,     \* per worker: the invocation of DeliverWebhook it runs
    poll,     \* PollRetries: the rows still to handle, and its next statement
    admin,    \* RetryDLQ, per delivery: requests about to reset, and about to publish
    posts,    \* per delivery: POSTs sent so far
    accepted, \* deliveries the endpoint has taken (answered 2xx in time or not)
    left      \* what is left of Budget

webhookVars == <<row, due, queue, maker, work, poll, admin, posts, accepted, left>>

Statuses == {"none", "pending", "delivering", "delivered", "retrying", "dlq"}
MakerSteps == {"idle", "publish", "done"}
WorkSteps == {"post", "delivered", "failed", "judge"}

NoWork == [pc |-> "idle"]
NoPoll == [pc |-> "idle", rows |-> <<>>]
NoAdmin == [d \in Deliveries |-> [reset |-> 0, publish |-> 0]]

WorkStates ==
    {NoWork} \cup [pc : WorkSteps, d : Deliveries, n : Nat]

WebhookTypeOK ==
    /\ row \in [Deliveries -> [status : Statuses, attempts : Nat]]
    /\ due \in Seq(Deliveries) /\ IsInjective(due)
    /\ queue \in [Deliveries -> Nat]
    /\ maker \in [Deliveries -> MakerSteps]
    /\ work \in [Workers -> WorkStates]
    /\ poll.pc \in {"idle", "publish", "mark"} /\ poll.rows \in Seq(Deliveries)
    /\ admin \in [Deliveries -> [reset : Nat, publish : Nat]]
    /\ posts \in [Deliveries -> Nat]
    /\ accepted \subseteq Deliveries
    /\ left \in [TroubleKinds -> Nat]

WebhookInit ==
    /\ row = [d \in Deliveries |-> [status |-> "none", attempts |-> 0]]
    /\ due = <<>>
    /\ queue = [d \in Deliveries |-> 0]
    /\ maker = [d \in Deliveries |-> "idle"]
    /\ work = [w \in Workers |-> NoWork]
    /\ poll = NoPoll
    /\ admin = NoAdmin
    /\ posts = [d \in Deliveries |-> 0]
    /\ accepted = {}
    /\ left = Budget

--------------------------------------------------------------------------------
(* Helpers *)

Used(kind) == Budget[kind] - left[kind]
UsedInAll ==
    Used("dup") + Used("crash") + Used("db") + Used("pubsub") + Used("admin")

Spend(kind) ==
    /\ left[kind] > 0 /\ UsedInAll < Troubles
    /\ left' = [left EXCEPT ![kind] = @ - 1]

\* An UPDATE of d's row.  Its error is discarded everywhere: the row stays as
\* it was and the caller goes on.
Exec(d, status, attempts, due2) ==
    \/ /\ row' = [row EXCEPT ![d] = [status |-> status, attempts |-> attempts]]
       /\ due' = due2
       /\ UNCHANGED left
    \/ /\ Spend("db")
       /\ UNCHANGED <<row, due>>

Enqueue(d) == queue' = [queue EXCEPT ![d] = @ + 1]

\* Mutant: a delivery is listed twice.
DueAgain(d) == Append(due, d)

\* next_retry_at in the future
NotDue(d) == Among(due, Deliveries \ {d})
\* next_retry_at = NOW()
DueNow(d) == Append(NotDue(d), d)

\* Mutant: the schedule is read one attempt too far on.
retryIntervalShifted(attempt) ==
    IF attempt < 1 \/ attempt > Len(RetryIntervals) - 1
    THEN 0
    ELSE RetryIntervals[attempt + 1]

\* Zero stands for the dead-letter queue.
retryIntervalForAttempt(attempt) ==
    IF attempt < 1 \/ attempt > Len(RetryIntervals)
    THEN 0
    ELSE RetryIntervals[attempt]

--------------------------------------------------------------------------------
(* CreateAndPublishWebhook *)

Insert(d) ==
    /\ maker[d] = "idle"
    /\ row' = [row EXCEPT ![d].status = "pending"]
    /\ due' = DueNow(d)
    /\ maker' = [maker EXCEPT ![d] = "publish"]
    /\ UNCHANGED <<queue, work, poll, admin, posts, accepted, left>>

\* Mutant: the message is left to somebody else.
PublishNothing(d) ==
    /\ maker[d] = "publish"
    /\ maker' = [maker EXCEPT ![d] = "done"]
    /\ UNCHANGED <<row, due, queue, work, poll, admin, posts, accepted, left>>

\* Publication may fail; the row has been inserted all the same.
Publish(d) ==
    /\ maker[d] = "publish"
    /\ maker' = [maker EXCEPT ![d] = "done"]
    /\ \/ Enqueue(d) /\ UNCHANGED left
       \/ Spend("pubsub") /\ UNCHANGED queue
    /\ UNCHANGED <<row, due, work, poll, admin, posts, accepted>>

--------------------------------------------------------------------------------
(* DeliverWebhook *)

SetWork(w, r) == work' = [work EXCEPT ![w] = r]
Doing(w, pc) == work[w].pc = pc

\* A worker takes a message and notes the attempt in the row.
Receive(w, d) ==
    /\ Doing(w, "idle")
    /\ queue[d] > 0
    /\ queue' = [queue EXCEPT ![d] = @ - 1]
    /\ Exec(d, "delivering", row[d].attempts + 1, due)
    /\ SetWork(w, [pc |-> "post", d |-> d, n |-> 0])
    /\ UNCHANGED <<maker, poll, admin, posts, accepted>>

\* Mutant: whatever answer comes back counts as a delivery.
PostUnchecked(w) ==
    /\ Doing(w, "post")
    /\ posts' = [posts EXCEPT ![work[w].d] = @ + 1]
    /\ SetWork(w, [work[w] EXCEPT !.pc = "delivered"])
    /\ UNCHANGED <<row, due, queue, maker, poll, admin, accepted, left>>

\* The POST: answered 2xx; answered otherwise, refused or unreachable; or
\* taken by the endpoint, whose answer the 10 second timeout cuts off.
Post(w) ==
    LET d == work[w].d IN
    /\ Doing(w, "post")
    /\ posts' = [posts EXCEPT ![d] = @ + 1]
    /\ \E taken \in BOOLEAN, answered \in BOOLEAN :
        /\ accepted' = IF taken THEN accepted \cup {d} ELSE accepted
        /\ SetWork(w, [work[w] EXCEPT
                         !.pc = IF taken /\ answered THEN "delivered" ELSE "failed"])
    /\ UNCHANGED <<row, due, queue, maker, poll, admin, left>>

MarkDelivered(w) ==
    LET d == work[w].d IN
    /\ Doing(w, "delivered")
    /\ Exec(d, "delivered", row[d].attempts, due)
    /\ SetWork(w, NoWork)
    /\ UNCHANGED <<queue, maker, poll, admin, posts, accepted>>

\* handleDeliveryFailure reads the count; if it cannot, it gives up.
ReadAttempts(w) ==
    /\ Doing(w, "failed")
    /\ \/ /\ SetWork(w, [work[w] EXCEPT !.pc = "judge", !.n = row[work[w].d].attempts])
          /\ UNCHANGED left
       \/ Spend("db") /\ SetWork(w, NoWork)
    /\ UNCHANGED <<row, due, queue, maker, poll, admin, posts, accepted>>

\* ... and then schedules the retry or moves the delivery to the DLQ.
JudgeFailure(w) ==
    LET d == work[w].d IN
    /\ Doing(w, "judge")
    /\ \/ /\ retryIntervalForAttempt(work[w].n) > 0
          /\ Exec(d, "retrying", row[d].attempts, NotDue(d))
       \/ /\ retryIntervalForAttempt(work[w].n) = 0
          /\ Exec(d, "dlq", row[d].attempts, due)
    /\ SetWork(w, NoWork)
    /\ UNCHANGED <<queue, maker, poll, admin, posts, accepted>>

--------------------------------------------------------------------------------
(* PollRetries *)

\* The statement's snapshot: due rows that wait, the earliest first.
Selected ==
    LET waiting == Among(due, {d \in Deliveries : row[d].status = "retrying"})
    IN  SubSeq(waiting, 1, IF Len(waiting) < PollLimit THEN Len(waiting) ELSE PollLimit)

PollSelect ==
    /\ poll.pc = "idle"
    /\ Selected # <<>>
    /\ poll' = [pc |-> "publish", rows |-> Selected]
    /\ UNCHANGED <<row, due, queue, maker, work, admin, posts, accepted, left>>

PollNext(rows) == IF rows = <<>> THEN NoPoll ELSE [pc |-> "publish", rows |-> rows]

\* Mutant: a row whose turn has come is skipped without a message.
PollSkipsPublish ==
    /\ poll.pc = "publish"
    /\ poll' = PollNext(Tail(poll.rows))
    /\ UNCHANGED <<row, due, queue, maker, work, admin, posts, accepted, left>>

\* Secret lookup and publication for the next row; a failure of either
\* leaves the row retrying for the next poll.
PollPublish ==
    /\ poll.pc = "publish"
    /\ \/ /\ Enqueue(Head(poll.rows))
          /\ poll' = [poll EXCEPT !.pc = "mark"]
          /\ UNCHANGED left
       \/ /\ Spend("pubsub")
          /\ poll' = PollNext(Tail(poll.rows))
          /\ UNCHANGED queue
    /\ UNCHANGED <<row, due, maker, work, admin, posts, accepted>>

\* The row becomes pending, whatever a worker has made of it in the meantime.
PollMark ==
    LET d == Head(poll.rows) IN
    /\ poll.pc = "mark"
    /\ Exec(d, "pending", row[d].attempts, due)
    /\ poll' = PollNext(Tail(poll.rows))
    /\ UNCHANGED <<queue, maker, work, admin, posts, accepted>>

--------------------------------------------------------------------------------
(* RetryDLQ: any number of requests may be under way, for one delivery too.   *)
(* Requests that stand at the same statement cannot be told apart.            *)

RetryCheck(d) ==
    /\ row[d].status = "dlq"
    /\ Spend("admin")
    /\ admin' = [admin EXCEPT ![d].reset = @ + 1]
    /\ UNCHANGED <<row, due, queue, maker, work, poll, posts, accepted>>

RetryReset(d) ==
    /\ admin[d].reset > 0
    /\ Exec(d, "pending", 0, DueNow(d))
    /\ admin' = [admin EXCEPT ![d].reset = @ - 1, ![d].publish = @ + 1]
    /\ UNCHANGED <<queue, maker, work, poll, posts, accepted>>

RetryPublish(d) ==
    /\ admin[d].publish > 0
    /\ \/ Enqueue(d) /\ UNCHANGED left
       \/ Spend("pubsub") /\ UNCHANGED queue
    /\ admin' = [admin EXCEPT ![d].publish = @ - 1]
    /\ UNCHANGED <<row, due, maker, work, poll, posts, accepted>>

--------------------------------------------------------------------------------
(* The environment *)

\* The clock reaches next_retry_at.
RetryTimeComes(d) ==
    /\ row[d].status # "none"
    /\ d \notin ToSet(due)
    /\ due' = Append(due, d)
    /\ UNCHANGED <<row, queue, maker, work, poll, admin, posts, accepted, left>>

\* The topic is at-least-once: it delivers a message again that a worker is
\* still handling.
Redeliver(w) ==
    /\ ~Doing(w, "idle")
    /\ Spend("dup")
    /\ Enqueue(work[w].d)
    /\ UNCHANGED <<row, due, maker, work, poll, admin, posts, accepted>>

\* The process dies.  Messages that were not acknowledged come back.
Crash ==
    /\ Spend("crash")
    /\ queue' = [d \in Deliveries |->
                   queue[d] + Cardinality({w \in Workers : ~Doing(w, "idle") /\ work[w].d = d})]
    /\ work' = [w \in Workers |-> NoWork]
    /\ poll' = NoPoll
    /\ admin' = NoAdmin
    /\ maker' = [d \in Deliveries |-> IF maker[d] = "publish" THEN "done" ELSE maker[d]]
    /\ UNCHANGED <<row, due, posts, accepted>>

--------------------------------------------------------------------------------
WorkerStep(w) ==
    \/ Post(w)
    \/ MarkDelivered(w)
    \/ ReadAttempts(w)
    \/ JudgeFailure(w)

PollStep == PollSelect \/ PollPublish \/ PollMark

WebhookNext ==
    \/ \E d \in Deliveries : Insert(d) \/ Publish(d) \/ RetryTimeComes(d)
    \/ \E d \in Deliveries : RetryCheck(d) \/ RetryReset(d) \/ RetryPublish(d)
    \/ \E w \in Workers, d \in Deliveries : Receive(w, d)
    \/ \E w \in Workers : WorkerStep(w) \/ Redeliver(w)
    \/ PollStep
    \/ Crash

WebhookSpec == WebhookInit /\ [][WebhookNext]_webhookVars

\* Encore keeps delivering messages and firing the cron job, handlers run to
\* their end (the POST has a timeout), and time passes.  Nothing obliges
\* anybody to create a delivery or an admin to retry one.
WebhookFairness ==
    /\ \A d \in Deliveries :
        /\ WF_webhookVars(Publish(d))
        /\ WF_webhookVars(RetryTimeComes(d))
        /\ WF_webhookVars(\E w \in Workers : Receive(w, d))
        /\ WF_webhookVars(RetryReset(d) \/ RetryPublish(d))
    /\ \A w \in Workers : WF_webhookVars(WorkerStep(w))
    /\ WF_webhookVars(PollStep)

FairWebhookSpec == WebhookSpec /\ WebhookFairness

--------------------------------------------------------------------------------
(* Properties *)

\* Whatever duplicate messages, crashes, lost updates and races there are, a
\* row says delivered only if the endpoint has taken the webhook.
DeliveredMeansAccepted ==
    \A d \in Deliveries : row[d].status = "delivered" => d \in accepted

\* A delivery reaches the dead-letter queue only once the first attempt and
\* every retry of the schedule were sent or are being sent: where no update
\* was lost and no process died, no race of workers, poller and admins makes
\* handleDeliveryFailure give up early.
DLQMeansExhausted ==
    Used("db") = 0 /\ Used("crash") = 0 =>
        \A d \in Deliveries : row[d].status = "dlq" =>
            posts[d] + Cardinality({w \in Workers : Doing(w, "post") /\ work[w].d = d})
                > Len(RetryIntervals)

\* The endpoint is never flooded: it sees the first attempt and the retries of
\* the schedule and one more for every message that is delivered twice and
\* every update that is lost; and as much again per RetryDLQ, whose reset of
\* the count also gives messages still under way a second life.  Where several
\* requests retry deliveries at once, those are each other's messages too.
PostsBounded ==
    \A d \in Deliveries :
        posts[d] <= (1 + Used("admin"))
            * (1 + Len(RetryIntervals) + Used("dup") + Used("db")
                 + Used("crash") * Cardinality(Workers))
            + Used("admin") * (Used("admin") - 1)

\* The schedule of retries is kept, from both sides: it is used up before a
\* delivery is given up, and not exceeded by anything but what was delivered
\* twice, lost or asked for by an admin.
ScheduleKept == DLQMeansExhausted /\ PostsBounded

\* A retry that is scheduled is taken up: PollRetries never loses sight of a
\* row that waits, whatever happened to the messages and the poller before.
RetryIsTaken ==
    \A d \in Deliveries : row[d].status = "retrying" ~> row[d].status # "retrying"

\* A webhook that was created is attempted, unless its publication failed or
\* the process died between the row and the message.
EveryDeliveryTried ==
    \A d \in Deliveries :
        row[d].status # "none" ~> posts[d] > 0 \/ Used("pubsub") + Used("crash") > 0

\* Every webhook ends as delivered or in the dead-letter queue, once and for
\* all or until an admin retries it: retries "超过最大次数进 DLQ"
\* (03-CONTEXT.md:38).
EveryDeliveryResolves ==
    \A d \in Deliveries :
        row[d].status # "none" ~> row[d].status \in {"delivered", "dlq"}
================================================================================
