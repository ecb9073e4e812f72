------------------------------- MODULE Webhooks -------------------------------
(***************************************************************************)
(* Outgoing webhooks: the delivery rows of one webhook, the background job *)
(* that sends them (services/webhooks.ts under jobs/runner.ts), and what   *)
(* staff do to them meanwhile (routes/admin/integrations.ts): send a test, *)
(* redeliver, switch the webhook off and on, delete it.                    *)
(*                                                                         *)
(* Every database statement is one step, so anything may happen between a  *)
(* claim, the request to the receiver, the record of its outcome, the      *)
(* webhook's counters and the automatic switch-off.  The advisory lock of  *)
(* the job runner makes the job one sequential process; a crash of the     *)
(* server ends it and every staff request at any point.  Clock readings    *)
(* become the questions the code asks of them: is the row due, is it older *)
(* than 72 hours or 30 days, has the endpoint been failing for long.       *)
(***************************************************************************)
EXTENDS Integers, Sequences, FiniteSets

CONSTANTS
    Notifications,   \* deliveries enqueued by session transactions
    Pings,           \* deliveries created by the staff "test" button
    Staff,           \* staff requests that can be in progress at once
    Job,             \* the sender that runs the 'webhooks' job
    MaxAttempts,     \* config.webhooks.maxAttempts
    DisableAfter,    \* config.webhooks.disableAfterFailures
    Batch,           \* CLAIM_BATCH
    MaxDisturbances  \* bound on crashes, staff actions and ageing, together

ASSUME WebhookAssumption ==
    /\ Notifications \cap Pings = {}
    /\ IsFiniteSet(Notifications) /\ IsFiniteSet(Pings)
    /\ Job \notin Staff
    /\ {MaxAttempts, DisableAfter, Batch} \subseteq Nat \ {0}
    /\ MaxDisturbances \in Nat

Deliveries == Notifications \cup Pings
Senders == {Job} \cup Staff

Outcomes == {"ok", "transient", "refused"}
Statuses == {"none", "pending", "succeeded", "failed", "deleted"}

VARIABLES
    row,         \* webhook_deliveries: status, attempts, is it due, its age
    hook,        \* webhooks: exists, active, disabled_reason, failure_count, failing_since
    job,         \* the delivery job: where it is, its batch, its copy of hook.active
    att,         \* per sender, the attempt it is making
    accepted,    \* requests of a notification that the receiver answered with 2xx
    redelivered, \* deliveries that staff asked to send again
    crashes,     \* server crashes so far
    disturbances \* crashes, staff actions and steps of ageing so far

vars == <<row, hook, job, att, accepted, redelivered, crashes, disturbances>>

NoRow == [status |-> "none", attempts |-> 0, due |-> FALSE, age |-> "new"]
NewRow == [status |-> "pending", attempts |-> 0, due |-> TRUE, age |-> "new"]
NoAttempt == [step |-> "idle", d |-> "none", attempts |-> 0, out |-> "none"]
IdleJob == [phase |-> "idle", list |-> <<>>, active |-> FALSE]

Claims == [d : Deliveries, attempts : 0..(MaxAttempts - 1)]

TypeOK ==
    /\ row \in [Deliveries -> [status : Statuses, attempts : 0..MaxAttempts,
                               due : BOOLEAN, age : {"new", "expired", "ancient"}]]
    /\ hook \in [exists : BOOLEAN, active : BOOLEAN,
                 reason : {"none", "failures", "staff"},
                 failureCount : Nat, failing : {"no", "recent", "long"}]
    /\ job \in [phase : {"idle", "read", "work", "defer"},
                list : Seq(Claims), active : BOOLEAN]
    /\ att \in [Senders -> [step : {"idle", "claim", "send", "mark", "count", "disable"},
                            d : Deliveries \cup {"none"},
                            attempts : 0..(MaxAttempts - 1),
                            out : Outcomes \cup {"none"}]]
    /\ accepted \in [Notifications -> Nat]
    /\ redelivered \subseteq Notifications
    /\ crashes \in 0..MaxDisturbances
    /\ disturbances \in 0..MaxDisturbances

Init ==
    /\ row = [d \in Deliveries |-> NoRow]
    /\ hook = [exists |-> TRUE, active |-> TRUE, reason |-> "none",
               failureCount |-> 0, failing |-> "no"]
    /\ job = IdleJob
    /\ att = [s \in Senders |-> NoAttempt]
    /\ accepted = [d \in Notifications |-> 0]
    /\ redelivered = {}
    /\ crashes = 0
    /\ disturbances = 0

\* the bound of the model: something outside the delivery path happens once more
Disturb ==
    /\ disturbances < MaxDisturbances
    /\ disturbances' = disturbances + 1

Pending(d) == row[d].status = "pending"

(***************************************************************************)
(* Enqueue: the session transaction inserts the delivery of a notification *)
(* when the webhook is active at that moment; the unique (webhookId,       *)
(* dedupeKey) makes a replay of the same change insert nothing.            *)
(***************************************************************************)
enqueueWebhookNotifications(d) ==
    /\ hook.exists /\ hook.active
    /\ row[d].status = "none"
    /\ row' = [row EXCEPT ![d] = NewRow]
    /\ UNCHANGED <<hook, job, att, accepted, redelivered, crashes, disturbances>>

(***************************************************************************)
(* The job's claim: up to Batch due rows of the active webhook, each       *)
(* leased by moving next_attempt_at into the future, then sorted so that   *)
(* fewer attempts come first.                                              *)
(***************************************************************************)
DueRows == {d \in Deliveries : Pending(d) /\ row[d].due}

SortedClaims(S) ==
    {l \in [1..Cardinality(S) -> Claims] :
        /\ {l[i].d : i \in DOMAIN l} = S
        /\ \A i \in DOMAIN l : l[i].attempts = row[l[i].d].attempts
        /\ \A i, j \in DOMAIN l : i < j => l[i].d # l[j].d /\ l[i].attempts <= l[j].attempts}

claimDue ==
    /\ job.phase = "idle"
    /\ hook.exists /\ hook.active
    /\ DueRows # {}
    /\ \E S \in SUBSET DueRows :
          /\ Cardinality(S) = Batch \/ (S = DueRows /\ Cardinality(S) <= Batch)
          /\ row' = [d \in Deliveries |-> IF d \in S THEN [row[d] EXCEPT !.due = FALSE] ELSE row[d]]
          /\ \E l \in SortedClaims(S) :
                job' = [phase |-> "read", list |-> l, active |-> FALSE]
    /\ UNCHANGED <<hook, att, accepted, redelivered, crashes, disturbances>>

\* the webhook row is read once per batch, after the claim has committed
readHook ==
    /\ job.phase = "read"
    /\ job' = [job EXCEPT !.phase = "work", !.active = hook.exists /\ hook.active]
    /\ UNCHANGED <<row, hook, att, accepted, redelivered, crashes, disturbances>>

ListOf(l) == {l[i].d : i \in DOMAIN l}

\* rows of the batch that are still pending get a new next_attempt_at
Released(S, dueNow) ==
    [d \in Deliveries |->
        IF d \in S /\ Pending(d) THEN [row[d] EXCEPT !.due = dueNow] ELSE row[d]]

\* one turn of the batch: stop on an inactive copy, else send the next delivery
nextInBatch ==
    /\ job.phase = "work"
    /\ att[Job].step = "idle"
    /\ \/ /\ ~job.active
          /\ row' = Released(ListOf(job.list), TRUE)
          /\ job' = IdleJob
          /\ UNCHANGED att
       \/ /\ job.active
          /\ att' = [att EXCEPT ![Job] = [step |-> "send", d |-> Head(job.list).d,
                                          attempts |-> Head(job.list).attempts,
                                          out |-> "none"]]
          /\ UNCHANGED <<row, job>>
    /\ UNCHANGED <<hook, accepted, redelivered, crashes, disturbances>>

\* the endpoint looks down: the rest of the batch waits, no attempt is counted
postpone ==
    /\ job.phase = "defer"
    /\ row' = Released(ListOf(job.list), FALSE)
    /\ job' = IdleJob
    /\ UNCHANGED <<hook, att, accepted, redelivered, crashes, disturbances>>

(***************************************************************************)
(* One attempt, by the job or by a staff request: the request and its      *)
(* outcome, the delivery row, the webhook's counters, the switch-off.      *)
(***************************************************************************)
attempt(s) ==
    /\ att[s].step = "send"
    /\ \E o \in Outcomes :
          /\ att' = [att EXCEPT ![s] = [@ EXCEPT !.step = "mark", !.out = o]]
          /\ accepted' = IF o = "ok" /\ att[s].d \in Notifications
                       THEN [accepted EXCEPT ![att[s].d] = @ + 1] ELSE accepted
    /\ UNCHANGED <<row, hook, job, redelivered, crashes, disturbances>>

Limit(d) == IF d \in Pings THEN 1 ELSE MaxAttempts

(* Mutant: the batch goes on with the delivery it has just sent.           *)
JobAfterSameHead(s, out, disabled) ==
    IF s # Job THEN job
    ELSE IF Len(job.list) = 1 THEN IdleJob
    ELSE [phase |-> IF out = "transient" THEN "defer" ELSE "work",
          list |-> job.list, active |-> job.active /\ ~disabled]

\* the job is done with its batch, goes on with it, or defers what is left of it
JobAfter(s, out, disabled) ==
    IF s # Job THEN job
    ELSE IF Len(job.list) = 1 THEN IdleJob
    ELSE [phase |-> IF out = "transient" THEN "defer" ELSE "work",
          list |-> Tail(job.list),
          active |-> job.active /\ ~disabled]

Ended(s) == [att EXCEPT ![s] = NoAttempt]

(* Mutant: the retry budget is compared with > instead of >=.              *)
MarkedOneMore(r, d, n, out) ==
    IF out = "ok"
    THEN [r EXCEPT !.status = "succeeded", !.attempts = n, !.due = TRUE]
    ELSE [r EXCEPT !.status = IF n > Limit(d) THEN "failed" ELSE "pending",
                   !.attempts = n, !.due = n > Limit(d)]

(* Mutant: a failed attempt is not counted.                                *)
MarkedUncounted(r, d, n, out) ==
    IF out = "ok"
    THEN [r EXCEPT !.status = "succeeded", !.attempts = n, !.due = TRUE]
    ELSE [r EXCEPT !.due = FALSE]

\* the row an outcome leaves, written by id whatever the row holds by now
Marked(r, d, n, out) ==
    IF out = "ok"
    THEN [r EXCEPT !.status = "succeeded", !.attempts = n, !.due = TRUE]
    ELSE [r EXCEPT !.status = IF n >= Limit(d) THEN "failed" ELSE "pending",
                   !.attempts = n, !.due = n >= Limit(d)]

Exists(d) == row[d].status \notin {"none", "deleted"}

recordAttempt(s) ==
    /\ att[s].step = "mark"
    /\ LET d == att[s].d IN
       /\ row' = IF Exists(d)
                 THEN [row EXCEPT ![d] = Marked(row[d], d, att[s].attempts + 1, att[s].out)]
                 ELSE row
       /\ IF d \in Pings
          THEN /\ att' = Ended(s)
               /\ job' = JobAfter(s, att[s].out, FALSE)
          ELSE /\ att' = [att EXCEPT ![s] = [@ EXCEPT !.step = "count"]]
               /\ job' = job
    /\ UNCHANGED <<hook, accepted, redelivered, crashes, disturbances>>

FailedLongEnough(h) == h.active /\ h.failureCount >= DisableAfter /\ h.failing = "long"

countOutcome(s) ==
    /\ att[s].step = "count"
    /\ hook' = IF ~hook.exists THEN hook
               ELSE IF att[s].out = "ok"
               THEN [hook EXCEPT !.failureCount = 0, !.failing = "no"]
               ELSE [hook EXCEPT !.failureCount = IF @ < DisableAfter THEN @ + 1 ELSE @,
                                 !.failing = IF @ = "no" THEN "recent" ELSE @]
    /\ IF att[s].out # "ok" /\ hook.exists /\ FailedLongEnough(hook')
       THEN /\ att' = [att EXCEPT ![s] = [@ EXCEPT !.step = "disable"]]
            /\ job' = job
       ELSE /\ att' = Ended(s)
            /\ job' = JobAfter(s, att[s].out, FALSE)
    /\ UNCHANGED <<row, accepted, redelivered, crashes, disturbances>>

autoDisable(s) ==
    /\ att[s].step = "disable"
    /\ LET off == hook.exists /\ hook.active IN
       /\ hook' = IF off THEN [hook EXCEPT !.active = FALSE, !.reason = "failures"] ELSE hook
       /\ job' = JobAfter(s, att[s].out, off)
    /\ att' = Ended(s)
    /\ UNCHANGED <<row, accepted, redelivered, crashes, disturbances>>

(***************************************************************************)
(* Staff: deliverNow claims by id only, neither the lease nor the          *)
(* webhook's active flag is asked for.                                     *)
(***************************************************************************)
createPingDelivery(s, d) ==
    /\ att[s].step = "idle" /\ d \in Pings
    /\ hook.exists
    /\ Disturb
    /\ row[d].status = "none"
    /\ row' = [row EXCEPT ![d] = NewRow]
    /\ att' = [att EXCEPT ![s] = [NoAttempt EXCEPT !.step = "claim", !.d = d]]
    /\ UNCHANGED <<hook, job, accepted, redelivered, crashes>>

redeliver(s, d) ==
    /\ att[s].step = "idle" /\ d \notin Pings
    /\ Exists(d)
    /\ Disturb
    /\ row' = [row EXCEPT ![d] = [@ EXCEPT !.status = "pending", !.attempts = 0, !.due = TRUE]]
    /\ att' = [att EXCEPT ![s] = [NoAttempt EXCEPT !.step = "claim", !.d = d]]
    /\ redelivered' = redelivered \cup {d}
    /\ UNCHANGED <<hook, job, accepted, crashes>>

deliverNow(s) ==
    /\ att[s].step = "claim"
    /\ LET d == att[s].d IN
       IF Pending(d)
       THEN /\ row' = [row EXCEPT ![d] = [@ EXCEPT !.due = FALSE]]
            /\ att' = [att EXCEPT ![s] = [@ EXCEPT !.step = "send", !.attempts = row[d].attempts]]
       ELSE /\ att' = Ended(s)
            /\ row' = row
    /\ UNCHANGED <<hook, job, accepted, redelivered, crashes, disturbances>>

\* PATCH /webhooks/:id with active
switchOff ==
    /\ hook.exists /\ hook.active
    /\ Disturb
    /\ hook' = [hook EXCEPT !.active = FALSE, !.reason = "staff"]
    /\ UNCHANGED <<row, job, att, accepted, redelivered, crashes>>

(* Mutant: switching the webhook on revives what was given up.             *)
switchOnRevives ==
    /\ hook.exists /\ ~hook.active
    /\ Disturb
    /\ hook' = [hook EXCEPT !.active = TRUE, !.reason = "none",
                            !.failureCount = 0, !.failing = "no"]
    /\ row' = [d \in Deliveries |-> IF row[d].status \in {"pending", "failed"}
                                    THEN [row[d] EXCEPT !.status = "pending", !.attempts = 0, !.due = TRUE]
                                    ELSE row[d]]
    /\ UNCHANGED <<job, att, accepted, redelivered, crashes>>

switchOn ==
    /\ hook.exists /\ ~hook.active
    /\ Disturb
    /\ hook' = [hook EXCEPT !.active = TRUE, !.reason = "none",
                            !.failureCount = 0, !.failing = "no"]
    /\ row' = Released(Deliveries, TRUE)
    /\ UNCHANGED <<job, att, accepted, redelivered, crashes>>

\* DELETE /webhooks/:id; the delivery rows go with it
deleteWebhook ==
    /\ hook.exists
    /\ Disturb
    /\ hook' = [hook EXCEPT !.exists = FALSE, !.active = FALSE]
    /\ row' = [d \in Deliveries |-> IF Exists(d) THEN [NoRow EXCEPT !.status = "deleted"] ELSE row[d]]
    /\ UNCHANGED <<job, att, accepted, redelivered, crashes>>

(***************************************************************************)
(* Housekeeping at the end of a run of the job, the clock, and crashes.    *)
(***************************************************************************)
webhookHousekeeping ==
    /\ job.phase = "idle"
    /\ row' = [d \in Deliveries |->
                  IF Pending(d) /\ row[d].age # "new"
                  THEN [row[d] EXCEPT !.status = "failed", !.due = TRUE]
                  ELSE IF Exists(d) /\ ~Pending(d) /\ row[d].age = "ancient"
                  THEN [NoRow EXCEPT !.status = "deleted"]
                  ELSE row[d]]
    /\ row' # row
    /\ UNCHANGED <<hook, job, att, accepted, redelivered, crashes, disturbances>>

InHand(d) == \/ \E s \in Senders : att[s].step # "idle" /\ att[s].d = d
             \/ d \in ListOf(job.list)

\* A backoff, or the lease of a sender that crashed, runs out.  The lease of a
\* living sender outlasts its request (timeout + 60 s); a long batch may outlast
\* it, but the job's lock keeps every other run from claiming it then.
becomesDue(d) ==
    /\ Pending(d) /\ ~row[d].due /\ ~InHand(d)
    /\ row' = [row EXCEPT ![d] = [@ EXCEPT !.due = TRUE]]
    /\ UNCHANGED <<hook, job, att, accepted, redelivered, crashes, disturbances>>

\* a delivery passes 72 hours, then 30 days
ages(d) ==
    /\ Exists(d) /\ row[d].age # "ancient"
    /\ Disturb
    /\ row' = [row EXCEPT ![d] = [@ EXCEPT !.age = IF row[d].age = "new" THEN "expired" ELSE "ancient"]]
    /\ UNCHANGED <<hook, job, att, accepted, redelivered, crashes>>

\* failing_since passes disableMinFailingMs
failsForLong ==
    /\ hook.failing = "recent"
    /\ hook' = [hook EXCEPT !.failing = "long"]
    /\ UNCHANGED <<row, job, att, accepted, redelivered, crashes, disturbances>>

crash ==
    /\ Disturb
    /\ job # IdleJob \/ \E s \in Senders : att[s] # NoAttempt
    /\ job' = IdleJob
    /\ att' = [s \in Senders |-> NoAttempt]
    /\ crashes' = crashes + 1
    /\ UNCHANGED <<row, hook, accepted, redelivered>>

JobStep ==
    \/ claimDue \/ readHook \/ nextInBatch \/ postpone
    \/ attempt(Job) \/ recordAttempt(Job) \/ countOutcome(Job) \/ autoDisable(Job)

StaffStep(s) ==
    \/ deliverNow(s) \/ attempt(s) \/ recordAttempt(s) \/ countOutcome(s) \/ autoDisable(s)

Next ==
    \/ \E d \in Notifications : enqueueWebhookNotifications(d)
    \/ JobStep
    \/ \E s \in Staff : StaffStep(s)
    \/ \E s \in Staff, d \in Deliveries : createPingDelivery(s, d) \/ redeliver(s, d)
    \/ switchOff \/ switchOn \/ deleteWebhook
    \/ webhookHousekeeping
    \/ \E d \in Deliveries : becomesDue(d) \/ ages(d)
    \/ failsForLong
    \/ crash

(***************************************************************************)
(* The job's timer and its awaits keep it going, a staff request runs to   *)
(* its end, and time passes.  Nothing makes the receiver answer 2xx, rows  *)
(* grow old or the server crash.                                           *)
(***************************************************************************)
Fairness ==
    /\ WF_vars(JobStep)
    /\ \A s \in Staff : WF_vars(StaffStep(s))
    /\ WF_vars(\E d \in Deliveries : becomesDue(d))

Spec == Init /\ [][Next]_vars /\ Fairness

-----------------------------------------------------------------------------
Unasked(d) == d \in Notifications /\ d \notin redelivered

\* A delivery nobody redelivers gets one 2xx from the receiver, and one more at
\* most for every crash between a request and the record of its outcome: claims,
\* leases, deferrals and switching the webhook on never send it again.
AcceptedOnce == \A d \in Notifications : Unasked(d) => accepted[d] <= 1 + crashes

\* A row is given up only when its retry budget is spent or it is older than 72
\* hours, and a row that is still to be sent has budget left, also when staff
\* redeliver it while the job is sending it.
GivenUpForCause ==
    \A d \in Deliveries :
        /\ row[d].status = "failed" => row[d].attempts >= Limit(d) \/ row[d].age # "new"
        /\ Pending(d) => row[d].attempts < Limit(d)

\* A delivery nobody redelivers stays settled: once it has succeeded or failed
\* no late record, release or switch-on makes it pending again.
SettledStays ==
    [][\A d \in Notifications :
          (Unasked(d) /\ row[d].status \in {"succeeded", "failed"})
              => row'[d].status # "pending" \/ d \in redelivered']_vars

\* The queue of a webhook that stays on empties in the end, through failures,
\* deferrals of a batch, crashes in mid-send and the leases they leave behind.
QueueDrains == []<>(~hook.active \/ \A d \in Deliveries : ~Pending(d))

\* What the header of webhooks.ts and the comment on deliverNow say: the job, a
\* test and a redelivery never have the same delivery in flight at one time.
NeverSentTwiceAtOnce ==
    \A s, t \in Senders :
        (s # t /\ att[s].step = "send" /\ att[t].step = "send") => att[s].d # att[t].d
=============================================================================
