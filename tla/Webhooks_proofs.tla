---------------------------- MODULE Webhooks_proofs ----------------------------
(***************************************************************************)
(* Proofs about Webhooks, for any deliveries, any number of staff requests *)
(* at once, any retry budget, batch and number of crashes.                 *)
(*                                                                         *)
(* The invariant follows a notification that nobody redelivers through     *)
(* the job's batch: as long as it is still to be sent, the receiver has    *)
(* accepted it at most once per crash.                                     *)
(***************************************************************************)
EXTENDS Webhooks, TLAPS, FiniteSetTheorems

RowType == [status : Statuses, attempts : Nat, due : BOOLEAN, age : {"new", "expired", "ancient"}]
ClaimType == [d : Deliveries, attempts : Nat]
JobType == [phase : {"idle", "read", "work", "defer"}, list : Seq(ClaimType), active : BOOLEAN]
AttemptType == [step : {"idle", "claim", "send", "mark", "count", "disable"},
                d : Deliveries \cup {"none"}, attempts : Nat, out : Outcomes \cup {"none"}]

Types ==
    /\ row \in [Deliveries -> RowType]
    /\ job \in JobType
    /\ att \in [Senders -> AttemptType]
    /\ accepted \in [Notifications -> Nat]
    /\ crashes \in Nat

(* Who is at work: the job's attempt is at the head of its batch, and the  *)
(* batch names every delivery once; staff send what they asked for.        *)
JobAtHead ==
    /\ job.phase = "idle" => job.list = <<>>
    /\ job.phase \in {"read", "work"} => job.list # <<>>
    /\ att[Job].step # "claim"
    /\ att[Job].step # "idle" => /\ job.phase = "work"
                                 /\ att[Job].d = Head(job.list).d

Distinct(l) == \A i, j \in DOMAIN l : l[i].d = l[j].d => i = j

AttemptsOwned ==
    \A s \in Senders : att[s].step # "idle" =>
        /\ att[s].d \in Deliveries /\ row[att[s].d].status # "none"
        /\ s \in Staff => ~Unasked(att[s].d)

Listed(d) == d \in ListOf(job.list)

(* The job has an answer to d that it has not finished with; with the      *)
(* answer recorded.                                                        *)
Answered(d) == att[Job].step \in {"mark", "count", "disable"} /\ att[Job].d = d /\ att[Job].out = "ok"
Recorded(d) == att[Job].step \in {"count", "disable"} /\ att[Job].d = d

(* What holds of each notification.                                        *)
Followed(d) ==
    /\ row[d].status = "none" => accepted[d] = 0 /\ ~Listed(d)
    /\ Unasked(d) =>
        /\ accepted[d] <= crashes + 1
        /\ (Pending(d) \/ Listed(d)) /\ ~Answered(d) => accepted[d] <= crashes
        /\ Listed(d) /\ ~Recorded(d) => row[d].status \in {"pending", "deleted"}
        /\ Recorded(d) /\ Answered(d) => ~Pending(d)

BatchWritten == \A d \in Deliveries : Listed(d) => row[d].status # "none"

IInv ==
    /\ Types
    /\ JobAtHead /\ Distinct(job.list) /\ AttemptsOwned /\ BatchWritten
    /\ \A d \in Notifications : Followed(d)
    /\ GivenUpForCause

-----------------------------------------------------------------------------
(* The limits are at least one.                                            *)
LEMMA Limits == \A d \in Deliveries : Limit(d) \in Nat /\ Limit(d) >= 1
BY WebhookAssumption DEF Limit

(* The constant records are what they should be.                           *)
LEMMA Constants ==
    /\ NoRow \in RowType /\ NoRow.status = "none"
    /\ [NoRow EXCEPT !.status = "deleted"] \in RowType
    /\ [NoRow EXCEPT !.status = "deleted"].status = "deleted"
    /\ NewRow \in RowType /\ NewRow.status = "pending" /\ NewRow.attempts = 0
    /\ NoAttempt \in AttemptType /\ NoAttempt.step = "idle"
    /\ IdleJob \in JobType /\ IdleJob.phase = "idle" /\ IdleJob.list = <<>>
<1>1. /\ NoRow \in RowType /\ NoRow.status = "none"
      /\ [NoRow EXCEPT !.status = "deleted"] \in RowType
      /\ [NoRow EXCEPT !.status = "deleted"].status = "deleted"
  BY DEF NoRow, RowType, Statuses
<1>2. NewRow \in RowType /\ NewRow.status = "pending" /\ NewRow.attempts = 0
  BY DEF NewRow, RowType, Statuses
<1>3. NoAttempt \in AttemptType /\ NoAttempt.step = "idle" BY DEF NoAttempt, AttemptType
<1>4. IdleJob \in JobType /\ IdleJob.phase = "idle" /\ IdleJob.list = <<>>
  <2>1. <<>> \in Seq(ClaimType) OBVIOUS
  <2> QED BY <2>1 DEF IdleJob, JobType
<1> QED BY <1>1, <1>2, <1>3, <1>4

(* An empty batch lists nothing.                                           *)
LEMMA EmptyBatch == Distinct(<<>>) /\ ListOf(<<>>) = {}
<1>1. DOMAIN <<>> = {} OBVIOUS
<1> QED BY <1>1 DEF Distinct, ListOf

(* The invariant holds at the start.                                       *)
LEMMA InitInv == Init => IInv
<1> SUFFICES ASSUME Init PROVE IInv OBVIOUS
<1>1. Types
  <2>1. row \in [Deliveries -> RowType] BY Constants DEF Init
  <2>2. att \in [Senders -> AttemptType] BY Constants DEF Init
  <2>3. accepted \in [Notifications -> Nat] BY DEF Init
  <2> QED BY <2>1, <2>2, <2>3, Constants DEF Init, Types
<1>2. \A s \in Senders : att[s].step = "idle" BY Constants DEF Init
<1>3. Job \in Senders BY DEF Senders
<1>4. JobAtHead BY <1>2, <1>3, Constants DEF Init, JobAtHead
<1>5. Distinct(job.list) /\ ListOf(job.list) = {} BY EmptyBatch, Constants DEF Init
<1>6. AttemptsOwned BY <1>2 DEF AttemptsOwned
<1>7. \A d \in Deliveries : row[d].status = "none" BY Constants DEF Init
<1>8. ASSUME NEW d \in Notifications PROVE Followed(d)
  <2>1. accepted[d] = 0 /\ crashes = 0 BY DEF Init
  <2>2. row[d].status = "none" BY <1>7 DEF Deliveries
  <2>3. ~Recorded(d) BY <1>2, <1>3 DEF Recorded
  <2> QED BY <1>5, <2>1, <2>2, <2>3 DEF Followed, Listed
<1>9. GivenUpForCause BY <1>7 DEF GivenUpForCause, Pending
<1>10. BatchWritten BY <1>5 DEF BatchWritten, Listed
<1> QED BY <1>1, <1>4, <1>5, <1>6, <1>8, <1>9, <1>10 DEF IInv

(***************************************************************************)
(* Steps that leave the job and its attempt alone.  A row keeps its        *)
(* status, is first enqueued, is deleted, is redelivered by staff, or is   *)
(* given up while no batch has it.                                         *)
(***************************************************************************)
RowMoves(d) ==
    \/ row'[d].status = row[d].status
    \/ row[d].status = "none" /\ row'[d].status = "pending"
    \/ /\ row[d].status # "none"
       /\ \/ row'[d].status = "deleted"
          \/ row'[d].status = "failed" /\ ~Listed(d)
          \/ row'[d].status # "none" /\ ~Unasked(d)'

(* Such a step keeps the invariant.                                        *)
LEMMA AsideInv ==
    ASSUME IInv, Types', GivenUpForCause', AttemptsOwned',
           job' = job, att'[Job] = att[Job], crashes' = crashes, redelivered \subseteq redelivered',
           \A d \in Notifications : accepted'[d] = accepted[d] \/ (~Unasked(d)' /\ row[d].status # "none"),
           \A d \in Deliveries : RowMoves(d)
    PROVE  IInv'
<1>1. JobAtHead' BY DEF IInv, JobAtHead
<1>2. ASSUME NEW d \in Notifications PROVE Followed(d)'
  <2>1. Followed(d) /\ RowMoves(d) BY DEF IInv, Deliveries
  <2>2. Listed(d)' <=> Listed(d) BY DEF Listed, ListOf
  <2>3. (Answered(d)' <=> Answered(d)) /\ (Recorded(d)' <=> Recorded(d)) BY DEF Answered, Recorded
  <2>4. Unasked(d)' => Unasked(d) BY DEF Unasked
  <2>5. row'[d].status = "none" => row[d].status = "none" BY <2>1 DEF RowMoves
  <2>6. row'[d].status = "none" => accepted'[d] = 0 /\ ~Listed(d)' BY <2>1, <2>2, <2>5 DEF Followed
  <2>7. ASSUME Unasked(d)' PROVE accepted'[d] <= crashes' + 1 BY <2>1, <2>4, <2>7 DEF Followed
  <2>8. ASSUME Unasked(d)', Pending(d)' \/ Listed(d)', ~Answered(d)' PROVE accepted'[d] <= crashes'
    <3>1. accepted'[d] = accepted[d] BY <2>8
    <3>2. CASE row[d].status = "none"
      <4>1. accepted[d] = 0 BY <2>1, <3>2 DEF Followed
      <4> QED BY <3>1, <4>1 DEF IInv, Types
    <3>3. CASE row[d].status # "none"
      <4>1. Pending(d) \/ Listed(d) BY <2>1, <2>2, <2>8, <3>3 DEF RowMoves, Pending
      <4> QED BY <2>1, <2>3, <2>4, <2>8, <3>1, <4>1 DEF Followed
    <3> QED BY <3>2, <3>3
  <2>9. ASSUME Unasked(d)', Listed(d)', ~Recorded(d)' PROVE row'[d].status \in {"pending", "deleted"}
    <3>1. row[d].status \in {"pending", "deleted"} BY <2>1, <2>2, <2>3, <2>4, <2>9 DEF Followed
    <3> QED BY <2>1, <2>2, <2>9, <3>1 DEF RowMoves
  <2>10. ASSUME Unasked(d)', Recorded(d)', Answered(d)' PROVE ~Pending(d)'
    <3>1. ~Pending(d) BY <2>1, <2>3, <2>4, <2>10 DEF Followed
    <3>2. row[d].status # "none" BY <2>3, <2>10 DEF IInv, AttemptsOwned, Recorded, Senders
    <3> QED BY <2>1, <2>10, <3>1, <3>2 DEF RowMoves, Pending
  <2> QED BY <2>6, <2>7, <2>8, <2>9, <2>10 DEF Followed
<1>3. BatchWritten' BY DEF IInv, BatchWritten, Listed, ListOf, RowMoves
<1> QED BY <1>1, <1>2, <1>3 DEF IInv

(* A row is pending or given up for cause.                                 *)
CauseOK(r, d) ==
    /\ r.status = "failed" => r.attempts >= Limit(d) \/ r.age # "new"
    /\ r.status = "pending" => r.attempts < Limit(d)

(* GivenUpForCause, row by row.                                            *)
LEMMA Causes ==
    /\ GivenUpForCause <=> \A d \in Deliveries : CauseOK(row[d], d)
    /\ GivenUpForCause' <=> \A d \in Deliveries : CauseOK(row'[d], d)
BY DEF GivenUpForCause, CauseOK, Pending, Limit

(* A change of one row.                                                    *)
LEMMA OneRow ==
    ASSUME IInv, NEW d \in Deliveries, NEW r \in RowType, CauseOK(r, d), row' = [row EXCEPT ![d] = r]
    PROVE  /\ row' \in [Deliveries -> RowType] /\ GivenUpForCause'
           /\ row'[d] = r /\ \A x \in Deliveries : x # d => row'[x] = row[x]
<1>1. /\ row' \in [Deliveries -> RowType]
      /\ \A x \in Deliveries : row'[x] = IF x = d THEN r ELSE row[x]
  BY DEF IInv, Types
<1>2. GivenUpForCause' BY <1>1, Causes DEF IInv
<1> QED BY <1>1, <1>2

(* Rows that keep all but next_attempt_at.                                 *)
Rescheduled ==
    /\ row' \in [Deliveries -> RowType]
    /\ \A d \in Deliveries : /\ row'[d].status = row[d].status
                             /\ row'[d].attempts = row[d].attempts /\ row'[d].age = row[d].age

(* The releases of a batch, and switching on, are such.                    *)
LEMMA ReleasedRows ==
    ASSUME IInv, NEW S, NEW b \in BOOLEAN, row' = Released(S, b)
    PROVE  Rescheduled
<1>1. \A d \in Deliveries : row[d] \in RowType BY DEF IInv, Types
<1>2. \A d \in Deliveries : [row[d] EXCEPT !.due = b] \in RowType BY <1>1 DEF RowType
<1>3. row' \in [Deliveries -> RowType] BY <1>1, <1>2 DEF Released
<1>4. ASSUME NEW d \in Deliveries
      PROVE  /\ row'[d].status = row[d].status
             /\ row'[d].attempts = row[d].attempts /\ row'[d].age = row[d].age
  <2>1. row'[d] = row[d] \/ row'[d] = [row[d] EXCEPT !.due = b] BY DEF Released
  <2> QED BY <1>1, <2>1 DEF RowType
<1> QED BY <1>3, <1>4 DEF Rescheduled

(* They keep the causes, and every row where it was.                       *)
LEMMA RescheduledRows ==
    ASSUME IInv, Rescheduled
    PROVE  GivenUpForCause' /\ \A d \in Deliveries : RowMoves(d)
BY Causes DEF IInv, Rescheduled, CauseOK, RowMoves, Deliveries

(* The same for rows that stay as they are.                                *)
LEMMA SameRows == ASSUME IInv, row' = row PROVE Rescheduled
BY DEF IInv, Types, Rescheduled

(* Attempts stay owned when the rows stay written and nobody asks.         *)
LEMMA OwnersStay ==
    ASSUME IInv, att' = att, redelivered \subseteq redelivered',
           \A d \in Deliveries : row[d].status # "none" => row'[d].status # "none"
    PROVE  AttemptsOwned'
BY DEF IInv, AttemptsOwned, Unasked

-----------------------------------------------------------------------------
(***************************************************************************)
(* The session transaction, the clock and the switches.                    *)
(***************************************************************************)

(* A notification is enqueued.                                             *)
LEMMA EnqueueInv == ASSUME IInv, NEW d \in Notifications, enqueueWebhookNotifications(d) PROVE IInv'
<1>1. /\ row[d].status = "none" /\ row' = [row EXCEPT ![d] = NewRow]
      /\ job' = job /\ att' = att /\ accepted' = accepted /\ redelivered' = redelivered /\ crashes' = crashes
  BY DEF enqueueWebhookNotifications
<1>2. d \in Deliveries BY DEF Deliveries
<1>3. CauseOK(NewRow, d) BY <1>2, Constants, Limits DEF CauseOK
<1>4. NewRow \in RowType /\ NewRow.status = "pending" BY Constants
<1> HIDE DEF NewRow
<1>5. /\ row' \in [Deliveries -> RowType] /\ GivenUpForCause'
      /\ row'[d] = NewRow /\ \A x \in Deliveries : x # d => row'[x] = row[x]
  BY <1>1, <1>2, <1>3, <1>4, OneRow
<1>6. Types' BY <1>1, <1>5 DEF IInv, Types
<1>7. AttemptsOwned' BY <1>1, <1>4, <1>5, OwnersStay
<1>8. \A x \in Deliveries : RowMoves(x) BY <1>1, <1>4, <1>5 DEF RowMoves, Deliveries
<1> QED BY <1>1, <1>5, <1>6, <1>7, <1>8, AsideInv

(* Steps that at most reschedule rows.                                     *)
LEMMA RescheduleInv ==
    ASSUME IInv, Rescheduled, job' = job, att' = att, accepted' = accepted,
           redelivered' = redelivered, crashes' = crashes
    PROVE  IInv'
<1>1. Types' BY DEF IInv, Types, Rescheduled
<1>2. AttemptsOwned' BY OwnersStay DEF Rescheduled
<1> QED BY <1>1, <1>2, RescheduledRows, AsideInv

(* A backoff or a lease runs out.                                          *)
LEMMA BecomesDueInv == ASSUME IInv, NEW d \in Deliveries, becomesDue(d) PROVE IInv'
<1>1. /\ row' = [row EXCEPT ![d] = [row[d] EXCEPT !.due = TRUE]]
      /\ job' = job /\ att' = att /\ accepted' = accepted /\ redelivered' = redelivered /\ crashes' = crashes
  BY DEF becomesDue
<1>2. \A x \in Deliveries : row[x] \in RowType BY DEF IInv, Types
<1>3. [row[d] EXCEPT !.due = TRUE] \in RowType BY <1>2 DEF RowType
<1>4. /\ row' \in [Deliveries -> RowType]
      /\ \A x \in Deliveries : row'[x] = IF x = d THEN [row[x] EXCEPT !.due = TRUE] ELSE row[x]
  BY <1>1, <1>3 DEF IInv, Types
<1>5. Rescheduled
  <2>1. ASSUME NEW x \in Deliveries
        PROVE  /\ row'[x].status = row[x].status
               /\ row'[x].attempts = row[x].attempts /\ row'[x].age = row[x].age
    BY <1>2, <1>4 DEF RowType
  <2> QED BY <1>4, <2>1 DEF Rescheduled
<1> QED BY <1>1, <1>5, RescheduleInv

(* A row grows older: the cause of giving it up can only be added.         *)
LEMMA AgesInv == ASSUME IInv, NEW d \in Deliveries, ages(d) PROVE IInv'
<1> DEFINE a == IF row[d].age = "new" THEN "expired" ELSE "ancient"
           r == [row[d] EXCEPT !.age = a]
<1>1. /\ row' = [row EXCEPT ![d] = r]
      /\ job' = job /\ att' = att /\ accepted' = accepted /\ redelivered' = redelivered /\ crashes' = crashes
  BY DEF ages
<1>2. row[d] \in RowType /\ a \in {"expired", "ancient"} BY DEF IInv, Types
<1> HIDE DEF a
<1>3. r \in RowType /\ r.status = row[d].status /\ r.attempts = row[d].attempts /\ r.age = a
  BY <1>2 DEF RowType
<1>4. CauseOK(r, d) BY <1>2, <1>3, Causes DEF IInv, CauseOK
<1> HIDE DEF r
<1>5. /\ row' \in [Deliveries -> RowType] /\ GivenUpForCause'
      /\ row'[d] = r /\ \A x \in Deliveries : x # d => row'[x] = row[x]
  BY <1>1, <1>3, <1>4, OneRow
<1>6. Types' BY <1>1, <1>5 DEF IInv, Types
<1>7. \A x \in Deliveries : row'[x].status = row[x].status BY <1>3, <1>5
<1>8. AttemptsOwned' BY <1>1, <1>7, OwnersStay
<1>9. \A x \in Deliveries : RowMoves(x) BY <1>7 DEF RowMoves, Deliveries
<1> QED BY <1>1, <1>5, <1>6, <1>8, <1>9, AsideInv

(* The switches and the counters' clock leave the rows' statuses alone.    *)
LEMMA SwitchInv == ASSUME IInv, switchOff \/ switchOn \/ failsForLong PROVE IInv'
<1>1. CASE switchOff BY <1>1, SameRows, RescheduleInv DEF switchOff
<1>2. CASE failsForLong BY <1>2, SameRows, RescheduleInv DEF failsForLong
<1>3. CASE switchOn
  <2>1. row' = Released(Deliveries, TRUE) BY <1>3 DEF switchOn
  <2>2. Rescheduled BY <2>1, ReleasedRows
  <2> QED BY <1>3, <2>2, RescheduleInv DEF switchOn
<1> QED BY <1>1, <1>2, <1>3

(* Deleting the webhook deletes its rows.                                  *)
LEMMA DeleteInv == ASSUME IInv, deleteWebhook PROVE IInv'
<1> DEFINE gone == [NoRow EXCEPT !.status = "deleted"]
<1>1. /\ row' = [d \in Deliveries |-> IF Exists(d) THEN gone ELSE row[d]]
      /\ job' = job /\ att' = att /\ accepted' = accepted /\ redelivered' = redelivered /\ crashes' = crashes
  BY DEF deleteWebhook
<1>2. gone \in RowType /\ gone.status = "deleted" BY Constants
<1> HIDE DEF gone
<1>3. row' \in [Deliveries -> RowType] BY <1>1, <1>2 DEF IInv, Types
<1>4. \A d \in Deliveries : row'[d] = row[d] \/ (row[d].status # "none" /\ row'[d] = gone)
  BY <1>1 DEF Exists
<1>5. GivenUpForCause' BY <1>2, <1>4, Causes DEF IInv, CauseOK
<1>6. Types' BY <1>1, <1>3 DEF IInv, Types
<1>7. AttemptsOwned' BY <1>1, <1>2, <1>4, OwnersStay
<1>8. \A d \in Deliveries : RowMoves(d) BY <1>2, <1>4 DEF RowMoves, Deliveries
<1> QED BY <1>1, <1>5, <1>6, <1>7, <1>8, AsideInv

(* Housekeeping gives up old rows and deletes ancient ones, between two    *)
(* batches.                                                                *)
LEMMA HousekeepingInv == ASSUME IInv, webhookHousekeeping PROVE IInv'
<1> DEFINE gone == [NoRow EXCEPT !.status = "deleted"]
           lost(d) == [row[d] EXCEPT !.status = "failed", !.due = TRUE]
<1>1. /\ job.phase = "idle"
      /\ row' = [d \in Deliveries |->
                    IF Pending(d) /\ row[d].age # "new" THEN lost(d)
                    ELSE IF Exists(d) /\ ~Pending(d) /\ row[d].age = "ancient" THEN gone ELSE row[d]]
      /\ job' = job /\ att' = att /\ accepted' = accepted /\ redelivered' = redelivered /\ crashes' = crashes
  BY DEF webhookHousekeeping
<1>2. gone \in RowType /\ gone.status = "deleted" BY Constants
<1>3. ASSUME NEW d \in Deliveries
      PROVE  lost(d) \in RowType /\ lost(d).status = "failed" /\ lost(d).age = row[d].age
  <2>1. row[d] \in RowType BY DEF IInv, Types
  <2> QED BY <2>1 DEF RowType, Statuses
<1> HIDE DEF gone, lost
<1>4. row' \in [Deliveries -> RowType] BY <1>1, <1>2, <1>3 DEF IInv, Types
<1>5. \A d \in Deliveries :
        \/ row'[d] = row[d]
        \/ row[d].status = "pending" /\ row[d].age # "new" /\ row'[d] = lost(d)
        \/ row[d].status # "none" /\ row'[d] = gone
  BY <1>1 DEF Exists, Pending
<1>6. GivenUpForCause' BY <1>2, <1>3, <1>5, Causes DEF IInv, CauseOK
<1>7. Types' BY <1>1, <1>4 DEF IInv, Types
<1>8. AttemptsOwned' BY <1>1, <1>2, <1>3, <1>5, OwnersStay
<1>9. \A d \in Deliveries : ~Listed(d) BY <1>1, EmptyBatch DEF IInv, JobAtHead, Listed
<1>10. \A d \in Deliveries : RowMoves(d) BY <1>2, <1>3, <1>5, <1>9 DEF RowMoves, Deliveries
<1> QED BY <1>1, <1>6, <1>7, <1>8, <1>10, AsideInv

-----------------------------------------------------------------------------
(***************************************************************************)
(* Staff requests.                                                         *)
(***************************************************************************)

(* Staff are not the job, and both are senders.                            *)
LEMMA SendersApart ==
    /\ Job \in Senders
    /\ \A s \in Staff : s \in Senders /\ s # Job
    /\ \A s \in Senders : s # Job => s \in Staff
BY WebhookAssumption DEF Senders

(* An attempt of one sender changes.                                       *)
LEMMA OneAttempt ==
    ASSUME IInv, NEW s \in Senders, NEW a \in AttemptType, att' = [att EXCEPT ![s] = a],
           redelivered \subseteq redelivered',
           \A d \in Deliveries : row[d].status # "none" => row'[d].status # "none",
           a.step # "idle" => /\ a.d \in Deliveries /\ row'[a.d].status # "none"
                              /\ s \in Staff => ~Unasked(a.d)'
    PROVE  /\ att' \in [Senders -> AttemptType] /\ AttemptsOwned'
           /\ att'[s] = a /\ \A x \in Senders : x # s => att'[x] = att[x]
<1>1. /\ att' \in [Senders -> AttemptType]
      /\ \A x \in Senders : att'[x] = IF x = s THEN a ELSE att[x]
  BY DEF IInv, Types
<1>2. AttemptsOwned'
  <2> DEFINE Asked(d) == ~(d \in Notifications /\ d \notin redelivered')
  <2>1. ASSUME NEW x \in Senders, att'[x].step # "idle"
        PROVE  /\ att'[x].d \in Deliveries /\ row'[att'[x].d].status # "none"
               /\ x \in Staff => Asked(att'[x].d)
    <3>1. CASE x = s BY <1>1, <2>1, <3>1 DEF Unasked
    <3>2. CASE x # s BY <1>1, <2>1, <3>2 DEF IInv, AttemptsOwned, Unasked
    <3> QED BY <3>1, <3>2
  <2> QED BY <2>1 DEF AttemptsOwned, Unasked
<1> QED BY <1>1, <1>2

(* The test button creates a delivery of its own.                          *)
LEMMA PingInv == ASSUME IInv, NEW s \in Staff, NEW d \in Deliveries, createPingDelivery(s, d) PROVE IInv'
<1> DEFINE a == [NoAttempt EXCEPT !.step = "claim", !.d = d]
<1>1. /\ row[d].status = "none" /\ row' = [row EXCEPT ![d] = NewRow] /\ d \in Pings
      /\ att' = [att EXCEPT ![s] = a]
      /\ job' = job /\ accepted' = accepted /\ redelivered' = redelivered /\ crashes' = crashes
  BY DEF createPingDelivery
<1>2. CauseOK(NewRow, d) /\ NewRow \in RowType /\ NewRow.status = "pending"
  BY Constants, Limits DEF CauseOK
<1> HIDE DEF NewRow
<1>3. /\ row' \in [Deliveries -> RowType] /\ GivenUpForCause'
      /\ row'[d] = NewRow /\ \A x \in Deliveries : x # d => row'[x] = row[x]
  BY <1>1, <1>2, OneRow
<1>4. a \in AttemptType /\ a.d = d BY DEF NoAttempt, AttemptType
<1>5. d \notin Notifications BY <1>1, WebhookAssumption
<1> HIDE DEF a
<1>6. /\ att' \in [Senders -> AttemptType] /\ AttemptsOwned'
      /\ att'[s] = a /\ \A x \in Senders : x # s => att'[x] = att[x]
  BY <1>1, <1>2, <1>3, <1>4, <1>5, SendersApart, OneAttempt DEF Unasked
<1>7. Types' BY <1>1, <1>3, <1>6 DEF IInv, Types
<1>8. \A x \in Deliveries : RowMoves(x) BY <1>1, <1>2, <1>3 DEF RowMoves
<1> QED BY <1>1, <1>3, <1>6, <1>7, <1>8, SendersApart, AsideInv

(* Redelivery resets a row that exists, and is on record.                  *)
LEMMA RedeliverInv == ASSUME IInv, NEW s \in Staff, NEW d \in Deliveries, redeliver(s, d) PROVE IInv'
<1> DEFINE a == [NoAttempt EXCEPT !.step = "claim", !.d = d]
           r == [row[d] EXCEPT !.status = "pending", !.attempts = 0, !.due = TRUE]
<1>1. /\ Exists(d) /\ row' = [row EXCEPT ![d] = r] /\ att' = [att EXCEPT ![s] = a]
      /\ redelivered' = redelivered \cup {d}
      /\ job' = job /\ accepted' = accepted /\ crashes' = crashes
  BY DEF redeliver
<1>2. row[d] \in RowType BY DEF IInv, Types
<1>3. r \in RowType /\ r.status = "pending" /\ r.attempts = 0 BY <1>2 DEF RowType, Statuses
<1>4. CauseOK(r, d) BY <1>3, Limits DEF CauseOK
<1> HIDE DEF r
<1>5. /\ row' \in [Deliveries -> RowType] /\ GivenUpForCause'
      /\ row'[d] = r /\ \A x \in Deliveries : x # d => row'[x] = row[x]
  BY <1>1, <1>3, <1>4, OneRow
<1>6. a \in AttemptType /\ a.d = d BY DEF NoAttempt, AttemptType
<1> HIDE DEF a
<1>7. ~Unasked(d)' BY <1>1 DEF Unasked
<1>8. /\ att' \in [Senders -> AttemptType] /\ AttemptsOwned'
      /\ att'[s] = a /\ \A x \in Senders : x # s => att'[x] = att[x]
  BY <1>1, <1>3, <1>5, <1>6, <1>7, SendersApart, OneAttempt
<1>9. Types' BY <1>1, <1>5, <1>8 DEF IInv, Types
<1>10. \A x \in Deliveries : RowMoves(x) BY <1>1, <1>3, <1>5, <1>7 DEF RowMoves, Deliveries, Exists
<1> QED BY <1>1, <1>5, <1>8, <1>9, <1>10, SendersApart, AsideInv

(* What a staff request does to its attempt leaves the job alone.          *)
LEMMA StaffAttempt ==
    ASSUME IInv, NEW s \in Staff, NEW a \in AttemptType, att' = [att EXCEPT ![s] = a],
           a.step = "idle" \/ (a.d = att[s].d /\ att[s].step # "idle"),
           row' \in [Deliveries -> RowType], GivenUpForCause',
           \A d \in Deliveries : row[d].status # "none" => row'[d].status # "none",
           \A d \in Deliveries : RowMoves(d),
           accepted' \in [Notifications -> Nat],
           \A d \in Notifications : accepted'[d] = accepted[d] \/ (~Unasked(d) /\ row[d].status # "none"),
           job' = job, redelivered' = redelivered, crashes' = crashes
    PROVE  IInv'
<1>1. att[s].step # "idle" => /\ att[s].d \in Deliveries /\ row[att[s].d].status # "none"
                              /\ ~Unasked(att[s].d)
  BY SendersApart DEF IInv, AttemptsOwned
<1>2. \A d : Unasked(d)' <=> Unasked(d) BY DEF Unasked
<1>3. /\ att' \in [Senders -> AttemptType] /\ AttemptsOwned'
      /\ att'[s] = a /\ \A x \in Senders : x # s => att'[x] = att[x]
  BY <1>1, <1>2, SendersApart, OneAttempt
<1>4. Types' BY <1>3 DEF IInv, Types
<1> QED BY <1>2, <1>3, <1>4, SendersApart, AsideInv

(* deliverNow leases the row, or finds it settled.                         *)
LEMMA DeliverNowInv == ASSUME IInv, NEW s \in Staff, deliverNow(s) PROVE IInv'
<1> DEFINE d == att[s].d
<1>1. att[s] \in AttemptType /\ att[s].step = "claim" /\ d \in Deliveries
  BY SendersApart DEF deliverNow, IInv, Types, AttemptsOwned
<1>2. job' = job /\ accepted' = accepted /\ redelivered' = redelivered /\ crashes' = crashes
  BY DEF deliverNow
<1>3. accepted' \in [Notifications -> Nat] BY <1>2 DEF IInv, Types
<1>4. CASE Pending(d)
  <2> DEFINE a == [att[s] EXCEPT !.step = "send", !.attempts = row[d].attempts]
             r == [row[d] EXCEPT !.due = FALSE]
  <2>1. row' = [row EXCEPT ![d] = r] /\ att' = [att EXCEPT ![s] = a] BY <1>4 DEF deliverNow
  <2>2. row[d] \in RowType BY <1>1 DEF IInv, Types
  <2>3. a \in AttemptType /\ a.d = d BY <1>1, <2>2 DEF AttemptType, RowType
  <2>4. r \in RowType /\ r.status = row[d].status /\ r.attempts = row[d].attempts /\ r.age = row[d].age
    BY <2>2 DEF RowType
  <2>5. CauseOK(r, d) BY <1>1, <2>4, Causes DEF IInv, CauseOK
  <2> HIDE DEF r, a
  <2>6. /\ row' \in [Deliveries -> RowType] /\ GivenUpForCause'
        /\ row'[d] = r /\ \A x \in Deliveries : x # d => row'[x] = row[x]
    <3> HIDE DEF d
    <3> QED BY <1>1, <2>1, <2>4, <2>5, OneRow
  <2>7. \A x \in Deliveries : row'[x].status = row[x].status BY <2>4, <2>6
  <2>8. \A x \in Deliveries : RowMoves(x) BY <2>7 DEF RowMoves, Deliveries
  <2> QED BY <1>1, <1>2, <1>3, <2>1, <2>3, <2>6, <2>7, <2>8, StaffAttempt
<1>5. CASE ~Pending(d)
  <2>1. row' = row /\ att' = [att EXCEPT ![s] = NoAttempt] BY <1>5 DEF deliverNow, Ended
  <2>2. Rescheduled BY <2>1, SameRows
  <2>3. NoAttempt \in AttemptType /\ NoAttempt.step = "idle" BY Constants
  <2> QED BY <1>2, <1>3, <2>1, <2>2, <2>3, RescheduledRows, StaffAttempt DEF Rescheduled
<1> QED BY <1>4, <1>5

(* The row an outcome leaves has a cause for its status.                   *)
LEMMA MarkedRow ==
    ASSUME NEW r \in RowType, NEW d \in Deliveries, NEW n \in Nat, NEW out
    PROVE  /\ Marked(r, d, n, out) \in RowType /\ CauseOK(Marked(r, d, n, out), d)
           /\ Marked(r, d, n, out).status \in {"succeeded", "failed", "pending"}
           /\ out = "ok" => Marked(r, d, n, out).status = "succeeded"
<1>1. Limit(d) \in Nat BY Limits
<1>2. CASE out = "ok"
  <2> DEFINE m == [r EXCEPT !.status = "succeeded", !.attempts = n, !.due = TRUE]
  <2>1. m \in RowType /\ m.status = "succeeded" BY DEF RowType, Statuses
  <2>2. Marked(r, d, n, out) = m BY <1>2 DEF Marked
  <2> QED BY <2>1, <2>2 DEF CauseOK
<1>3. CASE out # "ok"
  <2> DEFINE st == IF n >= Limit(d) THEN "failed" ELSE "pending"
             b == n >= Limit(d)
             m == [r EXCEPT !.status = st, !.attempts = n, !.due = b]
  <2>1. b \in BOOLEAN /\ st \in {"failed", "pending"} OBVIOUS
  <2>2. (st = "failed" => n >= Limit(d)) /\ (st = "pending" => n < Limit(d)) BY <1>1
  <2>3. Marked(r, d, n, out) = m BY <1>3 DEF Marked
  <2> HIDE DEF st, b
  <2>4. m \in RowType /\ m.status = st /\ m.attempts = n BY <2>1 DEF RowType, Statuses
  <2> QED BY <1>3, <2>1, <2>2, <2>3, <2>4 DEF CauseOK
<1> QED BY <1>2, <1>3

(* The row that recordAttempt leaves, for the job and for staff.           *)
LEMMA RecordRow ==
    ASSUME IInv, NEW s \in Senders, recordAttempt(s)
    PROVE  /\ row' \in [Deliveries -> RowType] /\ GivenUpForCause'
           /\ \A x \in Deliveries : x # att[s].d => row'[x] = row[x]
           /\ att[s].d \in Deliveries
           /\ \/ row'[att[s].d] = row[att[s].d] /\ row[att[s].d].status = "deleted"
              \/ /\ row'[att[s].d].status \in {"succeeded", "failed", "pending"}
                 /\ att[s].out = "ok" => row'[att[s].d].status = "succeeded"
<1> DEFINE d == att[s].d
           m == Marked(row[d], d, att[s].attempts + 1, att[s].out)
<1>1. /\ att[s] \in AttemptType /\ att[s].step = "mark" /\ d \in Deliveries /\ row[d].status # "none"
      /\ row[d] \in RowType
  BY DEF recordAttempt, IInv, Types, AttemptsOwned
<1>2. att[s].attempts + 1 \in Nat BY <1>1 DEF AttemptType
<1>3. /\ m \in RowType /\ CauseOK(m, d) /\ m.status \in {"succeeded", "failed", "pending"}
      /\ att[s].out = "ok" => m.status = "succeeded"
  BY <1>1, <1>2, MarkedRow
<1>4. row' = IF Exists(d) THEN [row EXCEPT ![d] = m] ELSE row BY DEF recordAttempt
<1>5. CASE Exists(d)
  <2> HIDE DEF m, d
  <2>1. row' = [row EXCEPT ![d] = m] BY <1>4, <1>5
  <2>2. /\ row' \in [Deliveries -> RowType] /\ GivenUpForCause'
        /\ row'[d] = m /\ \A x \in Deliveries : x # d => row'[x] = row[x]
    BY <1>1, <1>3, <2>1, OneRow
  <2> QED BY <1>1, <1>3, <2>2 DEF d
<1>6. CASE ~Exists(d)
  <2>1. row' = row /\ row[d].status = "deleted" BY <1>1, <1>4, <1>6 DEF Exists
  <2>2. Rescheduled BY <2>1, SameRows
  <2> QED BY <1>1, <2>1, <2>2, RescheduledRows DEF Rescheduled
<1> QED BY <1>5, <1>6

(* A staff request sends, records, counts and switches off.                *)
LEMMA StaffAttemptInv == ASSUME IInv, NEW s \in Staff, attempt(s) PROVE IInv'
<1>1. att[s] \in AttemptType /\ att[s].step = "send" /\ att[s].d \in Deliveries
  BY SendersApart DEF attempt, IInv, Types, AttemptsOwned
<1>2. ~Unasked(att[s].d) /\ row[att[s].d].status # "none"
  BY <1>1, SendersApart DEF IInv, AttemptsOwned
<1>3. PICK o \in Outcomes :
        /\ att' = [att EXCEPT ![s] = [att[s] EXCEPT !.step = "mark", !.out = o]]
        /\ accepted' = IF o = "ok" /\ att[s].d \in Notifications
                       THEN [accepted EXCEPT ![att[s].d] = accepted[att[s].d] + 1] ELSE accepted
  BY DEF attempt
<1> DEFINE a == [att[s] EXCEPT !.step = "mark", !.out = o]
<1>4. a \in AttemptType /\ a.d = att[s].d BY <1>1 DEF AttemptType
<1>5. row' = row /\ job' = job /\ redelivered' = redelivered /\ crashes' = crashes BY DEF attempt
<1>6. Rescheduled BY <1>5, SameRows
<1>7. /\ accepted' \in [Notifications -> Nat]
      /\ \A d \in Notifications : accepted'[d] = accepted[d] \/ d = att[s].d
  BY <1>3 DEF IInv, Types
<1>8. att' = [att EXCEPT ![s] = a] BY <1>3
<1> HIDE DEF a
<1> QED BY <1>1, <1>2, <1>4, <1>5, <1>6, <1>7, <1>8, RescheduledRows, StaffAttempt DEF Rescheduled

(* Its record is of a delivery staff asked for.                            *)
LEMMA StaffRecordInv == ASSUME IInv, NEW s \in Staff, recordAttempt(s) PROVE IInv'
<1> DEFINE d == att[s].d
           a == IF d \in Pings THEN NoAttempt ELSE [att[s] EXCEPT !.step = "count"]
<1>1. att[s] \in AttemptType /\ att[s].step = "mark" BY SendersApart DEF recordAttempt, IInv, Types
<1>2. ~Unasked(d) /\ row[d].status # "none" BY <1>1, SendersApart DEF IInv, AttemptsOwned
<1>3. a \in AttemptType /\ (a.step = "idle" \/ a.d = d)
  <2>1. LET c == [att[s] EXCEPT !.step = "count"] IN c \in AttemptType /\ c.d = d
    BY <1>1 DEF AttemptType
  <2> QED BY <2>1, Constants
<1>4. att' = [att EXCEPT ![s] = a] BY DEF recordAttempt, Ended
<1>5. job' = job /\ accepted' = accepted /\ redelivered' = redelivered /\ crashes' = crashes
  BY SendersApart DEF recordAttempt, JobAfter
<1>6. /\ row' \in [Deliveries -> RowType] /\ GivenUpForCause' /\ d \in Deliveries
      /\ \A x \in Deliveries : x # d => row'[x] = row[x]
      /\ row'[d].status # "none"
  BY <1>2, SendersApart, RecordRow
<1>7. \A x \in Deliveries : RowMoves(x) BY <1>2, <1>5, <1>6 DEF RowMoves, Deliveries, Unasked
<1>8. accepted' \in [Notifications -> Nat] BY <1>5 DEF IInv, Types
<1>9. \A x \in Deliveries : row[x].status # "none" => row'[x].status # "none" BY <1>6
<1> HIDE DEF a
<1> QED BY <1>1, <1>3, <1>4, <1>5, <1>6, <1>7, <1>8, <1>9, StaffAttempt

(* Its counters and its switch-off touch no row.                           *)
LEMMA StaffCountInv == ASSUME IInv, NEW s \in Staff, countOutcome(s) \/ autoDisable(s) PROVE IInv'
<1> DEFINE c == [att[s] EXCEPT !.step = "disable"]
<1>1. att[s] \in AttemptType /\ att[s].step \in {"count", "disable"}
  BY SendersApart DEF countOutcome, autoDisable, IInv, Types
<1>2. c \in AttemptType /\ c.d = att[s].d BY <1>1 DEF AttemptType
<1>3. att' = [att EXCEPT ![s] = c] \/ att' = [att EXCEPT ![s] = NoAttempt]
  BY DEF countOutcome, autoDisable, Ended
<1>4. row' = row /\ accepted' = accepted /\ redelivered' = redelivered /\ crashes' = crashes
  BY DEF countOutcome, autoDisable
<1>5. job' = job BY SendersApart DEF countOutcome, autoDisable, JobAfter
<1>6. Rescheduled /\ accepted' \in [Notifications -> Nat] BY <1>4, SameRows DEF IInv, Types
<1> HIDE DEF c
<1>7. CASE att' = [att EXCEPT ![s] = c]
  BY <1>1, <1>2, <1>4, <1>5, <1>6, <1>7, RescheduledRows, StaffAttempt DEF Rescheduled
<1>8. CASE att' = [att EXCEPT ![s] = NoAttempt]
  BY <1>4, <1>5, <1>6, <1>8, Constants, RescheduledRows, StaffAttempt DEF Rescheduled
<1> QED BY <1>3, <1>7, <1>8

-----------------------------------------------------------------------------
(***************************************************************************)
(* The job.                                                                *)
(***************************************************************************)

(* Going on in a batch: its first delivery is no longer listed.            *)
LEMMA TailBatch ==
    ASSUME NEW l \in Seq(ClaimType), l # <<>>, Distinct(l)
    PROVE  /\ Head(l) \in ClaimType /\ Head(l).d \in ListOf(l)
           /\ Tail(l) \in Seq(ClaimType) /\ Distinct(Tail(l))
           /\ ListOf(Tail(l)) \subseteq ListOf(l) \ {Head(l).d}
           /\ Len(l) # 1 => Tail(l) # <<>>
<1>1. /\ Len(l) \in Nat /\ Len(l) >= 1 /\ DOMAIN l = 1..Len(l)
      /\ Tail(l) \in Seq(ClaimType) /\ Len(Tail(l)) = Len(l) - 1 /\ DOMAIN Tail(l) = 1..(Len(l) - 1)
      /\ Head(l) = l[1] /\ 1 \in DOMAIN l /\ Head(l) \in ClaimType
  OBVIOUS
<1>2. \A i \in DOMAIN Tail(l) : Tail(l)[i] = l[i + 1] /\ i + 1 \in DOMAIN l /\ i + 1 # 1 BY <1>1
<1>3. Distinct(Tail(l)) BY <1>1, <1>2 DEF Distinct
<1>4. Head(l).d \in ListOf(l) BY <1>1 DEF ListOf
<1>5. ASSUME NEW i \in DOMAIN Tail(l) PROVE Tail(l)[i].d \in ListOf(l) \ {Head(l).d}
  BY <1>1, <1>2 DEF ListOf, Distinct
<1>6. ListOf(Tail(l)) \subseteq ListOf(l) \ {Head(l).d} BY <1>5 DEF ListOf
<1>7. ASSUME Len(l) # 1 PROVE Tail(l) # <<>>
  <2>1. 1 \in DOMAIN Tail(l) BY <1>1, <1>7
  <2>2. DOMAIN <<>> = {} OBVIOUS
  <2> QED BY <2>1, <2>2
<1> QED BY <1>1, <1>3, <1>4, <1>6, <1>7

(* The job after an attempt: the delivery has left the batch.              *)
LEMMA AfterAttempt ==
    ASSUME IInv, att[Job].step # "idle", NEW out, NEW disabled, NEW j, j = JobAfter(Job, out, disabled)
    PROVE  /\ j \in JobType /\ Distinct(j.list)
           /\ ListOf(j.list) \subseteq ListOf(job.list) \ {att[Job].d}
           /\ j.phase = "idle" => j.list = <<>>
           /\ j.phase # "idle" => j.list # <<>>
<1>1. job \in JobType /\ job.list # <<>> /\ att[Job].d = Head(job.list).d
  BY DEF IInv, Types, JobAtHead
<1>2. job.list \in Seq(ClaimType) /\ Distinct(job.list) BY <1>1 DEF IInv, JobType
<1>3. /\ Tail(job.list) \in Seq(ClaimType) /\ Distinct(Tail(job.list))
      /\ ListOf(Tail(job.list)) \subseteq ListOf(job.list) \ {Head(job.list).d}
      /\ Len(job.list) # 1 => Tail(job.list) # <<>>
  BY <1>1, <1>2, TailBatch
<1>4. CASE Len(job.list) = 1
  <2>1. j = IdleJob BY <1>4 DEF JobAfter
  <2> QED BY <2>1, Constants, EmptyBatch
<1>5. CASE Len(job.list) # 1
  <2> DEFINE p == IF out = "transient" THEN "defer" ELSE "work"
             b == job.active /\ ~disabled
             t == Tail(job.list)
  <2>1. j = [phase |-> p, list |-> t, active |-> b] BY <1>5 DEF JobAfter
  <2>2. p \in {"defer", "work"} /\ b \in BOOLEAN OBVIOUS
  <2>3. t \in Seq(ClaimType) /\ t # <<>> BY <1>3, <1>5
  <2> HIDE DEF p, b, t
  <2>4. j \in JobType /\ j.list = t /\ j.phase = p BY <2>1, <2>2, <2>3 DEF JobType
  <2> QED BY <1>1, <1>3, <2>2, <2>3, <2>4 DEF t
<1> QED BY <1>4, <1>5

(* The job is done with its delivery.                                      *)
LEMMA JobEndsInv ==
    ASSUME IInv, att[Job].step # "idle", NEW out, NEW disabled,
           job' = JobAfter(Job, out, disabled), att' = [att EXCEPT ![Job] = NoAttempt],
           accepted' = accepted, redelivered' = redelivered, crashes' = crashes,
           row' \in [Deliveries -> RowType], GivenUpForCause',
           \A d \in Deliveries : row[d].status # "none" => row'[d].status # "none",
           \A d \in Notifications : row'[d].status = row[d].status,
           att[Job].d \in Notifications => Recorded(att[Job].d)
    PROVE  IInv'
<1> DEFINE d0 == att[Job].d
<1>1. /\ job' \in JobType /\ Distinct(job'.list)
      /\ ListOf(job'.list) \subseteq ListOf(job.list) \ {d0}
      /\ job'.phase = "idle" => job'.list = <<>>
      /\ job'.phase # "idle" => job'.list # <<>>
  BY AfterAttempt
<1>2. NoAttempt \in AttemptType /\ NoAttempt.step = "idle" BY Constants
<1>3. /\ att' \in [Senders -> AttemptType] /\ AttemptsOwned'
      /\ att'[Job] = NoAttempt /\ \A x \in Senders : x # Job => att'[x] = att[x]
  BY <1>2, SendersApart, OneAttempt
<1>4. Types' BY <1>1, <1>3 DEF IInv, Types
<1>5. JobAtHead' BY <1>1, <1>2, <1>3 DEF JobAtHead
<1>6. BatchWritten' BY <1>1 DEF IInv, BatchWritten, Listed, ListOf
<1>7. ASSUME NEW d \in Notifications PROVE Followed(d)'
  <2>1. Followed(d) BY DEF IInv
  <2>2. Listed(d)' => Listed(d) /\ d # d0 BY <1>1 DEF Listed, ListOf
  <2>3. ~Recorded(d)' /\ ~Answered(d)' BY <1>2, <1>3 DEF Recorded, Answered
  <2>4. (Unasked(d)' <=> Unasked(d)) /\ (Pending(d)' <=> Pending(d)) BY DEF Unasked, Pending
  <2>5. ASSUME Unasked(d), Pending(d) \/ (Listed(d) /\ d # d0) PROVE accepted[d] <= crashes
    <3>1. ~Answered(d)
      <4>1. CASE d # d0 BY <4>1 DEF Answered
      <4>2. CASE d = d0 BY <2>1, <2>5, <4>2 DEF Followed
      <4> QED BY <4>1, <4>2
    <3> QED BY <2>1, <2>5, <3>1 DEF Followed
  <2>6. ASSUME Unasked(d), Listed(d), d # d0 PROVE row[d].status \in {"pending", "deleted"}
    BY <2>1, <2>6 DEF Followed, Recorded
  <2>7. (row[d].status = "none" => accepted[d] = 0 /\ ~Listed(d)) /\ (Unasked(d) => accepted[d] <= crashes + 1)
    BY <2>1 DEF Followed
  <2> QED BY <2>2, <2>3, <2>4, <2>5, <2>6, <2>7 DEF Followed
<1> QED BY <1>1, <1>3, <1>4, <1>5, <1>6, <1>7 DEF IInv

(* The job moves between two attempts, or starts one: what it lists is     *)
(* what it listed, or is pending.                                          *)
LEMMA JobMovesInv ==
    ASSUME IInv, Rescheduled, att[Job].step = "idle",
           job' \in JobType, Distinct(job'.list), JobAtHead',
           att' \in [Senders -> AttemptType], AttemptsOwned', att'[Job].step \in {"idle", "send"},
           accepted' = accepted, redelivered' = redelivered, crashes' = crashes,
           \A d \in Deliveries : d \in ListOf(job'.list) => Listed(d) \/ Pending(d)
    PROVE  IInv'
<1>1. Types' BY DEF IInv, Types, Rescheduled
<1>2. GivenUpForCause' BY RescheduledRows
<1>3. \A d \in Deliveries : Listed(d)' => Listed(d) \/ Pending(d) BY DEF Listed, ListOf
<1>4. BatchWritten' BY <1>3 DEF IInv, BatchWritten, Pending, Rescheduled
<1>5. ASSUME NEW d \in Notifications PROVE Followed(d)'
  <2>1. Followed(d) /\ row'[d].status = row[d].status BY DEF IInv, Deliveries, Rescheduled
  <2>2. Listed(d)' => Listed(d) \/ Pending(d) BY <1>3 DEF Deliveries
  <2>3. ~Recorded(d) /\ ~Answered(d) /\ ~Recorded(d)' /\ ~Answered(d)' BY DEF Recorded, Answered
  <2>4. (Unasked(d)' <=> Unasked(d)) /\ (Pending(d)' <=> Pending(d)) BY <2>1 DEF Unasked, Pending
  <2> QED BY <2>1, <2>2, <2>3, <2>4 DEF Followed, Pending
<1> QED BY <1>1, <1>2, <1>4, <1>5 DEF IInv

(* Attempts and owners stay while the job only moves.                      *)
LEMMA SameAttempts ==
    ASSUME IInv, Rescheduled, att' = att, redelivered' = redelivered
    PROVE  att' \in [Senders -> AttemptType] /\ AttemptsOwned'
<1>1. \A d \in Deliveries : row[d].status # "none" => row'[d].status # "none" BY DEF Rescheduled
<1> QED BY <1>1, OwnersStay DEF IInv, Types

(* The claim: a batch of pending rows, each named once.                    *)
LEMMA ClaimInv == ASSUME IInv, claimDue PROVE IInv'
<1>1. /\ job.phase = "idle" /\ DueRows # {} /\ att' = att /\ accepted' = accepted
      /\ redelivered' = redelivered /\ crashes' = crashes
  BY DEF claimDue
<1>2. PICK S \in SUBSET DueRows :
        /\ Cardinality(S) = Batch \/ (S = DueRows /\ Cardinality(S) <= Batch)
        /\ row' = [d \in Deliveries |-> IF d \in S THEN [row[d] EXCEPT !.due = FALSE] ELSE row[d]]
        /\ \E l \in SortedClaims(S) : job' = [phase |-> "read", list |-> l, active |-> FALSE]
  BY DEF claimDue
<1>3. PICK l \in SortedClaims(S) : job' = [phase |-> "read", list |-> l, active |-> FALSE] BY <1>2
<1>4. Cardinality(S) \in Nat /\ S # {}
  <2>1. IsFiniteSet(Deliveries) BY WebhookAssumption, FS_Union DEF Deliveries
  <2>2. S \subseteq Deliveries BY DEF DueRows
  <2>3. IsFiniteSet(S) BY <2>1, <2>2, FS_Subset
  <2>4. Cardinality({}) = 0 BY FS_EmptySet
  <2>5. Batch # 0 BY WebhookAssumption
  <2>6. S # {} BY <1>1, <1>2, <2>4, <2>5
  <2> QED BY <2>3, <2>6, FS_CardinalityType
<1>5. /\ l \in [1..Cardinality(S) -> Claims] /\ ListOf(l) = S
      /\ \A i, j \in DOMAIN l : i < j => l[i].d # l[j].d
  BY DEF SortedClaims, ListOf
<1>6. l \in Seq(ClaimType)
  <2>1. Claims \subseteq ClaimType BY WebhookAssumption DEF Claims, ClaimType
  <2>2. l \in [1..Cardinality(S) -> ClaimType] BY <1>5, <2>1
  <2> QED BY <1>4, <2>2
<1>7. l # <<>> BY <1>4, <1>5, EmptyBatch
<1>8. Distinct(l)
  <2>1. SUFFICES ASSUME NEW i \in DOMAIN l, NEW j \in DOMAIN l, l[i].d = l[j].d PROVE i = j
    BY DEF Distinct
  <2>2. DOMAIN l = 1..Cardinality(S) BY <1>5
  <2>3. ~(i < j) /\ ~(j < i) BY <1>5, <2>1
  <2> QED BY <1>4, <2>2, <2>3
<1>9. Rescheduled
  <2>1. \A d \in Deliveries : row[d] \in RowType BY DEF IInv, Types
  <2>2. \A d \in Deliveries : [row[d] EXCEPT !.due = FALSE] \in RowType BY <2>1 DEF RowType
  <2>3. row' \in [Deliveries -> RowType] BY <1>2, <2>1, <2>2
  <2>4. ASSUME NEW d \in Deliveries
        PROVE  /\ row'[d].status = row[d].status
               /\ row'[d].attempts = row[d].attempts /\ row'[d].age = row[d].age
    <3>1. row'[d] = row[d] \/ row'[d] = [row[d] EXCEPT !.due = FALSE] BY <1>2
    <3> QED BY <2>1, <3>1 DEF RowType
  <2> QED BY <2>3, <2>4 DEF Rescheduled
<1>10. job' \in JobType /\ job'.list = l /\ job'.phase = "read" BY <1>3, <1>6 DEF JobType
<1>11. att[Job].step = "idle" /\ att'[Job].step = "idle" BY <1>1 DEF IInv, JobAtHead
<1>12. JobAtHead' BY <1>7, <1>10, <1>11 DEF JobAtHead
<1>13. \A d \in Deliveries : d \in ListOf(job'.list) => Pending(d) BY <1>5, <1>10 DEF DueRows
<1> QED BY <1>1, <1>8, <1>9, <1>10, <1>11, <1>12, <1>13, SameAttempts, JobMovesInv

(* The webhook is read, or what is left of the batch is put off.           *)
LEMMA ReadInv == ASSUME IInv, readHook PROVE IInv'
<1> DEFINE b == hook.exists /\ hook.active
<1>1. /\ job.phase = "read" /\ job' = [job EXCEPT !.phase = "work", !.active = b]
      /\ row' = row /\ att' = att /\ accepted' = accepted
      /\ redelivered' = redelivered /\ crashes' = crashes
  BY DEF readHook
<1>2. b \in BOOLEAN OBVIOUS
<1> HIDE DEF b
<1>3. job' \in JobType /\ job'.list = job.list /\ job'.phase = "work"
  BY <1>1, <1>2 DEF IInv, Types, JobType
<1>4. att[Job].step = "idle" /\ att'[Job].step = "idle" BY <1>1 DEF IInv, JobAtHead
<1>5. JobAtHead' BY <1>1, <1>3, <1>4 DEF IInv, JobAtHead
<1>6. Distinct(job'.list) /\ \A d \in Deliveries : d \in ListOf(job'.list) => Listed(d)
  BY <1>3 DEF IInv, Listed
<1>7. Rescheduled BY <1>1, SameRows
<1> QED BY <1>1, <1>3, <1>4, <1>5, <1>6, <1>7, SameAttempts, JobMovesInv

(* Giving the batch back ends the job.                                     *)
LEMMA BatchBackInv ==
    ASSUME IInv, att[Job].step = "idle", NEW b \in BOOLEAN, row' = Released(ListOf(job.list), b),
           job' = IdleJob, att' = att, accepted' = accepted, redelivered' = redelivered, crashes' = crashes
    PROVE  IInv'
<1>1. Rescheduled BY ReleasedRows
<1>2. job' \in JobType /\ job'.phase = "idle" /\ job'.list = <<>> BY Constants
<1>3. JobAtHead' BY <1>2 DEF IInv, JobAtHead
<1>4. Distinct(job'.list) /\ ListOf(job'.list) = {} BY <1>2, EmptyBatch
<1> QED BY <1>1, <1>2, <1>3, <1>4, SameAttempts, JobMovesInv

(* So does an endpoint that looks down.                                     *)
LEMMA PostponeInv == ASSUME IInv, postpone PROVE IInv'
<1>1. job.phase = "defer" BY DEF postpone
<1>2. att[Job].step = "idle" BY <1>1 DEF IInv, JobAtHead
<1>3. /\ row' = Released(ListOf(job.list), FALSE) /\ job' = IdleJob
      /\ att' = att /\ accepted' = accepted /\ redelivered' = redelivered /\ crashes' = crashes
  BY DEF postpone
<1> QED BY <1>2, <1>3, BatchBackInv

(* The head of the batch is listed and has been written.                   *)
LEMMA HeadListed ==
    ASSUME IInv, job.list # <<>>
    PROVE  /\ Head(job.list) \in ClaimType /\ Head(job.list).d \in Deliveries
           /\ Listed(Head(job.list).d) /\ row[Head(job.list).d].status # "none"
<1>1. job.list \in Seq(ClaimType) /\ Distinct(job.list) BY DEF IInv, Types, JobType
<1>2. Head(job.list) \in ClaimType /\ Head(job.list).d \in ListOf(job.list) BY <1>1, TailBatch
<1>3. Head(job.list).d \in Deliveries BY <1>2 DEF ClaimType
<1> QED BY <1>2, <1>3 DEF IInv, BatchWritten, Listed

(* The next delivery of the batch, or the end of it.                       *)
LEMMA NextInBatchInv == ASSUME IInv, nextInBatch PROVE IInv'
<1>1. /\ job.phase = "work" /\ att[Job].step = "idle" /\ accepted' = accepted
      /\ redelivered' = redelivered /\ crashes' = crashes
  BY DEF nextInBatch
<1>2. CASE ~job.active /\ row' = Released(ListOf(job.list), TRUE) /\ job' = IdleJob /\ att' = att
  BY <1>1, <1>2, BatchBackInv
<1> DEFINE h == Head(job.list)
           a == [step |-> "send", d |-> h.d, attempts |-> h.attempts, out |-> "none"]
<1>3. CASE att' = [att EXCEPT ![Job] = a] /\ row' = row /\ job' = job
  <2>1. job.list # <<>> BY <1>1 DEF IInv, JobAtHead
  <2>2. h \in ClaimType /\ h.d \in Deliveries /\ row[h.d].status # "none" BY <2>1, HeadListed
  <2>3. a \in AttemptType /\ a.d = h.d /\ a.step = "send" BY <2>2 DEF AttemptType, ClaimType
  <2> HIDE DEF a
  <2>4. Rescheduled BY <1>3, SameRows
  <2>5. \A d \in Deliveries : row[d].status # "none" => row'[d].status # "none" BY <1>3
  <2>6. /\ att' \in [Senders -> AttemptType] /\ AttemptsOwned' /\ att'[Job] = a
    BY <1>1, <1>3, <2>2, <2>3, <2>5, SendersApart, OneAttempt
  <2>7. JobAtHead' BY <1>1, <1>3, <2>1, <2>3, <2>6 DEF JobAtHead
  <2>8. /\ job' \in JobType /\ Distinct(job'.list)
        /\ \A d \in Deliveries : d \in ListOf(job'.list) => Listed(d)
    BY <1>3 DEF IInv, Types, Listed
  <2> QED BY <1>1, <2>3, <2>4, <2>6, <2>7, <2>8, JobMovesInv
<1> QED BY <1>2, <1>3 DEF nextInBatch

(* Where the job's attempt stands.                                         *)
LEMMA JobAtWork ==
    ASSUME IInv, att[Job].step # "idle"
    PROVE  /\ att[Job] \in AttemptType /\ att[Job].d \in Deliveries
           /\ Listed(att[Job].d) /\ row[att[Job].d].status # "none"
           /\ job.phase = "work" /\ job.list # <<>> /\ att[Job].d = Head(job.list).d
<1>1. job.phase = "work" /\ job.list # <<>> /\ att[Job].d = Head(job.list).d BY DEF IInv, JobAtHead
<1>2. att[Job] \in AttemptType BY SendersApart DEF IInv, Types
<1> QED BY <1>1, <1>2, HeadListed

(* The job goes to the next step of the same attempt.                      *)
LEMMA SameAttempt ==
    ASSUME IInv, att[Job].step # "idle", NEW a \in AttemptType, a.d = att[Job].d,
           a.step \notin {"idle", "claim"}, att' = [att EXCEPT ![Job] = a],
           job' = job, redelivered' = redelivered,
           \A d \in Deliveries : row[d].status # "none" => row'[d].status # "none"
    PROVE  /\ att' \in [Senders -> AttemptType] /\ AttemptsOwned' /\ att'[Job] = a
           /\ JobAtHead' /\ BatchWritten'
<1>1. /\ att[Job].d \in Deliveries /\ row[att[Job].d].status # "none"
      /\ job.phase = "work" /\ job.list # <<>> /\ att[Job].d = Head(job.list).d
  BY JobAtWork
<1>2. att' \in [Senders -> AttemptType] /\ AttemptsOwned' /\ att'[Job] = a
  BY <1>1, SendersApart, OneAttempt
<1>3. JobAtHead' BY <1>1, <1>2 DEF JobAtHead
<1>4. BatchWritten' BY DEF IInv, BatchWritten, Listed, ListOf
<1> QED BY <1>2, <1>3, <1>4

(* The job sends: a 2xx is one more acceptance, and is not yet recorded.   *)
LEMMA JobAttemptInv == ASSUME IInv, attempt(Job) PROVE IInv'
<1> DEFINE d0 == att[Job].d
<1>1. att[Job].step = "send" BY DEF attempt
<1>2. att[Job] \in AttemptType /\ d0 \in Deliveries /\ Listed(d0) /\ row[d0].status # "none"
  BY <1>1, JobAtWork
<1>3. PICK o \in Outcomes :
        /\ att' = [att EXCEPT ![Job] = [att[Job] EXCEPT !.step = "mark", !.out = o]]
        /\ accepted' = IF o = "ok" /\ d0 \in Notifications
                       THEN [accepted EXCEPT ![d0] = accepted[d0] + 1] ELSE accepted
  BY DEF attempt
<1> DEFINE a == [att[Job] EXCEPT !.step = "mark", !.out = o]
<1>4. a \in AttemptType /\ a.d = d0 /\ a.step = "mark" /\ a.out = o BY <1>2 DEF AttemptType
<1>5. row' = row /\ job' = job /\ redelivered' = redelivered /\ crashes' = crashes BY DEF attempt
<1>6. att' = [att EXCEPT ![Job] = a] BY <1>3
<1>7. /\ accepted' \in [Notifications -> Nat]
      /\ \A d \in Notifications :
            accepted'[d] = IF d = d0 /\ o = "ok" THEN accepted[d] + 1 ELSE accepted[d]
  BY <1>3 DEF IInv, Types
<1> HIDE DEF a
<1>8. Rescheduled /\ GivenUpForCause' BY <1>5, SameRows, RescheduledRows
<1>9. /\ att' \in [Senders -> AttemptType] /\ AttemptsOwned' /\ att'[Job] = a
      /\ JobAtHead' /\ BatchWritten'
  BY <1>1, <1>4, <1>5, <1>6, SameAttempt
<1>10. Types' BY <1>5, <1>7, <1>9 DEF IInv, Types
<1>11. ASSUME NEW d \in Notifications PROVE Followed(d)'
  <2>1. Followed(d) /\ accepted[d] \in Nat /\ crashes \in Nat BY DEF IInv, Types
  <2>2. ~Answered(d) /\ ~Recorded(d) /\ ~Recorded(d)' BY <1>1, <1>4, <1>9 DEF Answered, Recorded
  <2>3. Answered(d)' <=> (d = d0 /\ o = "ok") BY <1>4, <1>9 DEF Answered
  <2>4. (Unasked(d)' <=> Unasked(d)) /\ (Pending(d)' <=> Pending(d)) /\ (Listed(d)' <=> Listed(d))
    BY <1>5 DEF Unasked, Pending, Listed, ListOf
  <2>5. CASE d = d0 /\ o = "ok"
    <3>1. accepted'[d] = accepted[d] + 1 BY <1>7, <2>5
    <3>2. Unasked(d) => accepted[d] <= crashes BY <1>2, <2>1, <2>2, <2>5 DEF Followed
    <3> QED BY <1>2, <1>5, <2>1, <2>2, <2>3, <2>4, <2>5, <3>1, <3>2 DEF Followed
  <2>6. CASE ~(d = d0 /\ o = "ok")
    <3>1. accepted'[d] = accepted[d] BY <1>7, <2>6
    <3> QED BY <1>5, <2>1, <2>2, <2>3, <2>4, <2>6, <3>1 DEF Followed
  <2> QED BY <2>5, <2>6
<1> QED BY <1>5, <1>8, <1>9, <1>10, <1>11 DEF IInv

(* The job's record of a notification settles what was accepted.           *)
LEMMA JobRecordInv == ASSUME IInv, recordAttempt(Job) PROVE IInv'
<1> DEFINE d0 == att[Job].d
<1>1. att[Job].step = "mark" BY DEF recordAttempt
<1>2. att[Job] \in AttemptType /\ d0 \in Deliveries /\ Listed(d0) /\ row[d0].status # "none"
  BY <1>1, JobAtWork
<1>3. accepted' = accepted /\ redelivered' = redelivered /\ crashes' = crashes BY DEF recordAttempt
<1>4. /\ row' \in [Deliveries -> RowType] /\ GivenUpForCause'
      /\ \A x \in Deliveries : x # d0 => row'[x] = row[x]
      /\ \/ row'[d0] = row[d0] /\ row[d0].status = "deleted"
         \/ /\ row'[d0].status \in {"succeeded", "failed", "pending"}
            /\ att[Job].out = "ok" => row'[d0].status = "succeeded"
  BY SendersApart, RecordRow
<1>5. \A x \in Deliveries : row[x].status # "none" => row'[x].status # "none" BY <1>4
<1>6. CASE d0 \in Pings
  <2>1. att' = [att EXCEPT ![Job] = NoAttempt] /\ job' = JobAfter(Job, att[Job].out, FALSE)
    BY <1>6 DEF recordAttempt, Ended
  <2>2. d0 \notin Notifications BY <1>6, WebhookAssumption
  <2>3. \A d \in Notifications : row'[d].status = row[d].status BY <1>4, <2>2 DEF Deliveries
  <2> QED BY <1>1, <1>3, <1>4, <1>5, <2>1, <2>2, <2>3, JobEndsInv
<1>7. CASE d0 \notin Pings
  <2> DEFINE a == [att[Job] EXCEPT !.step = "count"]
  <2>1. att' = [att EXCEPT ![Job] = a] /\ job' = job BY <1>7 DEF recordAttempt
  <2>2. a \in AttemptType /\ a.d = d0 /\ a.step = "count" /\ a.out = att[Job].out
    BY <1>2 DEF AttemptType
  <2> HIDE DEF a
  <2>3. /\ att' \in [Senders -> AttemptType] /\ AttemptsOwned' /\ att'[Job] = a
        /\ JobAtHead' /\ BatchWritten'
    BY <1>1, <1>3, <1>5, <2>1, <2>2, SameAttempt
  <2>4. Types' BY <1>3, <1>4, <2>1, <2>3 DEF IInv, Types
  <2>5. ASSUME NEW d \in Notifications PROVE Followed(d)'
    <3>1. Followed(d) BY DEF IInv
    <3>2. (Unasked(d)' <=> Unasked(d)) /\ (Listed(d)' <=> Listed(d))
      BY <1>3, <2>1 DEF Unasked, Listed, ListOf
    <3>3. CASE d = d0
      <4>1. Recorded(d)' /\ ~Recorded(d) BY <1>1, <2>2, <2>3, <3>3 DEF Recorded
      <4>2. (Answered(d)' <=> Answered(d)) /\ (Answered(d) <=> att[Job].out = "ok")
        BY <1>1, <2>2, <2>3, <3>3 DEF Answered
      <4>3. row'[d].status # "none" /\ (Answered(d) => ~Pending(d)') BY <1>2, <1>4, <3>3, <4>2 DEF Pending
      <4> QED BY <1>2, <1>3, <3>1, <3>2, <3>3, <4>1, <4>2, <4>3 DEF Followed
    <3>4. CASE d # d0
      <4>1. row'[d] = row[d] BY <1>4, <3>4 DEF Deliveries
      <4>2. ~Recorded(d)' /\ ~Recorded(d) /\ ~Answered(d)' /\ ~Answered(d)
        BY <2>2, <2>3, <3>4 DEF Recorded, Answered
      <4>3. Pending(d)' <=> Pending(d) BY <4>1 DEF Pending
      <4> QED BY <1>3, <3>1, <3>2, <4>1, <4>2, <4>3 DEF Followed
    <3> QED BY <3>3, <3>4
  <2> QED BY <1>4, <2>1, <2>3, <2>4, <2>5 DEF IInv
<1> QED BY <1>6, <1>7

(* The job's counters and its switch-off.                                  *)
LEMMA JobCountInv == ASSUME IInv, countOutcome(Job) \/ autoDisable(Job) PROVE IInv'
<1> DEFINE d0 == att[Job].d
           a == [att[Job] EXCEPT !.step = "disable"]
<1>1. att[Job].step \in {"count", "disable"} BY DEF countOutcome, autoDisable
<1>2. att[Job] \in AttemptType /\ d0 \in Deliveries BY <1>1, JobAtWork
<1>3. row' = row /\ accepted' = accepted /\ redelivered' = redelivered /\ crashes' = crashes
  BY DEF countOutcome, autoDisable
<1>4. Rescheduled /\ GivenUpForCause' BY <1>3, SameRows, RescheduledRows
<1>5. \/ att' = [att EXCEPT ![Job] = a] /\ job' = job
      \/ /\ att' = [att EXCEPT ![Job] = NoAttempt]
         /\ \E b \in BOOLEAN : job' = JobAfter(Job, att[Job].out, b)
  <2>1. CASE countOutcome(Job) BY <2>1 DEF countOutcome, Ended
  <2>2. CASE autoDisable(Job)
    <3>1. (hook.exists /\ hook.active) \in BOOLEAN OBVIOUS
    <3> QED BY <2>2, <3>1 DEF autoDisable, Ended
  <2> QED BY <2>1, <2>2
<1>6. CASE att' = [att EXCEPT ![Job] = a] /\ job' = job
  <2>1. a \in AttemptType /\ a.d = d0 /\ a.step = "disable" /\ a.out = att[Job].out
    BY <1>2 DEF AttemptType
  <2> HIDE DEF a
  <2>2. \A x \in Deliveries : row[x].status # "none" => row'[x].status # "none" BY <1>3
  <2>3. /\ att' \in [Senders -> AttemptType] /\ AttemptsOwned' /\ att'[Job] = a
        /\ JobAtHead' /\ BatchWritten'
    BY <1>1, <1>3, <1>6, <2>1, <2>2, SameAttempt
  <2>4. Types' BY <1>3, <1>4, <1>6, <2>3 DEF IInv, Types
  <2>5. ASSUME NEW d \in Notifications PROVE Followed(d)'
    <3>1. Followed(d) BY DEF IInv
    <3>2. /\ Unasked(d)' <=> Unasked(d)
          /\ Pending(d)' <=> Pending(d)
          /\ Listed(d)' <=> Listed(d)
      BY <1>3, <1>6 DEF Unasked, Pending, Listed, ListOf
    <3>3. (Recorded(d)' <=> Recorded(d)) /\ (Answered(d)' <=> Answered(d))
      BY <1>1, <2>1, <2>3 DEF Recorded, Answered
    <3> QED BY <1>3, <3>1, <3>2, <3>3 DEF Followed
  <2> QED BY <1>4, <1>6, <2>3, <2>4, <2>5 DEF IInv
<1>7. CASE /\ att' = [att EXCEPT ![Job] = NoAttempt]
           /\ \E b \in BOOLEAN : job' = JobAfter(Job, att[Job].out, b)
  <2>1. PICK b \in BOOLEAN : job' = JobAfter(Job, att[Job].out, b) BY <1>7
  <2>2. Recorded(d0) BY <1>1 DEF Recorded
  <2>3. row' \in [Deliveries -> RowType] BY <1>4 DEF Rescheduled
  <2> QED BY <1>1, <1>3, <1>4, <1>7, <2>1, <2>2, <2>3, JobEndsInv
<1> QED BY <1>5, <1>6, <1>7

(* A crash forgets the batch and every attempt; what was accepted and not  *)
(* recorded is accepted once more at most.                                 *)
LEMMA CrashInv == ASSUME IInv, crash PROVE IInv'
<1>1. /\ job' = IdleJob /\ att' = [s \in Senders |-> NoAttempt] /\ crashes' = crashes + 1
      /\ row' = row /\ accepted' = accepted /\ redelivered' = redelivered
  BY DEF crash
<1>2. /\ NoAttempt \in AttemptType /\ NoAttempt.step = "idle"
      /\ job' \in JobType /\ job'.phase = "idle" /\ job'.list = <<>>
  BY <1>1, Constants
<1>3. att' \in [Senders -> AttemptType] /\ \A s \in Senders : att'[s].step = "idle" BY <1>1, <1>2
<1>4. att'[Job].step = "idle" BY <1>3, SendersApart
<1>5. Types' BY <1>1, <1>2, <1>3 DEF IInv, Types
<1>6. JobAtHead' /\ AttemptsOwned' BY <1>2, <1>3, <1>4 DEF JobAtHead, AttemptsOwned
<1>7. Distinct(job'.list) /\ \A d : ~Listed(d)' BY <1>2, EmptyBatch DEF Listed
<1>8. BatchWritten' BY <1>7 DEF BatchWritten
<1>9. GivenUpForCause' BY <1>1, SameRows, RescheduledRows
<1>10. ASSUME NEW d \in Notifications PROVE Followed(d)'
  <2>1. Followed(d) /\ accepted[d] \in Nat /\ crashes \in Nat BY DEF IInv, Types
  <2>2. ~Recorded(d)' BY <1>4 DEF Recorded
  <2>3. Unasked(d)' <=> Unasked(d) BY <1>1 DEF Unasked
  <2>4. Unasked(d) => accepted[d] <= crashes + 1 BY <2>1 DEF Followed
  <2>5. Unasked(d)' => accepted'[d] <= crashes' /\ accepted'[d] <= crashes' + 1 BY <1>1, <2>1, <2>3, <2>4
  <2> QED BY <1>1, <1>7, <2>1, <2>2, <2>5 DEF Followed
<1> QED BY <1>5, <1>6, <1>7, <1>8, <1>9, <1>10 DEF IInv

-----------------------------------------------------------------------------
(* Every step keeps the invariant.                                         *)
LEMMA NextInv == IInv /\ [Next]_vars => IInv'
<1> SUFFICES ASSUME IInv, [Next]_vars PROVE IInv' OBVIOUS
<1>1. CASE UNCHANGED vars
  <2>1. row' = row /\ job' = job /\ att' = att /\ accepted' = accepted /\ redelivered' = redelivered /\ crashes' = crashes
    BY <1>1 DEF vars
  <2> QED BY <2>1, SameRows, RescheduleInv
<1>2. CASE \E d \in Notifications : enqueueWebhookNotifications(d) BY <1>2, EnqueueInv
<1>3. CASE JobStep
  BY <1>3, ClaimInv, ReadInv, NextInBatchInv, PostponeInv, JobAttemptInv, JobRecordInv, JobCountInv DEF JobStep
<1>4. CASE \E s \in Staff : StaffStep(s)
  BY <1>4, DeliverNowInv, StaffAttemptInv, StaffRecordInv, StaffCountInv DEF StaffStep
<1>5. CASE \E s \in Staff, d \in Deliveries : createPingDelivery(s, d) \/ redeliver(s, d)
  BY <1>5, PingInv, RedeliverInv
<1>6. CASE switchOff \/ switchOn \/ failsForLong BY <1>6, SwitchInv
<1>7. CASE deleteWebhook BY <1>7, DeleteInv
<1>8. CASE webhookHousekeeping BY <1>8, HousekeepingInv
<1>9. CASE \E d \in Deliveries : becomesDue(d) \/ ages(d) BY <1>9, BecomesDueInv, AgesInv
<1>10. CASE crash BY <1>10, CrashInv
<1> QED BY <1>1, <1>2, <1>3, <1>4, <1>5, <1>6, <1>7, <1>8, <1>9, <1>10 DEF Next

(* A row is given up (recordAttempt, webhookHousekeeping) only with its    *)
(* retry budget spent or its age past 72 hours, and a pending row always   *)
(* has budget left: for any deliveries, staff requests, budget and batch.  *)
THEOREM GivenUpOnlyForCause == Spec => []GivenUpForCause
<1>1. IInv => GivenUpForCause BY DEF IInv
<1> QED BY InitInv, NextInv, <1>1, PTL DEF Spec

(* The receiver accepts a notification that nobody redelivers at most once *)
(* and once more per crash, whatever claims, deferrals, switches and       *)
(* redeliveries of others happen (deliverDueWebhooks, deliverNow).            *)
THEOREM NeverAcceptedTwice == Spec => []AcceptedOnce
<1>1. IInv => AcceptedOnce
  <2> SUFFICES ASSUME IInv, NEW d \in Notifications, Unasked(d) PROVE accepted[d] <= 1 + crashes
    BY DEF AcceptedOnce
  <2>1. accepted[d] <= crashes + 1 /\ accepted[d] \in Nat /\ crashes \in Nat
    BY DEF IInv, Types, Followed
  <2> QED BY <2>1
<1> QED BY InitInv, NextInv, <1>1, PTL DEF Spec

(* What one step does to a settled row that nobody redelivers.             *)
SettledRow(d) ==
    (Unasked(d) /\ row[d].status \in {"succeeded", "failed"})
        => row'[d].status # "pending" \/ d \in redelivered'

(* Only a record could reopen a row, and no record of it is still to come. *)
LEMMA RecordKeepsSettled ==
    ASSUME IInv, NEW s \in Senders, recordAttempt(s), NEW d \in Notifications
    PROVE  SettledRow(d)
<1>1. SUFFICES ASSUME Unasked(d), row[d].status \in {"succeeded", "failed"} PROVE d # att[s].d
  <2>1. \A x \in Deliveries : x # att[s].d => row'[x] = row[x] BY RecordRow
  <2> QED BY <1>1, <2>1 DEF SettledRow, Deliveries
<1>2. att[s].step = "mark" BY DEF recordAttempt
<1>3. CASE s = Job
  <2>1. Listed(att[s].d) /\ ~Recorded(att[s].d) BY <1>2, <1>3, JobAtWork DEF Recorded
  <2> QED BY <1>1, <2>1 DEF IInv, Followed
<1>4. CASE s # Job
  <2>1. ~Unasked(att[s].d) BY <1>2, <1>4, SendersApart DEF IInv, AttemptsOwned
  <2> QED BY <1>1, <2>1
<1> QED BY <1>3, <1>4

(* Every step leaves settled rows settled.                                 *)
LEMMA NextKeepsSettled ==
    ASSUME IInv, Next, NEW d \in Notifications PROVE SettledRow(d)
<1>1. d \in Deliveries BY DEF Deliveries
<1>2. ASSUME row'[d].status = row[d].status PROVE SettledRow(d) BY <1>2 DEF SettledRow
<1>3. CASE \E x \in Notifications : enqueueWebhookNotifications(x)
  <2>1. PICK x \in Notifications : row[x].status = "none" /\ row' = [row EXCEPT ![x] = NewRow]
    BY <1>3 DEF enqueueWebhookNotifications
  <2> QED BY <1>1, <2>1 DEF SettledRow, IInv, Types
<1>4. CASE JobStep
  <2>1. CASE claimDue
    <3>1. PICK S \in SUBSET DueRows :
            row' = [x \in Deliveries |-> IF x \in S THEN [row[x] EXCEPT !.due = FALSE] ELSE row[x]]
      BY <2>1 DEF claimDue
    <3>2. row[d] \in RowType BY <1>1 DEF IInv, Types
    <3> QED BY <1>1, <1>2, <3>1, <3>2 DEF RowType
  <2>2. CASE readHook \/ attempt(Job) \/ countOutcome(Job) \/ autoDisable(Job)
    <3>1. row' = row BY <2>2 DEF readHook, attempt, countOutcome, autoDisable
    <3> QED BY <1>2, <3>1
  <2>3. CASE nextInBatch \/ postpone
    <3>1. row' = row \/ \E b \in BOOLEAN : row' = Released(ListOf(job.list), b)
      BY <2>3 DEF nextInBatch, postpone
    <3>2. Rescheduled BY <3>1, SameRows, ReleasedRows
    <3> QED BY <1>1, <1>2, <3>2 DEF Rescheduled
  <2>4. CASE recordAttempt(Job) BY <2>4, SendersApart, RecordKeepsSettled
  <2> QED BY <1>4, <2>1, <2>2, <2>3, <2>4 DEF JobStep
<1>5. CASE \E s \in Staff : StaffStep(s)
  <2>1. PICK s \in Staff : StaffStep(s) BY <1>5
  <2>2. CASE deliverNow(s)
    <3>1. \/ row' = row
          \/ row' = [row EXCEPT ![att[s].d] = [row[att[s].d] EXCEPT !.due = FALSE]]
      BY <2>2 DEF deliverNow
    <3>2. row[d] \in RowType /\ row \in [Deliveries -> RowType] BY <1>1 DEF IInv, Types
    <3>3. row'[d] = row[d] \/ row'[d] = [row[d] EXCEPT !.due = FALSE] BY <1>1, <3>1, <3>2
    <3> QED BY <1>2, <3>2, <3>3 DEF RowType
  <2>3. CASE recordAttempt(s) BY <2>3, SendersApart, RecordKeepsSettled
  <2>4. CASE attempt(s) \/ countOutcome(s) \/ autoDisable(s)
    <3>1. row' = row BY <2>4 DEF attempt, countOutcome, autoDisable
    <3> QED BY <1>2, <3>1
  <2> QED BY <2>1, <2>2, <2>3, <2>4 DEF StaffStep
<1>6. CASE \E s \in Staff, x \in Deliveries : createPingDelivery(s, x) \/ redeliver(s, x)
  <2>1. PICK s \in Staff, x \in Deliveries : createPingDelivery(s, x) \/ redeliver(s, x) BY <1>6
  <2>2. CASE createPingDelivery(s, x)
    <3>1. row[x].status = "none" /\ row' = [row EXCEPT ![x] = NewRow] BY <2>2 DEF createPingDelivery
    <3> QED BY <1>1, <3>1 DEF SettledRow, IInv, Types
  <2>3. CASE redeliver(s, x)
    <3>1. /\ row' = [row EXCEPT ![x] = [row[x] EXCEPT !.status = "pending", !.attempts = 0, !.due = TRUE]]
          /\ x \in redelivered'
      BY <2>3 DEF redeliver
    <3>2. d # x => row'[d] = row[d] BY <1>1, <3>1 DEF IInv, Types
    <3> QED BY <1>2, <3>1, <3>2 DEF SettledRow
  <2> QED BY <2>1, <2>2, <2>3
<1>7. CASE switchOff \/ failsForLong \/ crash
  <2>1. row' = row BY <1>7 DEF switchOff, failsForLong, crash
  <2> QED BY <1>2, <2>1
<1>8. CASE switchOn
  <2>1. row' = Released(Deliveries, TRUE) BY <1>8 DEF switchOn
  <2>2. Rescheduled BY <2>1, ReleasedRows
  <2> QED BY <1>1, <1>2, <2>2 DEF Rescheduled
<1>9. CASE deleteWebhook
  <2>1. row'[d] = row[d] \/ row'[d] = [NoRow EXCEPT !.status = "deleted"]
    BY <1>1, <1>9 DEF deleteWebhook
  <2> QED BY <1>2, <2>1, Constants DEF SettledRow
<1>10. CASE webhookHousekeeping
  <2>1. row[d].status \in {"succeeded", "failed"} =>
          row'[d] = row[d] \/ row'[d] = [NoRow EXCEPT !.status = "deleted"]
    BY <1>1, <1>10 DEF webhookHousekeeping, Pending
  <2> QED BY <2>1, Constants DEF SettledRow
<1>11. CASE \E x \in Deliveries : becomesDue(x) \/ ages(x)
  <2>1. PICK x \in Deliveries : becomesDue(x) \/ ages(x) BY <1>11
  <2>2. row \in [Deliveries -> RowType] /\ row[d] \in RowType BY <1>1 DEF IInv, Types
  <2>3. CASE becomesDue(x)
    <3>1. row' = [row EXCEPT ![x] = [row[x] EXCEPT !.due = TRUE]] BY <2>3 DEF becomesDue
    <3>2. row'[d] = row[d] \/ row'[d] = [row[d] EXCEPT !.due = TRUE] BY <1>1, <2>2, <3>1
    <3> QED BY <1>2, <2>2, <3>2 DEF RowType
  <2>4. CASE ages(x)
    <3> DEFINE a(r) == IF r.age = "new" THEN "expired" ELSE "ancient"
    <3>1. row' = [row EXCEPT ![x] = [row[x] EXCEPT !.age = a(row[x])]] BY <2>4 DEF ages
    <3> HIDE DEF a
    <3>2. row'[d] = row[d] \/ row'[d] = [row[d] EXCEPT !.age = a(row[d])] BY <1>1, <2>2, <3>1
    <3> QED BY <1>2, <2>2, <3>2 DEF RowType
  <2> QED BY <2>1, <2>3, <2>4
<1> QED BY <1>3, <1>4, <1>5, <1>6, <1>7, <1>8, <1>9, <1>10, <1>11 DEF Next

(* A delivery nobody redelivers stays succeeded or failed: no late record  *)
(* of the job or of a staff request, no release of a batch and no          *)
(* switch-on makes it pending again (recordAttempt, PATCH /webhooks/:id).   *)
THEOREM SettledForGood == Spec => SettledStays
<1>1. IInv /\ [Next]_vars => [\A d \in Notifications : SettledRow(d)]_vars
  BY NextKeepsSettled
<1>2. Init /\ [][Next]_vars => [][\A d \in Notifications : SettledRow(d)]_vars
  BY InitInv, NextInv, <1>1, PTL
<1> QED BY <1>2 DEF Spec, SettledStays, SettledRow
=============================================================================
