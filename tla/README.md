# SmartProctoring: a TLA+ model

SmartProctoring is a server (Fastify, Postgres) with two web apps. A candidate takes an exam in the candidate app
while the server keeps the exam's clock, verifies the candidate's identity and records what was observed; staff
follow, hold, release and review sessions in the admin app. This directory models the parts that several actors
change at once: the **exam session** (the row of `exam_sessions` that browsers, staff, jobs and the identity service
all write), the way of **answers, events and images** from the candidate's page to the server, the **evidence store**
with its deletions and moves, the **identity samples** taken during the exam, the **webhooks**, the **idempotency keys** and the **vision worker pool**.

Paths below are relative to the repository; `services/` is `apps/server/src/services/`.

## 1. Inventory

| Part | State | Operations | Talks to |
| --- | --- | --- | --- |
| Session state machine (`services/session-state.ts`, `packages/shared/src/session.ts`) | status, clock (`durationMs`, `usedMs`, `runningSince`), hold fields, active / verified browser, open period, open outage | start, pause, hold, end, record a reporting timeout | called by all below, under the row lock (`withSession`) |
| Candidate actions (`candidate-actions.ts`) | - | consent, start, submit, pause requests, answers, heartbeat (fast and locked path) | session state |
| Checks (`checks.ts`) | `checks` rows, attempts, identity reference | start, frames, complete (prepare without the lock, apply under it), settle abandoned ones | session state, vision, recovery |
| Staff actions (`session-actions.ts`) | pause requests | decide pauses, hold, release, terminate, submit, extend | session state |
| Recovery (`recovery.ts`) | `reconnectCount` | reconnection and offline limits, reopening | session state, checks, sweeper |
| Jobs (`jobs/sweeper.ts`, `abandonment.ts`, `jobs/runner.ts`) | - | heartbeat timeouts, clock expiry, stale checks, stale bursts, offline limits; closing abandoned sessions | session state |
| Concurrent use (`instance-usage.ts`) | networks, browser and sequence numbers seen | withdraw the verification | heartbeat, every candidate request |
| Identity samples (`identity-samples.ts`, `identity-evidence.ts`) | evidence accumulator, bursts | judge a sample, decide bursts, hold on a confirmed mismatch | vision, session state |
| Candidate outbox (`apps/web/src/candidate/outbox.ts`) and ingest (`ingest.ts`, answers) | IndexedDB stores; events, answers | put, flush, park, resume; upsert by version | each other, over a lossy network |
| Webhooks (`webhooks.ts`) | deliveries with lease and attempts | enqueue, claim, send, record, disable | external endpoints |
| Idempotent API (`idempotency.ts`) | key rows | take, replay, release, purge | integration clients |
| Evidence, retention, privacy (`evidence.ts`, `retention.ts`, `privacy-*.ts`) | files, purge marks, legal holds | store, purge, export, withdraw | session state |
| Vision pool (`vision/pool.ts`, `vision-worker/`) | two queues, workers | submit, dispatch, restart | checks, samples |
| Exam versions, grading (`exam-versions.ts`, `regrade.ts`) | immutable versions, scores | pin, grade, regrade | start, end |
| Staff sign-in, SCIM, quotas, live updates, reports, admin app | - | - | - |

**What is hard here.** A session has several writers that know nothing of each other: two browsers (a reload keeps
the old one alive for a while), staff, a sweeper in any server instance, and jobs. One transaction is atomic, but
several handlers read before they lock (`completeCheck` compares faces without the lock), use more than one
transaction (`startCheck`), or decide on a row loaded earlier (`fastHeartbeat`). Silence is noticed late - by the
sweeper or by the next heartbeat - and the clock is then stopped in the past. The clock, the period and the hold are
kept consistent by convention: each of a dozen handlers must stop, close and open the right ones.

**What makes it correct.** The clock runs only in an exam; exam time is neither lost nor given away; the open period
says what was observed; nobody is asked for a check they have no attempt for; the identity reference is replaced only
by staff's current decision; ended means ended; an exam without a browser ends all the same. `PROJECT.json` lists the
hazards behind these, each at its line with the properties that watch it.

## 2. Modules

| Modules | Part of the system |
| --- | --- |
| `SessionControl`, `SessionControl_proofs` | the control state of a session, untimed |
| `Lifecycle`, `SessionLifecycle` | the abstract life of a session; SessionControl as an implementation of it, proved in `SessionControl_proofs` |
| `SessionClock`, `SessionClock_proofs` | exam clock, connection and sweeper of a session, with time |
| `Idempotency`, `Idempotency_proofs` | one `Idempotency-Key` of the integration API |
| `AnswerDelivery`, `CandidateOutbox_proofs` | answers: page, IndexedDB record, delivery, parking, restoring, server row |
| `Outbox`, `CandidateOutbox_proofs` | events and screenshots: the outbox's single-flight delivery, timers and back-off, and ingest |
| `Webhooks`, `Webhooks_proofs` | the deliveries of a webhook, the job that sends them, staff |
| `EvidenceStore`, `EvidenceStore_proofs` | images as rows and objects: upload, purge, legal hold, erasure, re-encryption, moves |
| `VisionPool`, `VisionPool_proofs` | the pool of vision workers |
| `IdentitySamples`, `IdentitySamples_proofs` | samples and bursts of an exam, their evidence, events, second opinion and hold |
| `MC*` | rule sets, bounds and symmetry for TLC |

The two session models divide one row between them. SessionControl has every handler, browsers as individuals, checks
and attempts, and lets whatever depends on elapsed time happen at any moment. SessionClock has the arithmetic of time
and leaves open who asks and what a check decides. AnswerDelivery and Outbox divide the candidate's outbox between its
kinds of item: answers have one record per question and are parked in pauses, events have versions and screenshots
wait for their event. Each of them composes the page, its database, the network and the server's handler; the lanes share
no variable, and one proof module extends both, which is why Outbox's general names carry a prefix (`OutboxInit`, ...).

### SessionControl

| State | Code |
| --- | --- |
| `policy` | the session's effective rules (`effectivePolicy`), reduced to the choices that steer control |
| `session` | the row: status, hold fields, `active`/`verified` instance, `running` for `runningSince != null`, `period` for the kind of the open `session_periods` row, `reference` numbering the active identity reference, counters; `failed` is what `failedAttempts` counts, in halves (a quality-only failure weighs 0.5) |
| `checks` | rows of `checks` with status `open`; `counted` = issued after `checkAttemptsResetAt`; `prepared` = result of the lock-free part of `/complete` |
| `requests` | how far each browser's `POST /checks` is: before the limits, before settling the replaced check, before opening its own |
| `granted`, `recovered` | history: staff's standing authorisation to re-enrol; an exam that never started was reopened |

A transaction is an action. `BeginStartCheck`, `EnforceReconnectLimits`, `SettleReplacedCheck` and `OpenCheck` are the
transactions of `startCheck`; `PrepareCheck` and `CompleteCheck` the two halves of `completeCheck`. Handlers that
transform the row are operators from row to row (`HoldNow`, `FinalizeSession`, `PauseNow`, `ContinueAfterPass`, ...)
and are composed as the code composes them. Verdicts of the face comparison are nondeterministic: `ApplyInitial`,
`ApplyContinuation` and `SettleAbandoned` give the set of rows that can result.

Abstractions: the rules do not change (the code re-reads them until the start takes a snapshot); hold reasons that
nothing distinguishes are one, `review`; refused requests, which change nothing, are not steps; scores are present or
absent; commands to the browser, timeline events and audit entries are left out.

### Lifecycle

What a session promises, without browsers, checks, requests or rules: its phase, whether its clock runs, and while it
is held the phase that comes back. `SessionLifecycle` reads these off the row: `phase` is the status, `back` is
`holdPreviousStatus` during a hold (and nothing outside one), `final` that the candidate submitted or withdrew.
`reopened` is there for the one way the code takes that the life of a session should not have: after a reopening
before the start, a release may lead into the exam (section 4, `ActiveMeansStarted`). Without a reopening
the abstract specification forbids it.

### SessionClock

Time passes in ticks (`Tick`). Times are kept as ages: `segment` (since `runningSince`), `silence` (since
`lastHeartbeatAt`), `activeFor` (since the open active period began). `silence` and `activeFor` stop at `AgeCap`,
beyond which no comparison of the code can tell them apart, so behaviours never end and liveness can be checked.

`outage` is `reportingEventId != null`; `lost` says that an earlier `reporting_interrupted` event was left open.
`control` is what matters of the browsers: the reporting one is in control, another one has started a check
(`replaced`), or the verified one lost its verification (`lost`). `sweep` is a pass of the sweeper between its steps
and `lag` the age of the time its queries compare with. `request` is a `POST /checks` between the transaction that
enforces the limits and the one that opens the check (one at a time).

`HeartbeatRow` is the whole handler: the fast path where `FastApplies`, else `FullHeartbeat` = record the unnoticed
silence and apply the offline limit (`LateHeartbeat`), note the heartbeat (`Seen`), concurrent use, close the outage
and restart the clock (`Back`), expire (`Expire`) - in that order. The module begins when the session is ready; a
session reopened before its start leaves it, so `ReopenSession` covers started exams. The sweeper's steps 3 and 4
(stale checks, bursts) touch neither clock nor connection except through holds, which may happen at any time.

### Idempotency

The row of a key is named after the request that inserted it (a request inserts at most one), so `row` says whose row
exists, `stored` whether it holds a response, and hash and `createdAt` are that request's `body` and `age`. The age
counts from the `now` the guard reads before it inserts: a repeat compares the row with a time that is already old
(`AgeSeen`). Insert, lookup and delete are separate statements and separate actions; `Apply` is the endpoint's
transaction. `Faults` names what may go wrong: a request `overrun`s the timeout, the server is `interrupted`, the
response cannot be stored (`store_error`), the endpoint fails after its commit (`late_failure`); `faulty` remembers the
requests it happened to, and `applied` is history.
Left out: requests without or with a malformed key (they touch no row), encryption, and clocks that differ between
instances.

### AnswerDelivery

| State | Code |
| --- | --- |
| `server` | the answers table: `clientSeq` and value of the newest row (`saveAnswer`) |
| `rec`, `box` | the outbox's record per question in IndexedDB (`seq`, value, pending, parked) and its in-memory index |
| `shown`, `dirty`, `writes` | `AnswerStore`: values on screen, edits not yet handed over, saves in order |
| `pass`, `net` | the delivery pass with its snapshot and open request; requests that may still arrive |
| `page`, `dto`, `restore` | the load number (client instance), what the page knows of the session, a state not applied yet, a restore in progress |
| `status`, `control` | what the session means to answers: active, paused, ended; the page in control |

A value is the ordinal of the edit that typed it, which is also its `answeredAt`, so "newer" needs no clock. Requests
and replies can be lost, a request can arrive after its page was closed, a reload loses memory and keeps IndexedDB.
`seq` counts as the code does: from the highest number the page has seen. `PutRecord`, `settleAnswer`, `parkAnswer`,
`rememberDeliveredAnswer` are the IndexedDB updates; `RestoreQuestion` is one turn of `restore`'s loop.

### Outbox

`events` and `images` are the IndexedDB stores, `index` is `pendingIndex`, `stored`/`received` the server. `inflight`
is the one flush in flight with the phase it awaits in (reading events, sending, removing one by one, reading images,
uploading); `timer`, `backoff`, `rerun`, `awaiting` are the worker. A step is what runs between two awaits.
`removeEventIfVersion` reads and deletes in two IndexedDB transactions, so it is two steps (`RemovalReads`,
`RemovalDeletes`); `overtaken` records events whose newer version came between them. A screenshot is picked and checked
(`NextImage`) before its upload ends (`ImageUploaded`, `ImageRefused`): new versions and screenshots, drops and a reload
come between. The server refuses `RefusedShots` for good. What it makes of an event is its `Fate`: accepted, rejected in the result, or invalid (the whole request is refused, and the batch is retried
one by one). Time is order only: an armed timer fires some time.

### Webhooks

| State | Code |
| --- | --- |
| `row` | `webhook_deliveries`: status, attempts, `due` for `next_attempt_at <= now`, age (72 hours, 30 days) |
| `hook` | `webhooks`: active, reason it was switched off, `failure_count`, `failing_since` as no / recent / long |
| `job` | the run of the job: its claimed batch, sorted, and the copy of the webhook it read once |
| `att` | per sender (the job, staff requests) the attempt: send, record, count, switch off |
| `accepted`, `redelivered`, `crashes` | history |

Every database statement is a step: `claimDue` (the lease is `due := FALSE`), `readHook`, `attempt` (the request and
its answer), `recordAttempt`, `countOutcome`, `autoDisable`, `postpone`. The job runner's advisory lock makes the job
one process; `deliverNow` of a test or a redelivery claims by id and runs beside it. A crash ends all senders at once.

### EvidenceStore

`row` is the evidence table (state, where the object is, the key it is encrypted with), `blob` the stores by place and
key, `up` the step of an upload, `txn` the purge transaction of retention or withdrawal with its uncommitted
tombstones, `work` the loop of `purgeEvidenceRows` of each of its callers, `erase` the steps of `eraseCandidate`,
`tool` the row that `rekey` or `storage:move` works on. The `FOR UPDATE` lock on the session is `txn.by`; a tombstone
not committed yet locks its row. One storage call, statement, transaction or tool may fail or be killed (`MaxFaults`):
each delete of `purgeEvidenceRows` (`DeleteBlobFails` before the tombstone, `DeleteBlobAgainFails` after it), the insert
of an upload, its outcome known or not (`InsertFails`, `InsertUnknown`, `UploadCutShort`), the delete of its object
(`discardFailedInsert`), the purge transaction, any step of a tool (`ToolFails`; `CopyUnverified` where the move undoes
its copy). `Crews` selects who takes part in a behaviour, which keeps instances small without leaving out an
interleaving of those who do.

Two variables record what failures left, for the properties that have to except it. `stray` holds the objects, by item
and place, that no code comes back to: `deleteQuietly` failed after the tombstone (the failure is logged, and a
tombstoned row is never listed again), or a tool failed or was killed before it could delete its copy. `skipped` holds
the items left to a later purge: the delete before the tombstone failed, or an upload was cut short between its insert
and its second look at the session; once the session is marked purged no purge comes. Left out: duplicate uploads of one
image and the purge of trial data.

### VisionPool

The pool lives on the main thread: every event (submit, abort, a worker's message or exit, the respawn timer, close)
is one action with the `pump()` that ends its handler. `queues` are the two queues, `slot` the workers, `last` is
`lastWasOverdue`; `overdue` marks background work older than `backgroundMaxWaitMs`. `settled` counts how often the
promise of a task was settled, `passed` the interactive tasks begun while a background task was overdue.

### IdentitySamples

Samples are numbered in the order they are taken (`Take`, which is also their `capturedAt`); a burst has several frames,
`got` says which have arrived (`identity_sample_frames`), `embeddings` whose face template is kept. `pending` is
`pendingBursts`, `id` the rest of `identityState`: the accumulator (`window`, `state`, `clears`, `unusable`), the feed
check (`last`, `streak`), the second opinion (`asked`, `veto`) and the server's open events. `asks` are the calls of
`resolveSwapSecondOpinion` outside the lock: `ReadForOpinion` reads the session and asks, `ApplyOpinion` is the
transaction afterwards, `OpinionLost` a stop in between. `decided` and `alarm` are history.

`ApplyEvidence` composes the handler as the code does: close the no-samples event, feed check, `Accumulate`, unusable
images, the gate, the event, the hold, poor light. LLRs are in quarters, so that the weight 1.25 stays whole; a sample's
`look` is anything `Looks` offers, within the clamp. Whether a sample is late (`lateSample`) is open while the exam runs:
one of this period may have been long under way, one of an earlier period may be within the seconds clocks may differ by,
as periods can be that short. A burst may run out of time at
any moment, in any order: more than the code allows. Left out: how images become a similarity, which images are kept,
the sampling cadence, samples leaving the window by age, switched-off feed checks, the counters kept for reports, and
the later erasure of frames without a burst, which finds nothing where `TemplatesOnlyWhilePending` holds.

## 3. Runs

| Run | Question | States |
| --- | --- | --- |
| `control` | two browsers, staff, sweeper and jobs on one session, three rule sets: all control properties, and Lifecycle implemented | 1.6 M |
| `clock_safety` | heartbeats, outages, extensions, holds and a slow sweeper on a short exam, four rule sets | 1.3 M |
| `clock_liveness` | clocks run out, silences are recorded, the offline limit is enforced | 0.15 M |
| `idempotency` | three requests with one key and every fault | 2.2 M |
| `answers` | two devices, lost and late requests, reloads, a pause, the end | 2.7 M |
| `outbox` | events in versions, one invalid, screenshots over the limit, one of them refused, an outage, a reload, a takeover | 0.9 M |
| `webhooks` | two notifications and a test, crashes, redelivery, switching, deletion, ageing | 1.3 M |
| `evidence` | uploads, retention, withdrawal, erasure, both tools, holds, reopening, one fault | 1.1 M |
| `vision_pool` | three interactive and two background analyses on two workers that crash | 39 k |
| `identity` | two bursts and a single sample of any look, pauses, holds, a reconnection, the end, a second opinion | 0.6 M |
| `outbox_stall` (violation) | after an outage everything queued is delivered | |
| `erasure_incomplete` (violation) | after an erasure no image of the candidate is left | |

What they check; every property has a mutant in `PROJECT.json`, a plausible slip in one definition that breaks it.

* `control`: `TypeOK`; `PeriodMatchesStatus` and `ClockRunsOnlyInExam`, the open period and the clock are those the
  status calls for; `AttemptLeftWhenRequired`, nobody is asked for a check without an attempt left;
  `CandidateEndingsFinal`; `ReferenceReplacedOnlyOnGrant`, a new identity reference only at check-in or on staff's
  current decision; `LifecycleKept`, the refinement of Lifecycle.
* `clock_*`: `StoppedOnlyByOutage`; `ExamTimeKept`, used time changes only by running or by the refund of an outage, at
  most the silence; `FastPathAgrees`, the fast heartbeat writes the row the locked one would; `LateHeartbeatAgrees`,
  late heartbeat and sweeper commute; `ClockRunsOut`, `SilenceNoticed`, `OfflineLimitEnforced`.
* `idempotency`: `AppliedOnce`, of the requests with which nothing goes wrong one is applied in a lifetime, whatever
  happens to the others; `ReplayIsGenuine`; `NewerRowKept`.
* `answers`: `SettledMeansSaved`, what the device counts as delivered is on the server (or newer is) or was reported
  as not saved; `NewestKeptOnOneDevice`, no late request, resend or restore puts an older answer of the same device
  over a newer one.
* `outbox`: `NewestVersionKept`, nothing is lost silently; `WorkIsScheduled`, no lost wake-up;
  `HealthyRunsEmpty`, a healthy outbox in control runs empty, with an invalid event in its batch too.
* `webhooks`: `AcceptedOnce`, one 2xx and one more per crash; `GivenUpForCause`; `SettledStays`; `QueueDrains`.
* `evidence`: `LiveRowHasImage`, `KeyIdTrue`, `TombstoneMeansGone`, `NoRecordingAfterPurge`, `HoldKeepsImages` (a legal
  hold set before the purge has the lock keeps what is stored; the erasure, which reads the hold once and without a
  lock, is excluded), `RetentionCompletes`. `TombstoneMeansGone` is about each item and place, and excepts what `stray`
  names: the place where the delete after the tombstone failed, or where a tool left its copy.
* `vision_pool`: `EachTaskOnce`, `NoIdleWorker`, `OverdueIsNext`, `EverySubmissionSettles`.
* `identity`: `BurstCountsOnce`, a sample is decided once; `TemplatesOnlyWhilePending`, face templates go with the burst
  they belong to, whoever ends it; `ConfirmedIsActedOn`, evidence is never left confirmed in a running exam with nobody
  told; `AlarmFounded`, an alarm rests on two samples and on one in fair or good light.

**Bounds.** Control: two browsers (a third adds no new relation to `active`/`verified`; they are symmetric), one
attempt, one reconnection, one pause, two references: each limit is reached and exceeded by one. Rules: `Automatic`
has the outcomes of every setting of `onMismatch` and `idPhotoRequired` (the other settings only remove outcomes); the
two staff rule sets turn approval, the limit's consequence and the timers. Automatic verification together with an
ending limit or running timers is not an instance of its own; the theorems of section 5 cover all rules.
Clock: an exam of 2 ticks, extended by 2 once in the safety run, timeout 1, offline limit 2, sweeper lag 1: a silence
can be unnoticed, noticed, past the limit, each before and after the time has run out. `MaxTotal`, `MaxLag`,
`MaxReferences` bound the state; they stand in guards and nowhere else.
Idempotency: three requests are a slow owner, its successor and a repeat that meets both. Each other request costs the
guard at most one attempt, so its three are never exhausted here; the proofs cover that case. Ticks: timeout 2, lifetime
4, an attempt up to 1.
Answers: two devices, one question (questions do not interact), two edits, three page loads, one pause: a device can be
taken over and come back with an old record. Outbox: two events in two versions, two screenshots with room for one and the second refused, one
outage, one reload. Webhooks: two notifications and a test in batches of two, two attempts, switch-off after two
failures, any two of crash, staff action and ageing step. Evidence: one screenshot and one recording, three crews
(an image under both tools; one under a move and the erasure; two uploads), one fault. Vision pool: queues of two, two
crashes or failed starts. Identity: three samples in bursts of two frames, one of them single and one at a
discontinuity, a window of two in place of eight (a third sample pushes one out), two active periods, five looks: no
face, a clear match, weak and strong evidence in good light, strong evidence in poor light.

**Deadlock.** SessionClock and Idempotency never stop: time passes. In the others the check is off because the system may
come to rest for good: a submitted session, an outbox that ran empty, all deliveries settled, an erased candidate, an
ended exam.

**Fairness.** SessionClock: weak fairness of time and of the sweeper's three steps (`JobRunner` runs the sweeper on an
interval in every instance under an advisory lock that some instance obtains; a failing session is logged and does not
stop the pass). Browsers and staff promise nothing. `ClockRunsOut` is stated for disconnect rule `continue`: under
`stop` a candidate who falls silent again and again is given that time back. Outbox: armed timers fire, a request ends
(it has a timeout), an outage passes. Webhooks: the job's timer and awaits, a staff request runs to its end, a lease or
back-off runs out. EvidenceStore: only the hourly retention job and a purge that has begun; uploads, tools and the
erasure may stop anywhere. VisionPool: a worker answers, crashes or starts, its respawn timer fires.

## 4. Where code and documentation differ

The two violation runs:

* `outbox_stall` / `DeliveredAfterOutage`: a pass of the worker fails (`backoffMs > 0`); `flushNow` delivers everything
  without resetting it; the timer fires, `runWorker` finds no work and returns without arming the timer; from then on
  `kick()` does nothing until an `online` event or another `flushNow`. `candidate/outbox.ts:908`: "while failing, wait
  for the backoff timer (or 'online')".
* `erasure_incomplete` / `ErasureComplete`: an upload whose row is inserted after the erasure's second list loses its
  row with the candidate, and its object stays. `privacy-requests.ts:357`: "Delete a candidate and everything recorded
  about them".

The following are formulas of the modules that no run lists; each fails when it is added to the cfg named, and is
described here because it marks the limit of a property that does hold.

| Formula | cfg | What happens |
| --- | --- | --- |
| `ActiveMeansStarted` | `Control` | a session that checked in, ended unstarted and was reopened, then held and released with a check, becomes active when the check is passed, without `startExam`; `recovery.ts:143` says "every active session has" a policy snapshot |
| `ReconnectLimitHolds` | `Control` | the limit is enforced in a transaction of its own; browsers that pass it together all reconnect; ARCHITECTURE.md:170: "when the count has reached the limit the next reconnect check is not started" |
| `OfflineStopsClock` | `ClockSafety` | an exam started or released while recorded as offline runs its clock under rule `stop`, since the sweeper only looks at sessions that are online; ARCHITECTURE.md:107 |
| `OutageEndsOnReturn` | `ClockSafety` | a second outage overwrites `reportingEventId`; the first event stays open until the end; ARCHITECTURE.md:414 "closed on return" |
| `WhicheverComesFirst` | `ClockSafety` | past both limit and time, a late heartbeat holds the exam that the sweeper would have submitted; ARCHITECTURE.md:418 "meets the same resume rules whichever comes first" |
| `AppliedOnceAtAll` | `Idempotency` | a request slower than the in-progress timeout and its repeat are both applied; INTEGRATION_API.md:120 "can never apply the request twice" |
| `NewestKept` | `Answers` | of two devices the one with the higher `clientSeq` wins, not the one typed on last; `answers.ts:7-9` |
| `NewerVersionStays` | `Outbox` | a version queued between the read and the delete of `removeEventIfVersion` is deleted unsent; `outbox.ts:823` |
| `NeverSentTwiceAtOnce` | `Webhooks` | `deliverNow` claims by id whatever the lease says, so a redelivery and the job can have one delivery in flight together; comment on `deliverNow` |
| `TombstoneAlwaysGone` | `Evidence` | a purge lists an image at home, `storage:move` points its row to the new place, the delete at home succeeds and the tombstone commits; the delete at the new place fails, is logged, and is never tried again, as the row is tombstoned: the object stays. So does the object a re-encryption writes back before the tombstone, if the second delete at home fails; `evidence.ts:270-272` "Delete once more after the tombstone ... A blob moved meanwhile is deleted at its new place too" |
| `LateImagesNotKept` | `Evidence` | a screenshot accepted before the purge and inserted after it stays, if its recheck runs before the purge commits; `ingest.ts:313` "are not kept" |
| `TwoGoodSamples` | `Identity` | one sample in fair or good light confirms together with poor ones, whose evidence is capped and not excluded; `identity-evidence.ts:38` "at least two fair / good samples are always needed" |
| `MismatchCanClose` | `Identity` | a reconnect check starts the evidence anew and leaves the event open: it now closes only after a new confirmation and two clear samples; `identity-samples.ts:17` |
| `DecisiveNotOverruled` | `Identity`, with `N = 4`, `Singles = {2, 3, 4}`, `MaxPeriods = 1` | the strength of the evidence is read before the question and the window grows until the answer is applied: "same person" about evidence borderline then empties a window decisive now; EXTERNAL_VERIFIER.md:227 "a confirmed SPRT is never overruled" |

Smaller ones that modelling met: staff can submit a held session that never started, although `staffSubmit` says "Only
an exam that has started can be submitted"; the verified browser, asked for a reconnect check because another one
started a check, regains control by starting its own (`requiredCheckFor` compares the last browser to start with the
last to pass); `PUT /sessions/:id/window` reads the session after its commit, and an error there is answered like a
request that changed nothing; `AnswerStore.restore` can show an older value over an edit made while it awaits the
outbox (`answers.ts:77`), which the next edit replaces; the retention job decides by the deadline it read before it had
the lock.

## 5. Proofs

All theorems hold for every value of the constants that satisfies the assumptions named in the modules: any number of
browsers, requests, images, samples or workers, any limits and times, all sets of rules. Every invariant and
action property of the passing runs of section 3 is a theorem, and so is the refinement; only liveness is not. TLC
checked each inductive invariant on the instances of the runs before it was proved.

**`SessionControl_proofs`** - `TypeCorrect` (`TypeOK`), `PeriodAlwaysMatches` (`PeriodMatchesStatus`), `ClockOnlyInExam`
(`ClockRunsOnlyInExam`). The inductive invariant is the conjunction of the three: neither the period nor the clock is
preserved without the type (what a hold returns to decides which period opens), and a withdrawal or a pause is in order
only because the clock and the period were. Rows are shown to stay *in order* operator by operator (`HoldNow`,
`FinalizeSession`, `ContinueAfterPass`, ...), then action by action.
`AttemptAlwaysLeft` (`AttemptLeftWhenRequired`), `CandidateHasLastWord` (`CandidateEndingsFinal`), `ReferenceByRight`
(`ReferenceReplacedOnlyOnGrant`) and `LifecycleImplemented` (`LifecycleKept`: SessionControl implements Lifecycle) need
what a row remembers of its past, `SInv`: a hold knows what it interrupted, a started exam has been checked in and the
check-in took a reference, a hold that offers a new reference was given it by staff's last decision (`RowSound`); while
a check may be required no kind of it is exhausted (`AttemptsLeft`); and before the check-in only the initial check
counts, whatever else is open (`ChecksSound`). The refinement is proved step by step: each handler's step is a step of
Lifecycle or leaves it alone. It is only there because of `reopened` (section 2, Lifecycle).

**`SessionClock_proofs`** - any length of exam, timeout, limit and lag: `ClockTypeCorrect` (`TypeOK`),
`ClockStandsOnlyInOutage` (`StoppedOnlyByOutage`), `ExamTimeAccounted` (`ExamTimeKept`),
`FastPathExact` (`FastPathAgrees`), `LateHeartbeatExact` (`LateHeartbeatAgrees`). `CInv` says that a row *fits* - a
clock that stands has no segment open, a hold knows what it interrupted, time used never exceeds the exam by more than
the sweeper's lag - and that a standing clock in the exam is *explained* by an outage. Inside a handler a row may be
unexplained for a moment (a hold just released, a check just passed); each transition of the row is therefore a lemma
about rows that fit, and only the actions have to explain. The two agreement theorems are equations between rows that
different code paths write, proved for every row that satisfies `CInv`.

**`Idempotency_proofs`** - all times with `MaxLag < Timeout <= Ttl`, any faults: `KeyTypeCorrect`;
`NewerRowIsKept` (from `RowsHaveAge`: a row in place or about to be removed belongs to a request that has left the guard,
so its age only grows after it was read); `AppliedOnceIfSound` (`AppliedOnce`). For the last the invariant speaks of the
sound requests only: one that runs under the key has its row and is not late, one that was applied less than a lifetime
ago has its response stored in the row in place, and a row of a sound request about to be removed has reached its
lifetime. What faulty requests do to the row cannot disturb this, since they change no row but their own.
`AppliedOnceAtAll` of section 4 shows that the restriction is needed. `ReplaysAreGenuine` (`ReplayIsGenuine`) speaks of
all requests, sound or not: a response is only ever stored by the request that was applied, in a row that is still its
own (`StoredIsApplied`).

**`CandidateOutbox_proofs`**, the answers - any devices, questions, edits, loads and pauses; no order or delivery of
requests is assumed. `DeliveredIsSaved` (`SettledMeansSaved`), `IndexIsExact` (`IndexAgrees`: the index in memory is what IndexedDB
holds) and `SubmitIsComplete` (when `submit()` goes through, everything stored on that device is on the server or was
reported as not saved) follow from `AInv`: every snapshot, open request and late request is a version the device's
record *held* - its number is at most the record's, and with the same number it is the same value - and an "ok" is about
a version the server has reached; what a page was sent is an earlier state of the server's table. Since records and
table only move to higher numbers, whatever was held stays held.
`NewestIsKept` (`NewestKeptOnOneDevice`) needs the order in which things were typed, `Chronology`: of two versions
typed on one device that are *around* anywhere (records, snapshots, requests, the table and copies of it) the one with
the higher number was typed later, unless a restore queued it again; what is still on its way to the outbox was typed
after all of them (`Queue`, `Behind`); and a device has of another's typing only what the server has (`Known`), which is
why a restore never queues another device's answer again. A step keeps the order if every version around after it was
around before or arrives with a new number (`OrderKept`).

**`CandidateOutbox_proofs`**, events and screenshots - any events with any fate, versions, screenshots, room for them,
outages and reloads: `OutboxTypeCorrect`, `NewestVersionIsKept` (`NewestVersionKept`), `ScreenshotsFollowEvents` (what
`outbox.ts:607` says of the order: a screenshot the server has belongs to an event it has, in some version, or refused),
`DropsAreReported` (a screenshot is queued, delivered or reported; only an event the server refuses is dropped, however
it was batched). The invariant is `LaneInv`: a record holds the newest version or none, and what is sent or stored is no
newer (`Versions`); what is being removed is settled, and its record holds nothing newer unless that came after the
removal's read (`Removals`, where `overtaken` comes in); an event with no record was told to the server or refused, in
the window too (`NoneForgotten`), so that a screenshot whose event left the index may be sent (`Shown`); the index is
exact (`IndexExact`). Answers of the server (`ServerLearns`, `NothingLearned`), drops (`ImagesDropped`) and removals are
lemmas; the actions cite them.
`WorkAlwaysScheduled` (`WorkIsScheduled`) is not inductive: a pass that ends arms the timer only if the worker waits for
it, and a pass started by `flushNow` on an armed timer has nobody waiting. `Woken` therefore asks for a timer or a pass
the worker *awaits*; a pass of `flushNow` alone leaves the timer as it was. Only the back-off escapes it, which is the
stall of section 4.

**`Webhooks_proofs`** - any retry budget, batch and number of crashes:
`GivenUpOnlyForCause` (`GivenUpForCause`), `NeverAcceptedTwice` (`AcceptedOnce`), `SettledForGood` (`SettledStays`).
`AcceptedOnce` is not inductive: that a delivery is not sent again depends on where the job is. `IInv` says that the
job's attempt is at the head of its batch and the batch names each delivery once (`JobAtHead`, `Distinct`), that staff
requests only hold deliveries staff asked for (`AttemptsOwned`), and of every notification nobody redelivers
(`Followed`): while it is pending or listed and not just answered, it was accepted at most once per crash; while listed
and not recorded, its row is pending or deleted; once a 2xx is recorded, it is no longer pending. Steps that leave the
job alone are one lemma (`AsideInv`), the job's moves between attempts another (`JobMovesInv`), the end of an attempt a
third (`JobEndsInv`). A crash pays for what was accepted and not recorded.

**`EvidenceStore_proofs`** - any images, crews and faults: `ImageAlwaysThere` (`LiveRowHasImage`), `KeyIdAlwaysTrue`
(`KeyIdTrue`). The two depend on what a tool may count on between its steps: its row was written (`ToolRow`), a move
finds the row at home until it has pointed it away and the copy it wrote under a key no older than the one it read
(`MoveOrder`), a re-encryption of a moved object stays where the row is (`RekeyOrder`); uploads have no row before their
insert and their object before it (`Uploads`), and purgers delete only what they have touched (`Deleting`, `Tombs`).
`HoldIsKept` (`HoldKeepsImages`) adds `Order`: no purge transaction is open under a hold (`Locks`), each purger works on
what is its own (`EraseWork`, `UploadWork`) and looks away from home only for rows that were moved (`Looking`).
`TombstoneIsFinal` (`TombstoneMeansGone`) is the hardest of the module: an invariant names for every object there is who
answers for it (`Leftovers`) - a live row, an upload before its insert, a tool that will clean its copy up, a purger
that has yet to delete it - or that a failure left it there (`stray`): a tool that failed, or a purger whose delete after
the tombstone did. The theorem thus says that nothing else leaves a copy, and that a failure leaves one only at the place
it happened. `NothingOutlivesPurge` (`NoRecordingAfterPurge`) rests on what the open purge has counted and on the upload
that finds the session purged and undoes itself (`RecordingsGo`).

**`VisionPool_proofs`** - any tasks, workers, queue limit and crashes: `SettledExactlyOnce` (`EachTaskOnce`), `NeverIdle`
(`NoIdleWorker`), `OverdueTakesTurns` (`OverdueIsNext`). Queues and slots hold a set of tasks; every handler is a change
of that set, and `pump()` is a lemma of its own: it moves a task, and one turn per event is enough because an event adds
one task or frees one worker.

**`IdentitySamples_proofs`** - any looks, window and periods: `DecidedOnce` (`BurstCountsOnce`) and
`TemplatesErased` (`TemplatesOnlyWhilePending`) from one invariant: a burst is collected only in a running exam, holds
all templates there are and has a frame; what was decided has a frame and is not collected, so that no later frame
begins it again. `ConfirmedActedOn` (`ConfirmedIsActedOn`) needs that an open event about a different person implies a
running exam and rules that only flag: a hold closes it, and a confirmation while one is open raises no hold.
`AlarmIsFounded` (`AlarmFounded`) is about the sum over the window, of any size: a window that confirms has two entries
against the candidate, because the clamp lets one reach less than the threshold, and one that is not poor, because the
cap does the same for all poor ones together. Sums over sets have no induction here; the lemmas take a smallest set for
which the bound fails and find a smaller one (`SumsUpTo`, `SumWithin`, `CapWorks`).

Only model-checked: liveness under fairness (`ClockRunsOut`, `SilenceNoticed`, `OfflineLimitEnforced`,
`HealthyRunsEmpty`, `QueueDrains`, `RetentionCompletes`, `EverySubmissionSettles`) is out of the prover's reach and stays
with TLC, on the bounds of section 3.

## 6. Plan

Done: the modules above. Next, in this order:

1. **Timeline** (absolute time): closed periods, gaps, `closeGapPeriods`, `closeReportingGapAtEnd`, reopening. The
   documentation says periods partition the timeline; the order of heartbeats, checks and holds decides.
2. The outbox's lane for identity samples and the **recording queue** of the browser.
3. **Exam versions and regrading**, e-mail alerts, the remote vision client.

## 7. Not modelled

Most of the repository's lines hold no protocol: user interface (the admin app and the pages of the candidate app), the
database schema and shared types, validation, DTOs, reports and exports, e-mail templates, configuration, migrations,
seed and evaluation scripts. Vision numerics and the detection engine are floating-point processing of images; their
verdicts are nondeterministic here. Live updates are best effort, and clients reload the state. Sign-in, SCIM, quotas,
capacity and scheduling only refuse or defer requests: in the models a request may always not happen. For this reason
the share of source lines the models stand for is small, although the handlers that change the state of a session, an
answer, an image, a delivery or a key are covered. Parts that are planned are marked so in `PROJECT.json`.
