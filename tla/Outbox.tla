------------------------------- MODULE Outbox -------------------------------
(***************************************************************************)
(* The main lane of the candidate page's outbox (candidate/outbox.ts):     *)
(* events in several versions and screenshots that follow their event, the *)
(* single-flight pass that delivers them, the worker's timer and back-off, *)
(* and the callers that interfere: new items, flushNow, the 'online'       *)
(* event, the candidate's withdrawal (discardImages), a page reload.       *)
(* The server side is ingest.ts.  Answers, the third kind of the lane, are *)
(* the subject of AnswerDelivery.                                          *)
(*                                                                         *)
(* A step is what runs between two awaits that something else can use.     *)
(* Time is only order: an armed timer fires at some point, and replacing   *)
(* it by an earlier one leaves it armed.                                   *)
(***************************************************************************)
EXTENDS Naturals, FiniteSets, FiniteSetsExt

CONSTANTS Events,
          Fate,          \* what the server makes of an event: "accept", "reject" (in its
                         \* result) or "invalid" (the request is refused, 4xx)
          Shots,         \* number of screenshots
          EventOf,       \* the event each screenshot belongs to
          RefusedShots,  \* the screenshots the server refuses for good (4xx)
          MaxShots,      \* screenshots the outbox keeps (maxEvidence)
          MaxVersion,    \* bound: versions of an event
          MaxOutages,    \* bound: network outages
          MaxReloads       \* bound: page reloads

ASSUME OutboxAssumption ==
    /\ IsFiniteSet(Events) /\ Fate \in [Events -> {"accept", "reject", "invalid"}]
    /\ Shots \in Nat /\ EventOf \in [1..Shots -> Events] /\ RefusedShots \subseteq 1..Shots
    /\ MaxShots \in Nat \ {0}
    /\ MaxVersion \in Nat /\ MaxOutages \in Nat /\ MaxReloads \in Nat

VARIABLES
    latest,    \* the newest version of each event the page reported to the outbox
    events,    \* IndexedDB: the queued version per event (0: none)
    images,    \* IndexedDB: the queued screenshots
    shots,     \* screenshots taken so far (numbered in the order they were taken)
    index,     \* pendingIndex: what the page believes is queued
    stored,    \* the server: version per event
    received,  \* the server: screenshots
    dropped,   \* items reported through onDropped
    overtaken, \* history: events whose newer version came between a removal's read and its delete
    gate,      \* canDeliver(): the page knows that it is the verified one
    replaced,  \* the server has another page in control
    fatal,     \* delivery ended for good (the link is invalid or another page took over)
    timer,     \* the worker's timer is armed
    backoff,   \* backoffMs > 0
    inflight,      \* the pass in flight (flush, flushOnce)
    rerun,     \* another pass was asked for meanwhile
    awaiting,  \* a run of the worker waits for the pass
    online,    \* requests reach the server and are answered
    outages, reloads

store == <<latest, events, images, shots, index>>
remote == <<stored, received>>
worker == <<timer, backoff, rerun, awaiting>>
env == <<gate, replaced, online, outages, reloads>>
outboxVars == <<store, remote, dropped, overtaken, worker, fatal, inflight, env>>

\* batch: events to send; left: what an answer leaves to remove, or the screenshots
\* left to upload; cur: the removal between its two awaits, or the screenshot on its way.
NoPass == [phase |-> "none", batch |-> {}, single |-> FALSE, left |-> {}, cur |-> {}, failed |-> FALSE]

OutboxInit ==
    /\ latest = [e \in Events |-> 0] /\ events = [e \in Events |-> 0]
    /\ images = {} /\ shots = 0 /\ index = {}
    /\ stored = [e \in Events |-> 0] /\ received = {}
    /\ dropped = {} /\ overtaken = {}
    /\ gate = TRUE /\ replaced = FALSE /\ fatal = FALSE /\ online = TRUE /\ outages = 0 /\ reloads = 0
    /\ timer = TRUE /\ backoff = FALSE /\ inflight = NoPass /\ rerun = FALSE /\ awaiting = FALSE

(***************************************************************************)
(* Queueing.                                                               *)
(***************************************************************************)

Key(kind, id) == <<kind, id>>
hasMainWork == index # {}

(* Mutant: a running pass is trusted to deliver what is queued meanwhile.  *)
kickIfIdle == timer' = (timer \/ (~backoff /\ ~fatal /\ inflight = NoPass))

\* While healthy the worker is woken; while failing it waits for its timer.
kick == timer' = (timer \/ (~backoff /\ ~fatal))

Removing(e) == inflight.phase = "remove" /\ \E r \in inflight.cur : r.id = e

\* A new version of an event; the queue keeps the highest.
putEvent(e) ==
    /\ latest[e] < MaxVersion
    /\ latest' = [latest EXCEPT ![e] = @ + 1]
    /\ events' = [events EXCEPT ![e] = latest[e] + 1]
    /\ index' = index \union {Key("event", e)}
    /\ overtaken' = IF Removing(e) THEN overtaken \union {e} ELSE overtaken
    /\ kick
    /\ UNCHANGED <<images, shots, remote, dropped, backoff, rerun, awaiting, fatal, inflight, env>>

\* A screenshot of an event reported before.  Over the limit the oldest go.
putEvidence ==
    LET id == shots + 1
        over == {i \in images \union {id} : Cardinality({j \in images \union {id} : j >= i}) > MaxShots}
    IN  /\ shots < Shots /\ latest[EventOf[id]] > 0
        /\ shots' = id
        /\ images' = (images \union {id}) \ over
        /\ index' = (index \union {Key("image", id)}) \ {Key("image", i) : i \in over}
        /\ dropped' = dropped \union {Key("image", i) : i \in over}
        /\ kick
        /\ UNCHANGED <<latest, events, remote, overtaken, backoff, rerun, awaiting, fatal, inflight, env>>

\* The candidate withdrew consent: queued images are deleted, not sent.
discardImages ==
    /\ images # {}
    /\ images' = {}
    /\ index' = index \ {Key("image", i) : i \in images}
    /\ dropped' = dropped \union {Key("image", i) : i \in images}
    /\ kick
    /\ UNCHANGED <<latest, events, shots, remote, overtaken, backoff, rerun, awaiting, fatal, inflight, env>>

(***************************************************************************)
(* The worker.                                                             *)
(***************************************************************************)

\* flush(): joins the pass in flight, asking for one more, or starts one.
flush ==
    IF inflight # NoPass
    THEN rerun' = TRUE /\ UNCHANGED inflight
    ELSE rerun' = FALSE /\ inflight' = [NoPass EXCEPT !.phase = "events"]

\* The timer fires: nothing to do, not allowed yet, or a pass.
runWorker ==
    /\ timer /\ ~fatal
    /\ \/ ~hasMainWork /\ timer' = FALSE /\ UNCHANGED <<rerun, awaiting, inflight>>
       \/ hasMainWork /\ ~gate /\ timer' = TRUE /\ UNCHANGED <<rerun, awaiting, inflight>>
       \/ hasMainWork /\ gate /\ timer' = FALSE /\ awaiting' = TRUE /\ flush
    /\ UNCHANGED <<store, remote, dropped, overtaken, backoff, fatal, env>>

\* flushNow (before a pause, a submit, a withdrawal): a pass at once.
flushNow ==
    /\ index # {} /\ ~fatal /\ gate /\ ~rerun
    /\ flush
    /\ UNCHANGED <<store, remote, dropped, overtaken, timer, backoff, awaiting, fatal, env>>

\* The browser's 'online' event after an outage.
onOnline ==
    /\ online /\ backoff /\ ~fatal
    /\ backoff' = FALSE /\ timer' = TRUE
    /\ UNCHANGED <<store, remote, dropped, overtaken, rerun, awaiting, fatal, inflight, env>>

(***************************************************************************)
(* A pass: events first, then screenshots.  A kind stops at its first      *)
(* transient failure.                                                      *)
(***************************************************************************)

InPhase(p) == inflight.phase = p

\* flushEvents: a snapshot of the queue is sent as one batch.
ReadEvents ==
    /\ InPhase("events")
    /\ LET queued == {[id |-> e, ver |-> events[e]] : e \in {x \in Events : events[x] > 0}}
       IN  inflight' = IF queued = {} THEN [inflight EXCEPT !.phase = "images"]
                   ELSE [inflight EXCEPT !.phase = "send", !.batch = queued]
    /\ UNCHANGED <<store, remote, dropped, overtaken, worker, fatal, env>>

\* What goes out now: the whole batch, or one item after the batch was refused.
Outgoing == IF inflight.single THEN {{r} : r \in inflight.batch} ELSE {inflight.batch}

\* ingestEvents: a version is stored only if it is newer than the stored one.
Ingest(rs) ==
    [e \in Events |-> IF Fate[e] = "accept"
                      THEN Max({stored[e]} \union {r.ver : r \in {x \in rs : x.id = e}})
                      ELSE stored[e]]

\* The server answered the events: each is removed unless a newer version is queued.
EventsAccepted ==
    /\ InPhase("send") /\ online /\ ~replaced
    /\ \E rs \in Outgoing :
          /\ \A r \in rs : Fate[r.id] # "invalid"
          /\ stored' = Ingest(rs)
          /\ dropped' = dropped \union {Key("event", r.id) : r \in {x \in rs : Fate[x.id] = "reject"}}
          /\ inflight' = [inflight EXCEPT !.phase = "remove", !.left = rs, !.batch = @ \ rs]
    /\ UNCHANGED <<store, received, overtaken, worker, fatal, env>>

(* Mutant: an invalid item sent alone is skipped, not dropped.             *)
EventsRefusedKept ==
    /\ InPhase("send") /\ online /\ ~replaced
    /\ \E rs \in Outgoing :
          /\ \E r \in rs : Fate[r.id] = "invalid"
          /\ inflight' = IF ~inflight.single THEN [inflight EXCEPT !.single = TRUE]
                     ELSE [inflight EXCEPT !.batch = @ \ rs,
                                       !.phase = IF inflight.batch = rs THEN "images" ELSE "send"]
    /\ UNCHANGED <<store, remote, dropped, overtaken, worker, fatal, env>>

\* The request is refused (4xx).  A batch is then sent item by item; a single bad
\* item is dropped.
EventsRefused ==
    /\ InPhase("send") /\ online /\ ~replaced
    /\ \E rs \in Outgoing :
          /\ \E r \in rs : Fate[r.id] = "invalid"
          /\ IF inflight.single
             THEN /\ dropped' = dropped \union {Key("event", r.id) : r \in rs}
                  /\ inflight' = [inflight EXCEPT !.phase = "remove", !.left = rs, !.batch = @ \ rs]
             ELSE /\ inflight' = [inflight EXCEPT !.single = TRUE]
                  /\ UNCHANGED dropped
    /\ UNCHANGED <<store, remote, overtaken, worker, fatal, env>>

\* No usable answer; the server may have taken the events or not.
EventsFailed ==
    /\ InPhase("send") /\ ~online
    /\ \E rs \in Outgoing :
          \/ stored' = stored
          \/ ~replaced /\ (\A r \in rs : Fate[r.id] # "invalid") /\ stored' = Ingest(rs)
    /\ inflight' = [NoPass EXCEPT !.phase = "images", !.failed = TRUE]
    /\ UNCHANGED <<store, received, dropped, overtaken, worker, fatal, env>>

\* After the removals of an answer: the rest of the batch, or the screenshots.
AfterRemoval(left) ==
    [inflight EXCEPT !.left = left, !.cur = {},
                 !.phase = IF left # {} THEN "remove" ELSE IF inflight.batch # {} THEN "send" ELSE "images"]

(* Mutant: the version is not compared.                                    *)
RemovalReadsAny ==
    /\ InPhase("remove") /\ inflight.cur = {}
    /\ \E r \in inflight.left : inflight' = [inflight EXCEPT !.cur = {r}]
    /\ UNCHANGED <<store, remote, dropped, overtaken, worker, fatal, env>>

\* removeEventIfVersion, first await: a newer version queued meanwhile stays.
RemovalReads ==
    /\ InPhase("remove") /\ inflight.cur = {}
    /\ \E r \in inflight.left :
          inflight' = IF events[r.id] > r.ver THEN AfterRemoval(inflight.left \ {r})
                  ELSE [inflight EXCEPT !.cur = {r}]
    /\ UNCHANGED <<store, remote, dropped, overtaken, worker, fatal, env>>

\* removeEventIfVersion, second await: the record is deleted, whatever it holds now.
RemovalDeletes ==
    /\ InPhase("remove")
    /\ \E r \in inflight.cur :
          /\ events' = [events EXCEPT ![r.id] = 0]
          /\ index' = index \ {Key("event", r.id)}
          /\ inflight' = AfterRemoval(inflight.left \ {r})
    /\ UNCHANGED <<latest, images, shots, remote, dropped, overtaken, worker, fatal, env>>

\* flushEvidence: the snapshot; a screenshot whose event is still queued waits.
ReadImages ==
    /\ InPhase("images")
    /\ inflight' = [inflight EXCEPT !.phase = "upload", !.left = images]
    /\ UNCHANGED <<store, remote, dropped, overtaken, worker, fatal, env>>

Waits(i) == Key("event", EventOf[i]) \in index

\* The next screenshot, oldest first: left for later, gone meanwhile, or uploaded.
NextImage ==
    LET i == Min(inflight.left)
    IN  /\ InPhase("upload") /\ inflight.cur = {} /\ inflight.left # {}
        /\ inflight' = IF Waits(i) \/ i \notin images
                       THEN [inflight EXCEPT !.left = @ \ {i}]
                       ELSE [inflight EXCEPT !.left = @ \ {i}, !.cur = {i}]
        /\ UNCHANGED <<store, remote, dropped, overtaken, worker, fatal, env>>

\* The server has the screenshot, and it is removed: it may have been dropped meanwhile.
ImageUploaded ==
    /\ InPhase("upload") /\ inflight.cur # {} /\ online /\ ~replaced
    /\ inflight.cur \cap RefusedShots = {}
    /\ received' = received \union inflight.cur
    /\ images' = images \ inflight.cur
    /\ index' = index \ {Key("image", i) : i \in inflight.cur}
    /\ inflight' = [inflight EXCEPT !.cur = {}]
    /\ UNCHANGED <<latest, events, shots, stored, dropped, overtaken, worker, fatal, env>>

\* The server refuses the screenshot for good: it is removed and reported, and the
\* pass goes on with the next one.
ImageRefused ==
    /\ InPhase("upload") /\ inflight.cur # {} /\ online /\ ~replaced
    /\ inflight.cur \subseteq RefusedShots
    /\ images' = images \ inflight.cur
    /\ index' = index \ {Key("image", i) : i \in inflight.cur}
    /\ dropped' = dropped \union {Key("image", i) : i \in inflight.cur}
    /\ inflight' = [inflight EXCEPT !.cur = {}]
    /\ UNCHANGED <<latest, events, shots, remote, overtaken, worker, fatal, env>>

\* No usable answer; the server may have taken the screenshot or not.
UploadFailed ==
    /\ InPhase("upload") /\ inflight.cur # {} /\ ~online
    /\ received' \in {received} \union (IF replaced THEN {} ELSE {received \union (inflight.cur \ RefusedShots)})
    /\ inflight' = [inflight EXCEPT !.left = {}, !.cur = {}, !.failed = TRUE]
    /\ UNCHANGED <<store, stored, dropped, overtaken, worker, fatal, env>>

\* The pass is over: another one if asked for and there is work, else whoever
\* waits for it goes on: the worker resets or starts its back-off.
PassOver ==
    /\ InPhase("upload") /\ inflight.left = {} /\ inflight.cur = {}
    /\ IF ~inflight.failed /\ rerun /\ hasMainWork
       THEN /\ rerun' = FALSE /\ inflight' = [NoPass EXCEPT !.phase = "events"]
            /\ UNCHANGED <<timer, backoff, awaiting>>
       ELSE /\ inflight' = NoPass /\ awaiting' = FALSE
            /\ backoff' = IF awaiting THEN inflight.failed ELSE backoff
            /\ timer' = (timer \/ (awaiting /\ (inflight.failed \/ hasMainWork)))
            /\ UNCHANGED rerun
    /\ UNCHANGED <<store, remote, dropped, overtaken, fatal, env>>

\* The server says another page is in control, or the link is invalid: setFatal.
Refused ==
    /\ online /\ replaced
    /\ InPhase("send") \/ (InPhase("upload") /\ inflight.cur # {})
    /\ fatal' = TRUE /\ inflight' = NoPass
    /\ timer' = FALSE /\ awaiting' = FALSE
    /\ UNCHANGED <<store, remote, dropped, overtaken, backoff, rerun, env>>

(***************************************************************************)
(* The environment.                                                        *)
(***************************************************************************)

NetworkFails ==
    /\ online /\ outages < MaxOutages
    /\ online' = FALSE /\ outages' = outages + 1
    /\ UNCHANGED <<store, remote, dropped, overtaken, worker, fatal, inflight, gate, replaced, reloads>>

NetworkReturns ==
    /\ ~online /\ online' = TRUE
    /\ UNCHANGED <<store, remote, dropped, overtaken, worker, fatal, inflight, gate, replaced, outages, reloads>>

\* Another page takes over; this one does not know yet.
LoseControl ==
    /\ gate /\ ~replaced /\ replaced' = TRUE
    /\ UNCHANGED <<store, remote, dropped, overtaken, worker, fatal, inflight, gate, online, outages, reloads>>

\* The page is loaded anew: memory is rebuilt from IndexedDB (loadIndex, start).
Restart ==
    /\ reloads < MaxReloads /\ reloads' = reloads + 1
    /\ index' = {Key("event", e) : e \in {x \in Events : events[x] > 0}} \union {Key("image", i) : i \in images}
    /\ timer' = TRUE /\ backoff' = FALSE /\ rerun' = FALSE /\ awaiting' = FALSE
    /\ inflight' = NoPass /\ fatal' = FALSE /\ gate' = FALSE
    /\ UNCHANGED <<latest, events, images, shots, remote, dropped, overtaken, replaced, online, outages>>

\* A check passes in the new page: it is the one in control.
Verified ==
    /\ ~gate /\ gate' = TRUE /\ replaced' = FALSE
    /\ kick
    /\ UNCHANGED <<store, remote, dropped, overtaken, backoff, rerun, awaiting, fatal, inflight, online, outages, reloads>>

-----------------------------------------------------------------------------

FlushStep ==
    \/ ReadEvents \/ EventsAccepted \/ EventsRefused \/ EventsFailed \/ RemovalReads \/ RemovalDeletes
    \/ ReadImages \/ NextImage \/ ImageUploaded \/ ImageRefused \/ UploadFailed \/ PassOver \/ Refused

OutboxNext ==
    \/ \E e \in Events : putEvent(e)
    \/ putEvidence \/ discardImages \/ runWorker \/ flushNow \/ onOnline \/ FlushStep
    \/ NetworkFails \/ NetworkReturns \/ LoseControl \/ Restart \/ Verified

\* Timers fire, requests end and outages pass; nothing else is certain to happen.
Fairness == WF_outboxVars(runWorker) /\ WF_outboxVars(FlushStep) /\ WF_outboxVars(NetworkReturns)

OutboxSpec == OutboxInit /\ [][OutboxNext]_outboxVars /\ Fairness

-----------------------------------------------------------------------------

\* The variables have their types.
OutboxTypeOK ==
    /\ latest \in [Events -> 0..MaxVersion] /\ events \in [Events -> 0..MaxVersion]
    /\ stored \in [Events -> 0..MaxVersion] /\ images \subseteq 1..Shots /\ received \subseteq 1..Shots
    /\ shots \in 0..Shots
    /\ index \subseteq ({"event"} \X Events) \union ({"image"} \X (1..Shots))
    /\ dropped \subseteq ({"event"} \X Events) \union ({"image"} \X (1..Shots))
    /\ overtaken \subseteq Events
    /\ inflight.phase \in {"none", "events", "send", "remove", "images", "upload"}
    /\ gate \in BOOLEAN /\ replaced \in BOOLEAN /\ fatal \in BOOLEAN /\ online \in BOOLEAN
    /\ timer \in BOOLEAN /\ backoff \in BOOLEAN /\ rerun \in BOOLEAN /\ awaiting \in BOOLEAN
    /\ outages \in 0..MaxOutages /\ reloads \in 0..MaxReloads

\* The index the page works from is exactly what is stored on the device.
IndexExact ==
    index = {Key("event", e) : e \in {x \in Events : events[x] > 0}} \union {Key("image", i) : i \in images}

Safe(e) == \/ stored[e] >= latest[e] \/ events[e] = latest[e] \/ Key("event", e) \in dropped

\* The newest version of an event is on the server, still queued, or was reported as
\* dropped, whatever fails, is sent twice or reloads; unless it came into the queue
\* between the two awaits of a removal.
NewestVersionKept == \A e \in Events : Safe(e) \/ e \in overtaken

\* "a newer version was queued meanwhile" (outbox.ts:823): a removal never takes a
\* newer version of the event with it.
NewerVersionStays == \A e \in Events : Safe(e)

\* No lost wake-up: while healthy, queued work always has a timer or a pass.
WorkIsScheduled == hasMainWork /\ ~fatal /\ ~backoff => timer \/ inflight # NoPass

\* A healthy outbox of a page in control runs empty.
HealthyRunsEmpty == <>[](gate /\ ~fatal /\ ~backoff) => <>[](~hasMainWork)

\* "While healthy deliver promptly; while failing, wait for the backoff timer (or
\* 'online')" (outbox.ts:908): what is queued is delivered once the outage is over.
DeliveredAfterOutage == hasMainWork ~> (~hasMainWork \/ fatal \/ ~gate)
=============================================================================
