-------------------------- MODULE IdentitySamples --------------------------
(***************************************************************************)
(* The identity samples of one exam (services/identity-samples.ts and      *)
(* identity-evidence.ts): frames arrive in any order, early, late or       *)
(* never; bursts of frames are decided as one sample; samples add up to    *)
(* evidence; the evidence opens events, holds the exam and asks an         *)
(* external verifier outside the session's lock, while the exam is paused, *)
(* held, continued on another browser and ended around it.                 *)
(*                                                                         *)
(* Left out: the images, what the browser is told (cadence, guidance), and *)
(* the later erasure of frames without a burst (eraseOrphanFrame-          *)
(* Embeddings), which has nothing to do where TemplatesOnlyWhilePending    *)
(* holds.                                                                  *)
(***************************************************************************)
EXTENDS Integers, FiniteSets, FiniteSetsExt

CONSTANTS
    N,           \* bound: samples, named in the order they are taken
    Size,        \* policy.identity.burstSize
    Singles,     \* the samples of one frame
    Breaks,      \* the samples taken at a discontinuity
    Frozen,      \* the samples that show one still picture
    Looks,       \* what a sample may look like
    MaxSamples,  \* sprt.maxSamples
    MaxPeriods   \* bound: active periods of the exam

(* The calibration, in quarters so that the weight 1.25 stays whole.       *)
Suspect == 12
Confirm == 28
Clear == -24
MaxPoorEvidence == 16
MonitorLLR == 4
ClearMatchLLR == -12
CloseAfterClearSamples == 2
UnverifiableAfter == 3
IdenticalSamplesSuspect == 3

Samples == 1..N
Frames(n) == IF n \in Singles THEN 1..1 ELSE 1..Size
Buckets == {"good", "fair", "poor"}

ASSUME SamplesAssumption ==
    /\ N \in Nat /\ Size \in Nat \ {0} /\ MaxSamples \in Nat \ {0} /\ MaxPeriods \in Nat \ {0}
    /\ Singles \subseteq Samples /\ Breaks \subseteq Samples /\ Frozen \subseteq Samples
ASSUME LooksAssumption ==
    \A l \in Looks: /\ l.usable \in BOOLEAN /\ l.bucket \in Buckets
                    /\ l.llr \in -20..20 /\ l.llr % 4 = 0
                    /\ l.label \in {"match", "mismatch", "inconclusive", "unable_to_verify"}

VARIABLES
    rules,       \* onMismatch, and whether a second opinion is asked for
    status,
    period,      \* the exam's active periods so far
    epoch,       \* in which of them each sample was taken, 0: not yet
    got,         \* the frames received (identity_sample_frames)
    embeddings,  \* those whose face template is kept
    pending,     \* pendingBursts
    id,          \* the rest of the session's identity state
    asks,        \* the second opinions being asked, by sample
    decided,     \* history: how often each sample was decided
    alarm        \* history: the evidence of the latest alarm

vars == <<rules, status, period, epoch, got, embeddings, pending, id, asks, decided, alarm>>

Statuses == {"active", "paused", "on_hold", "ended"}
Entry == [n: Samples, llr: -25..25, bucket: Buckets]

(* The evidence: window, state, clears and unusable (streaks); the feed    *)
(* check: last (dHash, 0 none) and streak; asked and veto: the second      *)
(* opinion.  The others are the server's open events.                      *)
NoEvidence ==
    [window |-> {}, state |-> "consistent", clears |-> 0, unusable |-> 0,
     last |-> 0, streak |-> 0, asked |-> 0, veto |-> FALSE]
NoEvents == [mismatch |-> FALSE, unverifiable |-> FALSE, feed |-> FALSE, noSamples |-> FALSE]

TypeOK ==
    /\ rules \in [onMismatch: {"hold_for_review", "flag_only"}, secondOpinion: BOOLEAN]
    /\ status \in Statuses /\ period \in 1..MaxPeriods
    /\ epoch \in [Samples -> 0..MaxPeriods]
    /\ got \in [Samples -> SUBSET (1..Size)]
    /\ embeddings \subseteq Samples \X (1..Size)
    /\ pending \subseteq Samples \ Singles
    /\ DOMAIN id = DOMAIN NoEvidence \cup DOMAIN NoEvents
    /\ id.window \subseteq Entry
    /\ id.state \in {"consistent", "monitoring", "suspect", "confirmed_mismatch"}
    /\ id.clears \in 0..1 /\ id.unusable \in 0..UnverifiableAfter
    /\ id.last \in 0..(N + 1) /\ id.streak \in 0..IdenticalSamplesSuspect
    /\ id.asked \in 0..N
    /\ \A f \in DOMAIN NoEvents \cup {"veto"}: id[f] \in BOOLEAN
    /\ asks \in [Samples -> {"none", "asked", "decisive", "borderline"}]
    /\ decided \in [Samples -> Nat]
    /\ alarm \subseteq Entry

With(r, s) == [f \in DOMAIN r \cup DOMAIN s |-> IF f \in DOMAIN s THEN s[f] ELSE r[f]]

Init ==
    /\ rules \in [onMismatch: {"hold_for_review", "flag_only"}, secondOpinion: BOOLEAN]
    /\ status = "active" /\ period = 1
    /\ epoch = [n \in Samples |-> 0] /\ got = [n \in Samples |-> {}]
    /\ embeddings = {} /\ pending = {}
    /\ id = With(NoEvidence, NoEvents)
    /\ asks = [n \in Samples |-> "none"]
    /\ decided = [n \in Samples |-> 0]
    /\ alarm = {}

-----------------------------------------------------------------------------
(* What the session's handlers do to the identity state.                   *)
ResetIdentityCounters(st) == With(st, NoEvidence)
CloseOpenEvents(st) == With(st, NoEvents)

(* Mutant: the frames of dropped bursts are left to the sweeper.           *)
WithoutBurstsLater(frames, bursts) == frames

(* The flush erases the templates of the bursts a transaction dropped.     *)
WithoutBursts(frames, bursts) == {f \in frames: f[1] \notin bursts}

(* A new period begins, or the exam leaves its period.                     *)
NewPeriod(st) ==
    /\ id' = ResetIdentityCounters(st)
    /\ pending' = {}
    /\ embeddings' = WithoutBursts(embeddings, pending)
    /\ UNCHANGED <<rules, epoch, got, asks, decided, alarm>>

PauseNow ==
    /\ status = "active"
    /\ status' = "paused"
    /\ NewPeriod(CloseOpenEvents(id))
    /\ UNCHANGED period

(* For another reason than these samples.                                  *)
HoldNow ==
    /\ status \in {"active", "paused"}
    /\ status' = "on_hold"
    /\ NewPeriod(CloseOpenEvents(id))
    /\ UNCHANGED period

(* A resume or reverify check is passed, or staff release the hold.  No    *)
(* pause or hold leaves the event open that a passed check would close, so *)
(* that a release without a check does the same.                           *)
Continue ==
    /\ status \in {"paused", "on_hold"} /\ period < MaxPeriods
    /\ status' = "active" /\ period' = period + 1
    /\ NewPeriod([id EXCEPT !.unverifiable = FALSE])

(* Another browser passes the reconnect check: the server's own events     *)
(* stay open, but for the one about the identity not being verifiable.     *)
Reconnect ==
    /\ status = "active" /\ period < MaxPeriods
    /\ period' = period + 1
    /\ NewPeriod([id EXCEPT !.unverifiable = FALSE])
    /\ UNCHANGED status

(* The end drops the bursts and all templates; the evidence stays.         *)
FinalizeSession ==
    /\ status # "ended"
    /\ status' = "ended"
    /\ id' = CloseOpenEvents(id)
    /\ pending' = {} /\ embeddings' = {}
    /\ UNCHANGED <<rules, period, epoch, got, asks, decided, alarm>>

ReopenSession ==
    /\ status = "ended"
    /\ status' = "on_hold"
    /\ NewPeriod(id)
    /\ UNCHANGED period

(* The heartbeat: samples were asked for and have not come.                *)
RecordNoSamples ==
    /\ status = "active" /\ ~id.noSamples
    /\ id' = [id EXCEPT !.noSamples = TRUE]
    /\ UNCHANGED <<rules, status, period, epoch, got, embeddings, pending, asks, decided, alarm>>

-----------------------------------------------------------------------------
LLRs(w) == MapThenSumSet(LAMBDA e: e.llr, w)
PoorPositive(w) == {e \in w: e.bucket = "poor" /\ e.llr > 0}

(* Mutant: poor light counts like any other.                               *)
WindowSumUncapped(w) == LLRs(w)

(* Evidence of a different person from poor images counts up to a limit.   *)
WindowSum(w) == LLRs(w \ PoorPositive(w)) + Min({MaxPoorEvidence, LLRs(PoorPositive(w))})

PoorLightSuspect(st) ==
    /\ st.state = "suspect" /\ PoorPositive(st.window) # {}
    /\ WindowSum(st.window \ PoorPositive(st.window)) < Suspect

Newest(w) == {e \in w: Cardinality({f \in w: f.n > e.n}) < MaxSamples}

(* One sample more.  At a discontinuity the genuine samples before it no   *)
(* longer count; a sample that comes out of order takes its place.         *)
Accumulate(st, n, look) ==
    LET inOrder == \A e \in st.window: e.n < n
        break == n \in Breaks /\ inOrder
        llr == IF break /\ look.llr > 0 THEN (look.llr * 5) \div 4 ELSE look.llr
        before == IF break THEN {e \in st.window: e.llr > 0} ELSE st.window
        window == Newest(before \cup {[n |-> n, llr |-> llr, bucket |-> look.bucket]})
        sum == WindowSum(window)
        clears == IF llr <= ClearMatchLLR THEN st.clears + 1 ELSE 0
        Now(w, state, k) == [st EXCEPT !.window = w, !.state = state, !.clears = k, !.unusable = 0]
    IN  CASE ~look.usable -> [st EXCEPT !.unusable = Min({UnverifiableAfter, @ + 1})]
          [] look.usable /\ st.state = "confirmed_mismatch" ->
                 IF clears >= CloseAfterClearSamples THEN Now({}, "consistent", 0)
                 ELSE Now(window, st.state, clears)
          [] OTHER ->
                 IF sum <= Clear THEN Now({}, "consistent", st.clears)
                 ELSE IF sum >= Confirm THEN Now(window, "confirmed_mismatch", 0)
                 ELSE IF sum >= Suspect THEN Now(window, "suspect", st.clears)
                 ELSE IF sum > MonitorLLR \/ llr > MonitorLLR THEN Now(window, "monitoring", st.clears)
                 ELSE Now(window, "consistent", st.clears)

DHash(n) == IF n \in Frozen THEN 1 ELSE n + 1

(* Identical pictures seconds apart do not come from a live camera.        *)
FeedChecked(st, n) ==
    LET same == st.last = DHash(n)
        streak == IF same THEN Min({IdenticalSamplesSuspect, Max({2, st.streak + 1})}) ELSE 1
    IN  [st EXCEPT !.last = DHash(n), !.streak = streak,
                   !.feed = streak >= IdenticalSamplesSuspect \/ (@ /\ same)]

(* Images that show no usable face open an uncertain event, a clear result *)
(* closes it.                                                              *)
UnverifiableNoted(st, look) ==
    [st EXCEPT !.unverifiable = IF look.usable THEN @ /\ look.label \notin {"match", "mismatch"}
                                ELSE @ \/ st.unusable >= UnverifiableAfter]

PoorLightNoted(st) ==
    [st EXCEPT !.unverifiable = @ \/ (PoorLightSuspect(st) /\ ~st.mismatch)]

(* What the confirmation waits for.  The veto may have run out, and a      *)
(* question that is taking too long is asked again.                        *)
SwapGate(st) ==
    IF ~rules.secondOpinion THEN {"proceed"}
    ELSE {"request"} \cup (IF st.asked # 0 THEN {"pending"} ELSE {})
                     \cup (IF st.veto THEN {"proceed"} ELSE {})

(* Mutant: while the opinion is awaited the evidence stays confirmed.      *)
GatedConfirmed(st, n, gate) ==
    CASE gate = "request" -> [st EXCEPT !.asked = n]
      [] gate = "pending" -> st
      [] gate = "proceed" -> [st EXCEPT !.mismatch = TRUE]

Gated(st, n, gate) ==
    CASE gate = "request" -> [st EXCEPT !.state = "suspect", !.clears = 0, !.asked = n]
      [] gate = "pending" -> [st EXCEPT !.state = "suspect", !.clears = 0]
      [] gate = "proceed" -> [st EXCEPT !.mismatch = TRUE]

(* The session is held by what its samples show (holdNow), or goes on.     *)
Raise(st, bursts, frames) ==
    LET held == st.mismatch /\ ~id.mismatch /\ rules.onMismatch = "hold_for_review"
    IN  /\ id' = IF held THEN ResetIdentityCounters(CloseOpenEvents(st)) ELSE st
        /\ status' = IF held THEN "on_hold" ELSE status
        /\ pending' = IF held THEN {} ELSE bursts
        /\ embeddings' = IF held THEN WithoutBursts(frames, bursts) ELSE frames
        /\ alarm' = IF st.mismatch /\ ~id.mismatch THEN st.window ELSE alarm

(* applyEvidence: a decided sample of the running period.                  *)
ApplyEvidence(n, look, bursts, frames) ==
    LET seen == FeedChecked([id EXCEPT !.noSamples = FALSE], n)
        added == UnverifiableNoted(Accumulate(seen, n, look), look)
        confirmed == added.state = "confirmed_mismatch" /\ id.state # "confirmed_mismatch"
        recovered == added.state = "consistent" /\ id.state = "confirmed_mismatch"
    IN  \/ /\ confirmed /\ ~id.mismatch
           /\ \E gate \in SwapGate(added):
                  /\ Raise(PoorLightNoted(Gated(added, n, gate)), bursts, frames)
                  /\ asks' = IF gate = "request" THEN [asks EXCEPT ![n] = "asked"] ELSE asks
        \/ /\ ~(confirmed /\ ~id.mismatch)
           /\ Raise(PoorLightNoted([added EXCEPT !.mismatch = @ /\ ~recovered]), bursts, frames)
           /\ UNCHANGED asks

(* decideSample and decideBurst: a sample is put on record, and counts if   *)
(* it is of now.  The templates of its frames go.                          *)
RecordSample(n) ==
    /\ decided' = [decided EXCEPT ![n] = @ + 1]
    /\ pending' = pending \ {n}
    /\ embeddings' = WithoutBursts(embeddings, {n})
    /\ UNCHANGED <<status, id, asks, alarm>>

CountSample(n) ==
    /\ decided' = [decided EXCEPT ![n] = @ + 1]
    /\ \E look \in Looks: ApplyEvidence(n, look, pending \ {n}, WithoutBursts(embeddings, {n}))

Decide(n, recordOnly) ==
    \/ recordOnly /\ RecordSample(n)
    \/ ~recordOnly /\ CountSample(n)

Take(n) ==
    /\ status = "active"
    /\ epoch[n] = 0 /\ \A k \in 1..(n - 1): epoch[k] # 0
    /\ epoch' = [epoch EXCEPT ![n] = period]
    /\ UNCHANGED <<rules, status, period, got, embeddings, pending, id, asks, decided, alarm>>

(* A sample of before this period, or one long under way, is only put on   *)
(* record; but seconds before the period are still in it (clocks differ),  *)
(* and earlier periods may have been as short.                             *)
LateSample(n) == IF status # "active" THEN {TRUE} ELSE BOOLEAN

(* Mutant: only the bursts being collected are known.                      *)
BurstSeenPending(n) == n \in pending

BurstSeen(n) == got[n] # {}

(* A frame arrives; a repeat of one that did is answered from the record.  *)
ProcessSample(n, i) ==
    /\ epoch[n] # 0 /\ i \in Frames(n) \ got[n]
    /\ status # "ended"
    /\ got' = [got EXCEPT ![n] = @ \cup {i}]
    /\ \E recordOnly \in LateSample(n):
           LET late == n \notin pending /\ (recordOnly \/ BurstSeen(n))
           IN  \/ n \in Singles /\ Decide(n, recordOnly)
               \/ /\ n \notin Singles /\ late
                  /\ UNCHANGED <<status, embeddings, pending, id, asks, decided, alarm>>
               \/ /\ n \notin Singles /\ ~late /\ got'[n] # Frames(n)
                  /\ pending' = pending \cup {n}
                  /\ embeddings' = embeddings \cup {<<n, i>>}
                  /\ UNCHANGED <<status, id, asks, decided, alarm>>
               \/ n \notin Singles /\ ~late /\ got'[n] = Frames(n) /\ Decide(n, recordOnly)
    /\ UNCHANGED <<rules, period, epoch>>

(* A burst runs out of time: the next sample's handler, before it looks at *)
(* its own frame, or the sweeper decides it on the frames received.        *)
DecideStaleBurst(n) ==
    /\ n \in pending /\ status = "active"
    /\ CountSample(n)
    /\ UNCHANGED <<rules, period, epoch, got>>

-----------------------------------------------------------------------------
(* resolveSwapSecondOpinion: reads the session, asks, and applies the      *)
(* answer in a transaction of its own.                                     *)
ReadForOpinion(n) ==
    /\ asks[n] = "asked"
    /\ asks' = [asks EXCEPT ![n] = IF WindowSum(id.window) >= Confirm THEN "decisive" ELSE "borderline"]
    /\ UNCHANGED <<rules, status, period, epoch, got, embeddings, pending, id, decided, alarm>>

(* The fused decision: "same person" counts against borderline evidence.   *)
Fused(n) == {"mismatch"} \cup (IF asks[n] = "borderline" THEN {"inconclusive"} ELSE {})

ApplyOpinion(n) ==
    /\ asks[n] \in {"decisive", "borderline"}
    /\ asks' = [asks EXCEPT ![n] = "none"]
    /\ LET st == [id EXCEPT !.asked = 0]
           moot == status # "active" \/ id.mismatch \/ WindowSum(id.window) < Confirm
       IN  \/ /\ id.asked # n
              /\ UNCHANGED <<status, id, pending, embeddings, alarm>>
           \/ /\ id.asked = n /\ moot
              /\ id' = st
              /\ UNCHANGED <<status, pending, embeddings, alarm>>
           \/ /\ id.asked = n /\ ~moot
              /\ \E decision \in Fused(n):
                     Raise(IF decision = "mismatch"
                           THEN [st EXCEPT !.state = "confirmed_mismatch", !.clears = 0, !.mismatch = TRUE]
                           ELSE [st EXCEPT !.state = "monitoring", !.window = {}, !.clears = 0,
                                           !.veto = TRUE, !.unverifiable = TRUE],
                           pending, embeddings)
    /\ UNCHANGED <<rules, period, epoch, got, decided>>

(* The server stops, or the answer cannot be applied.                      *)
OpinionLost(n) ==
    /\ asks[n] # "none"
    /\ asks' = [asks EXCEPT ![n] = "none"]
    /\ UNCHANGED <<rules, status, period, epoch, got, embeddings, pending, id, decided, alarm>>

-----------------------------------------------------------------------------
SessionStep ==
    PauseNow \/ HoldNow \/ Continue \/ Reconnect \/ FinalizeSession \/ ReopenSession \/ RecordNoSamples

SampleStep(n) ==
    \/ Take(n) \/ DecideStaleBurst(n)
    \/ \E i \in 1..Size: ProcessSample(n, i)
    \/ ReadForOpinion(n) \/ ApplyOpinion(n) \/ OpinionLost(n)

Next == SessionStep \/ \E n \in Samples: SampleStep(n)

Spec == Init /\ [][Next]_vars

-----------------------------------------------------------------------------
(* A sample is decided once, however its frames are delayed, and whoever   *)
(* decides it, its last frame, the next sample or the sweeper ("the burst  *)
(* is decided as ONE sample", identity-samples.ts:10).                     *)
BurstCountsOnce == \A n \in Samples: decided[n] <= 1

(* Face templates are kept for bursts being collected in a running exam    *)
(* and for no others, after pauses, holds, ends and late frames too        *)
(* (flush and decideSample; session-state.ts:243).                         *)
TemplatesOnlyWhilePending == \A f \in embeddings: f[1] \in pending /\ status = "active"

(* Evidence is never left confirmed in a running exam with nobody told: an *)
(* event is open, and the exam goes on only where the policy says flag     *)
(* (applyEvidence, with the second opinion pending, lost or vetoed too).   *)
ConfirmedIsActedOn ==
    status = "active" /\ id.state = "confirmed_mismatch" => id.mismatch /\ rules.onMismatch = "flag_only"

(* An alarm rests on two samples that speak for a different person and on  *)
(* one taken in fair or good light, whatever their order and the breaks    *)
(* among them ("confirmation waits for a fair or good frame",              *)
(* identity-evidence.ts:32).                                               *)
AlarmFounded ==
    LET against == {e \in alarm: e.llr > 0}
    IN  alarm # {} => Cardinality(against) >= 2 /\ \E e \in against: e.bucket # "poor"

(* An alarm rests on two such samples in fair or good light ("at least two *)
(* fair / good samples are always needed", identity-evidence.ts:38).       *)
TwoGoodSamples == alarm # {} => Cardinality({e \in alarm: e.llr > 0 /\ e.bucket # "poor"}) >= 2

(* An open event about a different person goes with confirmed evidence, so *)
(* that two clear samples close it (identity-samples.ts:17).               *)
MismatchCanClose == id.mismatch => id.state = "confirmed_mismatch"

(* "Same person" never overrules evidence that is decisive when the answer *)
(* is applied ("a confirmed SPRT is never overruled",                      *)
(* EXTERNAL_VERIFIER.md:227).                                              *)
DecisiveNotOverruled == [][~id.veto /\ id'.veto => WindowSum(id.window) < Confirm]_vars
=============================================================================
