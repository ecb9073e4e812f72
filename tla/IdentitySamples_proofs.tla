----------------------- MODULE IdentitySamples_proofs -----------------------
(***************************************************************************)
(* Proofs about IdentitySamples, for any number of samples, frames and     *)
(* periods, any looks, breaks and window.                                  *)
(***************************************************************************)
EXTENDS IdentitySamples, FiniteSetTheorems, TLAPS

(* Templates belong to bursts being collected, which only a running exam   *)
(* has.                                                                    *)
Collected ==
    /\ pending \subseteq Samples \ Singles
    /\ pending # {} => status = "active"
    /\ \A f \in embeddings: f[1] \in pending

(* What is collected has a frame; what was decided was received and is not *)
(* collected any more.                                                     *)
Once ==
    /\ decided \in [Samples -> Nat]
    /\ got \in [Samples -> SUBSET Nat]
    /\ \A n \in Samples:
           /\ got[n] \subseteq Frames(n)
           /\ decided[n] <= 1
           /\ decided[n] = 1 => got[n] # {} /\ n \notin pending
           /\ n \in pending => got[n] # {}

IInv == Collected /\ Once

-----------------------------------------------------------------------------
(* Whatever a sample shows, its burst is over; if the exam is held for it, *)
(* so are the others.                                                      *)
LEMMA RaiseEffect ==
    ASSUME NEW st, NEW bursts, NEW frames, Raise(st, bursts, frames)
    PROVE  \/ pending' = bursts /\ embeddings' = frames /\ status' = status
           \/ pending' = {} /\ embeddings' = WithoutBursts(frames, bursts) /\ status' = "on_hold"
BY DEF Raise

(* A decided sample is no longer collected, with all its templates.        *)
LEMMA DecidedEffect ==
    ASSUME NEW n, RecordSample(n) \/ CountSample(n)
    PROVE  /\ decided' = [decided EXCEPT ![n] = @ + 1]
           /\ LET bursts == pending \ {n}
                  frames == WithoutBursts(embeddings, {n})
              IN  \/ pending' = bursts /\ embeddings' = frames /\ status' = status
                  \/ pending' = {} /\ embeddings' = WithoutBursts(frames, bursts) /\ status' = "on_hold"
<1>1. CASE RecordSample(n)
    BY <1>1 DEF RecordSample
<1>2. CASE CountSample(n)
    <2>1. PICK look \in Looks: ApplyEvidence(n, look, pending \ {n}, WithoutBursts(embeddings, {n}))
        BY <1>2 DEF CountSample
    <2>2. \E st: Raise(st, pending \ {n}, WithoutBursts(embeddings, {n}))
        BY <2>1, Zenon DEF ApplyEvidence
    <2>3. PICK st: Raise(st, pending \ {n}, WithoutBursts(embeddings, {n}))
        BY <2>2
    <2> QED BY <1>2, <2>3, RaiseEffect DEF CountSample
<1> QED BY <1>1, <1>2

(* Deciding keeps what is collected in order.                              *)
LEMMA DecidedCollected ==
    ASSUME Collected, NEW n, RecordSample(n) \/ CountSample(n)
    PROVE  Collected' /\ n \notin pending' /\ pending' \subseteq pending
BY DecidedEffect DEF Collected, WithoutBursts

(* The start of another period drops what was collected.                   *)
LEMMA NewPeriodCollected ==
    ASSUME Collected, NEW st, NewPeriod(st)
    PROVE  Collected' /\ pending' = {}
BY DEF Collected, NewPeriod, WithoutBursts

-----------------------------------------------------------------------------
(* Initially nothing is collected, received or decided.                    *)
LEMMA InitInv == Init => IInv
<1> SUFFICES ASSUME Init PROVE IInv
    OBVIOUS
<1>1. Collected
    BY DEF Init, Collected
<1>2. Once
    BY DEF Init, Once
<1> QED BY <1>1, <1>2 DEF IInv

(* What the session's handlers drop is dropped with its templates.         *)
LEMMA SessionStepInv ==
    ASSUME IInv, SessionStep
    PROVE  IInv'
<1> USE DEF IInv
<1>1. decided' = decided /\ got' = got /\ pending' \subseteq pending
    BY DEF SessionStep, PauseNow, HoldNow, Continue, Reconnect, FinalizeSession, ReopenSession,
           RecordNoSamples, NewPeriod
<1>2. Once'
    BY <1>1 DEF Once
<1>3. Collected'
    <2>1. CASE PauseNow \/ HoldNow \/ Continue \/ Reconnect \/ ReopenSession
        BY <2>1, NewPeriodCollected, Zenon DEF PauseNow, HoldNow, Continue, Reconnect, ReopenSession
    <2>2. CASE FinalizeSession
        BY <2>2 DEF FinalizeSession, Collected
    <2>3. CASE RecordNoSamples
        BY <2>3 DEF RecordNoSamples, Collected
    <2> QED BY <2>1, <2>2, <2>3 DEF SessionStep
<1> QED BY <1>2, <1>3

(* Deciding a sample that was received and not decided before.             *)
LEMMA DecidedInv ==
    ASSUME IInv, NEW n \in Samples, RecordSample(n) \/ CountSample(n), decided[n] = 0,
           got' \in [Samples -> SUBSET Nat], got'[n] # {},
           \A k \in Samples: got'[k] \subseteq Frames(k) /\ got[k] \subseteq got'[k]
    PROVE  IInv'
<1>1. Collected' /\ n \notin pending' /\ pending' \subseteq pending
    BY DecidedCollected DEF IInv
<1>2. decided' = [decided EXCEPT ![n] = @ + 1]
    BY DecidedEffect
<1>3. Once'
    BY <1>1, <1>2 DEF IInv, Once
<1> QED BY <1>1, <1>3 DEF IInv

(* A frame: a burst is begun only by its first one, and a sample of one    *)
(* frame is decided when that comes.                                       *)
LEMMA ProcessSampleInv ==
    ASSUME IInv, NEW n \in Samples, NEW i \in 1..Size, ProcessSample(n, i)
    PROVE  IInv'
<1>1. /\ i \in Frames(n) \ got[n]
      /\ got' = [got EXCEPT ![n] = @ \cup {i}]
    BY DEF ProcessSample
<1>2. /\ got' \in [Samples -> SUBSET Nat]
      /\ \A k \in Samples: got'[k] \subseteq Frames(k) /\ got[k] \subseteq got'[k]
      /\ got'[n] # {}
    BY <1>1, SamplesAssumption DEF IInv, Once, Frames, Samples
<1>3. ASSUME n \in Singles \/ n \in pending \/ got[n] = {}
      PROVE  decided[n] = 0
    <2>1. decided[n] # 1
        BY <1>1, <1>3 DEF IInv, Once, Frames
    <2> QED BY <2>1 DEF IInv, Once
<1>4. PICK recordOnly \in LateSample(n):
          \/ n \in Singles /\ Decide(n, recordOnly)
          \/ /\ n \notin Singles
             /\ UNCHANGED <<status, embeddings, pending, id, asks, decided, alarm>>
          \/ /\ n \notin Singles /\ (n \in pending \/ (~recordOnly /\ got[n] = {}))
             /\ pending' = pending \cup {n}
             /\ embeddings' = embeddings \cup {<<n, i>>}
             /\ UNCHANGED <<status, id, asks, decided, alarm>>
          \/ n \notin Singles /\ (n \in pending \/ got[n] = {}) /\ Decide(n, recordOnly)
    BY Zenon DEF ProcessSample, BurstSeen
<1>5. CASE (n \in Singles \/ n \in pending \/ got[n] = {}) /\ Decide(n, recordOnly)
    BY <1>2, <1>3, <1>5, DecidedInv DEF Decide
<1>6. CASE UNCHANGED <<status, embeddings, pending, id, asks, decided, alarm>>
    BY <1>2, <1>6 DEF IInv, Collected, Once
<1>7. CASE /\ n \notin Singles /\ (n \in pending \/ (~recordOnly /\ got[n] = {}))
           /\ pending' = pending \cup {n}
           /\ embeddings' = embeddings \cup {<<n, i>>}
           /\ UNCHANGED <<status, id, asks, decided, alarm>>
    <2>1. status = "active"
        BY <1>7 DEF LateSample, IInv, Collected
    <2>2. Collected'
        BY <1>7, <2>1 DEF IInv, Collected
    <2>3. decided[n] = 0
        BY <1>3, <1>7
    <2>4. Once'
        BY <1>2, <1>7, <2>3 DEF IInv, Once
    <2> QED BY <2>2, <2>4 DEF IInv
<1> QED BY <1>4, <1>5, <1>6, <1>7

(* A burst that runs out of time was collected, so it was not decided.     *)
LEMMA DecideStaleBurstInv ==
    ASSUME IInv, NEW n \in Samples, DecideStaleBurst(n)
    PROVE  IInv'
<1>1. n \in pending /\ CountSample(n) /\ got' = got
    BY DEF DecideStaleBurst
<1>2. decided[n] = 0 /\ got[n] # {}
    BY <1>1 DEF IInv, Once
<1>3. got' \in [Samples -> SUBSET Nat] /\ \A k \in Samples: got'[k] \subseteq Frames(k) /\ got[k] \subseteq got'[k]
    BY <1>1 DEF IInv, Once
<1> QED BY <1>1, <1>2, <1>3, DecidedInv

(* An opinion ends the collecting only with the hold it raises.            *)
LEMMA ApplyOpinionInv ==
    ASSUME IInv, NEW n \in Samples, ApplyOpinion(n)
    PROVE  IInv'
<1>1. got' = got /\ decided' = decided
    BY DEF ApplyOpinion
<1>2. \/ UNCHANGED <<status, pending, embeddings>>
      \/ \E st: Raise(st, pending, embeddings)
    BY Zenon DEF ApplyOpinion
<1>3. \/ UNCHANGED <<status, pending, embeddings>>
      \/ pending' = {} /\ embeddings' = WithoutBursts(embeddings, pending) /\ status' = "on_hold"
    BY <1>2, RaiseEffect
<1>4. Collected'
    BY <1>3 DEF IInv, Collected, WithoutBursts
<1>5. Once'
    BY <1>1, <1>3 DEF IInv, Once
<1> QED BY <1>4, <1>5 DEF IInv

(* Every step of a sample keeps the invariant.                             *)
LEMMA SampleStepInv ==
    ASSUME IInv, NEW n \in Samples, SampleStep(n)
    PROVE  IInv'
<1>1. CASE Take(n) \/ ReadForOpinion(n) \/ OpinionLost(n)
    <2>1. UNCHANGED <<status, got, embeddings, pending, decided>>
        BY <1>1 DEF Take, ReadForOpinion, OpinionLost
    <2> QED BY <2>1 DEF IInv, Collected, Once
<1>2. CASE \E i \in 1..Size: ProcessSample(n, i)
    BY <1>2, ProcessSampleInv
<1>3. CASE DecideStaleBurst(n)
    BY <1>3, DecideStaleBurstInv
<1>4. CASE ApplyOpinion(n)
    BY <1>4, ApplyOpinionInv
<1> QED BY <1>1, <1>2, <1>3, <1>4 DEF SampleStep

(* And so does every step.                                                 *)
LEMMA Inductive == IInv /\ [Next]_vars => IInv'
<1>1. CASE UNCHANGED vars
    BY <1>1 DEF vars, IInv, Collected, Once
<1>2. ASSUME IInv, Next PROVE IInv'
    BY <1>2, SessionStepInv, SampleStepInv DEF Next
<1> QED BY <1>1, <1>2

-----------------------------------------------------------------------------
(* A sample is decided at most once, for any number of samples and frames, *)
(* however frames, the sweeper and the session's handlers interleave       *)
(* (decideBurst, burstSeen, decideStaleBursts).                            *)
THEOREM DecidedOnce == Spec => []BurstCountsOnce
<1>1. IInv => BurstCountsOnce
    BY DEF IInv, Once, BurstCountsOnce
<1> QED BY <1>1, InitInv, Inductive, PTL DEF Spec

(* Face templates are kept only for bursts a running exam is collecting,   *)
(* for any numbers of samples, frames and periods (flush, decideSample,    *)
(* finalizeSession).                                                       *)
THEOREM TemplatesErased == Spec => []TemplatesOnlyWhilePending
<1>1. IInv => TemplatesOnlyWhilePending
    BY DEF IInv, Collected, TemplatesOnlyWhilePending
<1> QED BY <1>1, InitInv, Inductive, PTL DEF Spec

-----------------------------------------------------------------------------
Fields == DOMAIN NoEvidence \cup DOMAIN NoEvents

Formed(st) == DOMAIN st = Fields /\ st.mismatch \in BOOLEAN

(* An open event about a different person belongs to a running exam whose  *)
(* rules only flag it, and confirmed evidence in a running exam has one.   *)
Acted ==
    /\ rules.onMismatch \in {"hold_for_review", "flag_only"}
    /\ Formed(id)
    /\ id.mismatch => status = "active" /\ rules.onMismatch = "flag_only"
    /\ status = "active" /\ id.state = "confirmed_mismatch" => id.mismatch

(* The fields of the identity state.                                       *)
LEMMA FieldNames ==
    Fields = {"window", "state", "clears", "unusable", "last", "streak", "asked", "veto",
              "mismatch", "unverifiable", "feed", "noSamples"}
BY DEF Fields, NoEvidence, NoEvents

(* The resets keep the form; closing the events closes the mismatch's.     *)
LEMMA ResetFormed ==
    ASSUME NEW st, Formed(st)
    PROVE  LET r == ResetIdentityCounters(st)
               c == CloseOpenEvents(st)
           IN  /\ Formed(r) /\ r.mismatch = st.mismatch /\ r.state = "consistent"
               /\ Formed(c) /\ ~c.mismatch /\ c.state = st.state
BY FieldNames DEF ResetIdentityCounters, CloseOpenEvents, With, NoEvidence, NoEvents, Formed, Fields

(* The feed check is about other fields.                                   *)
LEMMA FeedFormed ==
    ASSUME NEW st, NEW n, Formed(st)
    PROVE  LET r == FeedChecked(st, n) IN Formed(r) /\ r.mismatch = st.mismatch /\ r.state = st.state
BY FieldNames DEF FeedChecked, Formed

(* So are the notes about images and light.                                *)
LEMMA NotedFormed ==
    ASSUME NEW st, NEW look, Formed(st)
    PROVE  LET u == UnverifiableNoted(st, look)
               p == PoorLightNoted(st)
           IN  /\ Formed(u) /\ u.mismatch = st.mismatch /\ u.state = st.state
               /\ Formed(p) /\ p.mismatch = st.mismatch /\ p.state = st.state
BY FieldNames DEF UnverifiableNoted, PoorLightNoted, Formed

(* Confirmed evidence stays so until it is all consistent.                 *)
LEMMA AccumulateFormed ==
    ASSUME NEW st, NEW n, NEW look, look.usable \in BOOLEAN, Formed(st)
    PROVE  LET a == Accumulate(st, n, look)
           IN  /\ Formed(a) /\ a.mismatch = st.mismatch
               /\ st.state = "confirmed_mismatch" => a.state \in {"confirmed_mismatch", "consistent"}
BY FieldNames DEF Accumulate, Formed

(* The gate lets the evidence confirm with an event, or not confirm.       *)
LEMMA GatedFormed ==
    ASSUME NEW st, NEW n, NEW gate \in SwapGate(st), Formed(st)
    PROVE  LET g == Gated(st, n, gate)
           IN  Formed(g) /\ ((g.state = "suspect" /\ g.mismatch = st.mismatch) \/ g.mismatch = TRUE)
<1>1. gate \in {"request", "pending", "proceed"}
    BY DEF SwapGate
<1> QED BY <1>1, FieldNames DEF Gated, Formed

(* A state of the identity that is in order can be raised in a running     *)
(* exam: a new event holds the exam or its rules only flag it.             *)
LEMMA RaiseActed ==
    ASSUME Acted, status = "active", rules' = rules, NEW st, NEW bursts, NEW frames, Formed(st),
           st.state = "confirmed_mismatch" => st.mismatch,
           Raise(st, bursts, frames)
    PROVE  Acted'
<1>1. CASE st.mismatch /\ ~id.mismatch /\ rules.onMismatch = "hold_for_review"
    <2>1. id' = ResetIdentityCounters(CloseOpenEvents(st)) /\ status' = "on_hold"
        BY <1>1 DEF Raise
    <2>2. Formed(CloseOpenEvents(st)) /\ ~CloseOpenEvents(st).mismatch
        BY ResetFormed
    <2>3. Formed(id') /\ ~id'.mismatch
        BY <2>1, <2>2, ResetFormed
    <2> QED BY <2>1, <2>3 DEF Acted, Formed
<1>2. CASE ~(st.mismatch /\ ~id.mismatch /\ rules.onMismatch = "hold_for_review")
    <2>1. id' = st /\ status' = status
        BY <1>2 DEF Raise
    <2>2. st.mismatch => rules.onMismatch = "flag_only"
        BY <1>2 DEF Acted
    <2> QED BY <2>1, <2>2 DEF Acted, Formed
<1> QED BY <1>1, <1>2

(* Evidence that a counted sample confirms is acted on.                    *)
LEMMA ApplyEvidenceActed ==
    ASSUME Acted, status = "active", rules' = rules, NEW n, NEW look \in Looks, NEW bursts, NEW frames,
           ApplyEvidence(n, look, bursts, frames)
    PROVE  Acted'
<1> DEFINE seen == FeedChecked([id EXCEPT !.noSamples = FALSE], n)
           added == UnverifiableNoted(Accumulate(seen, n, look), look)
           confirmed == added.state = "confirmed_mismatch" /\ id.state # "confirmed_mismatch"
           recovered == added.state = "consistent" /\ id.state = "confirmed_mismatch"
<1>1. Formed([id EXCEPT !.noSamples = FALSE])
      /\ [id EXCEPT !.noSamples = FALSE].mismatch = id.mismatch
      /\ [id EXCEPT !.noSamples = FALSE].state = id.state
    BY FieldNames DEF Acted, Formed
<1>2. Formed(seen) /\ seen.mismatch = id.mismatch /\ seen.state = id.state
    BY <1>1, FeedFormed
<1>3. look.usable \in BOOLEAN
    BY LooksAssumption
<1>4. /\ Formed(added) /\ added.mismatch = id.mismatch
      /\ id.state = "confirmed_mismatch" => added.state \in {"confirmed_mismatch", "consistent"}
    <2> DEFINE a == Accumulate(seen, n, look)
    <2>1. /\ Formed(a) /\ a.mismatch = id.mismatch
          /\ id.state = "confirmed_mismatch" => a.state \in {"confirmed_mismatch", "consistent"}
        BY <1>2, <1>3, AccumulateFormed
    <2> HIDE DEF a
    <2>2. Formed(UnverifiableNoted(a, look)) /\ UnverifiableNoted(a, look).mismatch = a.mismatch
          /\ UnverifiableNoted(a, look).state = a.state
        BY <2>1, NotedFormed
    <2> QED BY <2>1, <2>2 DEF a
<1> HIDE DEF seen
<1>5. CASE /\ confirmed /\ ~id.mismatch
           /\ \E gate \in SwapGate(added): Raise(PoorLightNoted(Gated(added, n, gate)), bursts, frames)
    <2>1. PICK gate \in SwapGate(added): Raise(PoorLightNoted(Gated(added, n, gate)), bursts, frames)
        BY <1>5
    <2> DEFINE g == Gated(added, n, gate)
    <2>2. Formed(g) /\ (g.state = "confirmed_mismatch" => g.mismatch)
        BY <1>4, GatedFormed
    <2> HIDE DEF g
    <2>3. Formed(PoorLightNoted(g)) /\ (PoorLightNoted(g).state = "confirmed_mismatch" => PoorLightNoted(g).mismatch)
        BY <2>2, NotedFormed
    <2> QED BY <2>1, <2>3, RaiseActed DEF g
<1>6. CASE /\ ~(confirmed /\ ~id.mismatch)
           /\ Raise(PoorLightNoted([added EXCEPT !.mismatch = @ /\ ~recovered]), bursts, frames)
    <2> DEFINE k == [added EXCEPT !.mismatch = @ /\ ~recovered]
    <2>1. Formed(k) /\ (k.state = "confirmed_mismatch" => k.mismatch)
        BY <1>4, <1>6, FieldNames DEF Formed, Acted
    <2>2. Raise(PoorLightNoted(k), bursts, frames)
        BY <1>6
    <2> HIDE DEF k
    <2>3. Formed(PoorLightNoted(k)) /\ (PoorLightNoted(k).state = "confirmed_mismatch" => PoorLightNoted(k).mismatch)
        BY <2>1, NotedFormed
    <2> QED BY <2>2, <2>3, RaiseActed
<1> QED BY <1>5, <1>6, Zenon DEF ApplyEvidence, seen

(* Initially nothing is confirmed.                                         *)
LEMMA InitActed == Init => Acted
<1> SUFFICES ASSUME Init PROVE Acted
    OBVIOUS
<1>1. DOMAIN id = Fields /\ ~id.mismatch /\ id.mismatch \in BOOLEAN /\ id.state = "consistent"
    BY FieldNames DEF Init, With, NoEvidence, NoEvents, Fields
<1>2. rules.onMismatch \in {"hold_for_review", "flag_only"}
    BY DEF Init
<1> QED BY <1>1, <1>2 DEF Acted, Formed

(* The session's handlers leave no confirmed evidence in a running exam    *)
(* without its event.                                                      *)
LEMMA SessionStepActed ==
    ASSUME Acted, SessionStep
    PROVE  Acted'
<1>1. rules' = rules /\ Formed(id)
    BY DEF Acted, SessionStep, PauseNow, HoldNow, Continue, Reconnect, FinalizeSession, ReopenSession,
           RecordNoSamples, NewPeriod
<1>2. CASE PauseNow \/ HoldNow
    <2>1. id' = ResetIdentityCounters(CloseOpenEvents(id))
        BY <1>2 DEF PauseNow, HoldNow, NewPeriod
    <2>2. Formed(CloseOpenEvents(id)) /\ ~CloseOpenEvents(id).mismatch
        BY <1>1, ResetFormed
    <2>3. Formed(id') /\ ~id'.mismatch /\ id'.state = "consistent"
        BY <2>1, <2>2, ResetFormed
    <2> QED BY <1>1, <2>3 DEF Acted, Formed
<1>3. CASE Continue \/ Reconnect
    <2> DEFINE st == [id EXCEPT !.unverifiable = FALSE]
    <2>1. id' = ResetIdentityCounters(st) /\ status' = "active"
        BY <1>3 DEF Continue, Reconnect, NewPeriod
    <2>2. Formed(st) /\ st.mismatch = id.mismatch
        BY <1>1, FieldNames DEF Formed
    <2> HIDE DEF st
    <2>3. Formed(id') /\ id'.mismatch = id.mismatch /\ id'.state = "consistent"
        BY <2>1, <2>2, ResetFormed
    <2> QED BY <1>1, <2>1, <2>3 DEF Acted, Formed
<1>4. CASE FinalizeSession
    <2>1. id' = CloseOpenEvents(id) /\ status' = "ended"
        BY <1>4 DEF FinalizeSession
    <2>2. Formed(id') /\ ~id'.mismatch
        BY <1>1, <2>1, ResetFormed
    <2> QED BY <1>1, <2>1, <2>2 DEF Acted, Formed
<1>5. CASE ReopenSession
    <2>1. id' = ResetIdentityCounters(id) /\ status = "ended"
        BY <1>5 DEF ReopenSession, NewPeriod
    <2>2. Formed(id') /\ id'.mismatch = id.mismatch /\ id'.state = "consistent"
        BY <1>1, <2>1, ResetFormed
    <2> QED BY <1>1, <2>1, <2>2 DEF Acted, Formed
<1>6. CASE RecordNoSamples
    <2>1. id' = [id EXCEPT !.noSamples = TRUE] /\ status' = status
        BY <1>6 DEF RecordNoSamples
    <2>2. Formed(id') /\ id'.mismatch = id.mismatch /\ id'.state = id.state
        BY <1>1, <2>1, FieldNames DEF Formed
    <2> QED BY <1>1, <2>1, <2>2 DEF Acted, Formed
<1> QED BY <1>2, <1>3, <1>4, <1>5, <1>6 DEF SessionStep

(* The same of a decided sample.                                           *)
LEMMA CountSampleActed ==
    ASSUME Acted, status = "active", rules' = rules, NEW n, CountSample(n)
    PROVE  Acted'
BY ApplyEvidenceActed DEF CountSample

(* And of every step of a sample; an opinion that confirms opens the event.*)
LEMMA SampleStepActed ==
    ASSUME Acted, NEW n \in Samples, SampleStep(n)
    PROVE  Acted'
<1>1. rules' = rules
    BY DEF SampleStep, Take, DecideStaleBurst, ProcessSample, ReadForOpinion, ApplyOpinion, OpinionLost
<1>2. CASE status' = status /\ id' = id
    BY <1>1, <1>2 DEF Acted, Formed
<1>3. CASE Take(n) \/ ReadForOpinion(n) \/ OpinionLost(n)
    BY <1>2, <1>3 DEF Take, ReadForOpinion, OpinionLost
<1>4. CASE DecideStaleBurst(n)
    BY <1>1, <1>4, CountSampleActed DEF DecideStaleBurst
<1>5. CASE \E i \in 1..Size: ProcessSample(n, i)
    <2>1. \/ status' = status /\ id' = id
          \/ \E recordOnly \in LateSample(n): Decide(n, recordOnly)
        BY <1>5, Zenon DEF ProcessSample
    <2>2. ASSUME NEW recordOnly \in LateSample(n), Decide(n, recordOnly)
          PROVE  Acted'
        <3>1. CASE RecordSample(n)
            BY <1>2, <3>1 DEF RecordSample
        <3>2. CASE ~recordOnly /\ CountSample(n)
            <4>1. status = "active"
                BY <3>2 DEF LateSample
            <4> QED BY <1>1, <3>2, <4>1, CountSampleActed
        <3> QED BY <2>2, <3>1, <3>2 DEF Decide
    <2> QED BY <1>2, <2>1, <2>2
<1>6. CASE ApplyOpinion(n)
    <2> DEFINE st == [id EXCEPT !.asked = 0]
               yes == [st EXCEPT !.state = "confirmed_mismatch", !.clears = 0, !.mismatch = TRUE]
               no == [st EXCEPT !.state = "monitoring", !.window = {}, !.clears = 0,
                                !.veto = TRUE, !.unverifiable = TRUE]
    <2>1. Formed(st) /\ st.mismatch = id.mismatch /\ st.state = id.state
        BY FieldNames DEF Acted, Formed
    <2>2. Formed(yes) /\ yes.mismatch /\ Formed(no) /\ no.state = "monitoring"
        BY <2>1, FieldNames DEF Formed
    <2>3. \/ status' = status /\ id' = id
          \/ status' = status /\ id' = st
          \/ status = "active" /\ (Raise(yes, pending, embeddings) \/ Raise(no, pending, embeddings))
        BY <1>6 DEF ApplyOpinion
    <2> HIDE DEF st, yes, no
    <2>4. CASE status' = status /\ id' = st
        BY <1>1, <2>1, <2>4 DEF Acted, Formed
    <2>5. CASE status = "active" /\ (Raise(yes, pending, embeddings) \/ Raise(no, pending, embeddings))
        BY <1>1, <2>2, <2>5, RaiseActed
    <2> QED BY <1>2, <2>3, <2>4, <2>5
<1> QED BY <1>3, <1>4, <1>5, <1>6 DEF SampleStep

(* Whatever the samples show, in whatever order they come, and whether the *)
(* second opinion is pending, late, lost or overruled: confirmed evidence  *)
(* in a running exam has an open event and rules that only flag            *)
(* (applyEvidence, swapGate, resolveSwapSecondOpinion, holdNow).           *)
THEOREM ConfirmedActedOn == Spec => []ConfirmedIsActedOn
<1>1. Acted /\ [Next]_vars => Acted'
    <2>1. CASE UNCHANGED vars
        BY <2>1 DEF vars, Acted, Formed
    <2>2. ASSUME Acted, Next PROVE Acted'
        BY <2>2, SessionStepActed, SampleStepActed DEF Next
    <2> QED BY <2>1, <2>2
<1>2. Acted => ConfirmedIsActedOn
    BY DEF Acted, ConfirmedIsActedOn
<1> QED BY <1>1, <1>2, InitActed, PTL DEF Spec

-----------------------------------------------------------------------------
(***************************************************************************)
(* What an alarm rests on.  The sums of the window are folds over a finite *)
(* set; that such a fold exists, and what it is bounded by, follows from a *)
(* smallest set for which it would not.                                    *)
(***************************************************************************)
Chosen(s) == CHOOSE x \in s: TRUE

(* A function on the subsets of S adds up s.                               *)
AddsUp(f, s) == f[s] = IF s = {} THEN 0 ELSE Chosen(s).llr + f[s \ {Chosen(s)}]
Sums(S) == CHOOSE f: f = [s \in SUBSET S |-> IF s = {} THEN 0 ELSE Chosen(s).llr + f[s \ {Chosen(s)}]]

(* The fold of the model is that function.                                 *)
LEMMA FoldIsSum ==
    ASSUME NEW w
    PROVE  LLRs(w) = Sums(w)[w]
BY DEF LLRs, MapThenSumSet, MapThenFoldSet, Sums, Chosen

(* Numbers have a least one.                                               *)
LEMMA LeastExists ==
    ASSUME NEW B \in SUBSET Nat, B # {}
    PROVE  \E m \in B: \A y \in B: m <= y
<1>1. PICK n \in B: TRUE
    OBVIOUS
<1> DEFINE Upto(y) == 0..y
           Low == {y \in B: y <= n}
           Initial == {Upto(y): y \in Low}
<1>2. IsFiniteSet(0..n)
    BY FS_Interval
<1>3. Initial \subseteq FiniteSubsetsOf(0..n)
    <2>1. ASSUME NEW y \in Low PROVE Upto(y) \in FiniteSubsetsOf(0..n)
        <3>1. Upto(y) \subseteq 0..n
            BY <1>1
        <3> QED BY <1>2, <3>1, FS_FiniteSubsetsOfFinite
    <2> HIDE DEF Upto, Low
    <2> QED BY <2>1
<1>4. IsWellFoundedOn(StrictSubsetOrdering(0..n), FiniteSubsetsOf(0..n))
    BY FS_StrictSubsetOrderingWellFounded
<1>5. Initial # {}
    <2>1. n \in Low
        BY <1>1
    <2> QED BY <2>1
<1>6. PICK T \in Initial: \A U \in Initial: <<U, T>> \notin StrictSubsetOrdering(0..n)
    <2> HIDE DEF Initial
    <2> QED BY <1>3, <1>4, <1>5, WFMin
<1>7. PICK m \in Low: T = Upto(m)
    OBVIOUS
<1>8. ASSUME NEW y \in B PROVE m <= y
    <2> SUFFICES ASSUME y < m PROVE FALSE
        BY <1>7
    <2>1. y \in Low
        BY <1>1, <1>7
    <2>2. Upto(y) \subseteq Upto(m) /\ Upto(m) \subseteq 0..n
        BY <1>1, <1>7, <2>1
    <2>3. m \in Upto(m) /\ m \notin Upto(y)
        BY <1>7, <2>1
    <2>4. <<Upto(y), Upto(m)>> \in StrictSubsetOrdering(0..n)
        <3> HIDE DEF Upto
        <3> QED BY <2>2, <2>3 DEF StrictSubsetOrdering
    <2>5. Upto(y) \in Initial
        BY <2>1
    <2> QED BY <1>6, <1>7, <2>4, <2>5
<1> QED BY <1>7, <1>8

(* There is a function that adds up all sets of some size.                 *)
LEMMA SumsUpTo ==
    ASSUME NEW S, IsFiniteSet(S), \A e \in S: e.llr \in Int, NEW n \in Nat
    PROVE  \E f \in [SUBSET S -> Int]: \A s \in SUBSET S: Cardinality(s) <= n => AddsUp(f, s)
<1> DEFINE Level(k) == \E f \in [SUBSET S -> Int]: \A s \in SUBSET S: Cardinality(s) <= k => AddsUp(f, s)
           Bad == {k \in Nat: ~Level(k)}
<1> SUFFICES ASSUME n \in Bad PROVE FALSE
    OBVIOUS
<1>1. PICK k \in Nat: ~Level(k) /\ \A j \in Nat: ~Level(j) => k <= j
    <2> HIDE DEF Level
    <2>1. Bad \in SUBSET Nat /\ Bad # {}
        OBVIOUS
    <2>2. PICK k \in Bad: \A j \in Bad: k <= j
        <3> HIDE DEF Bad
        <3> QED BY <2>1, LeastExists
    <2> QED BY <2>2
<1>2. ASSUME NEW s \in SUBSET S
      PROVE  /\ Cardinality(s) \in Nat
             /\ Cardinality(s) = 0 <=> s = {}
             /\ s # {} => Chosen(s) \in s /\ Cardinality(s \ {Chosen(s)}) = Cardinality(s) - 1
    <2>1. IsFiniteSet(s)
        BY FS_Subset
    <2>2. s # {} => Chosen(s) \in s
        BY DEF Chosen
    <2> QED BY <2>1, <2>2, FS_CardinalityType, FS_EmptySet, FS_RemoveElement
<1>3. PICK f \in [SUBSET S -> Int]: \A s \in SUBSET S: Cardinality(s) < k => AddsUp(f, s)
    <2>1. CASE k = 0
        <3>1. [s \in SUBSET S |-> 0] \in [SUBSET S -> Int]
            OBVIOUS
        <3>2. ASSUME NEW s \in SUBSET S PROVE ~(Cardinality(s) < k)
            <4>1. Cardinality(s) \in Nat
                BY <1>2
            <4> QED BY <2>1, <4>1
        <3> QED BY <3>1, <3>2
    <2>2. CASE k # 0
        <3>1. k - 1 \in Nat /\ Level(k - 1)
            <4> HIDE DEF Level
            <4> QED BY <1>1, <2>2
        <3>2. PICK f \in [SUBSET S -> Int]: \A s \in SUBSET S: Cardinality(s) <= k - 1 => AddsUp(f, s)
            BY <3>1
        <3>3. ASSUME NEW s \in SUBSET S, Cardinality(s) < k PROVE Cardinality(s) <= k - 1
            <4>1. Cardinality(s) \in Nat
                BY <1>2
            <4> QED BY <3>3, <4>1
        <3> QED BY <3>2, <3>3
    <2> QED BY <2>1, <2>2
<1> DEFINE Next1(s) == IF s = {} THEN 0 ELSE Chosen(s).llr + f[s \ {Chosen(s)}]
           g == [s \in SUBSET S |-> IF Cardinality(s) < k THEN f[s] ELSE Next1(s)]
<1>4. \A s \in SUBSET S: Next1(s) \in Int
    <2> SUFFICES ASSUME NEW s \in SUBSET S, s # {} PROVE Chosen(s).llr + f[s \ {Chosen(s)}] \in Int
        OBVIOUS
    <2>1. Chosen(s).llr \in Int /\ s \ {Chosen(s)} \in SUBSET S
        BY <1>2
    <2>2. f[s \ {Chosen(s)}] \in Int
        BY <1>3, <2>1
    <2> QED BY <2>1, <2>2
<1>5. g \in [SUBSET S -> Int]
    <2> HIDE DEF Next1
    <2> QED BY <1>3, <1>4
<1>6. ASSUME NEW s \in SUBSET S, Cardinality(s) <= k
      PROVE  AddsUp(g, s)
    <2>1. g[s] = Next1(s)
        <3>1. Cardinality(s) < k => f[s] = Next1(s)
            BY <1>3 DEF AddsUp
        <3> HIDE DEF Next1
        <3> QED BY <3>1
    <2>2. CASE s = {}
        BY <2>1, <2>2 DEF AddsUp
    <2>3. CASE s # {}
        <3>1. s \ {Chosen(s)} \in SUBSET S /\ Cardinality(s \ {Chosen(s)}) < k
            BY <1>1, <1>2, <1>6, <2>3
        <3>2. g[s \ {Chosen(s)}] = f[s \ {Chosen(s)}]
            <4> HIDE DEF Next1
            <4> QED BY <3>1
        <3> HIDE DEF g
        <3> QED BY <2>1, <2>3, <3>2 DEF AddsUp
    <2> QED BY <2>2, <2>3
<1>7. Level(k)
    <2> HIDE DEF g
    <2> QED BY <1>5, <1>6
<1> QED BY <1>1, <1>7

(* So the sums of a finite set are what they should be.                    *)
LEMMA SumsAddUp ==
    ASSUME NEW S, IsFiniteSet(S), \A e \in S: e.llr \in Int
    PROVE  \A s \in SUBSET S: AddsUp(Sums(S), s)
<1> DEFINE Fix(f) == [s \in SUBSET S |-> IF s = {} THEN 0 ELSE Chosen(s).llr + f[s \ {Chosen(s)}]]
<1>1. Cardinality(S) \in Nat /\ \A s \in SUBSET S: Cardinality(s) <= Cardinality(S)
    BY FS_CardinalityType, FS_Subset
<1>2. PICK f \in [SUBSET S -> Int]: \A s \in SUBSET S: Cardinality(s) <= Cardinality(S) => AddsUp(f, s)
    BY <1>1, SumsUpTo
<1>3. f = Fix(f)
    BY <1>1, <1>2 DEF AddsUp
<1>4. Sums(S) = Fix(Sums(S))
    BY <1>3 DEF Sums
<1> QED BY <1>4 DEF AddsUp

(* What entries against a candidate can be at most: one of them 25, none   *)
(* at most 0, whatever speaks for the candidate.                           *)
Bounded(w) == IsFiniteSet(w) /\ \A e \in w: e.llr \in Int /\ e.llr <= 25
None(s) == \A e \in s: ~(e.llr > 0)
One(s, a) == \A e \in s: e.llr > 0 => e = a
Within(v, s) == v \in Int /\ (None(s) => v <= 0) /\ \A a: One(s, a) => v <= 25

(* The sum of a bounded window is within those limits: a smallest set for  *)
(* which it is not would have a part for which it is not.                  *)
LEMMA SumWithin ==
    ASSUME NEW w, Bounded(w)
    PROVE  Within(LLRs(w), w)
<1> DEFINE Bad == {s \in SUBSET w: ~Within(Sums(w)[s], s)}
<1>1. IsFiniteSet(w) /\ \A e \in w: e.llr \in Int /\ e.llr <= 25
    BY DEF Bounded
<1>2. \A s \in SUBSET w: AddsUp(Sums(w), s)
    BY <1>1, SumsAddUp
<1> SUFFICES ASSUME Bad # {} PROVE FALSE
    <2>1. w \in SUBSET w
        OBVIOUS
    <2> QED BY <2>1, FoldIsSum
<1>3. Bad \subseteq FiniteSubsetsOf(w)
    BY <1>1, FS_FiniteSubsetsOfFinite
<1>4. IsWellFoundedOn(StrictSubsetOrdering(w), FiniteSubsetsOf(w))
    BY <1>1, FS_StrictSubsetOrderingWellFounded
<1>5. PICK s \in Bad: \A u \in Bad: <<u, s>> \notin StrictSubsetOrdering(w)
    <2> HIDE DEF Bad
    <2> QED BY <1>3, <1>4, WFMin
<1> DEFINE x == Chosen(s)
           rest == s \ {x}
           v == Sums(w)[rest]
<1>6. s \in SUBSET w /\ ~Within(Sums(w)[s], s)
    OBVIOUS
<1>7. s # {}
    <2> SUFFICES ASSUME s = {} PROVE FALSE
        OBVIOUS
    <2>1. Sums(w)[s] = 0
        BY <1>2, <1>6 DEF AddsUp
    <2> QED BY <1>6, <2>1 DEF Within
<1>8. x \in s /\ rest \in SUBSET w /\ Sums(w)[s] = x.llr + v
    <2>1. x \in s
        BY <1>7 DEF Chosen
    <2>2. Sums(w)[s] = x.llr + v
        BY <1>2, <1>6, <1>7 DEF AddsUp
    <2> QED BY <1>6, <2>1, <2>2
<1>9. Within(v, rest)
    <2>1. <<rest, s>> \in StrictSubsetOrdering(w)
        <3> HIDE DEF x
        <3> QED BY <1>6, <1>8 DEF StrictSubsetOrdering
    <2>2. rest \notin Bad
        BY <1>5, <2>1
    <2> QED BY <1>8, <2>2
<1>10. x.llr \in Int /\ x.llr <= 25 /\ v \in Int
    BY <1>1, <1>6, <1>8, <1>9 DEF Within
<1> HIDE DEF x, v, Bad
<1>11. None(s) => x.llr + v <= 0
    <2>1. None(s) => None(rest) /\ ~(x.llr > 0)
        BY <1>8 DEF None
    <2> QED BY <1>9, <1>10, <2>1 DEF Within
<1>12. ASSUME NEW a, One(s, a) PROVE x.llr + v <= 25
    <2>1. CASE x.llr > 0
        <3>1. None(rest)
            BY <1>8, <1>12, <2>1 DEF One, None
        <3> QED BY <1>9, <1>10, <3>1 DEF Within
    <2>2. CASE ~(x.llr > 0)
        <3>1. One(rest, a)
            BY <1>12 DEF One
        <3> QED BY <1>9, <1>10, <2>2, <3>1 DEF Within
    <2> QED BY <2>1, <2>2
<1> QED BY <1>6, <1>8, <1>10, <1>11, <1>12 DEF Within

(* A part of a bounded window is bounded.                                  *)
LEMMA PartBounded ==
    ASSUME NEW w, Bounded(w), NEW u \in SUBSET w
    PROVE  Bounded(u)
BY FS_Subset DEF Bounded

(* What poor images count against the candidate is capped.                 *)
LEMMA CapWorks ==
    ASSUME NEW v \in Int
    PROVE  LET low == Min({MaxPoorEvidence, v}) IN low \in Int /\ low <= 16 /\ low <= v
<1>1. \E m \in {16, v}: \A y \in {16, v}: m <= y
    <2>1. CASE v <= 16
        BY <2>1
    <2>2. CASE ~(v <= 16)
        BY <2>2
    <2> QED BY <2>1, <2>2
<1> QED BY <1>1 DEF Min, MaxPoorEvidence

(* So a bounded window has a sum.                                          *)
LEMMA WindowSumIsInt ==
    ASSUME NEW w, Bounded(w)
    PROVE  WindowSum(w) \in Int
<1> DEFINE P == PoorPositive(w)
<1>1. Bounded(P) /\ Bounded(w \ P)
    BY PartBounded DEF PoorPositive
<1>2. LLRs(P) \in Int /\ LLRs(w \ P) \in Int
    BY <1>1, SumWithin DEF Within
<1> QED BY <1>2, CapWorks DEF WindowSum

(* Two entries speak against the candidate, and one of them is not from a  *)
(* poor image.                                                             *)
Founded(w) ==
    LET against == {e \in w: e.llr > 0}
    IN  Cardinality(against) >= 2 /\ \E e \in against: e.bucket # "poor"

(* A bounded window that confirms is that.                                 *)
LEMMA ConfirmIsFounded ==
    ASSUME NEW w, Bounded(w), WindowSum(w) >= Confirm
    PROVE  Founded(w)
<1> DEFINE P == PoorPositive(w)
           R == w \ P
           against == {e \in w: e.llr > 0}
           low == Min({MaxPoorEvidence, LLRs(P)})
<1>1. Bounded(P) /\ Bounded(R) /\ P = {e \in w: e.bucket = "poor" /\ e.llr > 0}
    <2>1. P \in SUBSET w /\ R \in SUBSET w
        BY DEF PoorPositive
    <2> QED BY <2>1, PartBounded DEF PoorPositive
<1>2. Within(LLRs(P), P) /\ Within(LLRs(R), R)
    BY <1>1, SumWithin
<1>3. low \in Int /\ low <= 16 /\ low <= LLRs(P)
    <2>1. LLRs(P) \in Int
        BY <1>2 DEF Within
    <2> HIDE DEF P
    <2> QED BY <2>1, CapWorks
<1>4. LLRs(R) \in Int /\ LLRs(R) + low >= 28
    BY <1>2 DEF Within, WindowSum, Confirm
<1> HIDE DEF low
<1>5. ~None(R)
    BY <1>2, <1>3, <1>4 DEF Within
<1>6. ASSUME NEW a, One(w, a) PROVE FALSE
    <2>1. a \in R /\ a.llr > 0
        BY <1>1, <1>5, <1>6 DEF None, One
    <2>2. None(P)
        BY <1>1, <1>6, <2>1 DEF None, One
    <2>3. One(R, a)
        BY <1>6 DEF One
    <2> QED BY <1>2, <1>3, <1>4, <2>2, <2>3 DEF Within
<1>7. \E e \in against: e.bucket # "poor"
    BY <1>1, <1>5 DEF None
<1>8. Cardinality(against) >= 2
    <2>1. IsFiniteSet(against)
        BY FS_Subset DEF Bounded
    <2>2. Cardinality(against) \in Nat
        BY <2>1, FS_CardinalityType
    <2>3. Cardinality(against) # 0
        BY <1>7, <2>1, FS_EmptySet
    <2>4. Cardinality(against) # 1
        <3> SUFFICES ASSUME Cardinality(against) = 1 PROVE FALSE
            OBVIOUS
        <3>1. PICK a: against = {a}
            BY <2>1, FS_Singleton
        <3>2. One(w, a)
            BY <3>1 DEF One
        <3> QED BY <1>6, <3>2
    <2> HIDE DEF against
    <2> QED BY <2>2, <2>3, <2>4
<1> QED BY <1>7, <1>8 DEF Founded

(* What a sample weighs: at a break a quarter more counts against the      *)
(* candidate, and that is the most.                                        *)
LEMMA WeightBounded ==
    ASSUME NEW look \in Looks, NEW break
    PROVE  LET llr == IF break /\ look.llr > 0 THEN (look.llr * 5) \div 4 ELSE look.llr
           IN  llr \in Int /\ llr <= 25
<1>1. look.llr \in -20..20
    BY LooksAssumption
<1>2. (look.llr * 5) \div 4 \in Int /\ (look.llr * 5) \div 4 <= 25
    BY <1>1
<1> QED BY <1>1, <1>2

(* One sample more keeps the window bounded; evidence that is newly        *)
(* confirmed is confirmed by the window kept with it.                      *)
LEMMA AccumulateConfirms ==
    ASSUME NEW st, NEW n, NEW look \in Looks, Formed(st), Bounded(st.window)
    PROVE  LET a == Accumulate(st, n, look)
           IN  /\ Bounded(a.window)
               /\ st.state # "confirmed_mismatch" /\ a.state = "confirmed_mismatch"
                      => WindowSum(a.window) >= Confirm
<1> DEFINE inOrder == \A e \in st.window: e.n < n
           break == n \in Breaks /\ inOrder
           llr == IF break /\ look.llr > 0 THEN (look.llr * 5) \div 4 ELSE look.llr
           before == IF break THEN {e \in st.window: e.llr > 0} ELSE st.window
           new == [n |-> n, llr |-> llr, bucket |-> look.bucket]
           window == Newest(before \cup {new})
           a == Accumulate(st, n, look)
<1>1. llr \in Int /\ llr <= 25
    BY WeightBounded
<1>2. Bounded(window)
    <2> HIDE DEF llr
    <2>1. before \in SUBSET st.window
        OBVIOUS
    <2>2. Bounded(before)
        BY <2>1, PartBounded
    <2>3. new.llr = llr
        OBVIOUS
    <2> HIDE DEF before, new
    <2>4. Bounded(before \cup {new})
        BY <1>1, <2>2, <2>3, FS_AddElement DEF Bounded
    <2>5. window \in SUBSET (before \cup {new})
        BY DEF Newest
    <2> QED BY <2>4, <2>5, PartBounded
<1>3. Bounded({})
    BY FS_EmptySet DEF Bounded
<1>4. /\ a.window \in {st.window, window, {}}
      /\ st.state # "confirmed_mismatch" /\ a.state = "confirmed_mismatch"
             => a.window = window /\ WindowSum(window) >= Confirm
    <2>1. look.usable \in BOOLEAN
        BY LooksAssumption
    <2> QED BY <2>1, FieldNames DEF Accumulate, Formed
<1> HIDE DEF a, window
<1> QED BY <1>2, <1>3, <1>4 DEF a

(* What is noted besides leaves the window as it is, and so does a reset   *)
(* of the events; the counters' reset empties it.                          *)
LEMMA WindowKept ==
    ASSUME NEW st, NEW n, NEW look, Formed(st)
    PROVE  /\ FeedChecked(st, n).window = st.window
           /\ UnverifiableNoted(st, look).window = st.window
           /\ PoorLightNoted(st).window = st.window
           /\ CloseOpenEvents(st).window = st.window
           /\ ResetIdentityCounters(st).window = {}
<1>1. CloseOpenEvents(st).window = st.window /\ ResetIdentityCounters(st).window = {}
    BY FieldNames DEF CloseOpenEvents, ResetIdentityCounters, With, NoEvidence, NoEvents, Formed, Fields
<1> QED BY <1>1, FieldNames DEF FeedChecked, UnverifiableNoted, PoorLightNoted, Formed

(* So does the gate, whatever it answers.                                  *)
LEMMA GateKeepsWindow ==
    ASSUME NEW st, NEW n, NEW gate \in SwapGate(st), Formed(st)
    PROVE  Gated(st, n, gate).window = st.window
<1>1. gate \in {"request", "pending", "proceed"}
    BY DEF SwapGate
<1> QED BY <1>1, FieldNames DEF Gated, Formed

(* The window is bounded, and the latest alarm was founded when raised.    *)
Rests == Formed(id) /\ Bounded(id.window) /\ (alarm # {} => Founded(alarm))

(* Raising a confirmed window makes an alarm that is founded.              *)
LEMMA RaiseRests ==
    ASSUME Rests, NEW st, NEW bursts, NEW frames, Formed(st), Bounded(st.window),
           st.mismatch /\ ~id.mismatch => WindowSum(st.window) >= Confirm,
           Raise(st, bursts, frames)
    PROVE  Rests'
<1>1. alarm' # {} => Founded(alarm')
    <2>1. CASE st.mismatch /\ ~id.mismatch
        <3>1. alarm' = st.window
            BY <2>1 DEF Raise
        <3> QED BY <2>1, <3>1, ConfirmIsFounded
    <2>2. CASE ~(st.mismatch /\ ~id.mismatch)
        BY <2>2 DEF Raise, Rests
    <2> QED BY <2>1, <2>2
<1>2. Formed(id') /\ Bounded(id'.window)
    <2> DEFINE r == ResetIdentityCounters(CloseOpenEvents(st))
    <2>1. Formed(CloseOpenEvents(st))
        BY ResetFormed
    <2>2. Formed(r) /\ r.window = {}
        BY <2>1, ResetFormed, WindowKept
    <2> HIDE DEF r
    <2>3. Bounded(r.window)
        BY <2>2, FS_EmptySet DEF Bounded
    <2>4. id' \in {r, st}
        BY DEF Raise, r
    <2> QED BY <2>2, <2>3, <2>4
<1> QED BY <1>1, <1>2 DEF Rests, Formed, Bounded, Founded

(* A counted sample raises an alarm only with the window that confirmed.   *)
LEMMA ApplyEvidenceRests ==
    ASSUME Rests, NEW n, NEW look \in Looks, NEW bursts, NEW frames,
           ApplyEvidence(n, look, bursts, frames)
    PROVE  Rests'
<1> DEFINE quiet == [id EXCEPT !.noSamples = FALSE]
           seen == FeedChecked(quiet, n)
           a == Accumulate(seen, n, look)
           added == UnverifiableNoted(a, look)
           confirmed == added.state = "confirmed_mismatch" /\ id.state # "confirmed_mismatch"
           recovered == added.state = "consistent" /\ id.state = "confirmed_mismatch"
<1>1. /\ Formed(quiet) /\ quiet.mismatch = id.mismatch /\ quiet.state = id.state
      /\ Bounded(quiet.window)
    BY FieldNames DEF Rests, Formed
<1> HIDE DEF quiet
<1>2. /\ Formed(seen) /\ seen.mismatch = id.mismatch /\ seen.state = id.state
      /\ Bounded(seen.window)
    BY <1>1, FeedFormed, WindowKept
<1> HIDE DEF seen
<1>3. /\ Formed(a) /\ a.mismatch = id.mismatch /\ Bounded(a.window)
      /\ id.state # "confirmed_mismatch" /\ a.state = "confirmed_mismatch" => WindowSum(a.window) >= Confirm
    <2>1. look.usable \in BOOLEAN
        BY LooksAssumption
    <2>2. Formed(a) /\ a.mismatch = id.mismatch
        BY <1>2, <2>1, AccumulateFormed
    <2> QED BY <1>2, <2>2, AccumulateConfirms
<1> HIDE DEF a
<1>4. /\ Formed(added) /\ added.mismatch = id.mismatch /\ Bounded(added.window)
      /\ confirmed => WindowSum(added.window) >= Confirm
    <2>1. Formed(added) /\ added.mismatch = a.mismatch /\ added.state = a.state /\ added.window = a.window
        BY <1>3, NotedFormed, WindowKept
    <2> HIDE DEF added
    <2> QED BY <1>3, <2>1
<1> HIDE DEF added
<1>5. CASE /\ confirmed
           /\ \E gate \in SwapGate(added): Raise(PoorLightNoted(Gated(added, n, gate)), bursts, frames)
    <2>1. PICK gate \in SwapGate(added): Raise(PoorLightNoted(Gated(added, n, gate)), bursts, frames)
        BY <1>5
    <2> DEFINE g == Gated(added, n, gate)
    <2>2. Formed(g) /\ g.window = added.window
        BY <1>4, GatedFormed, GateKeepsWindow
    <2> HIDE DEF g
    <2>3. Formed(PoorLightNoted(g)) /\ PoorLightNoted(g).window = added.window
        BY <2>2, NotedFormed, WindowKept
    <2>4. WindowSum(PoorLightNoted(g).window) >= Confirm
        BY <1>4, <1>5, <2>3
    <2> QED BY <1>4, <2>1, <2>3, <2>4, RaiseRests DEF g
<1>6. CASE Raise(PoorLightNoted([added EXCEPT !.mismatch = @ /\ ~recovered]), bursts, frames)
    <2> DEFINE k == [added EXCEPT !.mismatch = @ /\ ~recovered]
    <2>1. Formed(k) /\ k.window = added.window /\ (k.mismatch => id.mismatch)
        BY <1>4, FieldNames DEF Formed
    <2>2. Raise(PoorLightNoted(k), bursts, frames)
        BY <1>6
    <2> HIDE DEF k
    <2>3. /\ Formed(PoorLightNoted(k)) /\ PoorLightNoted(k).window = added.window
          /\ PoorLightNoted(k).mismatch = k.mismatch
        BY <2>1, NotedFormed, WindowKept
    <2> QED BY <1>4, <2>1, <2>2, <2>3, RaiseRests
<1> QED BY <1>5, <1>6, Zenon DEF ApplyEvidence, quiet, seen, a, added

(* Initially there is no alarm.                                            *)
LEMMA InitRests == Init => Rests
<1> SUFFICES ASSUME Init PROVE Rests
    OBVIOUS
<1>1. Formed(id)
    BY InitActed DEF Acted
<1>2. id.window = {} /\ alarm = {}
    BY FieldNames DEF Init, With, NoEvidence, NoEvents, Fields
<1> QED BY <1>1, <1>2, FS_EmptySet DEF Rests, Bounded

(* What the session's handlers do empties the window or leaves it.         *)
LEMMA SessionStepRests ==
    ASSUME Rests, Formed(id)', SessionStep
    PROVE  Rests'
<1>1. alarm' = alarm
    BY DEF SessionStep, PauseNow, HoldNow, Continue, Reconnect, FinalizeSession, ReopenSession,
           RecordNoSamples, NewPeriod
<1>2. Formed(id)
    BY DEF Rests
<1>3. id'.window \in {id.window, {}}
    <2>1. CASE PauseNow \/ HoldNow
        <3>1. id' = ResetIdentityCounters(CloseOpenEvents(id))
            BY <2>1 DEF PauseNow, HoldNow, NewPeriod
        <3>2. Formed(CloseOpenEvents(id))
            BY <1>2, ResetFormed
        <3> QED BY <3>1, <3>2, WindowKept
    <2>2. CASE Continue \/ Reconnect
        <3> DEFINE st == [id EXCEPT !.unverifiable = FALSE]
        <3>1. id' = ResetIdentityCounters(st)
            BY <2>2 DEF Continue, Reconnect, NewPeriod
        <3>2. Formed(st)
            BY <1>2, FieldNames DEF Formed
        <3> HIDE DEF st
        <3> QED BY <3>1, <3>2, WindowKept
    <2>3. CASE FinalizeSession \/ ReopenSession
        <3>1. id' \in {CloseOpenEvents(id), ResetIdentityCounters(id)}
            BY <2>3 DEF FinalizeSession, ReopenSession, NewPeriod
        <3> QED BY <1>2, <3>1, WindowKept
    <2>4. CASE RecordNoSamples
        BY <1>2, <2>4, FieldNames DEF RecordNoSamples, Formed
    <2> QED BY <2>1, <2>2, <2>3, <2>4 DEF SessionStep
<1>4. Bounded(id'.window)
    BY <1>3, FS_EmptySet DEF Rests, Bounded
<1> QED BY <1>1, <1>4 DEF Rests, Formed, Bounded, Founded

(* Every step of a sample keeps that, the opinion's answer too.            *)
LEMMA SampleStepRests ==
    ASSUME Rests, NEW n \in Samples, SampleStep(n)
    PROVE  Rests'
<1>1. CASE id' = id /\ alarm' = alarm
    BY <1>1 DEF Rests, Formed, Bounded, Founded
<1>2. CASE Take(n) \/ ReadForOpinion(n) \/ OpinionLost(n)
    BY <1>1, <1>2 DEF Take, ReadForOpinion, OpinionLost
<1>3. CASE RecordSample(n)
    BY <1>1, <1>3 DEF RecordSample
<1>4. CASE CountSample(n)
    BY <1>4, ApplyEvidenceRests DEF CountSample
<1>5. CASE DecideStaleBurst(n)
    BY <1>4, <1>5 DEF DecideStaleBurst
<1>6. CASE \E i \in 1..Size: ProcessSample(n, i)
    <2>1. \/ id' = id /\ alarm' = alarm
          \/ \E recordOnly \in LateSample(n): Decide(n, recordOnly)
        BY <1>6, Zenon DEF ProcessSample
    <2> QED BY <1>1, <1>3, <1>4, <2>1 DEF Decide
<1>7. CASE ApplyOpinion(n)
    <2> DEFINE st == [id EXCEPT !.asked = 0]
               yes == [st EXCEPT !.state = "confirmed_mismatch", !.clears = 0, !.mismatch = TRUE]
               no == [st EXCEPT !.state = "monitoring", !.window = {}, !.clears = 0,
                                !.veto = TRUE, !.unverifiable = TRUE]
    <2>1. Formed(st) /\ st.window = id.window /\ st.mismatch = id.mismatch
        BY FieldNames DEF Rests, Formed
    <2>2. Formed(yes) /\ yes.window = id.window
        BY <2>1, FieldNames DEF Formed
    <2>3. Formed(no) /\ no.window = {} /\ no.mismatch = id.mismatch
        BY <2>1, FieldNames DEF Formed
    <2>4. \/ id' = id /\ alarm' = alarm
          \/ id' = st /\ alarm' = alarm
          \/ /\ ~(WindowSum(id.window) < Confirm)
             /\ Raise(yes, pending, embeddings) \/ Raise(no, pending, embeddings)
        BY <1>7 DEF ApplyOpinion
    <2> HIDE DEF st, yes, no
    <2>5. Bounded(id.window) /\ Bounded({})
        BY FS_EmptySet DEF Rests, Bounded
    <2>6. CASE id' = st /\ alarm' = alarm
        BY <2>1, <2>5, <2>6 DEF Rests, Formed, Bounded, Founded
    <2>7. CASE ~(WindowSum(id.window) < Confirm) /\ Raise(yes, pending, embeddings)
        <3>1. WindowSum(yes.window) >= Confirm
            <4>1. WindowSum(id.window) \in Int
                BY <2>5, WindowSumIsInt
            <4> QED BY <2>2, <2>7, <4>1 DEF Confirm
        <3> QED BY <2>2, <2>5, <2>7, <3>1, RaiseRests
    <2>8. CASE Raise(no, pending, embeddings)
        BY <2>3, <2>5, <2>8, RaiseRests
    <2> QED BY <1>1, <2>4, <2>6, <2>7, <2>8
<1> QED BY <1>2, <1>5, <1>6, <1>7 DEF SampleStep

(* However the samples are ordered, wherever the breaks fall and whatever  *)
(* the second opinion says: an alarm rests on two samples that speak for a *)
(* different person, one of them in fair or good light (windowSum,         *)
(* applyEvidence, resolveSwapSecondOpinion).                               *)
THEOREM AlarmIsFounded == Spec => []AlarmFounded
<1>1. Rests /\ Acted /\ [Next]_vars => Rests' /\ Acted'
    <2>1. CASE UNCHANGED vars
        BY <2>1 DEF vars, Rests, Acted, Formed, Bounded, Founded
    <2>2. ASSUME Rests, Acted, Next PROVE Rests' /\ Acted'
        <3>1. Acted'
            BY <2>2, SessionStepActed, SampleStepActed DEF Next
        <3>2. Formed(id)'
            BY <3>1 DEF Acted
        <3> QED BY <2>2, <3>1, <3>2, SessionStepRests, SampleStepRests DEF Next
    <2> QED BY <2>1, <2>2
<1>2. Rests => AlarmFounded
    BY DEF Rests, AlarmFounded, Founded
<1> QED BY <1>1, <1>2, InitActed, InitRests, PTL DEF Spec
=============================================================================
