----------------------- MODULE SessionControl_proofs -----------------------
(***************************************************************************)
(* Proofs about SessionControl, for every set of browsers, every set of    *)
(* exam rules and every limit.  The operations on the session row are      *)
(* treated one by one (what each returns for a row that is in order), then *)
(* every action of the specification as a use of them.                     *)
(***************************************************************************)
EXTENDS SessionLifecycle, TLAPS

(* A row of the right type whose open period and clock fit its status.     *)
InOrder(s) == s \in SessionSet /\ PeriodFits(s) /\ ClockFits(s)

(* Any row of the right type that has not ended can be put on hold, and is *)
(* in order then, whatever its period and clock were (holdNow).            *)
LEMMA HoldNowInOrder ==
    ASSUME NEW s \in SessionSet, ~Ended(s), NEW r \in HoldReasons
    PROVE  InOrder(HoldNow(s, r))
<1>1. HoldNow(s, r) \in SessionSet
  BY DEF HoldNow, SessionSet, PrevOnHold, Ended, Terminal, Statuses, OpenPeriods
<1>2. /\ HoldNow(s, r).status = "on_hold"
      /\ HoldNow(s, r).period = "on_hold"
      /\ HoldNow(s, r).running = FALSE
  BY DEF HoldNow, SessionSet
<1>3. QED BY <1>1, <1>2 DEF InOrder, PeriodFits, ClockFits

(* Ending leaves a row in order in order (finalizeSession).                *)
LEMMA FinalizeInOrder ==
    ASSUME NEW s, InOrder(s), NEW r \in EndReasons
    PROVE  InOrder(FinalizeSession(s, r))
<1>1. CASE Ended(s) BY <1>1 DEF FinalizeSession
<1>2. CASE ~Ended(s)
  <2> DEFINE scored == s.started /\ r \notin {"abandoned", "candidate_withdrew"}
             t == [s EXCEPT !.status = EndStatus(r), !.endReason = r, !.canReverify = FALSE,
                            !.running = FALSE, !.period = "none", !.pauseRequests = 0]
  <2>1. s \in SessionSet /\ scored \in BOOLEAN BY DEF InOrder
  <2>2. EndStatus(r) \in Terminal BY DEF EndStatus, Terminal
  <2>3. t \in SessionSet
    BY <2>1, <2>2 DEF SessionSet, OpenPeriods, Terminal, Statuses
  <2>4. FinalizeSession(s, r) = [t EXCEPT !.scored = scored]
    BY <1>2 DEF FinalizeSession
  <2>5. t.status \in Terminal /\ t.period = "none" /\ t.running = FALSE
    BY <2>1, <2>2 DEF SessionSet
  <2> HIDE DEF t, scored
  <2>6. FinalizeSession(s, r) \in SessionSet BY <2>1, <2>3, <2>4 DEF SessionSet
  <2>7. /\ FinalizeSession(s, r).status \in Terminal
        /\ FinalizeSession(s, r).period = "none"
        /\ FinalizeSession(s, r).running = FALSE
    BY <2>3, <2>4, <2>5 DEF SessionSet
  <2> QED BY <2>6, <2>7 DEF InOrder, PeriodFits, ClockFits, Terminal
<1> QED BY <1>1, <1>2

(* Starting opens an active period and starts the clock (startExam).       *)
LEMMA StartExamInOrder ==
    ASSUME NEW s \in SessionSet
    PROVE  InOrder(StartExam(s))
<1>1. StartExam(s) \in SessionSet
  BY DEF StartExam, SessionSet, Statuses, OpenPeriods
<1>2. StartExam(s).status = "active" /\ StartExam(s).period = "active"
  BY DEF StartExam, SessionSet
<1> QED BY <1>1, <1>2 DEF InOrder, PeriodFits, ClockFits

(* Continuing opens an active period and starts the clock.                 *)
LEMMA ContinueInOrder ==
    ASSUME NEW s \in SessionSet
    PROVE  InOrder(Continue(s))
<1>1. Continue(s) \in SessionSet
  BY DEF Continue, SessionSet, Statuses, OpenPeriods
<1>2. Continue(s).status = "active" /\ Continue(s).period = "active"
  BY DEF Continue, SessionSet
<1> QED BY <1>1, <1>2 DEF InOrder, PeriodFits, ClockFits

(* The empty count of failed attempts.                                     *)
LEMMA NoFailuresType == NoFailures \in [Purposes -> Nat]
BY DEF NoFailures

(* A pause opens its period and leaves the clock as the rules say          *)
(* (pauseNow).                                                             *)
LEMMA PauseNowInOrder ==
    ASSUME NEW s \in SessionSet
    PROVE  InOrder(PauseNow(s))
<1> DEFINE runs == policy.pauseTimer = "continue"
           t == [s EXCEPT !.status = "paused", !.period = "paused", !.pauses = @ + 1, !.failed = NoFailures]
<1>1. runs \in BOOLEAN OBVIOUS
<1>2. t \in SessionSet /\ t.status = "paused" /\ t.period = "paused"
  <2>1. NoFailures \in [Purposes -> Nat] BY NoFailuresType
  <2>2. s.pauses + 1 \in Nat BY DEF SessionSet
  <2> QED BY <2>1, <2>2 DEF SessionSet, Statuses, OpenPeriods
<1>3. PauseNow(s) = [t EXCEPT !.running = runs] BY DEF PauseNow
<1> HIDE DEF t, runs
<1>4. PauseNow(s) \in SessionSet BY <1>1, <1>2, <1>3 DEF SessionSet
<1>5. PauseNow(s).status = "paused" /\ PauseNow(s).period = "paused" /\ PauseNow(s).running = runs
  BY <1>1, <1>2, <1>3 DEF SessionSet
<1> QED BY <1>4, <1>5 DEF InOrder, PeriodFits, ClockFits, runs

(* Clearing a hold touches the hold's own fields only (clearedHold).       *)
LEMMA ClearedHoldType ==
    ASSUME NEW s \in SessionSet
    PROVE  /\ ClearedHold(s) \in SessionSet
           /\ \A f \in DOMAIN s \ {"holdReason", "canReverify", "holdPrev", "reEnroll"} :
                 ClearedHold(s)[f] = s[f]
BY DEF ClearedHold, SessionSet, HoldReasons

(* The resume policy holds or ends the exam (applyResumeLimit).            *)
LEMMA ApplyResumeLimitInOrder ==
    ASSUME NEW s, InOrder(s), ~Ended(s)
    PROVE  InOrder(ApplyResumeLimit(s))
BY HoldNowInOrder, FinalizeInOrder DEF ApplyResumeLimit, InOrder, HoldReasons, EndReasons

-----------------------------------------------------------------------------
(***************************************************************************)
(* Outcomes of checks.                                                     *)
(***************************************************************************)

(* Attempts are counted in natural numbers of halves.                      *)
LEMMA AttemptWeights == FullAttempt \in Nat /\ QualityAttempt \in Nat
BY DEF FullAttempt, QualityAttempt

(* A failed attempt only counts, or holds (retryOrHold).                   *)
LEMMA RetryOrHoldInOrder ==
    ASSUME NEW s, InOrder(s), ~Ended(s), NEW c \in CheckSet, NEW w \in Nat
    PROVE  InOrder(RetryOrHold(s, c, w))
<1> DEFINE h == HoldNow(s, "review")
           used == s.failed[c.purpose] + w
<1>1. s \in SessionSet /\ InOrder(h) /\ h \in SessionSet
  BY HoldNowInOrder DEF HoldReasons, InOrder
<1>2. c.inst \in Instances /\ c.purpose \in Purposes BY DEF CheckSet
<1>3. used \in Nat BY <1>1, <1>2 DEF SessionSet
<1>4. InOrder([s EXCEPT !.failed[c.purpose] = used])
  <2> HIDE DEF used
  <2> QED BY <1>1, <1>2, <1>3 DEF SessionSet, InOrder, PeriodFits, ClockFits
<1>5. ASSUME NEW v \in Instances \cup {NoInstance}
      PROVE  InOrder([h EXCEPT !.verified = v])
  <2> HIDE DEF h
  <2> QED BY <1>1 DEF SessionSet, InOrder, PeriodFits, ClockFits
<1>6. h.verified \in Instances \cup {NoInstance} BY <1>1 DEF SessionSet
<1> HIDE DEF h
<1> QED BY <1>2, <1>4, <1>5, <1>6 DEF RetryOrHold, h

(* An abandoned check only counts, or holds (settleAbandoned).             *)
LEMMA SettleAbandonedInOrder ==
    ASSUME NEW s, InOrder(s), NEW c \in CheckSet, NEW t \in SettleAbandoned(s, c)
    PROVE  InOrder(t)
<1> DEFINE used == s.failed[c.purpose] + FullAttempt
           counted == IF c.counted THEN [s EXCEPT !.failed[c.purpose] = used] ELSE s
<1>1. s \in SessionSet BY DEF InOrder
<1>2. c.purpose \in Purposes BY DEF CheckSet
<1>3. used \in Nat BY <1>1, <1>2, AttemptWeights DEF SessionSet
<1>4. InOrder(counted) /\ counted.status = s.status
  <2> HIDE DEF used
  <2> QED BY <1>1, <1>2, <1>3 DEF SessionSet, InOrder, PeriodFits, ClockFits
<1>5. ~Ended(s) => InOrder(HoldNow(counted, "review"))
  <2> HIDE DEF counted
  <2> QED BY <1>4, HoldNowInOrder DEF InOrder, HoldReasons, Ended
<1>6. s.status \in {"ready", "active", "paused", "on_hold"} => ~Ended(s) BY DEF Ended, Terminal
<1> QED BY <1>4, <1>5, <1>6 DEF SettleAbandoned

(* The row after a passed check, before the status is decided.             *)
Verified(s, c) == [s EXCEPT !.verified = c.inst, !.failed = NoFailures]
Reconnected(s, c) ==
    [Verified(s, c) EXCEPT !.period = "none",
                           !.reconnects = IF c.purpose = "reconnect" /\ s.status = "active" THEN @ + 1 ELSE @]

(* Verifying a browser keeps type, status, period and clock; closing the   *)
(* gap before the check (closeGapPeriods) leaves no period open.           *)
LEMMA VerifiedInOrder ==
    ASSUME NEW s, InOrder(s), NEW c \in CheckSet
    PROVE  /\ InOrder(Verified(s, c))
           /\ Reconnected(s, c) \in SessionSet
           /\ Verified(s, c).status = s.status
           /\ Reconnected(s, c).status = s.status
           /\ Reconnected(s, c).period = "none"
           /\ Reconnected(s, c).running = s.running
           /\ Reconnected(s, c).holdPrev = s.holdPrev
<1>1. s \in SessionSet /\ c.inst \in Instances BY DEF InOrder, CheckSet
<1>2. Verified(s, c) \in SessionSet
  BY <1>1, NoFailuresType DEF Verified, SessionSet
<1>3. /\ Verified(s, c).status = s.status /\ Verified(s, c).period = s.period
      /\ Verified(s, c).running = s.running /\ Verified(s, c).holdPrev = s.holdPrev
      /\ Verified(s, c).reconnects = s.reconnects
  BY <1>1 DEF Verified, SessionSet
<1>4. InOrder(Verified(s, c)) BY <1>2, <1>3 DEF InOrder, PeriodFits, ClockFits
<1>5. s.reconnects \in Nat /\ s.reconnects + 1 \in Nat BY <1>1 DEF SessionSet
<1>6. Reconnected(s, c) \in SessionSet
  BY <1>2, <1>3, <1>5 DEF Reconnected, SessionSet, OpenPeriods
<1>7. /\ Reconnected(s, c).status = s.status /\ Reconnected(s, c).period = "none"
      /\ Reconnected(s, c).running = s.running /\ Reconnected(s, c).holdPrev = s.holdPrev
  BY <1>2, <1>3 DEF Reconnected, SessionSet
<1> QED BY <1>3, <1>4, <1>6, <1>7

(* Continuing after a passed check (continueAfterPass).                    *)
LEMMA ContinueAfterPassInOrder ==
    ASSUME NEW s, InOrder(s), ~Ended(s), NEW c \in CheckSet, NEW long \in BOOLEAN
    PROVE  InOrder(ContinueAfterPass(s, c, long))
<1> DEFINE v == Verified(s, c)
           r == Reconnected(s, c)
<1>1. /\ InOrder(v) /\ r \in SessionSet /\ r.status = s.status
      /\ r.period = "none" /\ r.running = s.running /\ r.holdPrev = s.holdPrev
  BY VerifiedInOrder
<1>2. ContinueAfterPass(s, c, long) =
         IF s.status = "ready" THEN v
         ELSE IF c.purpose = "resume" /\ long THEN HoldNow([r EXCEPT !.status = "active"], "review")
         ELSE IF s.status = "on_hold"
              THEN IF s.holdPrev = "ready" THEN [ClearedHold(r) EXCEPT !.status = "ready"]
                   ELSE Continue(ClearedHold(r))
              ELSE Continue(r)
  BY DEF ContinueAfterPass, Verified, Reconnected
<1> HIDE DEF v, r
<1>3. [r EXCEPT !.status = "active"] \in SessionSet /\ [r EXCEPT !.status = "active"].status = "active"
  BY <1>1 DEF SessionSet, Statuses
<1>4. InOrder(HoldNow([r EXCEPT !.status = "active"], "review"))
  BY <1>3, HoldNowInOrder DEF Ended, Terminal, HoldReasons
<1>5. InOrder(Continue(r)) BY <1>1, ContinueInOrder
<1>6. ClearedHold(r) \in SessionSet BY <1>1, ClearedHoldType
<1>7. InOrder(Continue(ClearedHold(r))) BY <1>6, ContinueInOrder
<1>8. ClearedHold(r).period = "none" /\ ClearedHold(r).running = s.running
  BY <1>1, ClearedHoldType DEF SessionSet
<1>9. s.status = "on_hold" => InOrder([ClearedHold(r) EXCEPT !.status = "ready"])
  <2> SUFFICES ASSUME s.status = "on_hold"
               PROVE  InOrder([ClearedHold(r) EXCEPT !.status = "ready"])
    OBVIOUS
  <2>1. s.running = FALSE BY DEF InOrder, ClockFits, SessionSet
  <2>2. [ClearedHold(r) EXCEPT !.status = "ready"] \in SessionSet
    BY <1>6 DEF SessionSet, Statuses
  <2>3. /\ [ClearedHold(r) EXCEPT !.status = "ready"].status = "ready"
        /\ [ClearedHold(r) EXCEPT !.status = "ready"].period = "none"
        /\ [ClearedHold(r) EXCEPT !.status = "ready"].running = FALSE
    BY <1>6, <1>8, <2>1 DEF SessionSet
  <2> QED BY <2>2, <2>3 DEF InOrder, PeriodFits, ClockFits
<1> QED BY <1>1, <1>2, <1>4, <1>5, <1>7, <1>9

(* A mismatch held for review (applyContinuation).                         *)
LEMMA HoldForMismatchInOrder ==
    ASSUME NEW s, InOrder(s), ~Ended(s), NEW c \in CheckSet
    PROVE  InOrder(HoldForMismatch(s, c))
<1> DEFINE t == [s EXCEPT !.period = "none"]
           h == HoldNow(t, "review")
<1>1. t \in SessionSet /\ t.status = s.status BY DEF InOrder, SessionSet, OpenPeriods
<1>2. c.inst \in Instances BY DEF CheckSet
<1>3. InOrder(h)
  <2> HIDE DEF t
  <2> QED BY <1>1, HoldNowInOrder DEF HoldReasons, Ended
<1> HIDE DEF h
<1>4. InOrder([h EXCEPT !.verified = c.inst])
  BY <1>2, <1>3 DEF SessionSet, InOrder, PeriodFits, ClockFits
<1> QED BY <1>4 DEF HoldForMismatch, h, t

(* A new reference keeps status, period and clock (enrolment).             *)
LEMMA EnrolledInOrder ==
    ASSUME NEW s, InOrder(s), NEW c \in CheckSet
    PROVE  InOrder(Enrolled(s, c)) /\ Enrolled(s, c).status = s.status
<1>1. s \in SessionSet /\ c.inst \in Instances /\ s.reference + 1 \in Nat
  BY DEF InOrder, CheckSet, SessionSet
<1>2. Enrolled(s, c) \in SessionSet BY <1>1, NoFailuresType DEF Enrolled, SessionSet
<1>3. /\ Enrolled(s, c).status = s.status /\ Enrolled(s, c).period = s.period
      /\ Enrolled(s, c).running = s.running
  BY <1>1 DEF Enrolled, SessionSet
<1> QED BY <1>2, <1>3 DEF InOrder, PeriodFits, ClockFits

(* The initial check: another try, ready, or held (applyInitial).          *)
LEMMA ApplyInitialInOrder ==
    ASSUME NEW s, InOrder(s), s.status = "invited", NEW c \in CheckSet, NEW t \in ApplyInitial(s, c)
    PROVE  InOrder(t)
<1> DEFINE e == Enrolled(s, c)
           ready == [e EXCEPT !.status = "ready", !.period = "none"]
<1>1. ~Ended(s) BY DEF Ended, Terminal
<1>2. e \in SessionSet /\ e.running = FALSE
  <2>1. InOrder(e) /\ e.status = "invited" BY EnrolledInOrder
  <2> HIDE DEF e
  <2> QED BY <2>1 DEF InOrder, ClockFits, SessionSet
<1> HIDE DEF e
<1>3. ready \in SessionSet /\ ready.status = "ready" /\ ready.period = "none" /\ ready.running = FALSE
  BY <1>2 DEF SessionSet, Statuses, OpenPeriods
<1> HIDE DEF ready
<1>4. InOrder(ready) BY <1>3 DEF InOrder, PeriodFits, ClockFits
<1>5. InOrder(HoldNow(ready, "review"))
  BY <1>3, HoldNowInOrder DEF Ended, Terminal, HoldReasons
<1>6. InOrder(RetryOrHold(s, c, FullAttempt)) /\ InOrder(RetryOrHold(s, c, QualityAttempt))
  BY <1>1, RetryOrHoldInOrder, AttemptWeights
<1>7. t \in {RetryOrHold(s, c, FullAttempt), RetryOrHold(s, c, QualityAttempt), ready, HoldNow(ready, "review")}
  BY DEF ApplyInitial, ready, e
<1> QED BY <1>4, <1>5, <1>6, <1>7

(* Every other check: another try, a new reference, a pass, or a mismatch  *)
(* (applyContinuation).                                                    *)
LEMMA ApplyContinuationInOrder ==
    ASSUME NEW s, InOrder(s), ~Ended(s), NEW c \in CheckSet, NEW t \in ApplyContinuation(s, c)
    PROVE  InOrder(t)
<1> DEFINE e == Enrolled(s, c)
           g == [e EXCEPT !.reEnroll = FALSE]
<1>1. InOrder(e) /\ e.status = s.status BY EnrolledInOrder
<1> HIDE DEF e
<1>2. g \in SessionSet /\ g.status = e.status /\ g.period = e.period /\ g.running = e.running
  BY <1>1 DEF InOrder, SessionSet
<1> HIDE DEF g
<1>3. InOrder(g) /\ ~Ended(g) BY <1>1, <1>2 DEF InOrder, PeriodFits, ClockFits, Ended
<1>4. InOrder(ContinueAfterPass(g, c, FALSE)) BY <1>3, ContinueAfterPassInOrder
<1>5. InOrder(RetryOrHold(s, c, FullAttempt)) /\ InOrder(RetryOrHold(s, c, QualityAttempt))
  BY RetryOrHoldInOrder, AttemptWeights
<1>6. \A long \in BOOLEAN : InOrder(ContinueAfterPass(s, c, long)) BY ContinueAfterPassInOrder
<1>7. InOrder(HoldForMismatch(s, c)) BY HoldForMismatchInOrder
<1>8. \/ t \in {RetryOrHold(s, c, FullAttempt), RetryOrHold(s, c, QualityAttempt)}
      \/ t = ContinueAfterPass(g, c, FALSE)
      \/ \E long \in BOOLEAN : t = ContinueAfterPass(s, c, long)
      \/ t = HoldForMismatch(s, c)
  BY DEF ApplyContinuation, g, e
<1> QED BY <1>4, <1>5, <1>6, <1>7, <1>8

(* Identity verified by staff: the initial check holds for them            *)
(* (applyAttestInitial).                                                   *)
LEMMA AttestInitialInOrder ==
    ASSUME NEW s, InOrder(s), NEW c \in CheckSet
    PROVE  InOrder(AttestInitial(s, c))
<1> DEFINE v == Verified(s, c)
           t == [s EXCEPT !.verified = c.inst, !.failed = NoFailures, !.status = "ready", !.period = "none"]
<1>1. s \in SessionSet /\ c.inst \in Instances BY DEF InOrder, CheckSet
<1>2. t \in SessionSet /\ t.status = "ready"
  BY <1>1, NoFailuresType DEF SessionSet, Statuses, OpenPeriods
<1> HIDE DEF t
<1>3. InOrder(HoldNow(t, "staff_verification"))
  BY <1>2, HoldNowInOrder DEF Ended, Terminal, HoldReasons
<1> QED BY <1>3 DEF AttestInitial, t

(* ... and so do the later ones when staff verify each time                *)
(* (applyAttestContinuation).                                              *)
LEMMA AttestContinuationInOrder ==
    ASSUME NEW s, InOrder(s), ~Ended(s), NEW c \in CheckSet, NEW t \in AttestContinuation(s, c)
    PROVE  InOrder(t)
<1> DEFINE v == Verified(s, c)
           r == Reconnected(s, c)
           a == [r EXCEPT !.status = "active"]
<1>1. InOrder(v) /\ v.status = s.status /\ r \in SessionSet /\ r.status = s.status BY VerifiedInOrder
<1>2. \/ \E long \in BOOLEAN : t = ContinueAfterPass(s, c, long)
      \/ t = HoldNow(v, "staff_verification")
      \/ t = HoldNow(r, "staff_verification")
      \/ t = HoldNow(a, "review")
  BY DEF AttestContinuation, Verified, Reconnected
<1>3. \A long \in BOOLEAN : InOrder(ContinueAfterPass(s, c, long)) BY ContinueAfterPassInOrder
<1> HIDE DEF v, r
<1>4. a \in SessionSet /\ a.status = "active" BY <1>1 DEF SessionSet, Statuses
<1> HIDE DEF a
<1>5. InOrder(HoldNow(v, "staff_verification")) /\ InOrder(HoldNow(r, "staff_verification"))
  BY <1>1, HoldNowInOrder DEF HoldReasons, Ended, InOrder
<1>6. InOrder(HoldNow(a, "review")) BY <1>4, HoldNowInOrder DEF HoldReasons, Ended, Terminal
<1> QED BY <1>2, <1>3, <1>5, <1>6

-----------------------------------------------------------------------------
(***************************************************************************)
(* The actions.  The three invariants are inductive together: each of the  *)
(* operations above needs the type and the clock of the row it is given.   *)
(***************************************************************************)
IInv == TypeOK /\ PeriodMatchesStatus /\ ClockRunsOnlyInExam

(* What is left to show for an action that writes the row s.               *)
LEMMA WriteInOrder ==
    ASSUME IInv, NEW s, InOrder(s), Write(s),
           checks' \subseteq CheckSet, requests' \in [Instances -> RequestSet]
    PROVE  IInv'
<1>1. policy' = policy /\ recovered' = recovered /\ session' = s BY DEF Write
<1>2. granted' \in BOOLEAN BY DEF Write
<1>3. TypeOK' BY <1>1, <1>2 DEF TypeOK, IInv, InOrder
<1>4. PeriodMatchesStatus' /\ ClockRunsOnlyInExam'
  BY <1>1 DEF InOrder, PeriodMatchesStatus, ClockRunsOnlyInExam, PeriodFits, ClockFits
<1> QED BY <1>3, <1>4 DEF IInv

(* Writing one field that no part of the invariant reads.                  *)
LEMMA OtherFieldInOrder ==
    ASSUME NEW s, InOrder(s)
    PROVE  /\ InOrder([s EXCEPT !.consent = TRUE])
           /\ \A i \in Instances \cup {NoInstance} :
                 InOrder([s EXCEPT !.verified = i]) /\ InOrder([s EXCEPT !.active = i])
           /\ \A n \in Nat : InOrder([s EXCEPT !.pauseRequests = n]) /\ InOrder([s EXCEPT !.reconnects = n])
           /\ InOrder([s EXCEPT !.failed = NoFailures])
<1>1. s \in SessionSet BY DEF InOrder
<1>2. InOrder([s EXCEPT !.consent = TRUE])
  BY <1>1 DEF InOrder, PeriodFits, ClockFits, SessionSet
<1>3. ASSUME NEW i \in Instances \cup {NoInstance}
      PROVE  InOrder([s EXCEPT !.verified = i]) /\ InOrder([s EXCEPT !.active = i])
  BY <1>1 DEF InOrder, PeriodFits, ClockFits, SessionSet
<1>4. ASSUME NEW n \in Nat
      PROVE  InOrder([s EXCEPT !.pauseRequests = n]) /\ InOrder([s EXCEPT !.reconnects = n])
  BY <1>1 DEF InOrder, PeriodFits, ClockFits, SessionSet
<1>5. InOrder([s EXCEPT !.failed = NoFailures])
  BY <1>1, NoFailuresType DEF InOrder, PeriodFits, ClockFits, SessionSet
<1> QED BY <1>2, <1>3, <1>4, <1>5

(* Checks keep their type when their attempts no longer count.             *)
LEMMA UncountedType ==
    ASSUME NEW cs \in SUBSET CheckSet
    PROVE  Uncounted(cs) \subseteq CheckSet
BY DEF Uncounted, CheckSet

(* The facts every action starts from.                                     *)
LEMMA IInvFacts ==
    ASSUME IInv
    PROVE  /\ InOrder(session) /\ session \in SessionSet
           /\ checks \in SUBSET CheckSet
           /\ requests \in [Instances -> RequestSet]
BY DEF IInv, TypeOK, PeriodMatchesStatus, ClockRunsOnlyInExam, InOrder

(* Accepting the consent (acceptConsent).                                  *)
LEMMA AcceptConsentStep == IInv /\ AcceptConsent => IInv'
BY WriteInOrder, OtherFieldInOrder, IInvFacts DEF AcceptConsent, OnlySession

(* Withdrawing it ends the session (withdrawConsent).                      *)
LEMMA WithdrawConsentStep == IInv /\ WithdrawConsent => IInv'
BY WriteInOrder, FinalizeInOrder, IInvFacts DEF WithdrawConsent, OnlySession, EndReasons

(* The candidate's own requests, other than those about checks.            *)
LEMMA CandidateActsStep ==
    ASSUME IInv, NEW i \in Instances,
           \/ StartSession(i) \/ CandidateSubmit(i) \/ RequestPause(i) \/ CancelPauseRequest(i)
           \/ HeartbeatResumes(i) \/ ConcurrentUse(i)
    PROVE  IInv'
<1> USE IInvFacts
<1>1. CASE StartSession(i)
  BY <1>1, WriteInOrder, StartExamInOrder DEF StartSession, OnlySession
<1>2. CASE CandidateSubmit(i)
  BY <1>2, WriteInOrder, FinalizeInOrder DEF CandidateSubmit, OnlySession, EndReasons
<1>3. CASE RequestPause(i)
  <2>1. session.pauseRequests + 1 \in Nat BY DEF SessionSet
  <2>2. InOrder([session EXCEPT !.pauseRequests = @ + 1]) BY <2>1, OtherFieldInOrder
  <2>3. InOrder(PauseNow(session)) BY PauseNowInOrder
  <2>4. Uncounted(checks) \subseteq CheckSet BY UncountedType
  <2> QED BY <1>3, <2>2, <2>3, <2>4, WriteInOrder DEF RequestPause
<1>4. CASE CancelPauseRequest(i)
  <2>1. session.pauseRequests - 1 \in Nat BY <1>4 DEF SessionSet, CancelPauseRequest
  <2>2. InOrder([session EXCEPT !.pauseRequests = @ - 1]) BY <2>1, OtherFieldInOrder
  <2> QED BY <1>4, <2>2, WriteInOrder DEF CancelPauseRequest, OnlySession
<1>5. CASE HeartbeatResumes(i)
  <2>1. InOrder([session EXCEPT !.running = TRUE])
    BY <1>5 DEF HeartbeatResumes, InOrder, PeriodFits, ClockFits, SessionSet
  <2> QED BY <1>5, <2>1, WriteInOrder DEF HeartbeatResumes, OnlySession
<1>6. CASE ConcurrentUse(i)
  BY <1>6, WriteInOrder, OtherFieldInOrder DEF ConcurrentUse, OnlySession
<1> QED BY <1>1, <1>2, <1>3, <1>4, <1>5, <1>6

(* The transactions of starting a check.                                   *)
LEMMA StartCheckStep ==
    ASSUME IInv, NEW i \in Instances,
           \/ \E p \in Purposes : BeginStartCheck(i, p)
           \/ EnforceReconnectLimits(i) \/ SettleReplacedCheck(i) \/ OpenCheck(i)
    PROVE  IInv'
<1> USE IInvFacts
<1>0. \A q \in RequestSet : [requests EXCEPT ![i] = q] \in [Instances -> RequestSet] OBVIOUS
<1>a. Idle \in RequestSet BY DEF Idle, RequestSet, Purposes
<1>b. /\ [requests EXCEPT ![i].step = "settle"] \in [Instances -> RequestSet]
      /\ [requests EXCEPT ![i].step = "open"] \in [Instances -> RequestSet]
      /\ requests[i].purpose \in Purposes
  BY DEF RequestSet
<1>1. CASE \E p \in Purposes : BeginStartCheck(i, p)
  <2>1. PICK p \in Purposes : BeginStartCheck(i, p) BY <1>1
  <2>2. requests' \in [Instances -> RequestSet] BY <2>1, <1>0 DEF BeginStartCheck, RequestSet
  <2> QED
    BY <2>1, <2>2 DEF BeginStartCheck, IInv, TypeOK, PeriodMatchesStatus, ClockRunsOnlyInExam,
                      PeriodFits, ClockFits
<1>2. CASE EnforceReconnectLimits(i)
  <2>1. requests' \in [Instances -> RequestSet] /\ checks' = checks
    BY <1>2, <1>0, <1>a, <1>b DEF EnforceReconnectLimits
  <2>2. \/ Write(session)
        \/ session.status = "active" /\ Write(ApplyResumeLimit(session))
    BY <1>2 DEF EnforceReconnectLimits
  <2>3. session.status = "active" => InOrder(ApplyResumeLimit(session))
    BY ApplyResumeLimitInOrder DEF Ended, Terminal
  <2> QED BY <2>1, <2>2, <2>3, WriteInOrder
<1>3. CASE SettleReplacedCheck(i)
  <2>1. requests' \in [Instances -> RequestSet] /\ checks' = {}
    BY <1>3, <1>b DEF SettleReplacedCheck
  <2>2. \E s : InOrder(s) /\ Write(s)
    BY <1>3, SettleAbandonedInOrder DEF SettleReplacedCheck
  <2> QED BY <2>1, <2>2, WriteInOrder
<1>4. CASE OpenCheck(i)
  <2> DEFINE p == requests[i].purpose
             per == IF p = "initial" /\ session.period = "none" THEN "check_in" ELSE session.period
             opened == [session EXCEPT !.active = i,
                           !.period = IF p = "initial" /\ @ = "none" THEN "check_in" ELSE @]
             c == [inst |-> i, purpose |-> p, counted |-> TRUE, prepared |-> "none"]
  <2>1. c \in CheckSet BY <1>b DEF CheckSet
  <2>2. RequiredCheck(session, i) = "initial" => session.status = "invited"
    BY DEF RequiredCheck
  <2>3. RequiredCheck(session, i) = p => InOrder(opened)
    <3> HAVE RequiredCheck(session, i) = p
    <3>1. per \in OpenPeriods BY DEF SessionSet, OpenPeriods
    <3>2. opened = [[session EXCEPT !.active = i] EXCEPT !.period = per]
      BY DEF SessionSet
    <3>3. \/ per = session.period
          \/ session.status = "invited" /\ per = "check_in"
      BY <2>2
    <3> HIDE DEF per, opened, p
    <3>4. opened \in SessionSet BY <3>1, <3>2 DEF SessionSet
    <3>5. opened.status = session.status /\ opened.period = per /\ opened.running = session.running
      BY <3>2 DEF SessionSet
    <3> QED BY <3>3, <3>4, <3>5 DEF InOrder, PeriodFits, ClockFits
  <2>4. requests' \in [Instances -> RequestSet] BY <1>4, <1>0, <1>a DEF OpenCheck
  <2>5. \/ RequiredCheck(session, i) = p /\ Write(opened) /\ checks' = {c}
        \/ Write(session) /\ checks' = checks
    BY <1>4 DEF OpenCheck
  <2> HIDE DEF opened, c, p
  <2> QED BY <2>1, <2>3, <2>4, <2>5, WriteInOrder
<1> QED BY <1>1, <1>2, <1>3, <1>4

(* Completing a check: the lock-free preparation, and applying it.         *)
LEMMA CompleteCheckStep ==
    ASSUME IInv, NEW i \in Instances,
           PrepareCheck(i) \/ CompleteCheck(i) \/ CompleteAttestCheck(i)
    PROVE  IInv'
<1> USE IInvFacts
<1>0. ASSUME NEW p \in Purposes, RequiredCheck(session, i) = p
      PROVE  ~Ended(session) /\ (p = "initial" => session.status = "invited")
  BY <1>0 DEF RequiredCheck, Ended, Terminal, Purposes
<1>1. CASE PrepareCheck(i)
  <2>1. checks' \subseteq CheckSet BY <1>1 DEF PrepareCheck, CheckSet
  <2> QED
    BY <1>1, <2>1 DEF PrepareCheck, IInv, TypeOK, PeriodMatchesStatus, ClockRunsOnlyInExam,
                      PeriodFits, ClockFits
<1>2. CASE CompleteCheck(i)
  <2>1. PICK c \in checks :
           /\ RequiredCheck(session, i) = c.purpose
           /\ \E s \in IF c.purpose = "initial" THEN ApplyInitial(session, c) ELSE ApplyContinuation(session, c) :
                 Write(s)
           /\ checks' = checks \ {c}
           /\ UNCHANGED requests
    BY <1>2 DEF CompleteCheck
  <2>2. c \in CheckSet /\ c.purpose \in Purposes BY DEF CheckSet
  <2>3. ~Ended(session) /\ (c.purpose = "initial" => session.status = "invited") BY <1>0, <2>1, <2>2
  <2>4. \E s : InOrder(s) /\ Write(s) BY <2>1, <2>2, <2>3, ApplyInitialInOrder, ApplyContinuationInOrder
  <2> QED BY <2>1, <2>4, WriteInOrder
<1>3. CASE CompleteAttestCheck(i)
  <2>1. PICK c \in checks :
           /\ RequiredCheck(session, i) = c.purpose
           /\ \E s \in IF c.purpose = "initial" THEN {AttestInitial(session, c)}
                       ELSE AttestContinuation(session, c) : Write(s)
           /\ checks' = checks \ {c}
           /\ UNCHANGED requests
    BY <1>3 DEF CompleteAttestCheck
  <2>2. c \in CheckSet /\ c.purpose \in Purposes BY DEF CheckSet
  <2>3. ~Ended(session) BY <1>0, <2>1, <2>2
  <2>4. \E s : InOrder(s) /\ Write(s) BY <2>1, <2>2, <2>3, AttestInitialInOrder, AttestContinuationInOrder
  <2> QED BY <2>1, <2>4, WriteInOrder
<1> QED BY <1>1, <1>2, <1>3

(* Releasing a hold: back to the check-in, to a check, or straight back    *)
(* (releaseHold).                                                          *)
LEMMA ReleaseHoldStep ==
    ASSUME IInv, NEW requireCheckOpt \in BOOLEAN, NEW reEnrollOpt \in BOOLEAN,
           ReleaseHold(requireCheckOpt, reEnrollOpt)
    PROVE  IInv'
<1> USE IInvFacts
<1> DEFINE s == IF session.holdReason = "resume_limit" THEN [session EXCEPT !.reconnects = 0] ELSE session
           staffMode == policy.verification = "staff"
           reEnroll == ~staffMode /\ reEnrollOpt
           requireCheck == s.holdReason # "staff_verification" /\ (reEnroll \/ requireCheckOpt)
           toInitial == IF staffMode THEN s.holdPrev = "invited" ELSE s.reference = 0
           reset == [s EXCEPT !.failed = NoFailures]
           cleared == ClearedHold(reset)
           released == [cleared EXCEPT !.period = "none"]
           toCheck == [reset EXCEPT !.canReverify = TRUE, !.reEnroll = reEnroll]
           toInvited == [released EXCEPT !.status = "invited", !.verified = NoInstance]
<1>1. session.status = "on_hold" BY DEF ReleaseHold
<1>2. InOrder(s) /\ s.status = "on_hold"
  BY <1>1, OtherFieldInOrder DEF SessionSet
<1>3. reEnroll \in BOOLEAN OBVIOUS
<1>4. /\ session' = CASE toInitial -> toInvited
                      [] ~toInitial /\ requireCheck -> toCheck
                      [] OTHER -> IF s.holdPrev \in {"ready", "invited"}
                                  THEN [released EXCEPT !.status = s.holdPrev] ELSE Continue(released)
      /\ granted' \in BOOLEAN
      /\ checks' = Uncounted(checks)
      /\ UNCHANGED <<policy, requests, recovered>>
  BY DEF ReleaseHold
<1> HIDE DEF s, staffMode, reEnroll, requireCheck
<1>5. InOrder(reset) /\ reset.status = "on_hold"
  BY <1>2, OtherFieldInOrder DEF InOrder, SessionSet
<1> HIDE DEF reset, toInitial
<1>6. reset \in SessionSet /\ reset.running = FALSE /\ reset.period = "on_hold"
  BY <1>5 DEF InOrder, ClockFits, PeriodFits, SessionSet
<1>7. cleared \in SessionSet /\ cleared.running = FALSE
  BY <1>6, ClearedHoldType DEF SessionSet
<1> HIDE DEF cleared
<1>8. released \in SessionSet /\ released.running = FALSE /\ released.period = "none"
  BY <1>7 DEF SessionSet, OpenPeriods
<1> HIDE DEF released
<1>9. InOrder(toInvited)
  <2> DEFINE u == [released EXCEPT !.status = "invited"]
  <2>1. u \in SessionSet /\ u.status = "invited" /\ u.running = FALSE /\ u.period = "none"
    BY <1>8 DEF SessionSet, Statuses
  <2>2. toInvited = [u EXCEPT !.verified = NoInstance]
    BY <1>8 DEF SessionSet
  <2> HIDE DEF u, toInvited
  <2>3. /\ toInvited \in SessionSet /\ toInvited.status = "invited"
        /\ toInvited.running = FALSE /\ toInvited.period = "none"
    BY <2>1, <2>2 DEF SessionSet
  <2> QED BY <2>3 DEF InOrder, PeriodFits, ClockFits
<1>10. InOrder(toCheck)
  <2> DEFINE u == [reset EXCEPT !.canReverify = TRUE]
  <2>1. u \in SessionSet /\ u.status = "on_hold" /\ u.running = FALSE /\ u.period = "on_hold"
    BY <1>5, <1>6 DEF SessionSet
  <2>2. toCheck = [u EXCEPT !.reEnroll = reEnroll] OBVIOUS
  <2> HIDE DEF u, toCheck
  <2>3. toCheck \in SessionSet /\ toCheck.status = "on_hold" /\ toCheck.running = FALSE
        /\ toCheck.period = "on_hold"
    BY <1>3, <2>1, <2>2 DEF SessionSet
  <2> QED BY <2>3 DEF InOrder, PeriodFits, ClockFits
<1>11. ASSUME NEW st \in {"ready", "invited"}
       PROVE  InOrder([released EXCEPT !.status = st])
  BY <1>8 DEF SessionSet, Statuses, InOrder, PeriodFits, ClockFits
<1>12. InOrder(Continue(released)) BY <1>8, ContinueInOrder
<1> HIDE DEF toInvited, toCheck
<1>13. InOrder(session')
  <2>1. \/ session' = toInvited \/ session' = toCheck
        \/ \E st \in {"ready", "invited"} : session' = [released EXCEPT !.status = st]
        \/ session' = Continue(released)
    BY <1>4
  <2> QED BY <1>9, <1>10, <1>11, <1>12, <2>1
<1>14. checks' \subseteq CheckSet BY <1>4, UncountedType
<1> QED BY <1>4, <1>13, <1>14
        DEF IInv, TypeOK, PeriodMatchesStatus, ClockRunsOnlyInExam, InOrder, PeriodFits, ClockFits

(* Recovering an ended session (reopenSession).                            *)
LEMMA ReopenSessionStep ==
    ASSUME IInv, ReopenSession
    PROVE  IInv'
<1>0. InOrder(session) /\ session \in SessionSet /\ checks \in SUBSET CheckSet BY IInvFacts
<1> DEFINE reset == [session EXCEPT !.endReason = "none", !.scored = FALSE, !.reconnects = 0,
                                    !.failed = NoFailures]
           held == [reset EXCEPT !.status = "on_hold", !.period = "on_hold", !.holdReason = "review",
                                 !.canReverify = TRUE, !.holdPrev = "active", !.reEnroll = FALSE]
           cleared == ClearedHold(reset)
           invited == [cleared EXCEPT !.status = "invited", !.verified = NoInstance, !.active = NoInstance]
<1>1. /\ session' = IF session.started THEN held ELSE invited
      /\ granted' \in BOOLEAN /\ recovered' \in BOOLEAN
      /\ checks' = Uncounted(checks)
      /\ UNCHANGED <<policy, requests>>
  BY DEF ReopenSession, IInv, TypeOK
<1>2. session.period = "none" /\ session.running = FALSE
  <2>1. session.status \in Terminal BY DEF ReopenSession, Ended
  <2> QED BY <1>0, <2>1 DEF InOrder, PeriodFits, ClockFits, Terminal, SessionSet
<1>3. reset \in SessionSet /\ reset.period = "none" /\ reset.running = FALSE
  BY <1>0, <1>2, NoFailuresType DEF SessionSet, EndReasons
<1> HIDE DEF reset
<1>4. InOrder(held)
  <2> DEFINE u == [reset EXCEPT !.status = "on_hold", !.period = "on_hold", !.holdReason = "review"]
  <2>a. u \in SessionSet BY <1>3 DEF SessionSet, Statuses, OpenPeriods, HoldReasons
  <2>b. u.status = "on_hold" /\ u.period = "on_hold" /\ u.running = FALSE BY <1>3 DEF SessionSet
  <2>h. held = [u EXCEPT !.canReverify = TRUE, !.holdPrev = "active", !.reEnroll = FALSE] OBVIOUS
  <2> HIDE DEF u, held
  <2>1. held \in SessionSet BY <2>a, <2>b, <2>h DEF SessionSet
  <2>2. held.status = "on_hold" /\ held.period = "on_hold" /\ held.running = FALSE
    BY <2>a, <2>b, <2>h DEF SessionSet
  <2> QED BY <2>1, <2>2 DEF InOrder, PeriodFits, ClockFits
<1>5. cleared \in SessionSet /\ cleared.period = "none" /\ cleared.running = FALSE
  BY <1>3, ClearedHoldType DEF SessionSet
<1> HIDE DEF cleared
<1>6. InOrder(invited)
  BY <1>5 DEF SessionSet, Statuses, InOrder, PeriodFits, ClockFits
<1> HIDE DEF held, invited
<1>7. InOrder(session') BY <1>1, <1>4, <1>6
<1>8. checks' \subseteq CheckSet BY <1>0, <1>1, UncountedType
<1> QED BY <1>1, <1>7, <1>8
        DEF IInv, TypeOK, PeriodMatchesStatus, ClockRunsOnlyInExam, InOrder, PeriodFits, ClockFits

(* The other decisions of staff.                                           *)
LEMMA StaffStep ==
    ASSUME IInv, Staff
    PROVE  IInv'
<1> USE IInvFacts
<1>1. CASE \E approve \in BOOLEAN : DecidePauseRequest(approve)
  <2>1. PICK approve \in BOOLEAN : DecidePauseRequest(approve) BY <1>1
  <2> DEFINE decided == [session EXCEPT !.pauseRequests = @ - 1]
  <2>2. session.pauseRequests - 1 \in Nat BY <2>1 DEF DecidePauseRequest, SessionSet
  <2>3. InOrder(decided) BY <2>2, OtherFieldInOrder
  <2>4. InOrder(PauseNow(decided)) BY <2>3, PauseNowInOrder DEF InOrder
  <2>5. Uncounted(checks) \subseteq CheckSet BY UncountedType
  <2>6. /\ \/ Write(PauseNow(decided)) /\ checks' = Uncounted(checks)
           \/ Write(decided) /\ checks' = checks
        /\ requests' = requests
    BY <2>1 DEF DecidePauseRequest
  <2> HIDE DEF decided
  <2> QED BY <2>3, <2>4, <2>5, <2>6, WriteInOrder
<1>2. CASE HoldSession
  BY <1>2, WriteInOrder, HoldNowInOrder DEF HoldSession, OnlySession, HoldReasons
<1>3. CASE \E requireCheck, reEnroll \in BOOLEAN : ReleaseHold(requireCheck, reEnroll)
  BY <1>3, ReleaseHoldStep
<1>4. CASE TerminateSession
  BY <1>4, WriteInOrder, FinalizeInOrder DEF TerminateSession, OnlySession, EndReasons
<1>5. CASE StaffSubmit
  BY <1>5, WriteInOrder, FinalizeInOrder DEF StaffSubmit, OnlySession, EndReasons
<1>6. CASE ReopenSession BY <1>6, ReopenSessionStep
<1> QED BY <1>1, <1>2, <1>3, <1>4, <1>5, <1>6 DEF Staff

(* The server's own transactions.                                          *)
LEMMA ServerStep ==
    ASSUME IInv, Server
    PROVE  IInv'
<1> USE IInvFacts
<1>0. session.status = "active" => ~Ended(session) BY DEF Ended, Terminal
<1>1. CASE ReportingTimeout
  <2>1. InOrder([session EXCEPT !.running = FALSE])
    BY DEF InOrder, PeriodFits, ClockFits, SessionSet
  <2> QED BY <1>1, <2>1, WriteInOrder DEF ReportingTimeout, OnlySession
<1>2. CASE ClockExpiry
  BY <1>2, WriteInOrder, FinalizeInOrder DEF ClockExpiry, OnlySession, EndReasons
<1>3. CASE ExpireCheck
  <2>1. /\ \E c \in checks : \E s \in SettleAbandoned(session, c) : Write(s)
        /\ checks' \subseteq CheckSet /\ requests' = requests
    BY <1>3 DEF ExpireCheck
  <2>2. \E s : InOrder(s) /\ Write(s) BY <2>1, SettleAbandonedInOrder
  <2> QED BY <2>1, <2>2, WriteInOrder
<1>4. CASE EnforceOfflineLimits
  BY <1>0, <1>4, WriteInOrder, ApplyResumeLimitInOrder DEF EnforceOfflineLimits, OnlySession
<1>5. CASE MonitoringHold
  BY <1>0, <1>5, WriteInOrder, HoldNowInOrder DEF MonitoringHold, OnlySession, HoldReasons
<1>6. CASE CloseAbandoned
  BY <1>6, WriteInOrder, FinalizeInOrder DEF CloseAbandoned, OnlySession, EndReasons
<1> QED BY <1>1, <1>2, <1>3, <1>4, <1>5, <1>6 DEF Server

(* A session starts in order.                                              *)
LEMMA InitInOrder == Init => IInv
<1> SUFFICES ASSUME Init PROVE IInv OBVIOUS
<1>1. NewSession \in SessionSet
  BY NoFailuresType DEF NewSession, SessionSet, Statuses, EndReasons, HoldReasons, OpenPeriods
<1>2. [i \in Instances |-> Idle] \in [Instances -> RequestSet] BY DEF Idle, RequestSet, Purposes
<1>3. TypeOK BY <1>1, <1>2 DEF Init, TypeOK
<1>4. NewSession.status = "invited" /\ NewSession.period = "none" /\ NewSession.running = FALSE
  BY DEF NewSession
<1> QED BY <1>3, <1>4
        DEF Init, IInv, PeriodMatchesStatus, ClockRunsOnlyInExam, PeriodFits, ClockFits

(* Every step keeps the three invariants.                                  *)
LEMMA NextInOrder == IInv /\ [Next]_vars => IInv'
<1> SUFFICES ASSUME IInv, [Next]_vars PROVE IInv' OBVIOUS
<1>1. CASE AcceptConsent BY <1>1, AcceptConsentStep
<1>2. CASE WithdrawConsent BY <1>2, WithdrawConsentStep
<1>3. CASE \E i \in Instances : Candidate(i)
  BY <1>3, CandidateActsStep, StartCheckStep, CompleteCheckStep DEF Candidate
<1>4. CASE Staff BY <1>4, StaffStep
<1>5. CASE Server BY <1>5, ServerStep
<1>6. CASE UNCHANGED vars
  BY <1>6 DEF vars, IInv, TypeOK, PeriodMatchesStatus, ClockRunsOnlyInExam, PeriodFits, ClockFits
<1> QED BY <1>1, <1>2, <1>3, <1>4, <1>5, <1>6 DEF Next

(* The session row, the open checks and the requests keep their types: no  *)
(* interleaving of requests, staff decisions and sweeps writes a status,   *)
(* hold or counter outside its range.                                      *)
THEOREM TypeCorrect == Spec => []TypeOK
<1>1. Init => IInv BY InitInOrder
<1>2. IInv /\ [Next]_vars => IInv' BY NextInOrder
<1>3. IInv => TypeOK BY DEF IInv
<1> QED BY <1>1, <1>2, <1>3, PTL DEF Spec

(* The open period always fits the status: closeOpenPeriod, insertPeriod   *)
(* and switchPeriod are paired right in every handler.                     *)
THEOREM PeriodAlwaysMatches == Spec => []PeriodMatchesStatus
<1>1. Init => IInv BY InitInOrder
<1>2. IInv /\ [Next]_vars => IInv' BY NextInOrder
<1>3. IInv => PeriodMatchesStatus BY DEF IInv
<1> QED BY <1>1, <1>2, <1>3, PTL DEF Spec

(* The clock never runs in a hold, before the start or after the end, and  *)
(* runs in a pause only under rules that say so: clockStart and clockStop  *)
(* are paired right in every handler.                                      *)
THEOREM ClockOnlyInExam == Spec => []ClockRunsOnlyInExam
<1>1. Init => IInv BY InitInOrder
<1>2. IInv /\ [Next]_vars => IInv' BY NextInOrder
<1>3. IInv => ClockRunsOnlyInExam BY DEF IInv
<1> QED BY <1>1, <1>2, <1>3, PTL DEF Spec

-----------------------------------------------------------------------------
(***************************************************************************)
(* What a row owes to its history, and the steps of Lifecycle.             *)
(***************************************************************************)


(* The session is, or will be again after a hold, before its check-in; it  *)
(* has been checked in.                                                    *)
CheckingIn(s) == s.status = "invited" \/ (s.status = "on_hold" /\ s.holdPrev = "invited")
CheckedIn(s) == s.started \/ s.status = "ready" \/ (s.status = "on_hold" /\ s.holdPrev = "ready")

(* What a row's history leaves in it: a hold knows what it interrupted, an *)
(* exam starts after its check-in and the check-in takes a reference, a    *)
(* new reference is one staff granted, an end reason belongs to an end.    *)
RowSound(s) ==
    /\ s.status = "on_hold" => s.holdPrev # "none"
    /\ CheckingIn(s) => ~s.started
    /\ policy.verification = "automatic" /\ CheckedIn(s) => s.reference # 0
    /\ policy.verification = "automatic" /\ ~recovered /\ CheckingIn(s) => s.reference = 0
    /\ s.status = "on_hold" /\ s.canReverify /\ ~recovered => s.holdPrev # "invited"
    /\ s.status = "on_hold" /\ s.canReverify /\ s.reEnroll => granted
    /\ s.endReason # "none" => Ended(s)

(* A check may be required of a browser; an attempt is left of every kind  *)
(* then.                                                                   *)
MayTry(s) ==
    s.status \in {"invited", "ready", "active", "paused"} \/ (s.status = "on_hold" /\ s.canReverify)
AttemptsLeft(s) == MayTry(s) => \A p \in Purposes : ~Exhausted(s.failed[p])

(* A check is prepared only when identity is verified automatically, and   *)
(* before the check-in no other check than the initial one counts.         *)
ChecksSound ==
    \A c \in checks :
        /\ c.prepared # "none" => policy.verification = "automatic"
        /\ session.status = "invited" /\ c.counted => c.purpose = "initial"

(* The row's part of a step of Lifecycle that does not lead back to the    *)
(* check-in and does not reopen.                                           *)
Back(s) == IF s.status = "on_hold" THEN s.holdPrev ELSE "none"
Decided(s) == s.endReason \in {"candidate_submitted", "candidate_withdrew"}

Holds(s, t) ==
    /\ s.status \in {"invited", "ready", "active", "paused"} /\ t.status = "on_hold" /\ t.running = FALSE
    /\ CASE s.status = "invited" -> t.holdPrev \in {"invited", "ready"}
         [] s.status = "ready" -> t.holdPrev = "ready"
         [] OTHER -> t.holdPrev = "active"

Releases(s, t) ==
    /\ s.status = "on_hold" /\ t.status \in {"ready", "active"}
    /\ t.status = s.holdPrev \/ (recovered /\ t.status = "active")
    /\ t.running = (t.status = "active")

Moves(s, t) ==
    \/ /\ t.endReason = s.endReason
       /\ \/ t.status = s.status /\ t.running = s.running /\ Back(t) = Back(s)
          \/ s.status = "invited" /\ t.status = "ready" /\ t.running = s.running
          \/ s.status \in {"ready", "paused"} /\ t.status = "active" /\ t.running = TRUE
          \/ s.status = "active" /\ t.status = "paused" /\ t.running \in BOOLEAN
          \/ s.status = "active" /\ t.status = "active" /\ t.running \in BOOLEAN
          \/ Holds(s, t)
          \/ Releases(s, t)
    \/ ~Ended(s) /\ Ended(t) /\ t.running = FALSE

ReferenceKept(s, t) ==
    t.reference # s.reference =>
        \/ s.status = "invited" /\ s.started = FALSE
        \/ s.status = "on_hold" /\ granted

(* What every handler owes to the row it found.                            *)
Follows(s, t) == RowSound(t) /\ AttemptsLeft(t) /\ Moves(s, t) /\ ReferenceKept(s, t)

(* A row every handler may find.                                           *)
Sound(s) == s \in SessionSet /\ ClockFits(s) /\ RowSound(s) /\ AttemptsLeft(s)

-----------------------------------------------------------------------------
(***************************************************************************)
(* The fields that the operations of the row change and keep.              *)
(***************************************************************************)

(* The fields of t that these proofs tell apart are those of s.            *)
SameButFailed(s, t) ==
    /\ t.status = s.status /\ t.started = s.started /\ t.endReason = s.endReason
    /\ t.canReverify = s.canReverify /\ t.reEnroll = s.reEnroll /\ t.holdPrev = s.holdPrev
    /\ t.reference = s.reference /\ t.running = s.running
Same(s, t) == SameButFailed(s, t) /\ t.failed = s.failed

(* What a hold writes and what it leaves alone (holdNow).                  *)
LEMMA HoldNowFields ==
    ASSUME NEW s \in SessionSet, NEW r
    PROVE  LET t == HoldNow(s, r)
           IN  /\ t.status = "on_hold" /\ t.canReverify = FALSE /\ t.reEnroll = FALSE /\ t.running = FALSE
               /\ t.holdPrev = PrevOnHold(s)
               /\ t.started = s.started /\ t.endReason = s.endReason
               /\ t.reference = s.reference /\ t.failed = s.failed
BY DEF HoldNow, SessionSet

(* What an end writes and what it leaves alone (finalizeSession).          *)
LEMMA FinalizeFields ==
    ASSUME NEW s \in SessionSet, NEW r \in EndReasons, ~Ended(s)
    PROVE  LET t == FinalizeSession(s, r)
           IN  /\ t.status \in Terminal /\ t.endReason = r /\ t.running = FALSE
               /\ t.started = s.started /\ t.reference = s.reference
<1>1. EndStatus(r) \in Terminal BY DEF EndStatus, Terminal
<1> QED BY <1>1 DEF FinalizeSession, SessionSet

(* What a return to the exam writes and leaves alone.                      *)
LEMMA ContinueFields ==
    ASSUME NEW s \in SessionSet
    PROVE  LET t == Continue(s)
           IN  /\ t.status = "active" /\ t.running = TRUE
               /\ t.started = s.started /\ t.endReason = s.endReason
               /\ t.reference = s.reference /\ t.failed = s.failed
BY DEF Continue, SessionSet

(* No attempt was used: one is left.                                       *)
LEMMA NoFailuresLeft == \A p \in Purposes : ~Exhausted(NoFailures[p])
BY LimitsAssumption DEF NoFailures, Exhausted, FullAttempt

-----------------------------------------------------------------------------
(***************************************************************************)
(* Every operation leads to a row that follows.                            *)
(***************************************************************************)

(* A row that is the same but for its attempts.                            *)
LEMMA CountedFollows ==
    ASSUME NEW s, Sound(s), NEW t, SameButFailed(s, t), AttemptsLeft(t)
    PROVE  Follows(s, t)
BY DEF Sound, SameButFailed, Follows, RowSound, Moves, ReferenceKept, CheckingIn, CheckedIn, Ended, Back

(* A row in which nothing told apart here has changed.                     *)
LEMMA SameFollows ==
    ASSUME NEW s, Sound(s), NEW t, Same(s, t)
    PROVE  Follows(s, t)
BY CountedFollows DEF Sound, Same, SameButFailed, AttemptsLeft, MayTry

(* What these proofs do not tell apart may be written afterwards.          *)
LEMMA SameAfter ==
    ASSUME NEW s, NEW t, Follows(s, t), NEW u, Same(t, u)
    PROVE  Follows(s, u)
BY DEF Same, SameButFailed, Follows, RowSound, AttemptsLeft, Moves, Holds, Releases, ReferenceKept,
       CheckingIn, CheckedIn, MayTry, Ended, Back

(* A hold may begin in any row that has not ended, whatever the attempts   *)
(* counted on the way to it.                                               *)
LEMMA HoldFollows ==
    ASSUME NEW s, Sound(s), ~Ended(s), NEW u \in SessionSet, SameButFailed(s, u), NEW r
    PROVE  Follows(s, HoldNow(u, r))
<1> DEFINE t == HoldNow(u, r)
<1>0. PrevOnHold(u) = PrevOnHold(s) BY DEF SameButFailed, PrevOnHold
<1>1. /\ t.status = "on_hold" /\ t.canReverify = FALSE /\ t.reEnroll = FALSE /\ t.running = FALSE
      /\ t.holdPrev = PrevOnHold(s)
      /\ t.started = s.started /\ t.endReason = s.endReason /\ t.reference = s.reference
  BY <1>0, HoldNowFields DEF SameButFailed
<1>2. s.status \in Statuses \ Terminal /\ s.running \in BOOLEAN BY DEF Sound, SessionSet, Ended
<1> HIDE DEF t
<1>3. RowSound(t)
  BY <1>1, <1>2 DEF Sound, RowSound, CheckingIn, CheckedIn, PrevOnHold, Statuses, Terminal, Ended
<1>4. AttemptsLeft(t) BY <1>1 DEF AttemptsLeft, MayTry
<1>5. Moves(s, t)
  BY <1>1, <1>2 DEF Moves, Holds, Back, PrevOnHold, Statuses, Terminal, Ended, Sound, ClockFits
<1>6. ReferenceKept(s, t) BY <1>1 DEF ReferenceKept
<1> QED BY <1>3, <1>4, <1>5, <1>6 DEF Follows, t

(* An end follows any row; an ended row stays as it is (finalizeSession).  *)
LEMMA FinalizeFollows ==
    ASSUME NEW s, Sound(s), NEW r \in EndReasons
    PROVE  Follows(s, FinalizeSession(s, r))
<1>1. CASE Ended(s) BY <1>1, SameFollows DEF FinalizeSession, Same, SameButFailed
<1>2. CASE ~Ended(s)
  <2> DEFINE t == FinalizeSession(s, r)
  <2>1. /\ t.status \in Terminal /\ t.endReason = r /\ t.running = FALSE
        /\ t.started = s.started /\ t.reference = s.reference
    BY <1>2, FinalizeFields DEF Sound
  <2> HIDE DEF t
  <2>2. RowSound(t) BY <2>1 DEF Sound, RowSound, CheckingIn, CheckedIn, Terminal, Ended
  <2>3. AttemptsLeft(t) BY <2>1 DEF AttemptsLeft, MayTry, Terminal
  <2>4. Moves(s, t) BY <1>2, <2>1 DEF Moves, Ended
  <2>5. ReferenceKept(s, t) BY <2>1 DEF ReferenceKept
  <2> QED BY <2>2, <2>3, <2>4, <2>5 DEF Follows, t
<1> QED BY <1>1, <1>2

(* The resume limit holds or ends (applyResumeLimit).                      *)
LEMMA ApplyResumeLimitFollows ==
    ASSUME NEW s, Sound(s), ~Ended(s)
    PROVE  Follows(s, ApplyResumeLimit(s))
BY HoldFollows, FinalizeFollows DEF ApplyResumeLimit, EndReasons, SameButFailed, Sound

(* An exam starts from ready, so after its check-in (startExam).           *)
LEMMA StartExamFollows ==
    ASSUME NEW s, Sound(s), s.status = "ready"
    PROVE  Follows(s, StartExam(s))
<1> DEFINE t == StartExam(s)
<1>1. /\ t.status = "active" /\ t.running = TRUE /\ t.started = TRUE
      /\ t.endReason = s.endReason /\ t.reference = s.reference /\ t.failed = s.failed
  BY DEF StartExam, SessionSet, Sound
<1> HIDE DEF t
<1>2. RowSound(t) BY <1>1 DEF Sound, RowSound, CheckingIn, CheckedIn, Ended, Terminal
<1>3. AttemptsLeft(t) BY <1>1 DEF Sound, AttemptsLeft, MayTry
<1>4. Moves(s, t) BY <1>1 DEF Moves
<1>5. ReferenceKept(s, t) BY <1>1 DEF ReferenceKept
<1> QED BY <1>2, <1>3, <1>4, <1>5 DEF Follows, t

(* A pause begins in an exam in progress, resets the attempts (pauseNow).  *)
LEMMA PauseNowFollows ==
    ASSUME NEW s, Sound(s), s.status = "active", NEW t \in SessionSet, SameButFailed(s, t)
    PROVE  Follows(s, PauseNow(t))
<1> DEFINE u == PauseNow(t)
           runs == policy.pauseTimer = "continue"
<1>1. /\ u.status = "paused" /\ u.running = runs /\ u.failed = NoFailures
      /\ u.started = t.started /\ u.endReason = t.endReason /\ u.reference = t.reference
  BY DEF PauseNow, SessionSet
<1>2. runs \in BOOLEAN OBVIOUS
<1> HIDE DEF u, runs
<1>3. RowSound(u)
  BY <1>1 DEF Sound, RowSound, CheckingIn, CheckedIn, Ended, Terminal, SameButFailed
<1>4. AttemptsLeft(u) BY <1>1, NoFailuresLeft DEF AttemptsLeft
<1>5. Moves(s, u) BY <1>1, <1>2 DEF Moves, SameButFailed
<1>6. ReferenceKept(s, u) BY <1>1 DEF ReferenceKept, SameButFailed
<1> QED BY <1>3, <1>4, <1>5, <1>6 DEF Follows, u

(***************************************************************************)
(* Outcomes of checks.                                                     *)
(***************************************************************************)

(* A failed check is counted; held if no attempt is left (retryOrHold).    *)
LEMMA RetryOrHoldFollows ==
    ASSUME NEW s, Sound(s), ~Ended(s), NEW c \in CheckSet, NEW w \in Nat
    PROVE  Follows(s, RetryOrHold(s, c, w))
<1> DEFINE h == HoldNow(s, "review")
           used == s.failed[c.purpose] + w
           counted == [s EXCEPT !.failed[c.purpose] = used]
<1>1. s \in SessionSet /\ SameButFailed(s, s) BY DEF Sound, SameButFailed
<1>2. h \in SessionSet /\ Follows(s, h) BY <1>1, HoldFollows, HoldNowInOrder DEF HoldReasons, InOrder
<1>3. c.inst \in Instances /\ c.purpose \in Purposes BY DEF CheckSet
<1>4. ASSUME NEW v PROVE Follows(s, [h EXCEPT !.verified = v])
  <2> HIDE DEF h
  <2>1. Same(h, [h EXCEPT !.verified = v]) BY <1>2 DEF Same, SameButFailed, SessionSet
  <2> QED BY <1>2, <2>1, SameAfter
<1>5. ASSUME ~Exhausted(used) PROVE Follows(s, counted)
  <2> HIDE DEF used
  <2>1. SameButFailed(s, counted) /\ counted.failed = [s.failed EXCEPT ![c.purpose] = used]
    BY <1>1 DEF SameButFailed, SessionSet
  <2>2. s.failed \in [Purposes -> Nat] BY <1>1 DEF SessionSet
  <2> HIDE DEF counted
  <2>3. AttemptsLeft(counted)
    BY <1>5, <1>3, <2>1, <2>2 DEF Sound, AttemptsLeft, MayTry, SameButFailed
  <2> QED BY <2>1, <2>3, CountedFollows
<1>6. Follows(s, s) BY <1>1, SameFollows DEF Same
<1> HIDE DEF h
<1> QED BY <1>4, <1>5, <1>6 DEF RetryOrHold, h

(* An abandoned check: in front of the check-in only initial ones count.   *)
LEMMA SettleAbandonedFollows ==
    ASSUME NEW s, Sound(s), NEW c \in CheckSet, NEW t \in SettleAbandoned(s, c),
           s.status = "invited" /\ c.counted => c.purpose = "initial"
    PROVE  Follows(s, t)
<1> DEFINE used == s.failed[c.purpose] + FullAttempt
           more == [s EXCEPT !.failed[c.purpose] = used]
           counted == IF c.counted THEN more ELSE s
           listed == s.status \in {"ready", "active", "paused", "on_hold"}
<1>1. s \in SessionSet /\ SameButFailed(s, s) BY DEF Sound, SameButFailed
<1>2. c.purpose \in Purposes /\ s.failed \in [Purposes -> Nat] BY <1>1 DEF CheckSet, SessionSet
<1>3. used \in Nat BY <1>2, AttemptWeights
<1>4. t = s \/ (c.purpose # "initial" /\ t = IF Exhausted(used) /\ listed THEN HoldNow(counted, "review") ELSE counted)
  BY DEF SettleAbandoned
<1> HIDE DEF used
<1>5. SameButFailed(s, more) /\ more.failed = [s.failed EXCEPT ![c.purpose] = used]
  BY <1>1 DEF SameButFailed, SessionSet
<1>6. more \in SessionSet BY <1>1, <1>2, <1>3 DEF SessionSet
<1> HIDE DEF more
<1>7. Follows(s, s) BY <1>1, SameFollows DEF Same
<1>8. ASSUME listed PROVE Follows(s, HoldNow(counted, "review"))
  <2>1. ~Ended(s) BY <1>8 DEF Ended, Terminal
  <2>2. counted \in SessionSet /\ SameButFailed(s, counted) BY <1>1, <1>5, <1>6
  <2> QED BY <2>1, <2>2, HoldFollows
<1>9. ASSUME ~Exhausted(used) \/ ~listed, c.purpose # "initial", c.counted PROVE Follows(s, more)
  <2>1. AttemptsLeft(more)
    <3>1. CASE ~Exhausted(used)
      BY <3>1, <1>2, <1>5 DEF Sound, AttemptsLeft, MayTry, SameButFailed
    <3>2. CASE ~listed
      <4>1. more.status \notin {"invited", "ready", "active", "paused", "on_hold"}
        BY <3>2, <1>5, <1>9 DEF SameButFailed
      <4> QED BY <4>1 DEF AttemptsLeft, MayTry
    <3> QED BY <3>1, <3>2, <1>9
  <2> QED BY <1>5, <2>1, CountedFollows
<1> QED BY <1>4, <1>7, <1>8, <1>9

(* A browser is verified: the attempts begin anew, nothing else is told    *)
(* apart here.                                                             *)
LEMMA VerifiedFields ==
    ASSUME NEW s \in SessionSet, NEW c \in CheckSet
    PROVE  /\ Verified(s, c) \in SessionSet /\ Reconnected(s, c) \in SessionSet
           /\ SameButFailed(s, Verified(s, c)) /\ Verified(s, c).failed = NoFailures
           /\ SameButFailed(s, Reconnected(s, c)) /\ Reconnected(s, c).failed = NoFailures
<1>1. c.inst \in Instances BY DEF CheckSet
<1>2. Verified(s, c) \in SessionSet BY <1>1, NoFailuresType DEF Verified, SessionSet
<1>3. /\ SameButFailed(s, Verified(s, c)) /\ Verified(s, c).failed = NoFailures
      /\ Verified(s, c).reconnects = s.reconnects
  BY DEF SameButFailed, Verified, SessionSet
<1>4. s.reconnects \in Nat /\ s.reconnects + 1 \in Nat BY DEF SessionSet
<1>5. Reconnected(s, c) \in SessionSet BY <1>2, <1>3, <1>4 DEF Reconnected, SessionSet, OpenPeriods
<1>6. Same(Verified(s, c), Reconnected(s, c)) BY <1>2 DEF Reconnected, SessionSet, Same, SameButFailed
<1> QED BY <1>2, <1>3, <1>5, <1>6 DEF Same, SameButFailed

(* A pass returns to the exam or to where the hold began.                  *)
LEMMA ContinueAfterPassFollows ==
    ASSUME NEW s, Sound(s), ~Ended(s), NEW c \in CheckSet, NEW long \in BOOLEAN,
           s.status # "invited", c.purpose = "resume" => s.status = "paused",
           s.status = "on_hold" => s.canReverify
    PROVE  Follows(s, ContinueAfterPass(s, c, long))
<1> DEFINE v == Verified(s, c)
           r == Reconnected(s, c)
           a == [r EXCEPT !.status = "active"]
           ready == [ClearedHold(r) EXCEPT !.status = "ready"]
<1>1. /\ v \in SessionSet /\ r \in SessionSet
      /\ SameButFailed(s, v) /\ v.failed = NoFailures
      /\ SameButFailed(s, r) /\ r.failed = NoFailures
  BY VerifiedFields DEF Sound
<1>2. ContinueAfterPass(s, c, long) =
         IF s.status = "ready" THEN v
         ELSE IF c.purpose = "resume" /\ long THEN HoldNow(a, "review")
         ELSE IF s.status = "on_hold"
              THEN IF s.holdPrev = "ready" THEN ready ELSE Continue(ClearedHold(r))
              ELSE Continue(r)
  BY DEF ContinueAfterPass, Verified, Reconnected
<1>3. s.status \in Statuses \ Terminal /\ s.running \in BOOLEAN BY DEF Sound, SessionSet, Ended
<1> HIDE DEF v, r
<1>4. Follows(s, v) BY <1>1, CountedFollows, NoFailuresLeft DEF AttemptsLeft
<1>5. ASSUME c.purpose = "resume" PROVE Follows(s, HoldNow(a, "review"))
  <2>1. a \in SessionSet BY <1>1 DEF SessionSet, Statuses
  <2>2. /\ a.status = "active" /\ a.started = s.started /\ a.endReason = s.endReason
        /\ a.reference = s.reference
    BY <1>1 DEF SessionSet, SameButFailed
  <2> DEFINE t == HoldNow(a, "review")
  <2> HIDE DEF a
  <2>a. PrevOnHold(a) = "active" BY <2>2 DEF PrevOnHold
  <2>3. /\ t.status = "on_hold" /\ t.canReverify = FALSE /\ t.running = FALSE /\ t.holdPrev = "active"
        /\ t.started = s.started /\ t.endReason = s.endReason /\ t.reference = s.reference
    BY <2>1, <2>2, <2>a, HoldNowFields
  <2> HIDE DEF t
  <2>4. s.status = "paused" BY <1>5
  <2>5. RowSound(t) BY <2>3, <2>4 DEF Sound, RowSound, CheckingIn, CheckedIn, Ended, Terminal
  <2>6. AttemptsLeft(t) BY <2>3 DEF AttemptsLeft, MayTry
  <2>7. Moves(s, t) BY <2>3, <2>4 DEF Moves, Holds
  <2> QED BY <2>3, <2>5, <2>6, <2>7 DEF Follows, ReferenceKept, t
<1>6. ASSUME NEW u \in SessionSet, u.started = s.started, u.endReason = s.endReason,
             u.reference = s.reference, u.failed = NoFailures,
             s.status # "ready", s.status = "on_hold" => s.holdPrev # "ready"
      PROVE  Follows(s, Continue(u))
  <2> DEFINE t == Continue(u)
  <2>1. /\ t.status = "active" /\ t.running = TRUE /\ t.started = s.started
        /\ t.endReason = s.endReason /\ t.reference = s.reference /\ t.failed = NoFailures
    BY <1>6, ContinueFields
  <2> HIDE DEF t
  <2>2. RowSound(t) BY <1>3, <2>1 DEF Sound, RowSound, CheckingIn, CheckedIn, Ended
  <2>3. AttemptsLeft(t) BY <2>1, NoFailuresLeft DEF AttemptsLeft
  <2>4. CASE s.status = "on_hold" /\ s.holdPrev # "ready"
    <3>1. s.holdPrev = "active" \/ recovered
      BY <2>4 DEF Sound, RowSound, SessionSet
    <3>2. Moves(s, t) BY <2>1, <2>4, <3>1 DEF Moves, Releases
    <3> QED BY <2>1, <2>2, <2>3, <3>2 DEF Follows, ReferenceKept, t
  <2>5. CASE s.status \in {"active", "paused"}
    <3>1. Moves(s, t) BY <2>1, <2>5 DEF Moves
    <3> QED BY <2>1, <2>2, <2>3, <3>1 DEF Follows, ReferenceKept, t
  <2> QED BY <1>3, <1>6, <2>4, <2>5 DEF Statuses, Terminal
<1>7. Follows(s, Continue(r)) \/ s.status \in {"ready", "on_hold"} BY <1>1, <1>6 DEF SameButFailed
<1>8. /\ ClearedHold(r) \in SessionSet
      /\ \A f \in {"status", "started", "endReason", "reference", "failed", "running"} :
            ClearedHold(r)[f] = r[f]
  BY <1>1, ClearedHoldType DEF SessionSet
<1>9. s.status = "on_hold" /\ s.holdPrev # "ready" => Follows(s, Continue(ClearedHold(r)))
  BY <1>1, <1>6, <1>8 DEF SameButFailed
<1>10. ASSUME s.status = "on_hold", s.holdPrev = "ready" PROVE Follows(s, ready)
  <2>1. /\ ready.status = "ready" /\ ready.started = s.started /\ ready.endReason = s.endReason
        /\ ready.reference = s.reference /\ ready.failed = NoFailures /\ ready.running = s.running
    BY <1>1, <1>8 DEF SessionSet, SameButFailed
  <2> HIDE DEF ready
  <2>2. s.running = FALSE BY <1>3, <1>10 DEF Sound, ClockFits
  <2>3. RowSound(ready) BY <1>10, <2>1 DEF Sound, RowSound, CheckingIn, CheckedIn, Ended, Terminal
  <2>4. AttemptsLeft(ready) BY <2>1, NoFailuresLeft DEF AttemptsLeft
  <2>5. Moves(s, ready) BY <1>10, <2>1, <2>2 DEF Moves, Releases
  <2> QED BY <2>1, <2>3, <2>4, <2>5 DEF Follows, ReferenceKept
<1> HIDE DEF a, ready
<1> QED BY <1>2, <1>4, <1>5, <1>7, <1>9, <1>10

(* Another face holds the session, whatever period was open.               *)
LEMMA HoldForMismatchFollows ==
    ASSUME NEW s, Sound(s), ~Ended(s), NEW c \in CheckSet
    PROVE  Follows(s, HoldForMismatch(s, c))
<1> DEFINE u == [s EXCEPT !.period = "none"]
           h == HoldNow(u, "review")
<1>1. u \in SessionSet /\ Same(s, u) BY DEF Sound, SessionSet, OpenPeriods, Same, SameButFailed
<1> HIDE DEF u
<1>2. h \in SessionSet /\ Follows(s, h)
  BY <1>1, HoldFollows, HoldNowInOrder DEF HoldReasons, InOrder, Same, SameButFailed, Ended
<1> HIDE DEF h
<1>3. Same(h, [h EXCEPT !.verified = c.inst]) BY <1>2 DEF Same, SameButFailed, SessionSet
<1> QED BY <1>2, <1>3, SameAfter DEF HoldForMismatch, h, u

(* The initial check enrols: the row is checked in, or held as such.       *)
LEMMA ApplyInitialFollows ==
    ASSUME NEW s, Sound(s), s.status = "invited", NEW c \in CheckSet, NEW t \in ApplyInitial(s, c)
    PROVE  Follows(s, t)
<1> DEFINE e == Enrolled(s, c)
           ready == [e EXCEPT !.status = "ready", !.period = "none"]
           held == HoldNow(ready, "review")
<1>1. ~Ended(s) BY DEF Ended, Terminal
<1>2. s.reference \in Nat /\ s.started = FALSE /\ s.running = FALSE
  BY DEF Sound, SessionSet, RowSound, CheckingIn, ClockFits
<1>3. e \in SessionSet
  <2>1. s \in SessionSet /\ s.reference + 1 \in Nat /\ c.inst \in Instances BY <1>2 DEF Sound, CheckSet
  <2> QED BY <2>1, NoFailuresType DEF SessionSet, Enrolled
<1>4. /\ e.started = FALSE /\ e.endReason = s.endReason /\ e.reference = s.reference + 1
      /\ e.failed = NoFailures /\ e.running = FALSE
  BY <1>2 DEF Enrolled, Sound, SessionSet
<1> HIDE DEF e
<1>5. ready \in SessionSet BY <1>3 DEF SessionSet, Statuses, OpenPeriods
<1>6. /\ ready.status = "ready" /\ ready.started = FALSE /\ ready.endReason = s.endReason
      /\ ready.reference = s.reference + 1 /\ ready.failed = NoFailures /\ ready.running = FALSE
  BY <1>3, <1>4 DEF SessionSet
<1> HIDE DEF ready
<1>7. Follows(s, ready)
  <2>1. RowSound(ready) BY <1>2, <1>6 DEF Sound, RowSound, CheckingIn, CheckedIn, Ended, Terminal
  <2>2. AttemptsLeft(ready) BY <1>6, NoFailuresLeft DEF AttemptsLeft
  <2>3. Moves(s, ready) BY <1>2, <1>6 DEF Moves
  <2>4. ReferenceKept(s, ready) BY <1>2 DEF ReferenceKept
  <2> QED BY <2>1, <2>2, <2>3, <2>4 DEF Follows
<1>8. Follows(s, held)
  <2>1. /\ held.status = "on_hold" /\ held.canReverify = FALSE /\ held.running = FALSE
        /\ held.holdPrev = "ready" /\ held.started = FALSE /\ held.endReason = s.endReason
        /\ held.reference = s.reference + 1
    BY <1>5, <1>6, HoldNowFields DEF PrevOnHold
  <2> HIDE DEF held
  <2>2. RowSound(held) BY <1>2, <2>1 DEF Sound, RowSound, CheckingIn, CheckedIn, Ended, Terminal
  <2>3. AttemptsLeft(held) BY <2>1 DEF AttemptsLeft, MayTry
  <2>4. Moves(s, held) BY <2>1 DEF Moves, Holds
  <2>5. ReferenceKept(s, held) BY <1>2 DEF ReferenceKept
  <2> QED BY <2>2, <2>3, <2>4, <2>5 DEF Follows
<1>9. Follows(s, RetryOrHold(s, c, FullAttempt)) /\ Follows(s, RetryOrHold(s, c, QualityAttempt))
  BY <1>1, RetryOrHoldFollows, AttemptWeights
<1>10. t \in {RetryOrHold(s, c, FullAttempt), RetryOrHold(s, c, QualityAttempt), ready, held}
  BY DEF ApplyInitial, held, ready, e
<1> QED BY <1>7, <1>8, <1>9, <1>10

(* Every later check, in the status that requires it.                      *)
LEMMA ApplyContinuationFollows ==
    ASSUME NEW s, Sound(s), ~Ended(s), NEW c \in CheckSet, NEW t \in ApplyContinuation(s, c),
           s.status # "invited", c.purpose = "resume" => s.status = "paused",
           s.status = "on_hold" => s.canReverify
    PROVE  Follows(s, t)
<1> DEFINE e == Enrolled(s, c)
           g == [e EXCEPT !.reEnroll = FALSE]
<1>1. ASSUME ReEnrollmentApplies(s, c.purpose) PROVE Follows(s, ContinueAfterPass(g, c, FALSE))
  <2>1. /\ s.status = "on_hold" /\ s.canReverify /\ s.reEnroll /\ granted
        /\ (s.holdPrev # "invited" \/ recovered)
    BY <1>1 DEF ReEnrollmentApplies, Sound, RowSound
  <2>2. s \in SessionSet /\ s.reference \in Nat /\ s.reference + 1 \in Nat /\ c.inst \in Instances
    BY DEF Sound, SessionSet, CheckSet
  <2>3. e \in SessionSet BY <2>2, NoFailuresType DEF Enrolled, SessionSet
  <2>4. /\ e.status = "on_hold" /\ e.started = s.started /\ e.endReason = s.endReason
        /\ e.canReverify = s.canReverify /\ e.holdPrev = s.holdPrev /\ e.running = s.running
        /\ e.reference = s.reference + 1 /\ e.failed = NoFailures
    BY <2>1, <2>2 DEF Enrolled, SessionSet
  <2> HIDE DEF e
  <2>5. g \in SessionSet BY <2>3 DEF SessionSet
  <2>6. /\ g.status = "on_hold" /\ g.started = s.started /\ g.endReason = s.endReason
        /\ g.canReverify = s.canReverify /\ g.holdPrev = s.holdPrev /\ g.running = s.running
        /\ g.reference = s.reference + 1 /\ g.failed = NoFailures /\ g.reEnroll = FALSE
    BY <2>3, <2>4 DEF SessionSet
  <2> HIDE DEF g
  <2>7. RowSound(g)
    BY <2>1, <2>2, <2>6 DEF Sound, RowSound, CheckingIn, CheckedIn, Ended, Terminal
  <2>8. Sound(g) /\ ~Ended(g)
    BY <2>1, <2>5, <2>6, <2>7, NoFailuresLeft DEF Sound, ClockFits, AttemptsLeft, Ended, Terminal
  <2>9. Follows(g, ContinueAfterPass(g, c, FALSE))
    BY <2>1, <2>6, <2>8, ContinueAfterPassFollows
  <2> DEFINE u == ContinueAfterPass(g, c, FALSE)
  <2> HIDE DEF u
  <2>10. Moves(s, u)
    BY <2>1, <2>6, <2>9 DEF Follows, Moves, Holds, Releases, Back, Ended, u
  <2> QED BY <2>1, <2>9, <2>10 DEF Follows, ReferenceKept, u
<1>2. Follows(s, RetryOrHold(s, c, FullAttempt)) /\ Follows(s, RetryOrHold(s, c, QualityAttempt))
  BY RetryOrHoldFollows, AttemptWeights
<1>3. \A long \in BOOLEAN : Follows(s, ContinueAfterPass(s, c, long)) BY ContinueAfterPassFollows
<1>4. Follows(s, HoldForMismatch(s, c)) BY HoldForMismatchFollows
<1>5. \/ t \in {RetryOrHold(s, c, FullAttempt), RetryOrHold(s, c, QualityAttempt)}
      \/ ReEnrollmentApplies(s, c.purpose) /\ t = ContinueAfterPass(g, c, FALSE)
      \/ \E long \in BOOLEAN : t = ContinueAfterPass(s, c, long)
      \/ t = HoldForMismatch(s, c)
  BY DEF ApplyContinuation, g, e
<1> HIDE DEF g
<1> QED BY <1>1, <1>2, <1>3, <1>4, <1>5

(* The check-in that staff verify: held as one that is over.               *)
LEMMA AttestInitialFollows ==
    ASSUME NEW s, Sound(s), s.status = "invited", policy.verification = "staff", NEW c \in CheckSet
    PROVE  Follows(s, AttestInitial(s, c))
<1> DEFINE u == [s EXCEPT !.verified = c.inst, !.failed = NoFailures, !.status = "ready", !.period = "none"]
           t == HoldNow(u, "staff_verification")
<1>1. s \in SessionSet /\ c.inst \in Instances BY DEF Sound, CheckSet
<1>2. u \in SessionSet BY <1>1, NoFailuresType DEF SessionSet, Statuses, OpenPeriods
<1>3. /\ u.status = "ready" /\ u.started = s.started /\ u.endReason = s.endReason
      /\ u.reference = s.reference
  BY <1>1 DEF SessionSet
<1> HIDE DEF u
<1>4. /\ t.status = "on_hold" /\ t.canReverify = FALSE /\ t.running = FALSE /\ t.holdPrev = "ready"
      /\ t.started = s.started /\ t.endReason = s.endReason /\ t.reference = s.reference
  BY <1>2, <1>3, HoldNowFields DEF PrevOnHold
<1> HIDE DEF t
<1>5. RowSound(t) BY <1>4 DEF Sound, RowSound, CheckingIn, CheckedIn, Ended, Terminal
<1>6. AttemptsLeft(t) BY <1>4 DEF AttemptsLeft, MayTry
<1>7. Moves(s, t) BY <1>4 DEF Moves, Holds
<1> QED BY <1>4, <1>5, <1>6, <1>7 DEF Follows, ReferenceKept, AttestInitial, t, u

(* A later check that staff verify continues, or is held for staff.        *)
LEMMA AttestContinuationFollows ==
    ASSUME NEW s, Sound(s), ~Ended(s), NEW c \in CheckSet, NEW t \in AttestContinuation(s, c),
           s.status # "invited", c.purpose = "resume" => s.status = "paused",
           s.status = "on_hold" => s.canReverify
    PROVE  Follows(s, t)
<1> DEFINE v == Verified(s, c)
           r == Reconnected(s, c)
           a == [r EXCEPT !.status = "active"]
<1>1. v \in SessionSet /\ r \in SessionSet /\ SameButFailed(s, v) /\ SameButFailed(s, r)
  BY VerifiedFields DEF Sound
<1>2. \/ \E long \in BOOLEAN : t = ContinueAfterPass(s, c, long)
      \/ t = HoldNow(v, "staff_verification")
      \/ t = HoldNow(r, "staff_verification")
      \/ c.purpose = "resume" /\ t = HoldNow(a, "review")
  BY DEF AttestContinuation, Verified, Reconnected
<1>3. \A long \in BOOLEAN : Follows(s, ContinueAfterPass(s, c, long)) BY ContinueAfterPassFollows
<1>4. c.purpose = "resume" => ContinueAfterPass(s, c, TRUE) = HoldNow(a, "review")
  BY DEF ContinueAfterPass, Verified, Reconnected
<1> HIDE DEF v, r, a
<1>5. Follows(s, HoldNow(v, "staff_verification")) /\ Follows(s, HoldNow(r, "staff_verification"))
  BY <1>1, HoldFollows
<1> QED BY <1>2, <1>3, <1>4, <1>5

-----------------------------------------------------------------------------
(***************************************************************************)
(* Every action is such an operation.                                      *)
(***************************************************************************)

(* The inductive invariant.                                                *)
SInv == IInv /\ RowSound(session) /\ AttemptsLeft(session) /\ ChecksSound

(* What one step owes: a step of Lifecycle or none, and a reference that   *)
(* is kept or replaced by right.                                           *)
StepSound ==
    /\ RowSound(session)' /\ AttemptsLeft(session)'
    /\ [Life!Next]_(Life!life)
    /\ ReferenceKept(session, session')
    /\ Decided(session) => session'.endReason = session.endReason /\ session'.status = session.status

(* What the invariant says of the variables, for the proofs below.         *)
LEMMA SInvFacts ==
    ASSUME SInv
    PROVE  Sound(session) /\ session \in SessionSet /\ checks \subseteq CheckSet /\ granted \in BOOLEAN
                          /\ recovered \in BOOLEAN /\ policy \in PolicySet
BY PoliciesAssumption DEF SInv, IInv, TypeOK, Sound, ClockRunsOnlyInExam

(* A row that moves is a session that lives on.                            *)
LEMMA MovesIsLife ==
    ASSUME SInv, Moves(session, session'), session' \in SessionSet, recovered' = recovered
    PROVE  [Life!Next]_(Life!life)
<1> USE SInvFacts
<1>1. session.running \in BOOLEAN /\ session.status \in Statuses /\ session'.running \in BOOLEAN
      /\ session'.status \in Statuses
  BY DEF SessionSet
<1>2. ~Ended(session) => ~CandidateDecided
  BY DEF SInv, RowSound, CandidateDecided
<1>3. (session'.endReason = session.endReason) => (CandidateDecided' = CandidateDecided)
  BY DEF CandidateDecided
<1>4. CASE session'.endReason = session.endReason /\ session'.status = session.status
           /\ session'.running = session.running /\ Back(session') = Back(session)
  BY <1>3, <1>4, Zenon DEF Life!life, Back
<1>5. CASE session'.endReason = session.endReason
           /\ session.status = "invited" /\ session'.status = "ready" /\ session'.running = session.running
  BY <1>3, <1>5 DEF Life!Next, Life!CheckIn
<1>6. CASE session'.endReason = session.endReason
           /\ session.status = "ready" /\ session'.status = "active" /\ session'.running = TRUE
  BY <1>3, <1>6 DEF Life!Next, Life!Start
<1>7. CASE session'.endReason = session.endReason
           /\ session.status = "paused" /\ session'.status = "active" /\ session'.running = TRUE
  BY <1>3, <1>7 DEF Life!Next, Life!Resume
<1>8. CASE session'.endReason = session.endReason /\ session.status = "active" /\ session'.status = "paused"
  BY <1>1, <1>3, <1>8 DEF Life!Next, Life!Pause
<1>9. CASE session'.endReason = session.endReason /\ session.status = "active" /\ session'.status = "active"
  <2>1. CASE session'.running = session.running
    BY <1>3, <1>9, <2>1 DEF Life!life
  <2>2. CASE session'.running # session.running
    <3>1. session'.running = ~session.running BY <1>1, <2>2
    <3> QED BY <1>3, <1>9, <3>1 DEF Life!Next, Life!ClockTurns
  <2> QED BY <2>1, <2>2
<1>10. CASE session'.endReason = session.endReason /\ Holds(session, session')
  BY <1>3, <1>10 DEF Life!Next, Life!Hold, Holds
<1>11. CASE session'.endReason = session.endReason /\ Releases(session, session')
  BY <1>3, <1>11 DEF Life!Next, Life!Release, Releases
<1>12. CASE ~Ended(session) /\ Ended(session') /\ session'.running = FALSE
  <2>1. CandidateDecided' \in BOOLEAN BY DEF CandidateDecided
  <2> QED BY <1>12, <2>1 DEF Life!Next, Life!End, Life!Over, Ended, Terminal
<1> QED BY <1>4, <1>5, <1>6, <1>7, <1>8, <1>9, <1>10, <1>11, <1>12 DEF Moves

(* So a handler that writes a row that follows makes a sound step.         *)
LEMMA WriteSound ==
    ASSUME SInv, NEW t \in SessionSet, Follows(session, t), Write(t)
    PROVE  StepSound /\ policy' = policy /\ session' = t
<1> USE SInvFacts
<1>1. /\ session' = t /\ policy' = policy /\ recovered' = recovered
      /\ granted' = (granted /\ t.status = "on_hold" /\ t.canReverify)
  BY DEF Write
<1>2. RowSound(session)'
  BY <1>1 DEF Follows, RowSound, CheckingIn, CheckedIn, Ended
<1>3. AttemptsLeft(session)' BY <1>1 DEF Follows, AttemptsLeft, MayTry, Exhausted
<1>4. Moves(session, session') BY <1>1 DEF Follows
<1>5. [Life!Next]_(Life!life) BY <1>1, <1>4, MovesIsLife
<1>6. Decided(session) => session'.endReason = session.endReason /\ session'.status = session.status
  <2> SUFFICES ASSUME Decided(session)
               PROVE  session'.endReason = session.endReason /\ session'.status = session.status
    OBVIOUS
  <2>1. Ended(session) BY DEF SInv, RowSound, Decided
  <2> QED BY <1>4, <2>1 DEF Moves, Holds, Releases, Ended, Terminal
<1>7. ReferenceKept(session, session') BY <1>1 DEF Follows
<1> QED BY <1>1, <1>2, <1>3, <1>5, <1>6, <1>7 DEF StepSound

(* Checks that were sound stay so while the session does not return to its *)
(* check-in.                                                               *)
LEMMA ChecksStaySound ==
    ASSUME SInv, NEW t \in SessionSet, Follows(session, t), Write(t),
           \/ checks' \subseteq checks
           \/ checks' = Uncounted(checks)
    PROVE  StepSound /\ ChecksSound'
<1>1. StepSound /\ policy' = policy /\ session' = t BY WriteSound
<1>2. session'.status = "invited" => session.status = "invited"
  BY <1>1 DEF Follows, Moves, Holds, Releases, Ended, Terminal
<1>3. ASSUME NEW c \in checks'
      PROVE  \E d \in checks : c.prepared = d.prepared /\ (c.counted => d.counted) /\ c.purpose = d.purpose
  <2>1. CASE checks' \subseteq checks BY <1>3, <2>1
  <2>2. CASE checks' = Uncounted(checks)
    <3>1. PICK d \in checks : c = [d EXCEPT !.counted = FALSE] BY <1>3, <2>2 DEF Uncounted
    <3>2. d \in CheckSet BY SInvFacts
    <3>3. c.prepared = d.prepared /\ c.counted = FALSE /\ c.purpose = d.purpose BY <3>1, <3>2 DEF CheckSet
    <3> QED BY <3>3
  <2> QED BY <2>1, <2>2
<1> QED BY <1>1, <1>2, <1>3 DEF SInv, ChecksSound

(* Fields these proofs do not tell apart.                                  *)
LEMMA OtherFieldSame ==
    ASSUME NEW s \in SessionSet
    PROVE  /\ \A v : Same(s, [s EXCEPT !.consent = v])
           /\ \A v : Same(s, [s EXCEPT !.verified = v])
           /\ \A v : Same(s, [s EXCEPT !.pauseRequests = v])
           /\ \A v, w : Same(s, [s EXCEPT !.active = v, !.period = w])
           /\ \A v : SameButFailed(s, [s EXCEPT !.failed = v])
BY DEF SessionSet, Same, SameButFailed

(* The clock of an exam in progress is turned on or off.                   *)
LEMMA ClockTurnsFollows ==
    ASSUME NEW s, Sound(s), s.status = "active", NEW on \in BOOLEAN
    PROVE  Follows(s, [s EXCEPT !.running = on])
<1> DEFINE t == [s EXCEPT !.running = on]
<1>1. /\ t.status = "active" /\ t.running = on /\ t.started = s.started /\ t.endReason = s.endReason
      /\ t.reference = s.reference /\ t.failed = s.failed
  BY DEF Sound, SessionSet
<1> HIDE DEF t
<1> QED BY <1>1 DEF Sound, Follows, RowSound, AttemptsLeft, MayTry, Moves, ReferenceKept,
                    CheckingIn, CheckedIn, Ended, Terminal, t

(* Consent is given, or withdrawn and the session ended.                   *)
LEMMA ConsentSound ==
    ASSUME SInv, IInv', AcceptConsent \/ WithdrawConsent
    PROVE  StepSound /\ ChecksSound'
<1> USE SInvFacts
<1>0. session' \in SessionSet BY DEF IInv, TypeOK
<1>1. CASE AcceptConsent
  BY <1>0, <1>1, OtherFieldSame, SameFollows, ChecksStaySound DEF AcceptConsent, OnlySession, Write
<1>2. CASE WithdrawConsent
  BY <1>0, <1>2, FinalizeFollows, ChecksStaySound DEF WithdrawConsent, OnlySession, Write, EndReasons
<1> QED BY <1>1, <1>2

(* What a browser does outside its checks.                                 *)
LEMMA CandidateActsSound ==
    ASSUME SInv, IInv', NEW i \in Instances,
           \/ StartSession(i) \/ CandidateSubmit(i) \/ RequestPause(i) \/ CancelPauseRequest(i)
           \/ HeartbeatResumes(i) \/ ConcurrentUse(i)
    PROVE  StepSound /\ ChecksSound'
<1> USE SInvFacts
<1>0. session' \in SessionSet BY DEF IInv, TypeOK
<1>1. CASE StartSession(i)
  BY <1>0, <1>1, StartExamFollows, ChecksStaySound DEF StartSession, OnlySession, Write
<1>2. CASE CandidateSubmit(i)
  BY <1>0, <1>2, FinalizeFollows, ChecksStaySound DEF CandidateSubmit, OnlySession, Write, EndReasons
<1>3. CASE RequestPause(i)
  <2>1. Follows(session, PauseNow(session))
    BY <1>3, PauseNowFollows DEF RequestPause, SameButFailed
  <2>2. \A v : Follows(session, [session EXCEPT !.pauseRequests = v]) BY OtherFieldSame, SameFollows
  <2> QED BY <1>0, <1>3, <2>1, <2>2, ChecksStaySound DEF RequestPause, Write
<1>4. CASE CancelPauseRequest(i)
  BY <1>0, <1>4, OtherFieldSame, SameFollows, ChecksStaySound DEF CancelPauseRequest, OnlySession, Write
<1>5. CASE HeartbeatResumes(i)
  BY <1>0, <1>5, ClockTurnsFollows, ChecksStaySound DEF HeartbeatResumes, OnlySession, Write
<1>6. CASE ConcurrentUse(i)
  BY <1>0, <1>6, OtherFieldSame, SameFollows, ChecksStaySound DEF ConcurrentUse, OnlySession, Write
<1> QED BY <1>1, <1>2, <1>3, <1>4, <1>5, <1>6

(* A step that leaves the session alone.                                   *)
LEMMA SessionKept ==
    ASSUME SInv, UNCHANGED <<policy, session, granted, recovered>>
    PROVE  StepSound
<1> USE SInvFacts
<1>1. Same(session, session') BY DEF Same, SameButFailed
<1>2. RowSound(session)' BY DEF SInv, RowSound, CheckingIn, CheckedIn, Ended
<1>3. AttemptsLeft(session)' BY DEF SInv, AttemptsLeft, MayTry, Exhausted
<1>4. Moves(session, session') BY DEF Moves, Back
<1>5. [Life!Next]_(Life!life) BY <1>4, MovesIsLife
<1> QED BY <1>2, <1>3, <1>5 DEF StepSound, ReferenceKept

(* The four transactions that start a check, one by one (startCheck).      *)
LEMMA StartCheckSound ==
    ASSUME SInv, IInv', NEW i \in Instances,
           \/ \E p \in Purposes : BeginStartCheck(i, p)
           \/ EnforceReconnectLimits(i) \/ SettleReplacedCheck(i) \/ OpenCheck(i)
    PROVE  StepSound /\ ChecksSound'
<1> USE SInvFacts
<1>0. session' \in SessionSet BY DEF IInv, TypeOK
<1>s. Follows(session, session) BY SameFollows DEF Same, SameButFailed
<1>1. CASE \E p \in Purposes : BeginStartCheck(i, p)
  <2>1. UNCHANGED <<policy, session, granted, recovered, checks>> BY <1>1 DEF BeginStartCheck
  <2> QED BY <2>1, SessionKept DEF SInv, ChecksSound
<1>2. CASE EnforceReconnectLimits(i)
  <2>1. /\ Write(session) \/ (session.status = "active" /\ Write(ApplyResumeLimit(session)))
        /\ checks' = checks
    BY <1>2 DEF EnforceReconnectLimits
  <2>2. session.status = "active" => Follows(session, ApplyResumeLimit(session))
    BY ApplyResumeLimitFollows DEF Ended, Terminal
  <2> QED BY <1>0, <1>s, <2>1, <2>2, ChecksStaySound DEF Write
<1>3. CASE SettleReplacedCheck(i)
  <2>1. /\ Write(session) \/ \E c \in checks : \E s \in SettleAbandoned(session, c) : Write(s)
        /\ checks' \subseteq checks
    BY <1>3 DEF SettleReplacedCheck
  <2>2. \A c \in checks : \A s \in SettleAbandoned(session, c) : Follows(session, s)
    BY SettleAbandonedFollows DEF SInv, ChecksSound
  <2> QED BY <1>0, <1>s, <2>1, <2>2, ChecksStaySound DEF Write
<1>4. CASE OpenCheck(i)
  <2> DEFINE p == requests[i].purpose
             per == IF p = "initial" /\ session.period = "none" THEN "check_in" ELSE session.period
             opened == [session EXCEPT !.active = i, !.period = per]
             c == [inst |-> i, purpose |-> p, counted |-> TRUE, prepared |-> "none"]
  <2>1. \/ RequiredCheck(session, i) = p /\ Write(opened) /\ checks' = {c}
        \/ Write(session) /\ checks' = checks
    BY <1>4 DEF OpenCheck
  <2>2. Follows(session, opened) BY OtherFieldSame, SameFollows
  <2>3. c.prepared = "none" /\ c.purpose = p OBVIOUS
  <2>4. session.status = "invited" /\ RequiredCheck(session, i) = p => p \in {"initial", "none"}
    BY DEF RequiredCheck
  <2>5. p # "none"
    BY DEF SInv, IInv, TypeOK, RequestSet, Purposes
  <2> HIDE DEF opened, c, p
  <2>6. CASE Write(session) /\ checks' = checks BY <1>0, <1>s, <2>6, ChecksStaySound DEF Write
  <2>7. CASE RequiredCheck(session, i) = p /\ Write(opened) /\ checks' = {c}
    <3>1. StepSound /\ session' = opened BY <1>0, <2>2, <2>7, WriteSound DEF Write
    <3>2. session'.status = "invited" => session.status = "invited"
      BY <2>2, <3>1 DEF Follows, Moves, Holds, Releases, Ended, Terminal
    <3>3. ChecksSound' BY <2>3, <2>4, <2>5, <2>7, <3>2 DEF ChecksSound
    <3> QED BY <3>1, <3>3
  <2> QED BY <2>1, <2>6, <2>7
<1> QED BY <1>1, <1>2, <1>3, <1>4

(* What a required check says of the session.                              *)
LEMMA RequiredCheckTells ==
    ASSUME NEW s \in SessionSet, NEW i \in Instances, NEW p \in Purposes, RequiredCheck(s, i) = p
    PROVE  /\ ~Ended(s)
           /\ p = "initial" <=> s.status = "invited"
           /\ p = "resume" <=> s.status = "paused"
           /\ s.status = "on_hold" => s.canReverify
BY DEF RequiredCheck, Ended, Terminal, Purposes, SessionSet, Statuses

(* Evidence is prepared outside the lock, judged inside (completeCheck).   *)
LEMMA CompleteCheckSound ==
    ASSUME SInv, IInv', NEW i \in Instances,
           PrepareCheck(i) \/ CompleteCheck(i) \/ CompleteAttestCheck(i)
    PROVE  StepSound /\ ChecksSound'
<1> USE SInvFacts
<1>0. session' \in SessionSet BY DEF IInv, TypeOK
<1>1. CASE PrepareCheck(i)
  <2>1. PICK c \in checks, q \in {"gallery", "comparison"} :
           /\ policy.verification = "automatic"
           /\ checks' = (checks \ {c}) \cup {[c EXCEPT !.prepared = q]}
           /\ UNCHANGED <<policy, session, granted, recovered>>
    BY <1>1 DEF PrepareCheck
  <2>2. StepSound BY <2>1, SessionKept
  <2>3. c \in CheckSet OBVIOUS
  <2>4. [c EXCEPT !.prepared = q].purpose = c.purpose /\ [c EXCEPT !.prepared = q].counted = c.counted
    BY <2>3 DEF CheckSet
  <2>5. ChecksSound' BY <2>1, <2>4 DEF SInv, ChecksSound
  <2> QED BY <2>2, <2>5
<1>2. CASE CompleteCheck(i)
  <2>1. PICK c \in checks :
           /\ RequiredCheck(session, i) = c.purpose
           /\ \E s \in IF c.purpose = "initial" THEN ApplyInitial(session, c) ELSE ApplyContinuation(session, c) :
                 Write(s)
           /\ checks' = checks \ {c}
    BY <1>2 DEF CompleteCheck
  <2>2. c \in CheckSet /\ c.purpose \in Purposes BY DEF CheckSet
  <2>3. /\ ~Ended(session) /\ (c.purpose = "initial" <=> session.status = "invited")
        /\ (c.purpose = "resume" => session.status = "paused")
        /\ (session.status = "on_hold" => session.canReverify)
    BY <2>1, <2>2, RequiredCheckTells
  <2>4. PICK t : Follows(session, t) /\ Write(t)
    BY <2>1, <2>2, <2>3, ApplyInitialFollows, ApplyContinuationFollows
  <2> QED BY <1>0, <2>1, <2>4, ChecksStaySound DEF Write
<1>3. CASE CompleteAttestCheck(i)
  <2>1. PICK c \in checks :
           /\ policy.verification = "staff"
           /\ RequiredCheck(session, i) = c.purpose
           /\ \E s \in IF c.purpose = "initial" THEN {AttestInitial(session, c)}
                       ELSE AttestContinuation(session, c) : Write(s)
           /\ checks' = checks \ {c}
    BY <1>3 DEF CompleteAttestCheck
  <2>2. c \in CheckSet /\ c.purpose \in Purposes BY DEF CheckSet
  <2>3. /\ ~Ended(session) /\ (c.purpose = "initial" <=> session.status = "invited")
        /\ (c.purpose = "resume" => session.status = "paused")
        /\ (session.status = "on_hold" => session.canReverify)
    BY <2>1, <2>2, RequiredCheckTells
  <2>4. PICK t : Follows(session, t) /\ Write(t)
    BY <2>1, <2>2, <2>3, AttestInitialFollows, AttestContinuationFollows
  <2> QED BY <1>0, <2>1, <2>4, ChecksStaySound DEF Write
<1> QED BY <1>1, <1>2, <1>3

(* Sweeper, monitoring and abandonment job.                                *)
LEMMA ServerSound ==
    ASSUME SInv, IInv', Server
    PROVE  StepSound /\ ChecksSound'
<1> USE SInvFacts
<1>0. session' \in SessionSet BY DEF IInv, TypeOK
<1>a. session.status = "active" => ~Ended(session) BY DEF Ended, Terminal
<1>b. SameButFailed(session, session) BY DEF SameButFailed
<1>1. CASE ReportingTimeout
  BY <1>0, <1>1, ClockTurnsFollows, ChecksStaySound DEF ReportingTimeout, OnlySession, Write
<1>2. CASE ClockExpiry
  BY <1>0, <1>2, FinalizeFollows, ChecksStaySound DEF ClockExpiry, OnlySession, Write, EndReasons
<1>3. CASE ExpireCheck
  <2>1. PICK c \in checks : (\E s \in SettleAbandoned(session, c) : Write(s)) /\ checks' \subseteq checks
    BY <1>3 DEF ExpireCheck
  <2>2. \A s \in SettleAbandoned(session, c) : Follows(session, s)
    BY SettleAbandonedFollows DEF SInv, ChecksSound
  <2> QED BY <1>0, <2>1, <2>2, ChecksStaySound DEF Write
<1>4. CASE EnforceOfflineLimits
  BY <1>0, <1>a, <1>4, ApplyResumeLimitFollows, ChecksStaySound DEF EnforceOfflineLimits, OnlySession, Write
<1>5. CASE MonitoringHold
  BY <1>0, <1>a, <1>b, <1>5, HoldFollows, ChecksStaySound DEF MonitoringHold, OnlySession, Write
<1>6. CASE CloseAbandoned
  BY <1>0, <1>6, FinalizeFollows, ChecksStaySound DEF CloseAbandoned, OnlySession, Write, EndReasons
<1> QED BY <1>1, <1>2, <1>3, <1>4, <1>5, <1>6 DEF Server

(* Checks that no longer count are sound wherever the session goes.        *)
LEMMA UncountedSound ==
    ASSUME SInv, policy' = policy, checks' = Uncounted(checks)
    PROVE  ChecksSound'
<1> SUFFICES ASSUME NEW c \in checks'
             PROVE  c.counted = FALSE /\ (c.prepared # "none" => policy.verification = "automatic")
  BY DEF ChecksSound
<1>1. PICK d \in checks : c = [d EXCEPT !.counted = FALSE] BY DEF Uncounted
<1>2. d \in CheckSet BY SInvFacts
<1>3. c.prepared = d.prepared /\ c.counted = FALSE BY <1>1, <1>2 DEF CheckSet
<1> QED BY <1>3 DEF SInv, ChecksSound

(* Staff release a hold: to the check-in, to a check, or to the exam.      *)
LEMMA ReleaseHoldSound ==
    ASSUME SInv, IInv', NEW requireCheckOpt \in BOOLEAN, NEW reEnrollOpt \in BOOLEAN,
           ReleaseHold(requireCheckOpt, reEnrollOpt)
    PROVE  StepSound /\ ChecksSound'
<1> USE SInvFacts
<1> DEFINE s == IF session.holdReason = "resume_limit" THEN [session EXCEPT !.reconnects = 0] ELSE session
           staffMode == policy.verification = "staff"
           reEnroll == ~staffMode /\ reEnrollOpt
           requireCheck == s.holdReason # "staff_verification" /\ (reEnroll \/ requireCheckOpt)
           toInitial == IF staffMode THEN s.holdPrev = "invited" ELSE s.reference = 0
           reset == [s EXCEPT !.failed = NoFailures]
           cleared == ClearedHold(reset)
           released == [cleared EXCEPT !.period = "none"]
           toCheck == [reset EXCEPT !.canReverify = TRUE, !.reEnroll = reEnroll]
           toInvited == [released EXCEPT !.status = "invited", !.verified = NoInstance]
           toPrev == [released EXCEPT !.status = s.holdPrev]
<1>0. session' \in SessionSet BY DEF IInv, TypeOK
<1>1. /\ session.status = "on_hold"
      /\ session' = CASE toInitial -> toInvited
                      [] ~toInitial /\ requireCheck -> toCheck
                      [] OTHER -> IF s.holdPrev \in {"ready", "invited"} THEN toPrev ELSE Continue(released)
      /\ granted' = (reEnroll /\ session'.status = "on_hold")
      /\ checks' = Uncounted(checks)
      /\ UNCHANGED <<policy, recovered>>
  BY DEF ReleaseHold
<1>2. s \in SessionSet /\ Same(session, s) BY DEF SessionSet, Same, SameButFailed
<1> HIDE DEF s
<1>3. reset \in SessionSet /\ SameButFailed(s, reset) /\ reset.failed = NoFailures
  BY <1>2, NoFailuresType DEF SessionSet, SameButFailed
<1> HIDE DEF reset
<1>4. /\ cleared \in SessionSet
      /\ \A f \in {"status", "started", "endReason", "reference", "failed", "running"} : cleared[f] = reset[f]
  BY <1>3, ClearedHoldType DEF SessionSet
<1> HIDE DEF cleared
<1>5. released \in SessionSet BY <1>4 DEF SessionSet, OpenPeriods
<1>6. /\ released.status = "on_hold" /\ released.started = session.started
      /\ released.endReason = session.endReason /\ released.reference = session.reference
      /\ released.failed = NoFailures /\ released.running = FALSE
  <2>1. session.running = FALSE BY <1>1 DEF Sound, ClockFits, SessionSet
  <2>2. \A f \in {"status", "started", "endReason", "reference", "failed", "running"} : released[f] = cleared[f]
    BY <1>4 DEF SessionSet
  <2> QED BY <1>1, <1>2, <1>3, <1>4, <2>1, <2>2 DEF Same, SameButFailed
<1> HIDE DEF released
<1>7. /\ session.endReason = "none" /\ session.holdPrev \in {"invited", "ready", "active"}
      /\ s.holdPrev = session.holdPrev /\ s.reference = session.reference
      /\ policy.verification \in {"automatic", "staff"} /\ session.running = FALSE
  BY <1>1, <1>2 DEF Sound, RowSound, Ended, Terminal, SessionSet, PolicySet, Same, SameButFailed, ClockFits
<1>8. ChecksSound' BY <1>1, UncountedSound
<1>9. ~Decided(session) /\ CandidateDecided = FALSE BY <1>7 DEF Decided, CandidateDecided
(* Back to the check-in: it was not over, or left no reference.            *)
<1>10. ASSUME NEW t, session' = t, t.status = "invited", t.started = session.started, t.failed = NoFailures,
              t.endReason = session.endReason, t.reference = session.reference, t.running = FALSE,
              toInitial \/ session.holdPrev = "invited"
       PROVE  StepSound
  <2>1. /\ session.started = FALSE
        /\ (policy.verification = "automatic" /\ ~recovered => session.reference = 0)
    BY <1>1, <1>7, <1>10 DEF Sound, RowSound, CheckingIn, CheckedIn, SessionSet
  <2>2. RowSound(session)' BY <1>1, <1>7, <1>10, <2>1 DEF RowSound, CheckingIn, CheckedIn, Ended
  <2>3. AttemptsLeft(session)' BY <1>10, NoFailuresLeft DEF AttemptsLeft, Exhausted
  <2>4. CandidateDecided' = FALSE BY <1>7, <1>10 DEF CandidateDecided
  <2>5. Life!Release BY <1>1, <1>7, <1>9, <1>10, <2>4 DEF Life!Release
  <2> QED BY <1>9, <1>10, <2>2, <2>3, <2>5 DEF StepSound, Life!Next, ReferenceKept
<1>11. CASE session' = toInvited /\ toInitial
  <2>1. /\ toInvited.status = "invited" /\ toInvited.started = session.started /\ toInvited.failed = NoFailures
        /\ toInvited.endReason = session.endReason /\ toInvited.reference = session.reference
        /\ toInvited.running = FALSE
    BY <1>5, <1>6 DEF SessionSet
  <2> HIDE DEF toInvited, toInitial
  <2> QED BY <1>8, <1>10, <1>11, <2>1
<1>12. CASE session' = toCheck /\ ~toInitial
  <2>1. /\ toCheck.status = "on_hold" /\ toCheck.started = session.started /\ toCheck.failed = NoFailures
        /\ toCheck.endReason = session.endReason /\ toCheck.reference = session.reference
        /\ toCheck.running = FALSE /\ toCheck.holdPrev = session.holdPrev /\ toCheck.reEnroll = reEnroll
    BY <1>1, <1>2, <1>3, <1>7 DEF SessionSet, Same, SameButFailed
  <2> HIDE DEF toCheck
  <2>2. session.holdPrev # "invited" \/ recovered
    BY <1>1, <1>7, <1>12 DEF Sound, RowSound, CheckingIn
  <2>3. granted' = reEnroll BY <1>1, <1>12, <2>1
  <2>4. RowSound(session)'
    BY <1>1, <1>7, <1>12, <2>1, <2>2, <2>3 DEF Sound, RowSound, CheckingIn, CheckedIn, Ended
  <2>5. AttemptsLeft(session)' BY <1>12, <2>1, NoFailuresLeft DEF AttemptsLeft, Exhausted
  <2>6. Moves(session, session') BY <1>1, <1>7, <1>12, <2>1 DEF Moves, Back
  <2>7. [Life!Next]_(Life!life) BY <1>0, <1>1, <2>6, MovesIsLife
  <2> QED BY <1>8, <1>9, <1>12, <2>1, <2>4, <2>5, <2>7 DEF StepSound, ReferenceKept
<1>13. CASE session' = toPrev /\ session.holdPrev = "invited"
  <2>1. /\ toPrev.status = "invited" /\ toPrev.started = session.started /\ toPrev.failed = NoFailures
        /\ toPrev.endReason = session.endReason /\ toPrev.reference = session.reference
        /\ toPrev.running = FALSE
    BY <1>5, <1>6, <1>7, <1>13 DEF SessionSet
  <2> HIDE DEF toPrev
  <2> QED BY <1>8, <1>10, <1>13, <2>1
<1>14. ASSUME NEW t, session' = t, t.status = session.holdPrev, t.status \in {"ready", "active"},
              t.started = session.started, t.failed = NoFailures, t.endReason = session.endReason,
              t.reference = session.reference, t.running = (t.status = "active")
       PROVE  StepSound
  <2>1. RowSound(session)' BY <1>1, <1>7, <1>14 DEF Sound, RowSound, CheckingIn, CheckedIn, Ended
  <2>2. AttemptsLeft(session)' BY <1>14, NoFailuresLeft DEF AttemptsLeft, Exhausted
  <2>3. Moves(session, session') BY <1>1, <1>14 DEF Moves, Releases
  <2>4. [Life!Next]_(Life!life) BY <1>0, <1>1, <2>3, MovesIsLife
  <2> QED BY <1>9, <1>14, <2>1, <2>2, <2>4 DEF StepSound, ReferenceKept
<1>15. CASE session' = toPrev /\ session.holdPrev = "ready"
  <2>1. /\ toPrev.status = "ready" /\ toPrev.started = session.started /\ toPrev.failed = NoFailures
        /\ toPrev.endReason = session.endReason /\ toPrev.reference = session.reference
        /\ toPrev.running = FALSE
    BY <1>5, <1>6, <1>7, <1>15 DEF SessionSet
  <2> HIDE DEF toPrev
  <2> QED BY <1>8, <1>14, <1>15, <2>1
<1>16. CASE session' = Continue(released) /\ session.holdPrev = "active"
  <2>1. LET t == Continue(released)
        IN  /\ t.status = "active" /\ t.running = TRUE
            /\ t.started = released.started /\ t.endReason = released.endReason
            /\ t.reference = released.reference /\ t.failed = released.failed
    BY <1>5, ContinueFields
  <2> QED BY <1>6, <1>8, <1>14, <1>16, <2>1
<1> HIDE DEF toInitial, requireCheck, toInvited, toCheck, toPrev
<1> QED BY <1>1, <1>7, <1>11, <1>12, <1>13, <1>15, <1>16

(* Staff reopen an ended session, as a hold or before its check-in.        *)
LEMMA ReopenSessionSound ==
    ASSUME SInv, IInv', ReopenSession
    PROVE  StepSound /\ ChecksSound'
<1> USE SInvFacts
<1> DEFINE reset == [session EXCEPT !.endReason = "none", !.scored = FALSE, !.reconnects = 0, !.failed = NoFailures]
           held == [reset EXCEPT !.status = "on_hold", !.period = "on_hold", !.holdReason = "review",
                                 !.canReverify = TRUE, !.holdPrev = "active", !.reEnroll = FALSE]
           cleared == ClearedHold(reset)
           invited == [cleared EXCEPT !.status = "invited", !.verified = NoInstance, !.active = NoInstance]
<1>0. session' \in SessionSet BY DEF IInv, TypeOK
<1>1. /\ Ended(session) /\ session.endReason \in Reopenable
      /\ session.started => policy.verification = "staff" \/ session.reference # 0
      /\ session' = IF session.started THEN held ELSE invited
      /\ granted' = FALSE /\ recovered' = (recovered \/ ~session.started)
      /\ checks' = Uncounted(checks) /\ policy' = policy
  BY DEF ReopenSession
<1>2. reset \in SessionSet BY NoFailuresType DEF SessionSet, EndReasons
<1>3. /\ reset.endReason = "none" /\ reset.failed = NoFailures /\ reset.started = session.started
      /\ reset.reference = session.reference /\ reset.running = session.running
  BY DEF SessionSet
<1> HIDE DEF reset
<1>4. ChecksSound' BY <1>1, UncountedSound
<1>5. session.running = FALSE /\ session.started \in BOOLEAN /\ session.status \in Terminal
  BY <1>1 DEF Sound, ClockFits, Ended, Terminal, SessionSet
<1>6. ~Decided(session) /\ CandidateDecided = FALSE BY <1>1 DEF Decided, CandidateDecided, Reopenable
<1>7. CASE session.started
  <2>1. /\ held.status = "on_hold" /\ held.canReverify = TRUE /\ held.holdPrev = "active"
        /\ held.reEnroll = FALSE /\ held.endReason = "none" /\ held.failed = NoFailures
        /\ held.started = session.started /\ held.reference = session.reference /\ held.running = session.running
    BY <1>2, <1>3 DEF SessionSet
  <2> HIDE DEF held
  <2>2. session' = held /\ recovered' = recovered BY <1>1, <1>7
  <2>3. RowSound(session)'
    BY <1>1, <1>7, <2>1, <2>2 DEF RowSound, CheckingIn, CheckedIn
  <2>4. AttemptsLeft(session)' BY <2>1, <2>2, NoFailuresLeft DEF AttemptsLeft, Exhausted
  <2>5. CandidateDecided' = FALSE BY <2>1, <2>2 DEF CandidateDecided
  <2>6. Life!Reopen
    BY <1>5, <1>6, <2>1, <2>2, <2>5 DEF Life!Reopen, Life!Over, Terminal
  <2> QED BY <1>4, <1>6, <2>1, <2>2, <2>3, <2>4, <2>6 DEF StepSound, Life!Next, ReferenceKept
<1>8. CASE ~session.started
  <2>1. /\ cleared \in SessionSet
        /\ \A f \in {"started", "endReason", "reference", "failed", "running"} : cleared[f] = reset[f]
    BY <1>2, ClearedHoldType DEF SessionSet
  <2> HIDE DEF cleared
  <2>2. /\ invited.status = "invited" /\ invited.endReason = "none" /\ invited.failed = NoFailures
        /\ invited.started = session.started /\ invited.reference = session.reference
        /\ invited.running = session.running
    BY <1>3, <2>1 DEF SessionSet
  <2> HIDE DEF invited
  <2>3. session' = invited /\ recovered' = TRUE BY <1>1, <1>8
  <2>4. RowSound(session)' BY <1>1, <1>8, <2>2, <2>3 DEF RowSound, CheckingIn, CheckedIn
  <2>5. AttemptsLeft(session)' BY <2>2, <2>3, NoFailuresLeft DEF AttemptsLeft, Exhausted
  <2>6. CandidateDecided' = FALSE BY <2>2, <2>3 DEF CandidateDecided
  <2>7. Life!Reopen
    BY <1>5, <1>6, <2>2, <2>3, <2>6 DEF Life!Reopen, Life!Over, Terminal
  <2> QED BY <1>4, <1>6, <2>2, <2>3, <2>4, <2>5, <2>7 DEF StepSound, Life!Next, ReferenceKept
<1> QED BY <1>7, <1>8

(* Every action of staff.                                                  *)
LEMMA StaffSound ==
    ASSUME SInv, IInv', Staff
    PROVE  StepSound /\ ChecksSound'
<1> USE SInvFacts
<1>0. session' \in SessionSet BY DEF IInv, TypeOK
<1>1. CASE \E approve \in BOOLEAN : DecidePauseRequest(approve)
  <2>1. PICK approve \in BOOLEAN : DecidePauseRequest(approve) BY <1>1
  <2> DEFINE decided == [session EXCEPT !.pauseRequests = @ - 1]
  <2>2. decided \in SessionSet /\ Same(session, decided)
    <3>1. session.pauseRequests - 1 \in Nat BY <2>1 DEF DecidePauseRequest, SessionSet
    <3> QED BY <3>1 DEF SessionSet, Same, SameButFailed
  <2>3. \/ session.status = "active" /\ Write(PauseNow(decided)) /\ checks' = Uncounted(checks)
        \/ Write(decided) /\ checks' = checks
    BY <2>1 DEF DecidePauseRequest
  <2> HIDE DEF decided
  <2>4. Follows(session, decided) BY <2>2, SameFollows
  <2>5. session.status = "active" => Follows(session, PauseNow(decided)) BY <2>2, PauseNowFollows DEF Same
  <2> QED BY <1>0, <2>3, <2>4, <2>5, ChecksStaySound DEF Write
<1>2. CASE HoldSession
  <2>1. SameButFailed(session, session) BY DEF SameButFailed
  <2> QED BY <1>0, <1>2, <2>1, HoldFollows, ChecksStaySound DEF HoldSession, OnlySession, Write
<1>3. CASE \E requireCheck, reEnroll \in BOOLEAN : ReleaseHold(requireCheck, reEnroll)
  BY <1>3, ReleaseHoldSound
<1>4. CASE TerminateSession
  BY <1>0, <1>4, FinalizeFollows, ChecksStaySound DEF TerminateSession, OnlySession, Write, EndReasons
<1>5. CASE StaffSubmit
  BY <1>0, <1>5, FinalizeFollows, ChecksStaySound DEF StaffSubmit, OnlySession, Write, EndReasons
<1>6. CASE ReopenSession BY <1>6, ReopenSessionSound
<1> QED BY <1>1, <1>2, <1>3, <1>4, <1>5, <1>6 DEF Staff

(* A new session is sound and is a new life.                               *)
LEMMA InitSound == Init => SInv /\ Life!Init
<1> SUFFICES ASSUME Init PROVE SInv /\ Life!Init OBVIOUS
<1>1. IInv BY InitInOrder
<1>2. /\ session.status = "invited" /\ session.started = FALSE /\ session.endReason = "none"
      /\ session.reference = 0 /\ session.failed = NoFailures /\ session.running = FALSE
  BY DEF Init, NewSession
<1>3. RowSound(session) BY <1>2 DEF RowSound, CheckingIn, CheckedIn
<1>4. AttemptsLeft(session) BY <1>2, NoFailuresLeft DEF AttemptsLeft
<1>5. ChecksSound BY DEF Init, ChecksSound
<1>6. Life!Init BY <1>2 DEF Init, Life!Init, CandidateDecided
<1> QED BY <1>1, <1>3, <1>4, <1>5, <1>6 DEF SInv

(* Every step of the specification keeps the invariant and is sound.       *)
LEMMA NextSound == SInv /\ [Next]_vars => SInv' /\ StepSound
<1> SUFFICES ASSUME SInv, [Next]_vars PROVE SInv' /\ StepSound OBVIOUS
<1>1. IInv' BY NextInOrder DEF SInv
<1>2. StepSound /\ ChecksSound'
  <2>1. CASE AcceptConsent \/ WithdrawConsent BY <1>1, <2>1, ConsentSound
  <2>2. CASE \E i \in Instances : Candidate(i)
    BY <1>1, <2>2, CandidateActsSound, StartCheckSound, CompleteCheckSound DEF Candidate
  <2>3. CASE Staff BY <1>1, <2>3, StaffSound
  <2>4. CASE Server BY <1>1, <2>4, ServerSound
  <2>5. CASE UNCHANGED vars BY <2>5, SessionKept DEF vars, SInv, ChecksSound
  <2> QED BY <2>1, <2>2, <2>3, <2>4, <2>5 DEF Next
<1> QED BY <1>1, <1>2 DEF SInv, StepSound

(* No candidate is locked out for lack of attempts: whenever a check is    *)
(* required of a browser an attempt is left, however abandoned checks,     *)
(* failures, resets and holds interleave (retryOrHold, settleAbandoned).   *)
THEOREM AttemptAlwaysLeft == Spec => []AttemptLeftWhenRequired
<1>1. SInv => AttemptLeftWhenRequired
  <2> SUFFICES ASSUME SInv, NEW i \in Instances, RequiredCheck(session, i) # "none"
               PROVE  ~Exhausted(session.failed[RequiredCheck(session, i)])
    BY DEF AttemptLeftWhenRequired
  <2>1. MayTry(session) /\ RequiredCheck(session, i) \in Purposes
    BY DEF RequiredCheck, MayTry, Purposes
  <2> QED BY <2>1 DEF SInv, AttemptsLeft
<1> QED BY <1>1, InitSound, NextSound, PTL DEF Spec

(* A session the candidate submitted or withdrew from never runs again.    *)
THEOREM CandidateHasLastWord == Spec => CandidateEndingsFinal
<1>1. SInv /\ [Next]_vars =>
        [session.endReason \in {"candidate_submitted", "candidate_withdrew"} =>
           session'.endReason = session.endReason /\ session'.status = session.status]_vars
  BY NextSound DEF StepSound, Decided
<1> QED BY <1>1, InitSound, NextSound, PTL DEF Spec, CandidateEndingsFinal

(* Whose face the exam is compared with changes only at the check-in of an *)
(* exam that has not started, or with staff's authorisation in force: the  *)
(* gallery prepared before the lock is never applied after the grant was   *)
(* withdrawn (reEnrollmentApplies read again under the lock).              *)
THEOREM ReferenceByRight == Spec => ReferenceReplacedOnlyOnGrant
<1>1. SInv /\ [Next]_vars =>
        [session'.reference # session.reference =>
           \/ session.status = "invited" /\ ~session.started
           \/ session.status = "on_hold" /\ granted]_vars
  BY NextSound DEF StepSound, ReferenceKept
<1> QED BY <1>1, InitSound, NextSound, PTL DEF Spec, ReferenceReplacedOnlyOnGrant

(* SessionControl implements Lifecycle.                                    *)
THEOREM LifecycleImplemented == Spec => LifecycleKept
<1>1. SInv /\ [Next]_vars => [Life!Next]_(Life!life) BY NextSound DEF StepSound
<1> QED BY <1>1, InitSound, NextSound, PTL DEF Spec, LifecycleKept, Life!Spec
=============================================================================
