--------------------------- MODULE SessionControl ---------------------------
(***************************************************************************)
(* The control state of one exam session: its status, holds, checks, the   *)
(* browser instances that may act for the candidate, the identity          *)
(* reference, the clock's on/off state and the kind of the open period     *)
(* (apps/server/src/services: session-state, candidate-actions,            *)
(* session-actions, checks, recovery, abandonment, instance-usage).        *)
(*                                                                         *)
(* Every mutation of the server runs under the session's row lock          *)
(* (withSession), so one transaction is one action.  Handlers that use     *)
(* several transactions, or read before they lock, are several actions:    *)
(* starting a check (resume limits, settling the replaced check, opening   *)
(* the new one) and completing one (lock-free preparation, then apply).    *)
(*                                                                         *)
(* Time is abstracted here (SessionClock has it): whatever depends on      *)
(* elapsed time - an expired clock, an outage, a pause that was too long,  *)
(* an expired check, inactivity - may happen whenever its other conditions *)
(* hold.  Verdicts of the face comparison are nondeterministic too.        *)
(***************************************************************************)
EXTENDS Integers

CONSTANTS
    Instances,      \* browser instances (X-Client-Instance) of the candidate
    NoInstance,     \* the null instance id
    Policies,       \* the exam rules considered (one is in force for a session)
    MaxAttempts,    \* policy.identity.maxVerificationAttempts
    MaxReconnects,  \* policy.resume.maxReconnects
    MaxPauses,      \* policy.pause.maxPauses
    MaxReferences   \* bound: identity references a session may go through

Statuses == {"invited", "ready", "active", "paused", "on_hold", "submitted", "terminated"}
Terminal == {"submitted", "terminated"}
Purposes == {"initial", "resume", "reconnect", "reverify"}

(* Hold reasons the code tells apart; the others all wait for a review.    *)
HoldReasons == {"none", "staff_verification", "resume_limit", "review"}

EndReasons == {"none", "candidate_submitted", "candidate_withdrew", "time_expired",
               "staff_submitted", "staff_terminated", "abandoned", "resume_limit"}

(* Kinds of period that can be open; 'disconnected' and 'resume_check' are *)
(* always inserted with their end.                                         *)
OpenPeriods == {"none", "check_in", "active", "paused", "on_hold"}

PolicySet == [verification: {"automatic", "staff"}, staffReverify: BOOLEAN,
              onMismatch: {"hold_for_review", "flag_only"}, onLimit: {"hold", "end"},
              pauseTimer: {"stop", "continue"}, disconnectTimer: {"stop", "continue"},
              requireApproval: BOOLEAN, idPhotoRequired: BOOLEAN]

ASSUME NoInstanceAssumption == NoInstance \notin Instances
ASSUME PoliciesAssumption == Policies \subseteq PolicySet
ASSUME LimitsAssumption ==
    /\ MaxAttempts \in Nat \ {0}
    /\ MaxReconnects \in Nat
    /\ MaxPauses \in Nat
    /\ MaxReferences \in Nat

VARIABLES
    policy,    \* the exam rules in force (fixed for the session)
    session,   \* the exam_sessions row, with its active reference and open period
    checks,    \* the open rows of the checks table
    requests,  \* per instance: how far its POST /checks request has come
    granted,   \* history: staff's last word on the current hold authorises re-enrolment
    recovered  \* history: an exam that never started was reopened

vars == <<policy, session, checks, requests, granted, recovered>>

(* Attempts are counted in halves: an attempt that failed on image quality *)
(* alone weighs QUALITY_RETRY_WEIGHT = 0.5.                                *)
FullAttempt == 2
QualityAttempt == 1
NoFailures == [p \in Purposes |-> 0]

SessionSet ==
    [status: Statuses, started: BOOLEAN, consent: BOOLEAN, endReason: EndReasons, scored: BOOLEAN,
     holdReason: HoldReasons, canReverify: BOOLEAN, reEnroll: BOOLEAN,
     holdPrev: {"none", "invited", "ready", "active"},
     active: Instances \cup {NoInstance}, verified: Instances \cup {NoInstance},
     reference: Nat, running: BOOLEAN, period: OpenPeriods,
     reconnects: Nat, pauses: Nat, pauseRequests: Nat, failed: [Purposes -> Nat]]

(* counted: issued after the last reset of the attempts.  prepared: what   *)
(* the lock-free part of /complete computed (a gallery for a new           *)
(* reference, or only the comparison with the active one).                 *)
CheckSet ==
    [inst: Instances, purpose: Purposes, counted: BOOLEAN,
     prepared: {"none", "comparison", "gallery"}]

Idle == [step |-> "idle", purpose |-> "initial"]
RequestSet == [step: {"idle", "limits", "settle", "open"}, purpose: Purposes]

-----------------------------------------------------------------------------
(***************************************************************************)
(* Session-row operations (session-state.ts).                              *)
(***************************************************************************)

Ended(s) == s.status \in Terminal

InControl(s, i) == s.active = i /\ s.verified = i

RequiredCheck(s, i) ==
    CASE s.status = "invited" -> IF s.consent THEN "initial" ELSE "none"
      [] s.status \in {"ready", "active"} -> IF InControl(s, i) THEN "none" ELSE "reconnect"
      [] s.status = "paused" -> "resume"
      [] s.status = "on_hold" -> IF s.canReverify THEN "reverify" ELSE "none"
      [] OTHER -> "none"

ClearedHold(s) ==
    [s EXCEPT !.holdReason = "none", !.canReverify = FALSE, !.holdPrev = "none", !.reEnroll = FALSE]

(* Mutants: a hold in a pause remembers the pause; any hold returns to the *)
(* running exam.                                                           *)
PrevOnHoldKeepsPause(s) == IF s.status = "on_hold" THEN s.holdPrev ELSE s.status
PrevOnHoldAlwaysActive(s) == IF s.status = "on_hold" THEN s.holdPrev ELSE "active"

(* The status a hold returns to; a pause never comes back by itself.       *)
PrevOnHold(s) ==
    CASE s.status = "on_hold" -> s.holdPrev
      [] s.status = "paused" -> "active"
      [] OTHER -> s.status

(* Mutants: the clock is not stopped; the open period is always continued. *)
HoldNowKeepsClock(s, reason) ==
    [s EXCEPT !.status = "on_hold", !.holdReason = reason, !.canReverify = FALSE,
              !.holdPrev = PrevOnHold(s), !.reEnroll = FALSE, !.period = "on_hold"]
HoldNowKeepsPeriod(s, reason) ==
    [s EXCEPT !.status = "on_hold", !.holdReason = reason, !.canReverify = FALSE,
              !.holdPrev = PrevOnHold(s), !.reEnroll = FALSE, !.running = FALSE,
              !.period = IF @ = "none" THEN "on_hold" ELSE @]

HoldNow(s, reason) ==
    [s EXCEPT !.status = "on_hold", !.holdReason = reason, !.canReverify = FALSE,
              !.holdPrev = PrevOnHold(s), !.reEnroll = FALSE,
              !.running = FALSE, !.period = "on_hold"]

EndStatus(reason) ==
    IF reason \in {"staff_terminated", "abandoned", "candidate_withdrew"} THEN "terminated" ELSE "submitted"

FinalizeSession(s, reason) ==
    IF Ended(s) THEN s
    ELSE [s EXCEPT !.status = EndStatus(reason), !.endReason = reason, !.canReverify = FALSE,
                   !.running = FALSE, !.period = "none", !.pauseRequests = 0,
                   !.scored = s.started /\ reason \notin {"abandoned", "candidate_withdrew"}]

StartExam(s) ==
    [s EXCEPT !.status = "active", !.started = TRUE, !.running = TRUE, !.period = "active"]

PauseNow(s) ==
    [s EXCEPT !.status = "paused", !.period = "paused", !.pauses = @ + 1, !.failed = NoFailures,
              !.running = policy.pauseTimer = "continue"]

(* status := active with an active period open and the clock running.      *)
Continue(s) == [s EXCEPT !.status = "active", !.period = "active", !.running = TRUE]

ApplyResumeLimit(s) ==
    IF policy.onLimit = "end" THEN FinalizeSession(s, "resume_limit") ELSE HoldNow(s, "resume_limit")

-----------------------------------------------------------------------------
(***************************************************************************)
(* Outcomes of a check (checks.ts).                                        *)
(***************************************************************************)

ReEnrollmentApplies(s, purpose) ==
    purpose = "reverify" /\ s.status = "on_hold" /\ s.canReverify /\ s.reEnroll

Exhausted(used) == used >= FullAttempt * MaxAttempts

(* A failed attempt: another try, or a hold for review once none is left.  *)
RetryOrHold(s, c, weight) ==
    LET used == s.failed[c.purpose] + weight
    IN IF Exhausted(used)
       THEN [HoldNow(s, "review") EXCEPT !.verified = IF c.purpose = "initial" THEN @ ELSE c.inst]
       ELSE IF c.counted THEN [s EXCEPT !.failed[c.purpose] = used] ELSE s

(* Mutant: an abandoned check is held against the session only from the    *)
(* next attempt on.                                                        *)
SettleAbandonedTooLate(s, c) ==
    LET t == IF c.counted THEN [s EXCEPT !.failed[c.purpose] = @ + FullAttempt] ELSE s
    IN IF c.purpose = "initial" \/ s.reference = 0 THEN {s}
       ELSE {s, IF Exhausted(s.failed[c.purpose]) /\ ~Ended(s) THEN HoldNow(t, "review") ELSE t}

(* A check that ended without /complete is judged on the frames it         *)
(* received: it expires for free, or - they showed a different person than *)
(* the reference - counts as a full failed attempt.                        *)
SettleAbandoned(s, c) ==
    LET used == s.failed[c.purpose] + FullAttempt
        t == IF c.counted THEN [s EXCEPT !.failed[c.purpose] = used] ELSE s
        judged == IF Exhausted(used) /\ s.status \in {"ready", "active", "paused", "on_hold"}
                  THEN HoldNow(t, "review") ELSE t
    IN IF c.purpose = "initial" \/ s.reference = 0 \/ policy.verification = "staff" THEN {s} ELSE {s, judged}

(* The candidate passed (or a mismatch was only flagged): the period that  *)
(* preceded the check closes and the exam continues where it stood.        *)
ContinueAfterPass(s, c, pauseTooLong) ==
    LET v == [s EXCEPT !.verified = c.inst, !.failed = NoFailures]
        r == [v EXCEPT !.period = "none",
                       !.reconnects = IF c.purpose = "reconnect" /\ s.status = "active" THEN @ + 1 ELSE @]
    IN IF s.status = "ready" THEN v
       ELSE IF c.purpose = "resume" /\ pauseTooLong THEN HoldNow([r EXCEPT !.status = "active"], "review")
       ELSE IF s.status = "on_hold"
            THEN IF s.holdPrev = "ready" THEN [ClearedHold(r) EXCEPT !.status = "ready"]
                 ELSE Continue(ClearedHold(r))
            ELSE Continue(r)

HoldForMismatch(s, c) ==
    [HoldNow([s EXCEPT !.period = "none"], "review") EXCEPT !.verified = c.inst]

Enrolled(s, c) == [s EXCEPT !.reference = @ + 1, !.verified = c.inst, !.failed = NoFailures]

ApplyInitial(s, c) ==
    LET ready == [Enrolled(s, c) EXCEPT !.status = "ready", !.period = "none"]
    IN {RetryOrHold(s, c, FullAttempt), RetryOrHold(s, c, QualityAttempt), ready}
         \cup (IF policy.idPhotoRequired THEN {HoldNow(ready, "review")} ELSE {})

(* Mutant: the authorisation is not read again under the lock.             *)
ApplyContinuationStaleGrant(s, c) ==
    IF c.prepared = "gallery"
    THEN {ContinueAfterPass([Enrolled(s, c) EXCEPT !.reEnroll = FALSE], c, FALSE)}
    ELSE {RetryOrHold(s, c, FullAttempt), HoldForMismatch(s, c), ContinueAfterPass(s, c, FALSE)}

ApplyContinuation(s, c) ==
    LET failedAgain == {RetryOrHold(s, c, FullAttempt), RetryOrHold(s, c, QualityAttempt)}
    IN IF ReEnrollmentApplies(s, c.purpose) /\ c.prepared = "gallery"
       THEN failedAgain \cup
            {ContinueAfterPass([Enrolled(s, c) EXCEPT !.reEnroll = FALSE], c, FALSE)}
       ELSE failedAgain \cup {ContinueAfterPass(s, c, long) : long \in BOOLEAN}
            \cup (IF policy.onMismatch = "hold_for_review" THEN {HoldForMismatch(s, c)} ELSE {})

(* Identity verified by staff: the check confirms the camera and no more.  *)
AttestInitial(s, c) ==
    HoldNow([s EXCEPT !.verified = c.inst, !.failed = NoFailures, !.status = "ready", !.period = "none"],
            "staff_verification")

AttestContinuation(s, c) ==
    LET v == [s EXCEPT !.verified = c.inst, !.failed = NoFailures]
        r == [v EXCEPT !.period = "none",
                       !.reconnects = IF c.purpose = "reconnect" /\ s.status = "active" THEN @ + 1 ELSE @]
    IN IF ~policy.staffReverify THEN {ContinueAfterPass(s, c, long) : long \in BOOLEAN}
       ELSE IF s.status = "ready" THEN {HoldNow(v, "staff_verification")}
       ELSE {HoldNow(r, "staff_verification")} \cup
            (IF c.purpose = "resume" THEN {HoldNow([r EXCEPT !.status = "active"], "review")} ELSE {})

-----------------------------------------------------------------------------
(* A row of the exam_sessions table as createExamSession inserts it.       *)
NewSession ==
    [status |-> "invited", started |-> FALSE, consent |-> FALSE, endReason |-> "none", scored |-> FALSE,
     holdReason |-> "none", canReverify |-> FALSE, reEnroll |-> FALSE, holdPrev |-> "none",
     active |-> NoInstance, verified |-> NoInstance, reference |-> 0, running |-> FALSE, period |-> "none",
     reconnects |-> 0, pauses |-> 0, pauseRequests |-> 0, failed |-> NoFailures]

Init ==
    /\ policy \in Policies
    /\ session = NewSession
    /\ checks = {}
    /\ requests = [i \in Instances |-> Idle]
    /\ granted = FALSE
    /\ recovered = FALSE

(* Attempts already under way no longer count once they are reset.         *)
Uncounted(cs) == {[c EXCEPT !.counted = FALSE] : c \in cs}

(* Write the row; a hold that begins or ends cancels what staff granted.   *)
Write(s) ==
    /\ session' = s
    /\ granted' = (granted /\ s.status = "on_hold" /\ s.canReverify)
    /\ UNCHANGED <<policy, recovered>>

OnlySession == UNCHANGED <<checks, requests>>

(* Bounds of the model: references, and reconnections past the limit.      *)
WithinBounds(s) ==
    /\ s.reference <= MaxReferences
    /\ s.reconnects <= MaxReconnects + 1

(***************************************************************************)
(* The candidate (candidate-actions.ts).                                   *)
(***************************************************************************)

AcceptConsent ==
    /\ ~Ended(session)
    /\ ~session.consent
    /\ Write([session EXCEPT !.consent = TRUE])
    /\ OnlySession

StartSession(i) ==
    /\ InControl(session, i)
    /\ session.status = "ready"
    /\ Write(StartExam(session))
    /\ OnlySession

CandidateSubmit(i) ==
    /\ InControl(session, i)
    /\ session.status = "active"
    /\ Write(FinalizeSession(session, "candidate_submitted"))
    /\ OnlySession

RequestPause(i) ==
    /\ InControl(session, i)
    /\ session.status = "active"
    /\ session.pauses < MaxPauses
    /\ session.pauseRequests = 0
    /\ IF policy.requireApproval
       THEN Write([session EXCEPT !.pauseRequests = @ + 1]) /\ UNCHANGED checks
       ELSE Write(PauseNow(session)) /\ checks' = Uncounted(checks)
    /\ UNCHANGED requests

CancelPauseRequest(i) ==
    /\ InControl(session, i)
    /\ session.pauseRequests > 0
    /\ Write([session EXCEPT !.pauseRequests = @ - 1])
    /\ OnlySession

(* A heartbeat of the browser in control restarts a clock that an outage   *)
(* stopped.                                                                *)
HeartbeatResumes(i) ==
    /\ InControl(session, i)
    /\ session.status = "active"
    /\ ~session.running
    /\ Write([session EXCEPT !.running = TRUE])
    /\ OnlySession

(* The same instance id seen from two places: a fresh check is required.   *)
ConcurrentUse(i) ==
    /\ InControl(session, i)
    /\ session.status \in {"ready", "active"}
    /\ Write([session EXCEPT !.verified = NoInstance])
    /\ OnlySession

WithdrawConsent ==
    /\ ~Ended(session)
    /\ session.consent
    /\ Write(FinalizeSession(session, "candidate_withdrew"))
    /\ OnlySession

-----------------------------------------------------------------------------
(***************************************************************************)
(* Checks: POST /checks, its frames, POST /checks/:id/complete.            *)
(***************************************************************************)

(* startCheck reads the session without a lock and decides which of its    *)
(* transactions run.  The candidate app asks for the check it is told is   *)
(* required; any other request ends in a 409.                              *)
BeginStartCheck(i, purpose) ==
    LET first == IF purpose = "reconnect" /\ session.status = "active" THEN "limits" ELSE "settle"
    IN /\ requests[i] = Idle
       /\ RequiredCheck(session, i) = purpose
       /\ requests' = [requests EXCEPT ![i] = [step |-> first, purpose |-> purpose]]
       /\ UNCHANGED <<policy, session, checks, granted, recovered>>

EnforceReconnectLimits(i) ==
    LET applies == session.status = "active" /\ RequiredCheck(session, i) = "reconnect"
        exceeded == session.reconnects >= MaxReconnects
        pass == /\ requests' = [requests EXCEPT ![i].step = "settle"]
                /\ Write(session)
        refuse == /\ requests' = [requests EXCEPT ![i] = Idle]
                  /\ Write(ApplyResumeLimit(session))
    IN /\ requests[i].step = "limits"
       /\ \/ ~(applies /\ exceeded) /\ pass
          \/ applies /\ refuse       \* reconnections used up, or offline for too long
       /\ UNCHANGED checks

SettleReplacedCheck(i) ==
    /\ requests[i].step = "settle"
    /\ requests' = [requests EXCEPT ![i].step = "open"]
    /\ \/ checks = {} /\ Write(session)
       \/ \E c \in checks : \E s \in SettleAbandoned(session, c) : Write(s)
    /\ checks' = {}

(* Opening the check makes its browser the active one and expires every    *)
(* other open check.  Outside the scheduling window, over the rate limit   *)
(* or when the server stops in between, nothing is opened.                 *)
OpenCheck(i) ==
    LET purpose == requests[i].purpose
        accepted == RequiredCheck(session, i) = purpose /\ ~Exhausted(session.failed[purpose])
    IN /\ requests[i].step = "open"
       /\ requests' = [requests EXCEPT ![i] = Idle]
       /\ \/ /\ accepted
             /\ Write([session EXCEPT !.active = i,
                                      !.period = IF purpose = "initial" /\ @ = "none" THEN "check_in" ELSE @])
             /\ checks' = {[inst |-> i, purpose |-> purpose, counted |-> TRUE, prepared |-> "none"]}
          \/ Write(session) /\ UNCHANGED checks

(* The heavy part of /complete runs before the lock is taken.              *)
PrepareCheck(i) ==
    \E c \in checks :
        LET gallery == c.purpose = "initial" \/ ReEnrollmentApplies(session, c.purpose)
        IN /\ c.inst = i /\ session.active \in {i, NoInstance}
           /\ policy.verification = "automatic"
           /\ gallery \/ session.reference # 0
           /\ checks' = (checks \ {c}) \cup
                        {[c EXCEPT !.prepared = IF gallery THEN "gallery" ELSE "comparison"]}
           /\ UNCHANGED <<policy, session, requests, granted, recovered>>

(* ... and is applied under it, after the conditions are read again.       *)
CompleteCheck(i) ==
    \E c \in checks :
        /\ c.inst = i /\ session.active = i
        /\ c.prepared # "none"
        /\ RequiredCheck(session, i) = c.purpose
        /\ \E s \in IF c.purpose = "initial" THEN ApplyInitial(session, c) ELSE ApplyContinuation(session, c) :
              WithinBounds(s) /\ Write(s)
        /\ checks' = checks \ {c}
        /\ UNCHANGED requests

CompleteAttestCheck(i) ==
    \E c \in checks :
        /\ c.inst = i /\ session.active = i
        /\ policy.verification = "staff"
        /\ RequiredCheck(session, i) = c.purpose
        /\ \E s \in IF c.purpose = "initial" THEN {AttestInitial(session, c)} ELSE AttestContinuation(session, c) :
              WithinBounds(s) /\ Write(s)
        /\ checks' = checks \ {c}
        /\ UNCHANGED requests

-----------------------------------------------------------------------------
(***************************************************************************)
(* Staff (session-actions.ts, recovery.ts).                                *)
(***************************************************************************)

DecidePauseRequest(approve) ==
    /\ session.pauseRequests > 0
    /\ approve => session.status = "active"
    /\ LET decided == [session EXCEPT !.pauseRequests = @ - 1]
       IN IF approve THEN Write(PauseNow(decided)) /\ checks' = Uncounted(checks)
          ELSE Write(decided) /\ UNCHANGED checks
    /\ UNCHANGED requests

HoldSession ==
    /\ ~Ended(session)
    /\ Write(HoldNow(session, "review"))
    /\ OnlySession

(* Back to the initial check, to a reverify check, or straight back.       *)
ReleaseHold(requireCheckOpt, reEnrollOpt) ==
    LET s == IF session.holdReason = "resume_limit" THEN [session EXCEPT !.reconnects = 0] ELSE session
        staffMode == policy.verification = "staff"
        reEnroll == ~staffMode /\ reEnrollOpt
        requireCheck == s.holdReason # "staff_verification" /\ (reEnroll \/ requireCheckOpt)
        toInitial == IF staffMode THEN s.holdPrev = "invited" ELSE s.reference = 0
        reset == [s EXCEPT !.failed = NoFailures]
        released == [ClearedHold(reset) EXCEPT !.period = "none"]
        next == CASE toInitial -> [released EXCEPT !.status = "invited", !.verified = NoInstance]
                  [] ~toInitial /\ requireCheck -> [reset EXCEPT !.canReverify = TRUE, !.reEnroll = reEnroll]
                  [] OTHER -> IF s.holdPrev \in {"ready", "invited"}
                              THEN [released EXCEPT !.status = s.holdPrev] ELSE Continue(released)
    IN /\ session.status = "on_hold"
       /\ session' = next
       /\ granted' = (reEnroll /\ next.status = "on_hold")
       /\ checks' = Uncounted(checks)
       /\ UNCHANGED <<policy, requests, recovered>>

TerminateSession ==
    /\ ~Ended(session)
    /\ Write(FinalizeSession(session, "staff_terminated"))
    /\ OnlySession

StaffSubmit ==
    /\ session.status \in {"active", "paused", "on_hold"}
    /\ Write(FinalizeSession(session, "staff_submitted"))
    /\ OnlySession

(* Mutant: what the candidate submitted can be reopened too.               *)
ReopenableBySubmit == EndReasons \ {"none", "candidate_withdrew"}

Reopenable == {"time_expired", "staff_submitted", "staff_terminated", "abandoned", "resume_limit"}

(* A started exam waits on hold for a fresh check; one that never started  *)
(* returns to the check-in.                                                *)
ReopenSession ==
    LET reset == [session EXCEPT !.endReason = "none", !.scored = FALSE, !.reconnects = 0, !.failed = NoFailures]
    IN /\ Ended(session)
       /\ session.endReason \in Reopenable
       /\ session.started => policy.verification = "staff" \/ session.reference # 0
       /\ session' = IF session.started
                     THEN [reset EXCEPT !.status = "on_hold", !.period = "on_hold", !.holdReason = "review",
                                        !.canReverify = TRUE, !.holdPrev = "active", !.reEnroll = FALSE]
                     ELSE [ClearedHold(reset) EXCEPT !.status = "invited",
                                                     !.verified = NoInstance, !.active = NoInstance]
       /\ granted' = FALSE
       /\ recovered' = (recovered \/ ~session.started)
       /\ checks' = Uncounted(checks)
       /\ UNCHANGED <<policy, requests>>

-----------------------------------------------------------------------------
(***************************************************************************)
(* The server's own actions: the sweeper, ingest, the mid-exam identity    *)
(* engine, the abandonment job.                                            *)
(***************************************************************************)

ReportingTimeout ==
    /\ session.status = "active"
    /\ session.running
    /\ policy.disconnectTimer = "stop"
    /\ Write([session EXCEPT !.running = FALSE])
    /\ OnlySession

ClockExpiry ==
    /\ session.status \in {"active", "paused"}
    /\ Write(FinalizeSession(session, "time_expired"))
    /\ OnlySession

ExpireCheck ==
    \E c \in checks :
        /\ \E s \in SettleAbandoned(session, c) : Write(s)
        /\ checks' = checks \ {c}
        /\ UNCHANGED requests

EnforceOfflineLimits ==
    /\ session.status = "active"
    /\ Write(ApplyResumeLimit(session))
    /\ OnlySession

(* An additional display (ingest.ts), or a mismatch confirmed by the       *)
(* mid-exam samples (identity-samples.ts).                                 *)
MonitoringHold ==
    /\ session.status = "active"
    /\ Write(HoldNow(session, "review"))
    /\ OnlySession

Abandonable(s) ==
    s.status \in {"invited", "ready", "paused", "on_hold"} \/ (s.status = "active" /\ ~s.running)

CloseAbandoned ==
    /\ Abandonable(session)
    /\ Write(FinalizeSession(session, "abandoned"))
    /\ OnlySession

Candidate(i) ==
    \/ StartSession(i) \/ CandidateSubmit(i) \/ RequestPause(i) \/ CancelPauseRequest(i)
    \/ HeartbeatResumes(i) \/ ConcurrentUse(i)
    \/ \E p \in Purposes : BeginStartCheck(i, p)
    \/ EnforceReconnectLimits(i) \/ SettleReplacedCheck(i) \/ OpenCheck(i)
    \/ PrepareCheck(i) \/ CompleteCheck(i) \/ CompleteAttestCheck(i)

Staff ==
    \/ \E approve \in BOOLEAN : DecidePauseRequest(approve)
    \/ HoldSession
    \/ \E requireCheck, reEnroll \in BOOLEAN : ReleaseHold(requireCheck, reEnroll)
    \/ TerminateSession \/ StaffSubmit \/ ReopenSession

Server ==
    \/ ReportingTimeout \/ ClockExpiry \/ ExpireCheck
    \/ EnforceOfflineLimits \/ MonitoringHold \/ CloseAbandoned

Next ==
    \/ AcceptConsent
    \/ WithdrawConsent
    \/ \E i \in Instances : Candidate(i)
    \/ Staff
    \/ Server

Spec == Init /\ [][Next]_vars

-----------------------------------------------------------------------------
(***************************************************************************)
(* Properties.                                                             *)
(***************************************************************************)

(* Every variable stays in its type: the session row, the open checks, the *)
(* requests in flight.                                                     *)
TypeOK ==
    /\ policy \in Policies
    /\ session \in SessionSet
    /\ checks \subseteq CheckSet
    /\ requests \in [Instances -> RequestSet]
    /\ granted \in BOOLEAN
    /\ recovered \in BOOLEAN

PeriodFits(s) ==
    CASE s.status \in {"active", "paused", "on_hold"} -> s.period = s.status
      [] s.status = "invited" -> s.period \in {"none", "check_in"}
      [] OTHER -> s.period = "none"

(* The open period is always the one the status calls for, whichever of    *)
(* the dozen handlers that close and open periods ran last: closing a gap, *)
(* holding, releasing, reopening, ending (closeOpenPeriod, insertPeriod,   *)
(* switchPeriod, closeGapPeriods).                                         *)
PeriodMatchesStatus == PeriodFits(session)

ClockFits(s) ==
    s.running => s.status = "active" \/ (s.status = "paused" /\ policy.pauseTimer = "continue")

(* The exam clock runs only in an active exam, and in a pause only when    *)
(* the rules let pauses count (clockStart / clockStop calls of every       *)
(* transition).                                                            *)
ClockRunsOnlyInExam == ClockFits(session)

(* No candidate is ever locked out for lack of attempts without a hold     *)
(* that staff will see: whenever a check is required of a browser, an      *)
(* attempt is left (failedAttempts in startCheck against the holds raised  *)
(* by retryOrHold and settleAbandoned, with every reset).                  *)
AttemptLeftWhenRequired ==
    \A i \in Instances :
        LET p == RequiredCheck(session, i)
        IN p # "none" => ~Exhausted(session.failed[p])

(* What the candidate decided is final: a session they submitted or        *)
(* withdrew from never runs again (reopenEligibility).                     *)
CandidateEndingsFinal ==
    [][session.endReason \in {"candidate_submitted", "candidate_withdrew"} =>
          session'.endReason = session.endReason /\ session'.status = session.status]_vars

(* The identity reference changes only at the check-in of an exam that has *)
(* not started, or while staff's last decision on the current hold is to   *)
(* authorise it (reEnrollmentApplies, holdNow, releaseHold, clearedHold).  *)
ReferenceReplacedOnlyOnGrant ==
    [][session'.reference # session.reference =>
          \/ session.status = "invited" /\ ~session.started
          \/ session.status = "on_hold" /\ granted]_vars

(***************************************************************************)
(* What documentation and messages say and the code does not keep.         *)
(***************************************************************************)

(* "every active session has" a policy snapshot taken at start             *)
(* (recovery.ts, enforceOfflineLimits): an active exam went through        *)
(* startExam.                                                              *)
ActiveMeansStarted == session.status \in {"active", "paused"} => session.started

(* Reconnections stay within policy.resume.maxReconnects: "when the count  *)
(* has reached the limit the next reconnect check is not started"          *)
(* (ARCHITECTURE.md, section 3).                                           *)
ReconnectLimitHolds == session.reconnects <= MaxReconnects
=============================================================================
