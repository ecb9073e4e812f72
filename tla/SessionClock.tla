---------------------------- MODULE SessionClock ----------------------------
(***************************************************************************)
(* The exam clock and the connection of one session, with time: the clock  *)
(* arithmetic (packages/shared/src/session.ts), heartbeats and outages     *)
(* (candidate-actions.ts, session-state.ts), the offline limit             *)
(* (recovery.ts) and the sweeper's passes (jobs/sweeper.ts), from the      *)
(* moment the candidate is ready to start.                                 *)
(*                                                                         *)
(* Times are ages: ticks since the clock was started, since the last       *)
(* heartbeat, since the open active period began.  Ages that no comparison *)
(* can tell apart any more stay at AgeCap, so behaviours never run out of  *)
(* time.  What SessionControl decides - verdicts, approvals, which browser *)
(* asks - is left open here.                                               *)
(***************************************************************************)
EXTENDS Integers

CONSTANTS
    Duration,     \* durationMs when the exam starts
    Extension,    \* what staff add when they extend the time or reopen
    MaxTotal,     \* bound: the longest duration extensions may reach
    Timeout,      \* policy.connection.heartbeatTimeoutSec
    MaxOffline,   \* policy.resume.maxOfflineMinutes
    MaxLag,       \* bound: how late the sweeper may be, how long a pass may take
    RuleSets      \* the exam rules considered

RuleSet == [pauseTimer: {"stop", "continue"}, disconnectTimer: {"stop", "continue"},
            onLimit: {"none", "hold", "end"}]

ASSUME TimesAssumption ==
    /\ Duration \in Nat \ {0} /\ Extension \in Nat \ {0} /\ MaxTotal \in Nat /\ Duration <= MaxTotal
    /\ Timeout \in Nat \ {0} /\ MaxOffline \in Nat \ {0} /\ MaxLag \in Nat
ASSUME RuleSetsAssumption == RuleSets \subseteq RuleSet

VARIABLES
    rules,    \* the rules in force: onLimit = "none" stands for no offline limit
    s,        \* the session row
    sweep,    \* the pass of the sweeper: its next step, ticks since it read the time
    request   \* a POST /checks request is between its limit check and opening the check

vars == <<rules, s, sweep, request>>

Smaller(a, b) == IF a <= b THEN a ELSE b
Larger(a, b) == IF a >= b THEN a ELSE b

(* No comparison tells apart ages from here on.                            *)
AgeCap == Larger(MaxTotal + MaxLag, Larger(MaxOffline, Timeout) + 1)
Older(age) == Smaller(age + 1, AgeCap)

(* lost: an earlier reporting_interrupted event was left open.  control:   *)
(* the reporting browser is in control of the exam, another one has        *)
(* started a check, or the verified one lost its verification.             *)
Row == [status: {"ready", "active", "paused", "on_hold", "submitted", "terminated"},
        prev: {"none", "ready", "active"}, canReverify: BOOLEAN, started: BOOLEAN,
        endReason: {"none", "time_expired", "resume_limit", "candidate_submitted", "candidate_withdrew",
                    "staff_submitted", "staff_terminated", "abandoned"},
        total: 0..MaxTotal, used: 0..MaxTotal, running: BOOLEAN, segment: 0..AgeCap,
        conn: {"never_connected", "online", "offline"}, silence: 0..AgeCap, activeFor: 0..AgeCap,
        outage: BOOLEAN, lost: BOOLEAN,
        control: {"held", "replaced", "lost"}, check: {"none", "resume", "reconnect", "reverify"}]

Ended(r) == r.status \in {"submitted", "terminated"}

-----------------------------------------------------------------------------
(***************************************************************************)
(* The clock: used in completed segments, plus the running one.            *)
(***************************************************************************)

ClockUsed(r) == Smaller(r.total, r.used + r.segment)
ClockRemaining(r) == Larger(0, r.total - r.used - r.segment)
ClockExpired(r) == ClockRemaining(r) <= 0

ClockStart(r) == IF r.running THEN r ELSE [r EXCEPT !.running = TRUE, !.segment = 0]

(* Stop the clock as of `ago' ticks before now.                            *)
ClockStop(r, ago) ==
    IF ~r.running THEN r
    ELSE [r EXCEPT !.used = Smaller(r.total, r.used + Larger(0, r.segment - ago)),
                   !.running = FALSE, !.segment = 0]

-----------------------------------------------------------------------------
(***************************************************************************)
(* Transitions of the row.                                                 *)
(***************************************************************************)

HoldNow(r) ==
    [ClockStop(r, 0) EXCEPT !.status = "on_hold", !.canReverify = FALSE, !.activeFor = 0,
                            !.prev = CASE r.status = "on_hold" -> r.prev
                                       [] r.status = "paused" -> "active"
                                       [] OTHER -> r.status]

(* Expiry is recorded at the moment the clock ran out.                     *)
FinalizeSession(r, reason) ==
    LET ago == IF reason = "time_expired"
               THEN r.segment - Larger(0, Smaller(r.segment, r.total - r.used)) ELSE 0
    IN IF Ended(r) THEN r
       ELSE [ClockStop(r, ago) EXCEPT
                !.status = IF reason \in {"staff_terminated", "abandoned", "candidate_withdrew"}
                           THEN "terminated" ELSE "submitted",
                !.endReason = reason, !.canReverify = FALSE, !.outage = FALSE, !.lost = FALSE, !.activeFor = 0]

PauseNow(r) ==
    [IF rules.pauseTimer = "stop" THEN ClockStop(r, 0) ELSE ClockStart(r)
        EXCEPT !.status = "paused", !.activeFor = 0]

(* status := active, an active period opens, the clock starts.             *)
Continue(r) ==
    ClockStart([r EXCEPT !.status = "active", !.prev = "none", !.canReverify = FALSE, !.activeFor = 0])

(* Mutant: the clock stops in a pause too.                                 *)
RecordReportingTimeoutInPause(r) ==
    LET t == [r EXCEPT !.conn = "offline"]
        u == [t EXCEPT !.outage = TRUE, !.lost = r.lost \/ r.outage]
    IN IF r.status \notin {"active", "paused"} THEN t
       ELSE IF rules.disconnectTimer = "stop" THEN ClockStop(u, Smaller(r.silence, r.segment)) ELSE u

(* The silence is recorded: an event opens at the last heartbeat and,      *)
(* under disconnect rule 'stop', the clock stops there - or where it       *)
(* started, if later.  An earlier event still open is no longer known.     *)
RecordReportingTimeout(r) ==
    LET t == [r EXCEPT !.conn = "offline"]
        u == [t EXCEPT !.outage = TRUE, !.lost = r.lost \/ r.outage]
    IN IF r.status # "active" THEN t
       ELSE IF rules.disconnectTimer = "stop" THEN ClockStop(u, Smaller(r.silence, r.segment)) ELSE u

(* No browser reports: since the last heartbeat, or since the exam last    *)
(* continued.                                                              *)
OfflineFor(r) == Smaller(r.silence, r.activeFor)

OverOfflineLimit(r) == rules.onLimit # "none" /\ r.status = "active" /\ OfflineFor(r) > MaxOffline

ApplyResumeLimit(r) == IF rules.onLimit = "end" THEN FinalizeSession(r, "resume_limit") ELSE HoldNow(r)

-----------------------------------------------------------------------------
(***************************************************************************)
(* Heartbeats (candidate-actions.ts).                                      *)
(***************************************************************************)

ReportingTimedOut(r) ==
    r.status = "active" /\ r.conn = "online" /\ ~r.outage /\ r.silence > Timeout

Expire(r) ==
    IF r.status \in {"active", "paused"} /\ ClockExpired(r) THEN FinalizeSession(r, "time_expired") ELSE r

Seen(r) == [r EXCEPT !.silence = 0, !.conn = "online"]

(* Mutant: the offline limit is left to the sweeper.                       *)
LateHeartbeatNoLimit(r) ==
    IF r.control = "held" /\ ReportingTimedOut(r) THEN RecordReportingTimeout(r) ELSE r

(* Silent for longer than the timeout and no sweeper saw it.               *)
LateHeartbeat(r) ==
    LET t == RecordReportingTimeout(r)
    IN IF ~(r.control = "held" /\ ReportingTimedOut(r)) THEN r
       ELSE IF OverOfflineLimit(t) THEN ApplyResumeLimit(t) ELSE t

(* A copied instance id was noticed: the verification is withdrawn.        *)
ApplyInstanceUsage(r, signal) ==
    IF signal /\ r.control = "held" /\ r.status \in {"ready", "active"} THEN [r EXCEPT !.control = "lost"] ELSE r

(* Mutant: a clock stopped by the outage stays stopped.                    *)
BackKeepsClock(r) == IF r.control = "held" /\ ~Ended(r) THEN [r EXCEPT !.outage = FALSE] ELSE r

(* Back after an outage: the event closes, a stopped clock starts again.   *)
Back(r) ==
    LET t == [r EXCEPT !.outage = FALSE]
    IN IF r.control # "held" \/ Ended(r) THEN r
       ELSE IF r.status = "active" THEN ClockStart(t) ELSE t

FullHeartbeat(r, signal) == Expire(Back(ApplyInstanceUsage(Seen(LateHeartbeat(r)), signal)))

(* Mutant: a silence nobody recorded does not keep a heartbeat off the     *)
(* fast path.                                                              *)
FastAppliesUnlessOutage(r, signal) ==
    LET inControl == r.control = "held" /\ ~Ended(r)
    IN /\ ~(inControl /\ (r.outage \/ (r.status = "active" /\ ~r.running)))
       /\ ~(r.status \in {"active", "paused"} /\ ClockExpired(r))
       /\ ~(signal /\ r.control = "held" /\ r.status \in {"ready", "active"})

(* Nothing to open or close, no signal, clock not expired: one UPDATE.     *)
FastApplies(r, signal) ==
    LET inControl == r.control = "held" /\ ~Ended(r)
    IN /\ ~(inControl /\ (r.outage \/ (r.status = "active" /\ ~r.running)))
       /\ ~(r.status \in {"active", "paused"} /\ ClockExpired(r))
       /\ ~(inControl /\ ReportingTimedOut(r))
       /\ ~(signal /\ r.control = "held" /\ r.status \in {"ready", "active"})

FastHeartbeat(r) == Seen(r)

HeartbeatRow(r, signal) == IF FastApplies(r, signal) THEN FastHeartbeat(r) ELSE FullHeartbeat(r, signal)

-----------------------------------------------------------------------------
(***************************************************************************)
(* The sweeper's steps on the row (jobs/sweeper.ts); `lag' is the age of   *)
(* the time its queries compare with.                                      *)
(***************************************************************************)

(* Mutant: a session with an outage open is not looked at again.           *)
TimeoutsRowMisses(r) ==
    IF r.conn = "online" /\ ~Ended(r) /\ ~r.outage /\ r.silence > Timeout THEN RecordReportingTimeout(r) ELSE r

TimeoutsRow(r) ==
    IF r.conn = "online" /\ ~Ended(r) /\ r.silence > Timeout THEN RecordReportingTimeout(r) ELSE r

(* Mutant: pauses on the clock never expire.                               *)
ExpiryRowActiveOnly(r, lag) ==
    IF r.running /\ r.status = "active" /\ r.used + r.segment - lag >= r.total THEN Expire(r) ELSE r

ExpiryRow(r, lag) ==
    IF r.running /\ r.status \in {"active", "paused"} /\ r.used + r.segment - lag >= r.total
    THEN Expire(r) ELSE r

(* Mutant: the limit is meant for browsers that still report.              *)
LimitsRowOnline(r) == IF r.conn = "online" /\ OverOfflineLimit(r) THEN ApplyResumeLimit(r) ELSE r

LimitsRow(r) == IF r.conn = "offline" /\ OverOfflineLimit(r) THEN ApplyResumeLimit(r) ELSE r

-----------------------------------------------------------------------------
(***************************************************************************)
(* Actions.                                                                *)
(***************************************************************************)

Set(r) == s' = r /\ UNCHANGED <<rules, sweep, request>>

Init ==
    /\ rules \in RuleSets
    /\ \E c \in {"never_connected", "online"} :
          s = [status |-> "ready", prev |-> "none", canReverify |-> FALSE, started |-> FALSE,
               endReason |-> "none", total |-> Duration, used |-> 0, running |-> FALSE, segment |-> 0,
               conn |-> c, silence |-> IF c = "online" THEN 0 ELSE AgeCap, activeFor |-> 0,
               outage |-> FALSE, lost |-> FALSE, control |-> "held", check |-> "none"]
    /\ sweep = [next |-> "timeouts", lag |-> 0]
    /\ request = FALSE

(* Time passes.  Bounds of the model: an expired clock overruns and a pass *)
(* of the sweeper takes MaxLag ticks at most.                              *)
Tick ==
    /\ s.running => s.used + s.segment < s.total + MaxLag
    /\ sweep.next # "timeouts" => sweep.lag < MaxLag
    /\ s' = [s EXCEPT !.segment = IF s.running THEN @ + 1 ELSE @,
                      !.silence = Older(@),
                      !.activeFor = IF s.status = "active" THEN Older(@) ELSE @]
    /\ sweep' = [sweep EXCEPT !.lag = IF sweep.next = "timeouts" THEN @ ELSE @ + 1]
    /\ UNCHANGED <<rules, request>>

(* The candidate's browsers.                                               *)

StartExam ==
    /\ s.status = "ready" /\ s.control = "held"
    /\ Set([Continue(s) EXCEPT !.started = TRUE])

Heartbeat == \E signal \in BOOLEAN : Set(HeartbeatRow(s, signal))

ConcurrentUse ==
    /\ s.control = "held" /\ s.status \in {"ready", "active"}
    /\ Set(ApplyInstanceUsage(s, TRUE))

Pause ==
    /\ s.status = "active"
    /\ Set(PauseNow(s))

CandidateSubmit ==
    /\ s.status = "active" /\ s.control = "held"
    /\ Set(FinalizeSession(s, "candidate_submitted"))

WithdrawConsent ==
    /\ ~Ended(s)
    /\ Set(FinalizeSession(s, "candidate_withdrew"))

(* The check a browser that is (or is not) in control must pass.           *)
RequiredCheck(r, inControl) ==
    CASE r.status \in {"ready", "active"} -> IF inControl THEN "none" ELSE "reconnect"
      [] r.status = "paused" -> "resume"
      [] r.status = "on_hold" /\ r.canReverify -> "reverify"
      [] OTHER -> "none"

(* Starting a check: the offline limit first, in a transaction of its own. *)
EnforceReconnectLimits ==
    /\ ~Ended(s) /\ ~request
    /\ IF OverOfflineLimit(s) THEN s' = ApplyResumeLimit(s) /\ UNCHANGED request
       ELSE request' = TRUE /\ UNCHANGED s
    /\ UNCHANGED <<rules, sweep>>

(* A browser opens a check and becomes the one that reports: another one,  *)
(* or the one verified last.                                               *)
StartCheck ==
    \E verified \in BOOLEAN :
        LET becomes == IF s.control = "lost" THEN "lost" ELSE IF verified THEN "held" ELSE "replaced"
            required == RequiredCheck(s, verified /\ s.control = "held")
        IN /\ request
           /\ request' = FALSE
           /\ s' = IF required = "none" THEN s ELSE [s EXCEPT !.control = becomes, !.check = required]
           /\ UNCHANGED <<rules, sweep>>

(* A pass continues the exam, or returns to where the hold began.          *)
ContinueAfterPass(r) ==
    LET v == [Seen(r) EXCEPT !.control = "held", !.check = "none"]
        closed == [v EXCEPT !.outage = FALSE]
    IN IF r.status = "ready" THEN v
       ELSE IF r.status = "on_hold" /\ r.prev = "ready"
            THEN [closed EXCEPT !.status = "ready", !.prev = "none", !.canReverify = FALSE]
            ELSE Continue(closed)

(* Passed, then held: the pause was too long, or staff verify again.       *)
HoldAfterPass(r) == HoldNow([Seen(r) EXCEPT !.control = "held", !.check = "none", !.outage = FALSE])

(* A mismatch closes the outage, running out of attempts does not.         *)
HoldAfterCheck(r, mismatch) ==
    HoldNow([r EXCEPT !.control = "held", !.check = "none", !.outage = r.outage /\ ~mismatch])

CompleteCheck ==
    /\ s.check # "none" /\ s.check = RequiredCheck(s, s.control = "held")
    /\ \/ Set(ContinueAfterPass(s))
       \/ Set(HoldAfterPass(s))
       \/ \E mismatch \in BOOLEAN : Set(HoldAfterCheck(s, mismatch))
       \/ Set([s EXCEPT !.check = "none"])

(* Staff.                                                                  *)

Hold ==
    /\ ~Ended(s)
    /\ Set(HoldNow(s))

ReleaseHold ==
    /\ s.status = "on_hold"
    /\ \/ Set([s EXCEPT !.canReverify = TRUE])
       \/ s.prev = "ready" /\ Set([s EXCEPT !.status = "ready", !.prev = "none", !.canReverify = FALSE])
       \/ s.prev = "active" /\ Set(Continue(s))

ExtendSessionTime ==
    /\ ~Ended(s)
    /\ s.total + Extension <= MaxTotal
    /\ Set([s EXCEPT !.total = @ + Extension])

StaffEnd ==
    /\ ~Ended(s)
    /\ \/ Set(FinalizeSession(s, "staff_terminated"))
       \/ s.status # "ready" /\ Set(FinalizeSession(s, "staff_submitted"))

MinRemaining == 1

Reopenable == {"time_expired", "staff_submitted", "staff_terminated", "abandoned", "resume_limit"}

ReopenSession ==
    \E add \in {0, Extension} :
        /\ s.endReason \in Reopenable /\ s.started
        /\ s.total + add <= MaxTotal
        /\ s.total + add - s.used >= MinRemaining
        /\ Set([s EXCEPT !.status = "on_hold", !.endReason = "none", !.total = @ + add,
                         !.canReverify = TRUE, !.prev = "active"])

(* The server's jobs.                                                      *)

CloseAbandoned ==
    /\ s.status \in {"ready", "paused", "on_hold"} \/ (s.status = "active" /\ ~s.running)
    /\ Set(FinalizeSession(s, "abandoned"))

SweepTimeouts ==
    /\ sweep.next = "timeouts"
    /\ s' = TimeoutsRow(s)
    /\ sweep' = [next |-> "expiry", lag |-> 0]
    /\ UNCHANGED <<rules, request>>

SweepExpiry ==
    /\ sweep.next = "expiry"
    /\ s' = ExpiryRow(s, sweep.lag)
    /\ sweep' = [sweep EXCEPT !.next = "limits"]
    /\ UNCHANGED <<rules, request>>

SweepLimits ==
    /\ sweep.next = "limits"
    /\ s' = LimitsRow(s)
    /\ sweep' = [next |-> "timeouts", lag |-> 0]
    /\ UNCHANGED <<rules, request>>

Candidate ==
    \/ StartExam \/ Heartbeat \/ ConcurrentUse \/ Pause \/ CandidateSubmit \/ WithdrawConsent
    \/ EnforceReconnectLimits \/ StartCheck \/ CompleteCheck

Staff == Hold \/ ReleaseHold \/ ExtendSessionTime \/ StaffEnd \/ ReopenSession

Sweeper == SweepTimeouts \/ SweepExpiry \/ SweepLimits

Next == Tick \/ Candidate \/ Staff \/ CloseAbandoned \/ Sweeper

(* Time passes and the sweeper's job runs again and again (jobs/runner.ts);*)
(* browsers and staff promise nothing.                                     *)
Fairness == WF_vars(Tick) /\ WF_vars(SweepTimeouts) /\ WF_vars(SweepExpiry) /\ WF_vars(SweepLimits)

Spec == Init /\ [][Next]_vars /\ Fairness

-----------------------------------------------------------------------------
(***************************************************************************)
(* Properties.                                                             *)
(***************************************************************************)

(* The row stays within the values its columns may hold; a stopped clock   *)
(* has no running segment (session-state.ts, db/schema.ts).                *)
TypeOK ==
    /\ rules \in RuleSet
    /\ s \in Row /\ (~s.running => s.segment = 0) /\ (s.status = "on_hold" => s.prev # "none")
    /\ sweep \in [next: {"timeouts", "expiry", "limits"}, lag: 0..MaxLag]
    /\ request \in BOOLEAN

(* The clock runs only in an exam in progress, or in a pause whose rule    *)
(* lets it run: no hold, end or reopening leaves it on                     *)
(* (session-state.ts holdNow, finalizeSession, pauseNow).                  *)
ClockRunsOnlyInExam ==
    s.running => s.status = "active" \/ (s.status = "paused" /\ rules.pauseTimer = "continue")

(* An exam in progress whose clock stands still is in a recorded outage    *)
(* under disconnect rule 'stop': no other way of stopping it survives a    *)
(* return to the exam (candidate-actions.ts heartbeat, checks.ts           *)
(* continueAfterPass, session-actions.ts releaseHold).                     *)
StoppedOnlyByOutage ==
    s.status = "active" /\ ~s.running => s.outage /\ rules.disconnectTimer = "stop"

(* Exam time is used only by ticks of a running clock, and given back only *)
(* by an outage under 'stop': at most the silence, and never a segment     *)
(* completed before it (session-state.ts recordReportingTimeout).          *)
ExamTimeKept ==
    [][LET before == ClockUsed(s)
           after == ClockUsed(s')
       IN s'.total = s.total /\ after # before =>
            \/ after = before + 1 /\ s.running /\ s'.segment = s.segment + 1
            \/ /\ after < before /\ rules.disconnectTimer = "stop"
               /\ s.status = "active" /\ s.conn = "online" /\ s.silence > Timeout
               /\ after >= s.used /\ s.used + s.segment - after <= s.silence]_vars

(* Whenever a heartbeat may take the fast path, the locked path would have *)
(* written the same row (candidate-actions.ts fastHeartbeat: "produces     *)
(* exactly the same result").                                              *)
FastPathAgrees ==
    \A signal \in BOOLEAN : FastApplies(s, signal) => FastHeartbeat(s) = FullHeartbeat(s, signal)

(* The row after a whole pass of the sweeper.                              *)
Swept(r) == LimitsRow(ExpiryRow(TimeoutsRow(r), 0))

(* A heartbeat after an unnoticed silence leaves the row as if a pass of   *)
(* the sweeper had come first, unless the time also ran out past the       *)
(* offline limit (candidate-actions.ts heartbeat, recovery.ts              *)
(* applyOfflineLimit).                                                     *)
LateHeartbeatAgrees ==
    ReportingTimedOut(s) /\ s.control = "held" /\ ~(OverOfflineLimit(s) /\ ClockExpired(s))
    => FullHeartbeat(s, FALSE) = FullHeartbeat(Swept(s), FALSE)

(* A running clock does not run for ever: the sweeper ends the exam when   *)
(* its time is used up, in a pause on the clock too (sweeper.ts step 2).   *)
(* Under disconnect rule 'stop' a candidate who keeps going silent is      *)
(* given that time back each time, so nothing is promised there.           *)
ClockRunsOut == (s.running /\ rules.disconnectTimer = "continue") ~> ~s.running

(* A silence past the timeout is recorded, or the browser is heard again   *)
(* (sweeper.ts step 1).                                                    *)
SilenceNoticed ==
    (s.status = "active" /\ s.conn = "online" /\ s.silence > Timeout)
    ~> (s.status # "active" \/ s.conn = "offline" \/ s.silence <= Timeout)

(* An exam in progress does not stay silent past the offline limit, even   *)
(* with its clock stopped by the outage (recovery.ts enforceOfflineLimits).*)
OfflineLimitEnforced == OverOfflineLimit(s) ~> ~OverOfflineLimit(s)

-----------------------------------------------------------------------------
(***************************************************************************)
(* What the repository says and the code does not do.                      *)
(***************************************************************************)

(* Under disconnect rule 'stop' the clock does not run while the exam is   *)
(* recorded as disconnected (docs/ARCHITECTURE.md, Clock).                 *)
OfflineStopsClock ==
    rules.disconnectTimer = "stop" /\ s.status = "active" /\ s.conn = "offline" => ~s.running

(* When a browser returns and closes the outage, no outage is left open    *)
(* (checks.ts closeGapPeriods: "a reporting outage ends here").            *)
OutageEndsOnReturn ==
    [][s.outage /\ ~s'.outage /\ s'.conn = "online" /\ s'.control = "held" => ~s'.lost]_vars

(* Sweeper or late heartbeat: the exam meets the same rules whichever      *)
(* comes first (docs/ARCHITECTURE.md, Offline).                            *)
WhicheverComesFirst ==
    ReportingTimedOut(s) /\ s.control = "held"
    => FullHeartbeat(s, FALSE).status = FullHeartbeat(Swept(s), FALSE).status
=============================================================================
