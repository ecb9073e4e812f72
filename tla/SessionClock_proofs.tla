------------------------ MODULE SessionClock_proofs ------------------------
(***************************************************************************)
(* Proofs about SessionClock, for exams of every length, every timeout,    *)
(* every limit and every set of rules.  The transitions of the row are     *)
(* treated one by one - what each returns for a row that is in order, and  *)
(* what it does to the time used - then every action as a use of them.     *)
(***************************************************************************)
EXTENDS SessionClock, TLAPS

(* A row whose clock fits its status and never owes more than the exam.    *)
(* A transition may find and leave it with a stopped clock that no outage  *)
(* explains; an action may not.                                            *)
Fits(r) ==
    /\ r \in Row
    /\ ~r.running => r.segment = 0
    /\ r.status = "on_hold" => r.prev # "none"
    /\ r.running => r.status = "active" \/ (r.status = "paused" /\ rules.pauseTimer = "continue")
    /\ r.used <= r.total
    /\ r.running => r.used + r.segment <= r.total + MaxLag
    /\ r.endReason # "none" => Ended(r)
Explained(r) == r.status = "active" /\ ~r.running => r.outage /\ rules.disconnectTimer = "stop"

(* The inductive invariant.                                                *)
CInv ==
    /\ rules \in RuleSet
    /\ Fits(s) /\ Explained(s)
    /\ sweep \in [next: {"timeouts", "expiry", "limits"}, lag: 0..MaxLag]
    /\ request \in BOOLEAN

(* Why a session ends.                                                     *)
EndReasons == {"time_expired", "resume_limit", "candidate_submitted", "candidate_withdrew",
               "staff_submitted", "staff_terminated", "abandoned"}

(* A transition that neither uses nor gives back exam time.                *)
Steady(r, t) == t.total = r.total /\ ClockUsed(t) = ClockUsed(r)

-----------------------------------------------------------------------------
(***************************************************************************)
(* The clock.                                                              *)
(***************************************************************************)

(* The cap on ages is beyond every bound, and ageing stays below it.       *)
LEMMA AgeCapFacts ==
    /\ AgeCap \in Nat /\ MaxTotal + MaxLag <= AgeCap /\ MaxTotal \in Nat /\ MaxLag \in Nat
    /\ \A age \in 0..AgeCap : Older(age) \in 0..AgeCap
BY TimesAssumption DEF AgeCap, Older, Smaller, Larger

(* One column at a time, a row stays a row.                                *)
LEMMA RowWrites ==
    ASSUME NEW r \in Row
    PROVE  /\ \A v \in {"ready", "active", "paused", "on_hold", "submitted", "terminated"} : [r EXCEPT !.status = v] \in Row
           /\ \A v \in {"none", "ready", "active"} : [r EXCEPT !.prev = v] \in Row
           /\ \A v \in BOOLEAN : [r EXCEPT !.canReverify = v] \in Row
           /\ \A v \in BOOLEAN : [r EXCEPT !.started = v] \in Row
           /\ \A v \in EndReasons \cup {"none"} : [r EXCEPT !.endReason = v] \in Row
           /\ \A v \in 0..MaxTotal : [r EXCEPT !.total = v] \in Row
           /\ \A v \in 0..MaxTotal : [r EXCEPT !.used = v] \in Row
           /\ \A v \in BOOLEAN : [r EXCEPT !.running = v] \in Row
           /\ \A v \in 0..AgeCap : [r EXCEPT !.segment = v] \in Row
           /\ \A v \in {"never_connected", "online", "offline"} : [r EXCEPT !.conn = v] \in Row
           /\ \A v \in 0..AgeCap : [r EXCEPT !.silence = v] \in Row
           /\ \A v \in 0..AgeCap : [r EXCEPT !.activeFor = v] \in Row
           /\ \A v \in BOOLEAN : [r EXCEPT !.outage = v] \in Row
           /\ \A v \in BOOLEAN : [r EXCEPT !.lost = v] \in Row
           /\ \A v \in {"held", "replaced", "lost"} : [r EXCEPT !.control = v] \in Row
           /\ \A v \in {"none", "resume", "reconnect", "reverify"} : [r EXCEPT !.check = v] \in Row
<1>1. \A v \in {"ready", "active", "paused", "on_hold", "submitted", "terminated"} : [r EXCEPT !.status = v] \in Row
  BY DEF Row
<1>2. \A v \in {"none", "ready", "active"} : [r EXCEPT !.prev = v] \in Row
  BY DEF Row
<1>3. \A v \in BOOLEAN : [r EXCEPT !.canReverify = v] \in Row
  BY DEF Row
<1>4. \A v \in BOOLEAN : [r EXCEPT !.started = v] \in Row
  BY DEF Row
<1>5. \A v \in EndReasons \cup {"none"} : [r EXCEPT !.endReason = v] \in Row
  BY DEF Row, EndReasons
<1>6. \A v \in 0..MaxTotal : [r EXCEPT !.total = v] \in Row
  BY DEF Row
<1>7. \A v \in 0..MaxTotal : [r EXCEPT !.used = v] \in Row
  BY DEF Row
<1>8. \A v \in BOOLEAN : [r EXCEPT !.running = v] \in Row
  BY DEF Row
<1>9. \A v \in 0..AgeCap : [r EXCEPT !.segment = v] \in Row
  BY DEF Row
<1>10. \A v \in {"never_connected", "online", "offline"} : [r EXCEPT !.conn = v] \in Row
  BY DEF Row
<1>11. \A v \in 0..AgeCap : [r EXCEPT !.silence = v] \in Row
  BY DEF Row
<1>12. \A v \in 0..AgeCap : [r EXCEPT !.activeFor = v] \in Row
  BY DEF Row
<1>13. \A v \in BOOLEAN : [r EXCEPT !.outage = v] \in Row
  BY DEF Row
<1>14. \A v \in BOOLEAN : [r EXCEPT !.lost = v] \in Row
  BY DEF Row
<1>15. \A v \in {"held", "replaced", "lost"} : [r EXCEPT !.control = v] \in Row
  BY DEF Row
<1>16. \A v \in {"none", "resume", "reconnect", "reverify"} : [r EXCEPT !.check = v] \in Row
  BY DEF Row
<1> QED BY <1>1, <1>2, <1>3, <1>4, <1>5, <1>6, <1>7, <1>8, <1>9, <1>10, <1>11, <1>12, <1>13, <1>14, <1>15, <1>16

(* The fields a transition of the clock leaves alone.                      *)
RestSame(r, t) ==
    /\ t.status = r.status /\ t.prev = r.prev /\ t.canReverify = r.canReverify
    /\ t.started = r.started /\ t.endReason = r.endReason /\ t.total = r.total
    /\ t.conn = r.conn /\ t.silence = r.silence /\ t.activeFor = r.activeFor
    /\ t.outage = r.outage /\ t.lost = r.lost /\ t.control = r.control /\ t.check = r.check

(* What stopping the clock writes and leaves alone (clockStop).            *)
LEMMA ClockStopFields ==
    ASSUME NEW r, Fits(r), NEW ago \in Nat
    PROVE  LET t == ClockStop(r, ago)
           IN  /\ Fits(t) /\ RestSame(r, t) /\ t.running = FALSE /\ t.segment = 0
               /\ t.used = Smaller(r.total, r.used + Larger(0, r.segment - ago))
<1>1. r.used \in Nat /\ r.total \in 0..MaxTotal /\ r.segment \in Nat /\ r.used <= r.total /\ MaxTotal \in Nat
  BY AgeCapFacts DEF Fits, Row
<1> DEFINE u == Smaller(r.total, r.used + Larger(0, r.segment - ago))
           t == [r EXCEPT !.used = u, !.running = FALSE, !.segment = 0]
<1>2. u \in 0..MaxTotal /\ u <= r.total BY <1>1 DEF Smaller, Larger
<1>3. CASE r.running
  <2>1. ClockStop(r, ago) = t BY <1>3 DEF ClockStop
  <2> HIDE DEF u
  <2>2. 0 \in 0..AgeCap BY AgeCapFacts
  <2>3. t \in Row BY <1>2, <2>2 DEF Row, Fits
  <2>4. /\ RestSame(r, t) /\ t.running = FALSE /\ t.segment = 0 /\ t.used = u
    BY DEF Fits, Row, RestSame
  <2> HIDE DEF t
  <2> QED BY <1>2, <2>1, <2>3, <2>4 DEF Fits, RestSame, Ended, u
<1>4. CASE ~r.running
  <2>1. ClockStop(r, ago) = r BY <1>4 DEF ClockStop
  <2>2. u = r.used BY <1>1, <1>4 DEF Fits, Smaller, Larger
  <2>3. r.running = FALSE BY <1>4 DEF Fits, Row
  <2> QED BY <1>4, <2>1, <2>2, <2>3 DEF Fits, RestSame
<1> QED BY <1>3, <1>4 DEF Fits, Row

(* Stopping the clock now settles exactly what was used.                   *)
LEMMA ClockStopNow ==
    ASSUME NEW r, Fits(r)
    PROVE  Fits(ClockStop(r, 0)) /\ Steady(r, ClockStop(r, 0))
<1> DEFINE t == ClockStop(r, 0)
<1>1. /\ Fits(t) /\ RestSame(r, t) /\ t.segment = 0
      /\ t.used = Smaller(r.total, r.used + Larger(0, r.segment - 0))
  <2>1. 0 \in Nat OBVIOUS
  <2> QED BY <2>1, ClockStopFields, Zenon
<1>2. r.used \in Nat /\ r.total \in Nat /\ r.segment \in Nat BY AgeCapFacts DEF Fits, Row
<1> HIDE DEF t
<1> QED BY <1>1, <1>2 DEF Steady, ClockUsed, RestSame, Smaller, Larger, t

(* What starting the clock writes and leaves alone (clockStart).           *)
LEMMA ClockStartFields ==
    ASSUME NEW r, Fits(r),
           r.status = "active" \/ (r.status = "paused" /\ rules.pauseTimer = "continue")
    PROVE  LET t == ClockStart(r)
           IN  /\ Fits(t) /\ RestSame(r, t) /\ t.running = TRUE
               /\ t.used = r.used /\ t.segment = r.segment
<1> DEFINE t == [r EXCEPT !.running = TRUE, !.segment = 0]
<1>0. r \in Row /\ r.used <= r.total /\ (~r.running => r.segment = 0) BY DEF Fits
<1>1. CASE ~r.running
  <2>1. ClockStart(r) = t BY <1>1 DEF ClockStart
  <2>2. r.used \in Nat /\ r.total \in Nat /\ 0 \in 0..AgeCap /\ MaxLag \in Nat BY <1>0, AgeCapFacts DEF Row
  <2>3. t \in Row BY <1>0, <2>2 DEF Row
  <2>4. RestSame(r, t) /\ t.running = TRUE /\ t.segment = 0 /\ t.used = r.used
    BY <1>0 DEF Row, RestSame
  <2> HIDE DEF t
  <2> QED BY <1>0, <1>1, <2>1, <2>2, <2>3, <2>4 DEF Fits, RestSame, Ended
<1>2. CASE r.running
  <2>1. ClockStart(r) = r /\ r.running = TRUE BY <1>0, <1>2 DEF ClockStart, Row
  <2> QED BY <1>2, <2>1 DEF Fits, RestSame
<1> QED BY <1>1, <1>2

-----------------------------------------------------------------------------
(***************************************************************************)
(* Transitions of the row.                                                 *)
(***************************************************************************)

(* What the clock's order rests on.                                        *)
ClockSame(r, t) ==
    /\ t.status = r.status /\ t.prev = r.prev /\ t.running = r.running
    /\ t.used = r.used /\ t.segment = r.segment /\ t.total = r.total /\ t.endReason = r.endReason

(* A row with the same clock and status is in order as well.               *)
LEMMA OtherFields ==
    ASSUME NEW r, Fits(r), NEW t \in Row, ClockSame(r, t)
    PROVE  Fits(t) /\ Steady(r, t)
BY DEF Fits, ClockSame, Steady, ClockUsed, Ended

(* Control passes to the browser that was checked, the outage may close.   *)
LEMMA CheckClosedFits ==
    ASSUME NEW r, Fits(r), NEW c \in BOOLEAN
    PROVE  LET t == [r EXCEPT !.control = "held", !.check = "none", !.outage = c]
           IN  Fits(t) /\ Steady(r, t) /\ ClockSame(r, t) /\ t.outage = c
<1> DEFINE t == [r EXCEPT !.control = "held", !.check = "none", !.outage = c]
<1>1. r \in Row /\ 0 \in 0..AgeCap BY AgeCapFacts DEF Fits
<1>2. t \in Row BY <1>1, RowWrites, Zenon
<1>3. ClockSame(r, t) /\ t.outage = c BY <1>1 DEF Row, ClockSame
<1> HIDE DEF t
<1>4. Fits(t) /\ Steady(r, t) BY <1>2, <1>3, OtherFields
<1> QED BY <1>3, <1>4 DEF t

(* A check is over.                                                        *)
LEMMA NoCheckFits ==
    ASSUME NEW r, Fits(r)
    PROVE  LET t == [r EXCEPT !.check = "none"]
           IN  Fits(t) /\ Steady(r, t) /\ ClockSame(r, t) /\ t.outage = r.outage
<1> DEFINE t == [r EXCEPT !.check = "none"]
<1>1. r \in Row /\ 0 \in 0..AgeCap BY AgeCapFacts DEF Fits
<1>2. t \in Row BY <1>1, RowWrites, Zenon
<1>3. ClockSame(r, t) /\ t.outage = r.outage BY <1>1 DEF Row, ClockSame
<1> HIDE DEF t
<1>4. Fits(t) /\ Steady(r, t) BY <1>2, <1>3, OtherFields
<1> QED BY <1>3, <1>4 DEF t

(* A check is over and its browser in control.                             *)
LEMMA VerifiedFits ==
    ASSUME NEW r, Fits(r)
    PROVE  LET t == [r EXCEPT !.control = "held", !.check = "none"]
           IN  Fits(t) /\ Steady(r, t) /\ ClockSame(r, t) /\ t.outage = r.outage
<1> DEFINE t == [r EXCEPT !.control = "held", !.check = "none"]
<1>1. r \in Row /\ 0 \in 0..AgeCap BY AgeCapFacts DEF Fits
<1>2. t \in Row BY <1>1, RowWrites, Zenon
<1>3. ClockSame(r, t) /\ t.outage = r.outage BY <1>1 DEF Row, ClockSame
<1> HIDE DEF t
<1>4. Fits(t) /\ Steady(r, t) BY <1>2, <1>3, OtherFields
<1> QED BY <1>3, <1>4 DEF t

(* The verification is withdrawn.                                          *)
LEMMA ControlLostFits ==
    ASSUME NEW r, Fits(r)
    PROVE  LET t == [r EXCEPT !.control = "lost"]
           IN  Fits(t) /\ Steady(r, t) /\ ClockSame(r, t) /\ t.outage = r.outage
<1> DEFINE t == [r EXCEPT !.control = "lost"]
<1>1. r \in Row /\ 0 \in 0..AgeCap BY AgeCapFacts DEF Fits
<1>2. t \in Row BY <1>1, RowWrites, Zenon
<1>3. ClockSame(r, t) /\ t.outage = r.outage BY <1>1 DEF Row, ClockSame
<1> HIDE DEF t
<1>4. Fits(t) /\ Steady(r, t) BY <1>2, <1>3, OtherFields
<1> QED BY <1>3, <1>4 DEF t

(* Staff ask for a check.                                                  *)
LEMMA MayReverifyFits ==
    ASSUME NEW r, Fits(r)
    PROVE  LET t == [r EXCEPT !.canReverify = TRUE]
           IN  Fits(t) /\ Steady(r, t) /\ ClockSame(r, t) /\ t.outage = r.outage
<1> DEFINE t == [r EXCEPT !.canReverify = TRUE]
<1>1. r \in Row /\ 0 \in 0..AgeCap BY AgeCapFacts DEF Fits
<1>2. t \in Row BY <1>1, RowWrites, Zenon
<1>3. ClockSame(r, t) /\ t.outage = r.outage BY <1>1 DEF Row, ClockSame
<1> HIDE DEF t
<1>4. Fits(t) /\ Steady(r, t) BY <1>2, <1>3, OtherFields
<1> QED BY <1>3, <1>4 DEF t

(* The outage closes.                                                      *)
LEMMA OutageClosedFits ==
    ASSUME NEW r, Fits(r)
    PROVE  LET t == [r EXCEPT !.outage = FALSE]
           IN  Fits(t) /\ Steady(r, t) /\ ClockSame(r, t) /\ t.outage = FALSE /\ t.control = r.control
<1> DEFINE t == [r EXCEPT !.outage = FALSE]
<1>1. r \in Row /\ 0 \in 0..AgeCap BY AgeCapFacts DEF Fits
<1>2. t \in Row BY <1>1, RowWrites, Zenon
<1>3. ClockSame(r, t) /\ t.outage = FALSE /\ t.control = r.control BY <1>1 DEF Row, ClockSame
<1> HIDE DEF t
<1>4. Fits(t) /\ Steady(r, t) BY <1>2, <1>3, OtherFields
<1> QED BY <1>3, <1>4 DEF t

(* The browser is heard.                                                   *)
LEMMA SeenSame ==
    ASSUME NEW r, Fits(r)
    PROVE  LET t == Seen(r)
           IN  Fits(t) /\ Steady(r, t) /\ ClockSame(r, t) /\ t.outage = r.outage /\ t.control = r.control
<1> DEFINE t == Seen(r)
<1>1. r \in Row /\ 0 \in 0..AgeCap BY AgeCapFacts DEF Fits
<1>2. t \in Row BY <1>1, RowWrites, Zenon DEF Seen
<1>3. ClockSame(r, t) /\ t.outage = r.outage /\ t.control = r.control BY <1>1 DEF Row, ClockSame, Seen
<1> HIDE DEF t
<1>4. Fits(t) /\ Steady(r, t) BY <1>2, <1>3, OtherFields
<1> QED BY <1>3, <1>4 DEF t

(* A hold stops the clock and keeps what was used (holdNow).               *)
LEMMA HoldNowFits ==
    ASSUME NEW r, Fits(r), ~Ended(r)
    PROVE  Fits(HoldNow(r)) /\ Steady(r, HoldNow(r)) /\ HoldNow(r).status = "on_hold"
<1> DEFINE p == CASE r.status = "on_hold" -> r.prev
                  [] r.status = "paused" -> "active"
                  [] OTHER -> r.status
           c == ClockStop(r, 0)
           t == [c EXCEPT !.status = "on_hold", !.canReverify = FALSE, !.activeFor = 0, !.prev = p]
<1>1. p \in {"ready", "active"} BY DEF Fits, Row, Ended
<1>0. 0 \in 0..AgeCap BY AgeCapFacts
<1>2. Fits(c) /\ Steady(r, c) /\ c.running = FALSE /\ c \in Row /\ c.endReason = "none"
  <2>1. 0 \in Nat OBVIOUS
  <2>2. Fits(c) /\ Steady(r, c) /\ c.running = FALSE /\ RestSame(r, c)
    BY <2>1, ClockStopFields, ClockStopNow
  <2> QED BY <2>2 DEF Fits, RestSame
<1>3. HoldNow(r) = t BY DEF HoldNow
<1> HIDE DEF p, c
<1>4. t \in Row
  <2>1. p \in {"none", "ready", "active"} BY <1>1
  <2> QED BY <1>0, <1>2, <2>1, RowWrites, Zenon
<1>5. /\ t.status = "on_hold" /\ t.prev = p /\ t.running = FALSE /\ t.endReason = c.endReason
      /\ t.used = c.used /\ t.segment = c.segment /\ t.total = c.total
  BY <1>2 DEF Row
<1> HIDE DEF t
<1> QED BY <1>1, <1>2, <1>3, <1>4, <1>5 DEF Fits, Steady, ClockUsed

(* An end stops the clock and keeps what was used, also when it is         *)
(* recorded at the moment the time ran out (finalizeSession).              *)
LEMMA FinalizeFits ==
    ASSUME NEW r, Fits(r), NEW reason \in EndReasons
    PROVE  /\ Fits(FinalizeSession(r, reason)) /\ Steady(r, FinalizeSession(r, reason))
           /\ Ended(FinalizeSession(r, reason))
<1> DEFINE ago == IF reason = "time_expired"
                  THEN r.segment - Larger(0, Smaller(r.segment, r.total - r.used)) ELSE 0
           st == IF reason \in {"staff_terminated", "abandoned", "candidate_withdrew"}
                 THEN "terminated" ELSE "submitted"
           c == ClockStop(r, ago)
           d == [c EXCEPT !.status = st, !.endReason = reason, !.canReverify = FALSE]
           t == [d EXCEPT !.outage = FALSE, !.lost = FALSE, !.activeFor = 0]
<1>0. r.used \in Nat /\ r.total \in Nat /\ r.segment \in Nat /\ r.used <= r.total /\ r \in Row
  BY AgeCapFacts DEF Fits, Row
<1>1. ago \in Nat BY <1>0 DEF Larger, Smaller
<1>2. Smaller(r.total, r.used + Larger(0, r.segment - ago)) = ClockUsed(r)
  BY <1>0 DEF ClockUsed, Larger, Smaller
<1>3. CASE Ended(r)
  <2>1. FinalizeSession(r, reason) = r BY <1>3 DEF FinalizeSession
  <2> QED BY <1>3, <2>1 DEF Steady
<1>4. CASE ~Ended(r)
  <2>1. FinalizeSession(r, reason) = t BY <1>4 DEF FinalizeSession
  <2> HIDE DEF ago
  <2>2. /\ Fits(c) /\ c.running = FALSE /\ c \in Row /\ c.segment = 0 /\ c.total = r.total
        /\ c.used = ClockUsed(r)
    BY <1>1, <1>2, ClockStopFields DEF Fits, RestSame
  <2>3. st \in {"submitted", "terminated"} /\ 0 \in 0..AgeCap BY AgeCapFacts
  <2> HIDE DEF c, st
  <2>4. d \in Row
    <3>1. /\ st \in {"ready", "active", "paused", "on_hold", "submitted", "terminated"}
          /\ reason \in EndReasons \cup {"none"}
      BY <2>3
    <3> QED BY <2>2, <3>1, RowWrites, Zenon
  <2>5. /\ d.status = st /\ d.running = FALSE /\ d.used = c.used /\ d.segment = 0 /\ d.total = r.total
    BY <2>2 DEF Row
  <2> HIDE DEF d
  <2>6. t \in Row BY <2>3, <2>4, RowWrites, Zenon
  <2>7. /\ t.status = st /\ t.running = FALSE /\ t.used = c.used /\ t.segment = 0 /\ t.total = r.total
    BY <2>4, <2>5 DEF Row
  <2> HIDE DEF t
  <2>8. Fits(t) /\ Ended(t) BY <2>2, <2>3, <2>6, <2>7 DEF Fits, Ended
  <2>9. Steady(r, t)
    BY <1>0, <2>2, <2>7 DEF Steady, ClockUsed, Smaller
  <2> QED BY <2>1, <2>8, <2>9
<1> QED BY <1>3, <1>4

(* A pause leaves the clock as its rule says (pauseNow).                   *)
LEMMA PauseNowFits ==
    ASSUME NEW r, Fits(r), r.status = "active", rules \in RuleSet
    PROVE  Fits(PauseNow(r)) /\ Steady(r, PauseNow(r)) /\ PauseNow(r).status = "paused"
<1> DEFINE c == IF rules.pauseTimer = "stop" THEN ClockStop(r, 0) ELSE ClockStart(r)
           t == [c EXCEPT !.status = "paused", !.activeFor = 0]
<1>1. PauseNow(r) = t BY DEF PauseNow
<1>2. /\ Fits(c) /\ Steady(r, c) /\ c \in Row /\ c.endReason = "none"
      /\ c.running => rules.pauseTimer = "continue"
  <2>0. r.endReason = "none" BY DEF Fits, Ended
  <2>1. CASE rules.pauseTimer = "stop"
    <3>1. c = ClockStop(r, 0) /\ 0 \in Nat BY <2>1
    <3>2. Fits(c) /\ Steady(r, c) /\ c.running = FALSE /\ RestSame(r, c)
      BY <3>1, ClockStopFields, ClockStopNow
    <3> QED BY <2>0, <3>2 DEF Fits, RestSame
  <2>2. CASE rules.pauseTimer # "stop"
    <3>1. rules.pauseTimer = "continue" BY <2>2 DEF RuleSet
    <3>2. c = ClockStart(r) BY <2>2
    <3> QED BY <2>0, <3>1, <3>2, ClockStartFields DEF Fits, Steady, ClockUsed, RestSame
  <2> QED BY <2>1, <2>2
<1> HIDE DEF c
<1>3. t \in Row
  <2>1. 0 \in 0..AgeCap BY AgeCapFacts
  <2> QED BY <1>2, <2>1, RowWrites, Zenon
<1>4. /\ t.status = "paused" /\ t.running = c.running /\ t.endReason = c.endReason
      /\ t.used = c.used /\ t.segment = c.segment /\ t.total = c.total
  BY <1>2 DEF Row
<1> HIDE DEF t
<1> QED BY <1>1, <1>2, <1>3, <1>4 DEF Fits, Steady, ClockUsed

(* The exam goes on with its clock running.                                *)
LEMMA ContinueFits ==
    ASSUME NEW r, Fits(r), ~Ended(r)
    PROVE  /\ Fits(Continue(r)) /\ Steady(r, Continue(r))
           /\ Continue(r).status = "active" /\ Continue(r).running
<1> DEFINE t == [r EXCEPT !.status = "active", !.prev = "none", !.canReverify = FALSE, !.activeFor = 0]
<1>1. Continue(r) = ClockStart(t) BY DEF Continue
<1>2. t \in Row
  <2>1. 0 \in 0..AgeCap BY AgeCapFacts
  <2> QED BY <2>1, RowWrites, Zenon DEF Fits
<1>3. /\ t.status = "active" /\ t.running = r.running /\ t.endReason = r.endReason
      /\ t.used = r.used /\ t.segment = r.segment /\ t.total = r.total
  BY DEF Fits, Row
<1> HIDE DEF t
<1>4. Fits(t) /\ Steady(r, t) BY <1>2, <1>3 DEF Fits, Steady, ClockUsed
<1> DEFINE u == ClockStart(t)
<1>5. Fits(u) /\ RestSame(t, u) /\ u.running = TRUE /\ u.used = t.used /\ u.segment = t.segment
  BY <1>3, <1>4, ClockStartFields
<1> HIDE DEF u
<1> QED BY <1>1, <1>3, <1>4, <1>5 DEF Steady, ClockUsed, RestSame, u

-----------------------------------------------------------------------------
(***************************************************************************)
(* Outages, heartbeats, the sweeper.                                       *)
(***************************************************************************)

(* A transition that gives time back, if any, as an outage may: not more   *)
(* than the silence and nothing that was settled before.                   *)
GivesBack(r, t) ==
    /\ t.total = r.total
    /\ \/ ClockUsed(t) = ClockUsed(r)
       \/ /\ ClockUsed(t) < ClockUsed(r) /\ rules.disconnectTimer = "stop"
          /\ r.status = "active" /\ r.conn = "online" /\ r.silence > Timeout
          /\ ClockUsed(t) >= r.used /\ r.used + r.segment - ClockUsed(t) <= r.silence

(* What follows a return of time without touching it.                      *)
LEMMA SteadyGivesBack ==
    ASSUME NEW r, NEW t, NEW u, GivesBack(r, t), Steady(t, u)
    PROVE  GivesBack(r, u)
BY DEF GivesBack, Steady

(* The silence is recorded (recordReportingTimeout).                       *)
LEMMA RecordReportingTimeoutFits ==
    ASSUME NEW r, Fits(r), Explained(r), rules \in RuleSet, r.conn = "online", r.silence > Timeout
    PROVE  LET t == RecordReportingTimeout(r)
           IN  /\ Fits(t) /\ Explained(t) /\ GivesBack(r, t)
               /\ t.status = r.status /\ t.conn = "offline" /\ t.control = r.control
               /\ t.silence = r.silence /\ t.activeFor = r.activeFor
               /\ r.status = "active" => t.outage
<1> DEFINE t == [r EXCEPT !.conn = "offline"]
           u == [t EXCEPT !.outage = TRUE, !.lost = r.lost \/ r.outage]
           ago == Smaller(r.silence, r.segment)
           c == ClockStop(u, ago)
<1>0. /\ r \in Row /\ r.used \in Nat /\ r.total \in Nat /\ r.segment \in Nat /\ r.silence \in Nat
      /\ r.used <= r.total
  BY AgeCapFacts DEF Fits, Row
<1>1. t \in Row /\ (r.lost \/ r.outage) \in BOOLEAN
  <2>1. "offline" \in {"never_connected", "online", "offline"} OBVIOUS
  <2> QED BY <1>0, <2>1, RowWrites, Zenon
<1>2. /\ ClockSame(r, t) /\ t.outage = r.outage /\ t.conn = "offline" /\ t.control = r.control
      /\ t.silence = r.silence /\ t.activeFor = r.activeFor
  BY <1>0 DEF Row, ClockSame
<1>3. RecordReportingTimeout(r) = IF r.status # "active" THEN t
                                  ELSE IF rules.disconnectTimer = "stop" THEN c ELSE u
  BY DEF RecordReportingTimeout
<1> HIDE DEF t
<1>4. u \in Row BY <1>1, RowWrites, Zenon
<1>5. /\ ClockSame(r, u) /\ u.outage = TRUE /\ u.conn = "offline" /\ u.control = r.control
      /\ u.silence = r.silence /\ u.activeFor = r.activeFor
  BY <1>1, <1>2 DEF Row, ClockSame
<1> HIDE DEF u
<1>6. Fits(t) /\ Steady(r, t) /\ Fits(u) /\ Steady(r, u) BY <1>1, <1>2, <1>4, <1>5, OtherFields
<1>7. ago \in Nat /\ ago <= r.silence /\ ago <= r.segment BY <1>0 DEF Smaller
<1>8. /\ Fits(c) /\ RestSame(u, c) /\ c.running = FALSE /\ c.segment = 0
      /\ c.used = Smaller(u.total, u.used + Larger(0, u.segment - ago))
  BY <1>6, <1>7, ClockStopFields
<1> HIDE DEF ago, c
<1>9. ASSUME r.status = "active", rules.disconnectTimer = "stop" PROVE GivesBack(r, c)
  <2>1. c.total = r.total /\ c.used = Smaller(r.total, r.used + r.segment - ago)
    BY <1>0, <1>5, <1>7, <1>8 DEF ClockSame, RestSame, Larger, Smaller
  <2>2. ClockUsed(c) = c.used /\ c.used \in Nat BY <1>0, <1>7, <1>8, <2>1 DEF ClockUsed, Smaller
  <2> QED BY <1>0, <1>7, <1>9, <2>1, <2>2 DEF GivesBack, ClockUsed, Smaller
<1>10. CASE r.status # "active"
  BY <1>2, <1>3, <1>6, <1>10 DEF Explained, ClockSame, GivesBack, Steady
<1>11. CASE r.status = "active" /\ rules.disconnectTimer = "stop"
  BY <1>3, <1>5, <1>8, <1>9, <1>11 DEF Explained, ClockSame, RestSame
<1>12. CASE r.status = "active" /\ rules.disconnectTimer # "stop"
  BY <1>3, <1>5, <1>6, <1>12 DEF Explained, ClockSame, GivesBack, Steady
<1> QED BY <1>10, <1>11, <1>12

(* The limit holds or ends (applyResumeLimit).                             *)
LEMMA ApplyResumeLimitFits ==
    ASSUME NEW r, Fits(r), ~Ended(r)
    PROVE  LET t == ApplyResumeLimit(r)
           IN  Fits(t) /\ Explained(t) /\ Steady(r, t) /\ t.status # "active"
<1>1. "resume_limit" \in EndReasons BY DEF EndReasons
<1> QED BY <1>1, HoldNowFits, FinalizeFits DEF ApplyResumeLimit, Explained, Ended

(* The time is up, or nothing happens (expireIfDue).                       *)
LEMMA ExpireFits ==
    ASSUME NEW r, Fits(r), Explained(r)
    PROVE  Fits(Expire(r)) /\ Explained(Expire(r)) /\ Steady(r, Expire(r))
<1>1. "time_expired" \in EndReasons BY DEF EndReasons
<1> QED BY <1>1, FinalizeFits DEF Expire, Explained, Ended, Steady

(* A heartbeat after an unnoticed silence.                                 *)
LEMMA LateHeartbeatFits ==
    ASSUME NEW r, Fits(r), Explained(r), rules \in RuleSet
    PROVE  Fits(LateHeartbeat(r)) /\ Explained(LateHeartbeat(r)) /\ GivesBack(r, LateHeartbeat(r))
<1> DEFINE t == RecordReportingTimeout(r)
<1>1. CASE ~(r.control = "held" /\ ReportingTimedOut(r))
  BY <1>1 DEF LateHeartbeat, GivesBack
<1>2. CASE r.control = "held" /\ ReportingTimedOut(r)
  <2>1. /\ Fits(t) /\ Explained(t) /\ GivesBack(r, t) /\ ~Ended(t)
    BY <1>2, RecordReportingTimeoutFits DEF ReportingTimedOut, Ended
  <2>2. LateHeartbeat(r) = IF OverOfflineLimit(t) THEN ApplyResumeLimit(t) ELSE t
    BY <1>2 DEF LateHeartbeat
  <2> HIDE DEF t
  <2> QED BY <2>1, <2>2, ApplyResumeLimitFits, SteadyGivesBack
<1> QED BY <1>1, <1>2

(* The signal of a copied instance id touches neither clock nor outage.    *)
LEMMA ApplyInstanceUsageFits ==
    ASSUME NEW r, Fits(r), Explained(r), NEW signal \in BOOLEAN
    PROVE  LET t == ApplyInstanceUsage(r, signal)
           IN  Fits(t) /\ Explained(t) /\ Steady(r, t)
<1> DEFINE t == [r EXCEPT !.control = "lost"]
<1>1. Fits(t) /\ Steady(r, t) /\ ClockSame(r, t) /\ t.outage = r.outage BY ControlLostFits
<1>2. ApplyInstanceUsage(r, signal) \in {r, t} BY DEF ApplyInstanceUsage
<1> HIDE DEF t
<1> QED BY <1>1, <1>2 DEF Explained, ClockSame, Steady

(* The candidate is back: the outage closes and the clock runs.            *)
LEMMA BackFits ==
    ASSUME NEW r, Fits(r), Explained(r)
    PROVE  Fits(Back(r)) /\ Explained(Back(r)) /\ Steady(r, Back(r))
<1> DEFINE t == [r EXCEPT !.outage = FALSE]
<1>1. Fits(t) /\ Steady(r, t) /\ ClockSame(r, t) BY OutageClosedFits
<1>2. Back(r) = IF r.control # "held" \/ Ended(r) THEN r ELSE IF r.status = "active" THEN ClockStart(t) ELSE t
  BY DEF Back
<1> HIDE DEF t
<1>3. CASE r.control # "held" \/ Ended(r) BY <1>2, <1>3 DEF Steady
<1>4. CASE ~(r.control # "held" \/ Ended(r)) /\ r.status # "active"
  BY <1>1, <1>2, <1>4 DEF Explained, ClockSame
<1>5. CASE ~(r.control # "held" \/ Ended(r)) /\ r.status = "active"
  <2>1. t.status = "active" BY <1>1, <1>5 DEF ClockSame
  <2> DEFINE c == ClockStart(t)
  <2>2. Fits(c) /\ RestSame(t, c) /\ c.running = TRUE /\ c.used = t.used /\ c.segment = t.segment
    BY <1>1, <2>1, ClockStartFields
  <2>3. Back(r) = c BY <1>2, <1>5
  <2> HIDE DEF c
  <2> QED BY <1>1, <2>2, <2>3 DEF Explained, RestSame, Steady, ClockUsed
<1> QED BY <1>3, <1>4, <1>5

(* The browser is seen.                                                    *)
LEMMA SeenFits ==
    ASSUME NEW r, Fits(r), Explained(r)
    PROVE  Fits(Seen(r)) /\ Explained(Seen(r)) /\ Steady(r, Seen(r))
<1>1. Fits(Seen(r)) /\ Steady(r, Seen(r)) /\ ClockSame(r, Seen(r)) /\ Seen(r).outage = r.outage
  BY SeenSame
<1> QED BY <1>1 DEF Explained, ClockSame

(* Every heartbeat, on either path.                                        *)
LEMMA HeartbeatFits ==
    ASSUME NEW r, Fits(r), Explained(r), rules \in RuleSet, NEW signal \in BOOLEAN
    PROVE  LET t == HeartbeatRow(r, signal)
           IN  Fits(t) /\ Explained(t) /\ GivesBack(r, t)
<1> DEFINE l == LateHeartbeat(r)
           n == Seen(l)
           a == ApplyInstanceUsage(n, signal)
           b == Back(a)
<1>1. Fits(l) /\ Explained(l) /\ GivesBack(r, l) BY LateHeartbeatFits
<1> HIDE DEF l
<1>2. Fits(n) /\ Explained(n) /\ GivesBack(r, n)
  BY <1>1, SeenFits, SteadyGivesBack
<1> HIDE DEF n
<1>3. Fits(a) /\ Explained(a) /\ GivesBack(r, a)
  BY <1>2, ApplyInstanceUsageFits, SteadyGivesBack
<1> HIDE DEF a
<1>4. Fits(b) /\ Explained(b) /\ GivesBack(r, b) BY <1>3, BackFits, SteadyGivesBack
<1> HIDE DEF b
<1>5. Fits(Expire(b)) /\ Explained(Expire(b)) /\ GivesBack(r, Expire(b))
  BY <1>4, ExpireFits, SteadyGivesBack
<1>6. FullHeartbeat(r, signal) = Expire(b) BY DEF FullHeartbeat, b, a, n, l
<1>7. Fits(Seen(r)) /\ Explained(Seen(r)) /\ GivesBack(r, Seen(r))
  BY SeenFits DEF GivesBack, Steady
<1>8. HeartbeatRow(r, signal) \in {Seen(r), FullHeartbeat(r, signal)} BY DEF HeartbeatRow, FastHeartbeat
<1> QED BY <1>5, <1>6, <1>7, <1>8

(* The three steps of the sweeper.                                         *)
LEMMA SweeperFits ==
    ASSUME NEW r, Fits(r), Explained(r), rules \in RuleSet
    PROVE  /\ Fits(TimeoutsRow(r)) /\ Explained(TimeoutsRow(r)) /\ GivesBack(r, TimeoutsRow(r))
           /\ \A lag : Fits(ExpiryRow(r, lag)) /\ Explained(ExpiryRow(r, lag)) /\ Steady(r, ExpiryRow(r, lag))
           /\ Fits(LimitsRow(r)) /\ Explained(LimitsRow(r)) /\ Steady(r, LimitsRow(r))
<1>1. Fits(TimeoutsRow(r)) /\ Explained(TimeoutsRow(r)) /\ GivesBack(r, TimeoutsRow(r))
  BY RecordReportingTimeoutFits DEF TimeoutsRow, GivesBack
<1>2. \A lag : Fits(ExpiryRow(r, lag)) /\ Explained(ExpiryRow(r, lag)) /\ Steady(r, ExpiryRow(r, lag))
  BY ExpireFits DEF ExpiryRow, Steady
<1>3. Fits(LimitsRow(r)) /\ Explained(LimitsRow(r)) /\ Steady(r, LimitsRow(r))
  BY ApplyResumeLimitFits DEF LimitsRow, OverOfflineLimit, Steady, Ended
<1> QED BY <1>1, <1>2, <1>3

-----------------------------------------------------------------------------
(***************************************************************************)
(* Every action keeps the invariant, and the time.                         *)
(***************************************************************************)

(* What a step owes: the row in order, and the time kept, given back by an *)
(* outage, or used by a tick.                                              *)
TimeKept ==
    \/ GivesBack(s, s')
    \/ s'.total # s.total
    \/ ClockUsed(s') = ClockUsed(s) + 1 /\ s.running /\ s'.segment = s.segment + 1
StepFits == Fits(s)' /\ Explained(s)' /\ TimeKept

(* Rows are judged by the rules in force, which no step changes.           *)
LEMMA RulesKept ==
    ASSUME rules' = rules, Fits(s'), Explained(s')
    PROVE  Fits(s)' /\ Explained(s)'
BY DEF Fits, Explained

(* A row in order that keeps the time may be written.                      *)
LEMMA SetFits ==
    ASSUME NEW t, Fits(t), Explained(t), GivesBack(s, t) \/ Steady(s, t) \/ t.total # s.total,
           s' = t, rules' = rules
    PROVE  StepFits
<1>1. Fits(s') /\ Explained(s') OBVIOUS
<1>2. TimeKept BY DEF TimeKept, GivesBack, Steady
<1> QED BY <1>1, <1>2, RulesKept DEF StepFits

(* A clock that is not on an exam in progress needs no explanation.        *)
LEMMA ElsewhereExplained ==
    ASSUME NEW r, r.status # "active" \/ r.running
    PROVE  Explained(r)
BY DEF Explained

(* Time passes.                                                            *)
LEMMA TickFits ==
    ASSUME CInv, Tick
    PROVE  StepFits /\ sweep' \in [next: {"timeouts", "expiry", "limits"}, lag: 0..MaxLag]
<1> DEFINE g == IF s.running THEN s.segment + 1 ELSE s.segment
           n == Older(s.silence)
           a == IF s.status = "active" THEN Older(s.activeFor) ELSE s.activeFor
           t == [s EXCEPT !.segment = g, !.silence = n, !.activeFor = a]
<1>1. s' = t /\ rules' = rules BY DEF Tick
<1>2. /\ s \in Row /\ s.used \in Nat /\ s.total \in 0..MaxTotal /\ s.total \in Nat /\ s.segment \in 0..AgeCap
      /\ s.segment \in Nat /\ s.used <= s.total /\ s.running \in BOOLEAN
      /\ s.silence \in 0..AgeCap /\ s.activeFor \in 0..AgeCap
  BY AgeCapFacts DEF CInv, Fits, Row
<1>3. s.running => s.used + s.segment < s.total + MaxLag BY DEF Tick
<1>4. n \in 0..AgeCap /\ a \in 0..AgeCap BY <1>2, AgeCapFacts
<1>5. g \in 0..AgeCap /\ g \in Nat BY <1>2, <1>3, AgeCapFacts
<1>6. g = s.segment \/ (s.running /\ g = s.segment + 1) OBVIOUS
<1>7. /\ ~s.running => g = 0
      /\ s.running => s.used + g <= s.total + MaxLag
  BY <1>2, <1>3, AgeCapFacts DEF CInv, Fits
<1> HIDE DEF g, n, a
<1>8. t \in Row BY <1>2, <1>4, <1>5, RowWrites, Zenon
<1>9. /\ t.status = s.status /\ t.prev = s.prev /\ t.running = s.running /\ t.used = s.used
      /\ t.segment = g /\ t.total = s.total /\ t.outage = s.outage /\ t.endReason = s.endReason
  BY <1>2 DEF Row
<1> HIDE DEF t
<1>10. Fits(t) /\ Explained(t) BY <1>7, <1>8, <1>9 DEF CInv, Fits, Explained, Ended
<1>11. ClockUsed(t) = ClockUsed(s) \/ (ClockUsed(t) = ClockUsed(s) + 1 /\ s.running /\ g = s.segment + 1)
  BY <1>2, <1>5, <1>6, <1>9 DEF ClockUsed, Smaller
<1>12. TimeKept BY <1>1, <1>9, <1>11 DEF TimeKept, GivesBack
<1>13. StepFits BY <1>1, <1>10, <1>12, RulesKept DEF StepFits
<1>14. sweep' \in [next: {"timeouts", "expiry", "limits"}, lag: 0..MaxLag]
  BY AgeCapFacts DEF Tick, CInv
<1> QED BY <1>13, <1>14

(* The candidate's browsers.                                               *)
LEMMA CandidateFits ==
    ASSUME CInv, StartExam \/ Heartbeat \/ ConcurrentUse \/ Pause \/ CandidateSubmit \/ WithdrawConsent
    PROVE  StepFits /\ UNCHANGED <<rules, sweep, request>>
<1>0. Fits(s) /\ Explained(s) /\ rules \in RuleSet /\ s \in Row BY DEF CInv, Fits
<1>1. CASE StartExam
  <2> DEFINE c == Continue(s)
             t == [c EXCEPT !.started = TRUE]
  <2>0. ~Ended(s) BY <1>1 DEF StartExam, Ended
  <2>1. Fits(c) /\ Steady(s, c) /\ c.status = "active" /\ c.running /\ c \in Row
    BY <1>0, <2>0, ContinueFits DEF Fits
  <2>2. s' = t /\ UNCHANGED <<rules, sweep, request>> BY <1>1 DEF StartExam, Set
  <2> HIDE DEF c
  <2>3. t \in Row BY <2>1, RowWrites, Zenon
  <2>4. ClockSame(c, t) BY <2>1 DEF Row, ClockSame
  <2> HIDE DEF t
  <2>5. Fits(t) /\ Steady(c, t) BY <2>1, <2>3, <2>4, OtherFields
  <2>6. Steady(s, t) BY <2>1, <2>5 DEF Steady
  <2>7. Explained(t) BY <2>1, <2>4 DEF ClockSame, Explained
  <2> QED BY <2>2, <2>5, <2>6, <2>7, SetFits
<1>2. CASE Heartbeat
  <2>1. PICK signal \in BOOLEAN : Set(HeartbeatRow(s, signal)) BY <1>2 DEF Heartbeat
  <2> QED BY <1>0, <2>1, HeartbeatFits, SetFits DEF Set
<1>3. CASE ConcurrentUse
  <2>1. Set(ApplyInstanceUsage(s, TRUE)) BY <1>3 DEF ConcurrentUse
  <2> QED BY <1>0, <2>1, ApplyInstanceUsageFits, SetFits DEF Set
<1>4. CASE Pause
  <2>1. s.status = "active" /\ Set(PauseNow(s)) BY <1>4 DEF Pause
  <2> QED BY <1>0, <2>1, PauseNowFits, ElsewhereExplained, SetFits DEF Set
<1>5. ASSUME NEW reason \in EndReasons, Set(FinalizeSession(s, reason))
      PROVE  StepFits /\ UNCHANGED <<rules, sweep, request>>
  BY <1>0, <1>5, FinalizeFits, ElsewhereExplained, SetFits DEF Set, Ended
<1>6. "candidate_submitted" \in EndReasons /\ "candidate_withdrew" \in EndReasons BY DEF EndReasons
<1>7. CASE CandidateSubmit BY <1>5, <1>6, <1>7 DEF CandidateSubmit
<1>8. CASE WithdrawConsent BY <1>5, <1>6, <1>8 DEF WithdrawConsent
<1> QED BY <1>1, <1>2, <1>3, <1>4, <1>7, <1>8

(* A pass: on to the exam, or back to where the hold began.                *)
LEMMA ContinueAfterPassFits ==
    ASSUME NEW r, Fits(r), Explained(r), ~Ended(r)
    PROVE  LET t == ContinueAfterPass(r)
           IN  Fits(t) /\ Explained(t) /\ Steady(r, t)
<1> DEFINE n == Seen(r)
           v == [n EXCEPT !.control = "held", !.check = "none"]
           closed == [v EXCEPT !.outage = FALSE]
           ready == [closed EXCEPT !.status = "ready", !.prev = "none", !.canReverify = FALSE]
<1>1. ContinueAfterPass(r) =
        IF r.status = "ready" THEN v
        ELSE IF r.status = "on_hold" /\ r.prev = "ready" THEN ready ELSE Continue(closed)
  BY DEF ContinueAfterPass
<1>2. Fits(n) /\ Steady(r, n) /\ ClockSame(r, n) BY SeenSame
<1> HIDE DEF n
<1>3. Fits(v) /\ Steady(n, v) /\ ClockSame(n, v) BY <1>2, VerifiedFits
<1> HIDE DEF v
<1>4. Fits(closed) /\ Steady(v, closed) /\ ClockSame(v, closed) BY <1>3, OutageClosedFits
<1> HIDE DEF closed
<1>5. Steady(r, v) /\ Steady(r, closed) BY <1>2, <1>3, <1>4 DEF Steady
<1>6. CASE r.status = "ready"
  <2>1. v.status = "ready" BY <1>2, <1>3, <1>6 DEF ClockSame
  <2> QED BY <1>1, <1>3, <1>5, <1>6, <2>1, ElsewhereExplained
<1>7. CASE r.status = "on_hold" /\ r.prev = "ready"
  <2>1. closed.status = "on_hold" /\ closed.running = FALSE /\ closed \in Row
    BY <1>2, <1>3, <1>4, <1>7 DEF ClockSame, Fits, Row
  <2>2. ready \in Row BY <2>1, RowWrites, Zenon
  <2>3. /\ ready.status = "ready" /\ ready.running = FALSE /\ ready.used = closed.used
        /\ ready.endReason = closed.endReason
        /\ ready.segment = closed.segment /\ ready.total = closed.total
    BY <2>1 DEF Row
  <2> HIDE DEF ready
  <2>4. Fits(ready) /\ Steady(closed, ready) BY <1>4, <2>1, <2>2, <2>3 DEF Fits, Steady, ClockUsed, Ended
  <2>5. Steady(r, ready) /\ Explained(ready) BY <1>5, <2>3, <2>4 DEF Steady, Explained
  <2> QED BY <1>1, <1>7, <2>4, <2>5
<1>8. CASE r.status # "ready" /\ ~(r.status = "on_hold" /\ r.prev = "ready")
  <2>0. ~Ended(closed) BY <1>2, <1>3, <1>4 DEF ClockSame, Ended
  <2>1. Steady(closed, Continue(closed)) /\ Fits(Continue(closed)) /\ Continue(closed).running
    BY <1>4, <2>0, ContinueFits
  <2>2. Steady(r, Continue(closed)) BY <1>5, <2>1 DEF Steady
  <2> QED BY <1>1, <1>8, <2>1, <2>2, ElsewhereExplained
<1> QED BY <1>6, <1>7, <1>8

(* A hold follows whatever the check wrote before it.                      *)
LEMMA HoldAfterFits ==
    ASSUME NEW r, Fits(r), ~Ended(r)
    PROVE  /\ LET t == HoldAfterPass(r) IN Fits(t) /\ Explained(t) /\ Steady(r, t)
           /\ \A mismatch \in BOOLEAN :
                 LET t == HoldAfterCheck(r, mismatch) IN Fits(t) /\ Explained(t) /\ Steady(r, t)
<1>1. ASSUME NEW u, Fits(u), Steady(r, u), ClockSame(r, u)
      PROVE  Fits(HoldNow(u)) /\ Explained(HoldNow(u)) /\ Steady(r, HoldNow(u))
  <2>1. ~Ended(u) BY <1>1 DEF Ended, ClockSame
  <2> QED BY <1>1, <2>1, HoldNowFits, ElsewhereExplained DEF Steady
<1>2. LET t == HoldAfterPass(r) IN Fits(t) /\ Explained(t) /\ Steady(r, t)
  <2> DEFINE n == Seen(r)
             u == [n EXCEPT !.control = "held", !.check = "none", !.outage = FALSE]
  <2>1. Fits(n) /\ Steady(r, n) /\ ClockSame(r, n) BY SeenSame
  <2>2. HoldAfterPass(r) = HoldNow(u) BY DEF HoldAfterPass
  <2> HIDE DEF n
  <2>3. Fits(u) /\ Steady(n, u) /\ ClockSame(n, u) BY <2>1, CheckClosedFits
  <2> HIDE DEF u
  <2>4. Steady(r, u) /\ ClockSame(r, u) BY <2>1, <2>3 DEF Steady, ClockSame
  <2> QED BY <1>1, <2>2, <2>3, <2>4
<1>3. ASSUME NEW mismatch \in BOOLEAN
      PROVE  LET t == HoldAfterCheck(r, mismatch) IN Fits(t) /\ Explained(t) /\ Steady(r, t)
  <2> DEFINE o == r.outage /\ ~mismatch
             u == [r EXCEPT !.control = "held", !.check = "none", !.outage = o]
  <2>1. HoldAfterCheck(r, mismatch) = HoldNow(u) /\ o \in BOOLEAN BY DEF HoldAfterCheck
  <2> HIDE DEF o
  <2>2. Fits(u) /\ Steady(r, u) /\ ClockSame(r, u) BY <2>1, CheckClosedFits
  <2> HIDE DEF u
  <2> QED BY <1>1, <2>1, <2>2
<1> QED BY <1>2, <1>3

(* The transactions of a check, one by one.                                *)
LEMMA ChecksFit ==
    ASSUME CInv, EnforceReconnectLimits \/ StartCheck \/ CompleteCheck
    PROVE  StepFits /\ request' \in BOOLEAN /\ UNCHANGED <<rules, sweep>>
<1>0. Fits(s) /\ Explained(s) /\ rules \in RuleSet /\ s \in Row /\ request \in BOOLEAN BY DEF CInv, Fits
<1>s. Steady(s, s) BY DEF Steady
<1>1. CASE EnforceReconnectLimits
  <2>1. /\ \/ s' = ApplyResumeLimit(s) /\ request' = request
           \/ s' = s /\ request' = TRUE
        /\ ~Ended(s) /\ UNCHANGED <<rules, sweep>>
    BY <1>1 DEF EnforceReconnectLimits
  <2> QED BY <1>0, <1>s, <2>1, ApplyResumeLimitFits, SetFits
<1>2. CASE StartCheck
  <2>1. PICK verified \in BOOLEAN :
          LET becomes == IF s.control = "lost" THEN "lost" ELSE IF verified THEN "held" ELSE "replaced"
              required == RequiredCheck(s, verified /\ s.control = "held")
          IN /\ request' = FALSE /\ UNCHANGED <<rules, sweep>>
             /\ s' = IF required = "none" THEN s ELSE [s EXCEPT !.control = becomes, !.check = required]
    BY <1>2 DEF StartCheck
  <2> DEFINE a == IF s.control = "lost" THEN "lost" ELSE IF verified THEN "held" ELSE "replaced"
             b == RequiredCheck(s, verified /\ s.control = "held")
             t == [s EXCEPT !.control = a, !.check = b]
  <2>2. a \in {"held", "replaced", "lost"} OBVIOUS
  <2>3. b \in {"none", "resume", "reconnect", "reverify"} BY DEF RequiredCheck
  <2>4. request' = FALSE /\ UNCHANGED <<rules, sweep>> /\ s' \in {s, t} BY <2>1
  <2> HIDE DEF a, b
  <2>5. Fits(t) /\ Steady(s, t) /\ ClockSame(s, t) /\ t.outage = s.outage
    <3>1. t \in Row BY <1>0, <2>2, <2>3, RowWrites, Zenon
    <3>2. ClockSame(s, t) /\ t.outage = s.outage BY <1>0 DEF Row, ClockSame
    <3> QED BY <1>0, <3>1, <3>2, OtherFields
  <2> HIDE DEF t
  <2>6. Explained(t) BY <1>0, <2>5 DEF Explained, ClockSame
  <2>7. StepFits BY <1>0, <1>s, <2>4, <2>5, <2>6, SetFits
  <2> QED BY <2>4, <2>7
<1>3. CASE CompleteCheck
  <2>1. ~Ended(s) BY <1>3 DEF CompleteCheck, RequiredCheck, Ended
  <2>2. PICK t : /\ Set(t)
                 /\ \/ t = ContinueAfterPass(s) \/ t = HoldAfterPass(s)
                    \/ \E mismatch \in BOOLEAN : t = HoldAfterCheck(s, mismatch)
                    \/ t = [s EXCEPT !.check = "none"]
    BY <1>3 DEF CompleteCheck
  <2>3. Fits(t) /\ Explained(t) /\ Steady(s, t)
    <3>1. CASE t = ContinueAfterPass(s) BY <1>0, <2>1, <3>1, ContinueAfterPassFits
    <3>2. CASE t = HoldAfterPass(s) BY <1>0, <2>1, <3>2, HoldAfterFits
    <3>3. CASE \E mismatch \in BOOLEAN : t = HoldAfterCheck(s, mismatch)
      BY <1>0, <2>1, <3>3, HoldAfterFits
    <3>4. CASE t = [s EXCEPT !.check = "none"]
      <4>1. Fits(t) /\ Steady(s, t) /\ ClockSame(s, t) /\ t.outage = s.outage BY <1>0, <3>4, NoCheckFits
      <4> QED BY <1>0, <4>1 DEF Explained, ClockSame
    <3> QED BY <2>2, <3>1, <3>2, <3>3, <3>4
  <2> QED BY <1>0, <2>2, <2>3, SetFits DEF Set
<1> QED BY <1>1, <1>2, <1>3

(* Staff.                                                                  *)
LEMMA StaffFits ==
    ASSUME CInv, Staff
    PROVE  StepFits /\ UNCHANGED <<rules, sweep, request>>
<1>0. Fits(s) /\ Explained(s) /\ rules \in RuleSet /\ s \in Row BY DEF CInv, Fits
<1>1. CASE Hold
  <2>1. ~Ended(s) /\ Set(HoldNow(s)) BY <1>1 DEF Hold
  <2> QED BY <1>0, <2>1, HoldNowFits, ElsewhereExplained, SetFits DEF Set
<1>2. CASE ReleaseHold
  <2> DEFINE t == [s EXCEPT !.status = "ready", !.prev = "none", !.canReverify = FALSE]
             u == [s EXCEPT !.canReverify = TRUE]
  <2>1. s.status = "on_hold" /\ (Set(u) \/ Set(t) \/ Set(Continue(s))) BY <1>2 DEF ReleaseHold
  <2>2. t \in Row BY <1>0, RowWrites, Zenon
  <2>3. /\ t.status = "ready" /\ t.running = s.running /\ t.used = s.used /\ t.segment = s.segment
        /\ t.total = s.total /\ t.endReason = s.endReason
    BY <1>0 DEF Row
  <2>4. Fits(u) /\ Steady(s, u) /\ ClockSame(s, u) BY <1>0, MayReverifyFits
  <2> HIDE DEF t, u
  <2>5. Fits(t) /\ Steady(s, t) BY <1>0, <2>1, <2>2, <2>3 DEF Fits, Steady, ClockUsed, Ended
  <2>6. Explained(t) /\ Explained(u) BY <2>1, <2>3, <2>4 DEF Explained, ClockSame
  <2>7. Fits(Continue(s)) /\ Steady(s, Continue(s)) /\ Explained(Continue(s))
    BY <1>0, <2>1, ContinueFits, ElsewhereExplained DEF Ended
  <2> QED BY <2>1, <2>4, <2>5, <2>6, <2>7, SetFits DEF Set
<1>3. CASE ExtendSessionTime
  <2> DEFINE n == s.total + Extension
             t == [s EXCEPT !.total = n]
  <2>0. s.total \in Nat /\ s.used \in Nat /\ s.segment \in Nat BY <1>0, AgeCapFacts DEF Row
  <2>1. Set(t) /\ n \in 0..MaxTotal /\ n > s.total
    BY <1>3, <2>0, TimesAssumption DEF ExtendSessionTime
  <2> HIDE DEF n
  <2>2. t \in Row BY <1>0, <2>1, RowWrites, Zenon
  <2>3. /\ t.status = s.status /\ t.prev = s.prev /\ t.running = s.running /\ t.used = s.used
        /\ t.segment = s.segment /\ t.total = n /\ t.outage = s.outage /\ t.endReason = s.endReason
    BY <1>0 DEF Row
  <2> HIDE DEF t
  <2>4. n \in Nat /\ MaxLag \in Nat BY <2>1, AgeCapFacts
  <2>5. Fits(t) BY <1>0, <2>0, <2>1, <2>2, <2>3, <2>4 DEF Fits, Ended
  <2>6. Explained(t) /\ t.total # s.total BY <1>0, <2>0, <2>1, <2>3, <2>4 DEF Explained
  <2> QED BY <2>1, <2>5, <2>6, SetFits DEF Set
<1>4. CASE StaffEnd
  <2>1. "staff_terminated" \in EndReasons /\ "staff_submitted" \in EndReasons BY DEF EndReasons
  <2>2. \E reason \in EndReasons : Set(FinalizeSession(s, reason)) BY <1>4, <2>1 DEF StaffEnd
  <2> QED BY <1>0, <2>2, FinalizeFits, ElsewhereExplained, SetFits DEF Set, Ended
<1>5. CASE ReopenSession
  <2>1. PICK add \in {0, Extension} :
          /\ s.endReason \in Reopenable /\ s.total + add <= MaxTotal
          /\ s.total + add - s.used >= MinRemaining
          /\ Set([s EXCEPT !.status = "on_hold", !.endReason = "none", !.total = s.total + add,
                           !.canReverify = TRUE, !.prev = "active"])
    BY <1>5 DEF ReopenSession
  <2> DEFINE n == s.total + add
             d == [s EXCEPT !.status = "on_hold", !.endReason = "none", !.total = n]
             t == [d EXCEPT !.canReverify = TRUE, !.prev = "active"]
  <2>2. Set(t) BY <2>1
  <2>3. s.total \in Nat /\ s.used \in Nat /\ s.segment \in Nat /\ s.running \in BOOLEAN
    BY <1>0, AgeCapFacts DEF Row
  <2>4. n \in 0..MaxTotal /\ n \in Nat /\ s.used <= n /\ (n = s.total \/ n # s.total)
    BY <2>1, <2>3, TimesAssumption DEF MinRemaining
  <2> HIDE DEF n
  <2>5. d \in Row BY <1>0, <2>4, RowWrites, Zenon
  <2>6. /\ d.status = "on_hold" /\ d.running = s.running /\ d.used = s.used /\ d.segment = s.segment /\ d.total = n
        /\ d.endReason = "none"
    BY <1>0 DEF Row
  <2> HIDE DEF d
  <2>7. t \in Row BY <2>5, RowWrites, Zenon
  <2>8. /\ t.status = "on_hold" /\ t.prev = "active" /\ t.running = s.running /\ t.used = s.used
        /\ t.segment = s.segment /\ t.total = n /\ t.endReason = "none"
    BY <2>5, <2>6 DEF Row
  <2> HIDE DEF t
  <2>9. ~s.running
    BY <1>0, <2>1 DEF Fits, Ended, Reopenable
  <2>10. Fits(t) /\ Explained(t) BY <1>0, <2>4, <2>7, <2>8, <2>9 DEF Fits, Explained
  <2>11. t.total # s.total \/ Steady(s, t) BY <2>8 DEF Steady, ClockUsed
  <2> QED BY <2>2, <2>10, <2>11, SetFits DEF Set
<1> QED BY <1>1, <1>2, <1>3, <1>4, <1>5 DEF Staff

(* The abandonment job and the sweeper.                                    *)
LEMMA ServerFits ==
    ASSUME CInv, CloseAbandoned \/ Sweeper
    PROVE  /\ StepFits /\ UNCHANGED <<rules, request>>
           /\ sweep' \in [next: {"timeouts", "expiry", "limits"}, lag: 0..MaxLag]
<1>0. Fits(s) /\ Explained(s) /\ rules \in RuleSet /\ 0 \in 0..MaxLag
      /\ sweep \in [next: {"timeouts", "expiry", "limits"}, lag: 0..MaxLag]
  BY AgeCapFacts DEF CInv
<1>1. CASE CloseAbandoned
  <2>1. Set(FinalizeSession(s, "abandoned")) /\ "abandoned" \in EndReasons
    BY <1>1 DEF CloseAbandoned, EndReasons
  <2>2. StepFits BY <1>0, <2>1, FinalizeFits, ElsewhereExplained, SetFits DEF Set, Ended
  <2> QED BY <1>0, <2>1, <2>2 DEF Set
<1>2. CASE SweepTimeouts
  <2>1. StepFits BY <1>0, <1>2, SweeperFits, SetFits DEF SweepTimeouts
  <2> QED BY <1>0, <1>2, <2>1 DEF SweepTimeouts
<1>3. CASE SweepExpiry
  <2>1. StepFits BY <1>0, <1>3, SweeperFits, SetFits DEF SweepExpiry
  <2> QED BY <1>0, <1>3, <2>1 DEF SweepExpiry
<1>4. CASE SweepLimits
  <2>1. StepFits BY <1>0, <1>4, SweeperFits, SetFits DEF SweepLimits
  <2> QED BY <1>0, <1>4, <2>1 DEF SweepLimits
<1> QED BY <1>1, <1>2, <1>3, <1>4 DEF Sweeper

(* The invariant holds at the start.                                       *)
LEMMA InitFits == Init => CInv
<1> SUFFICES ASSUME Init PROVE CInv OBVIOUS
<1>1. rules \in RuleSet BY RuleSetsAssumption DEF Init
<1>2. PICK c \in {"never_connected", "online"} :
          s = [status |-> "ready", prev |-> "none", canReverify |-> FALSE, started |-> FALSE,
               endReason |-> "none", total |-> Duration, used |-> 0, running |-> FALSE, segment |-> 0,
               conn |-> c, silence |-> IF c = "online" THEN 0 ELSE AgeCap, activeFor |-> 0,
               outage |-> FALSE, lost |-> FALSE, control |-> "held", check |-> "none"]
  BY DEF Init
<1>3. /\ Duration \in 0..MaxTotal /\ 0 \in 0..MaxTotal /\ 0 \in 0..AgeCap /\ AgeCap \in 0..AgeCap
      /\ Duration \in Nat /\ 0 \in 0..MaxLag
  BY TimesAssumption, AgeCapFacts
<1>4. s \in Row BY <1>2, <1>3 DEF Row
<1>5. /\ s.status = "ready" /\ s.running = FALSE /\ s.segment = 0 /\ s.used = 0 /\ s.total = Duration
      /\ s.endReason = "none"
  BY <1>2
<1>6. Fits(s) /\ Explained(s) BY <1>3, <1>4, <1>5 DEF Fits, Explained
<1> QED BY <1>1, <1>3, <1>6 DEF Init, CInv

(* Every step keeps the invariant, and the time.                           *)
LEMMA NextFits == CInv /\ [Next]_vars => CInv' /\ TimeKept
<1> SUFFICES ASSUME CInv, [Next]_vars PROVE CInv' /\ TimeKept OBVIOUS
<1>1. CASE Tick BY <1>1, TickFits DEF Tick, CInv, StepFits
<1>2. CASE Candidate
  <2>1. CASE StartExam \/ Heartbeat \/ ConcurrentUse \/ Pause \/ CandidateSubmit \/ WithdrawConsent
    BY <2>1, CandidateFits DEF CInv, StepFits
  <2>2. CASE EnforceReconnectLimits \/ StartCheck \/ CompleteCheck
    BY <2>2, ChecksFit DEF CInv, StepFits
  <2> QED BY <1>2, <2>1, <2>2 DEF Candidate
<1>3. CASE Staff BY <1>3, StaffFits DEF CInv, StepFits
<1>4. CASE CloseAbandoned \/ Sweeper BY <1>4, ServerFits DEF CInv, StepFits
<1>5. CASE UNCHANGED vars
  <2>1. Fits(s)' /\ Explained(s)' BY <1>5 DEF vars, CInv, Fits, Explained, Ended
  <2> QED BY <1>5, <2>1 DEF vars, CInv, TimeKept, GivesBack
<1> QED BY <1>1, <1>2, <1>3, <1>4, <1>5 DEF Next

-----------------------------------------------------------------------------
(***************************************************************************)
(* The theorems.                                                           *)
(***************************************************************************)

(* The row keeps the values its columns may hold.                          *)
THEOREM ClockTypeCorrect == Spec => []TypeOK
<1>1. CInv => TypeOK BY DEF CInv, Fits, TypeOK
<1> QED BY <1>1, InitFits, NextFits, PTL DEF Spec

(* An exam in progress whose clock stands still is in a recorded outage    *)
(* under disconnect rule 'stop', whichever of heartbeats, checks, holds,   *)
(* releases and reopenings came before (candidate-actions.ts heartbeat,    *)
(* checks.ts continueAfterPass, session-actions.ts releaseHold).           *)
THEOREM ClockStandsOnlyInOutage == Spec => []StoppedOnlyByOutage
<1>1. CInv => StoppedOnlyByOutage BY DEF CInv, Explained, StoppedOnlyByOutage
<1> QED BY <1>1, InitFits, NextFits, PTL DEF Spec

(* No transition takes or returns exam time but a tick of the running      *)
(* clock and an outage under 'stop', which returns the silence at most     *)
(* (session.ts clockStop, session-state.ts recordReportingTimeout).        *)
THEOREM ExamTimeAccounted == Spec => ExamTimeKept
<1>1. CInv /\ [Next]_vars =>
        [LET before == ClockUsed(s)
             after == ClockUsed(s')
         IN s'.total = s.total /\ after # before =>
              \/ after = before + 1 /\ s.running /\ s'.segment = s.segment + 1
              \/ /\ after < before /\ rules.disconnectTimer = "stop"
                 /\ s.status = "active" /\ s.conn = "online" /\ s.silence > Timeout
                 /\ after >= s.used /\ s.used + s.segment - after <= s.silence]_vars
  BY NextFits DEF TimeKept, GivesBack
<1> QED BY <1>1, InitFits, NextFits, PTL DEF Spec, ExamTimeKept

(* What the fast path of a heartbeat writes is what the locked path would  *)
(* have written, for every row the program reaches: "produces exactly the  *)
(* same result" (candidate-actions.ts fastHeartbeat).                      *)
THEOREM FastPathExact == Spec => []FastPathAgrees
<1>1. CInv => FastPathAgrees
  <2> SUFFICES ASSUME CInv, NEW signal \in BOOLEAN, FastApplies(s, signal)
               PROVE  Seen(s) = FullHeartbeat(s, signal)
    BY DEF FastPathAgrees, FastHeartbeat
  <2> DEFINE n == Seen(s)
  <2>0. s \in Row /\ Fits(s) BY DEF CInv, Fits
  <2>1. LateHeartbeat(s) = s
    BY DEF LateHeartbeat, FastApplies, ReportingTimedOut, Ended
  <2>2. /\ n \in Row /\ ClockSame(s, n) /\ n.outage = s.outage /\ n.control = s.control
    BY <2>0, SeenSame DEF Fits
  <2> HIDE DEF n
  <2>3. ApplyInstanceUsage(n, signal) = n
    BY <2>2 DEF ApplyInstanceUsage, FastApplies, ClockSame
  <2>4. Back(n) = n
    <3>1. CASE n.control # "held" \/ Ended(n) BY <3>1 DEF Back
    <3>2. CASE ~(n.control # "held" \/ Ended(n))
      <4>1. n.outage = FALSE /\ (n.status = "active" => n.running)
        BY <2>0, <2>2, <3>2 DEF FastApplies, ClockSame, Ended, Row
      <4>2. [n EXCEPT !.outage = FALSE] = n BY <2>2, <4>1 DEF Row
      <4> QED BY <3>2, <4>1, <4>2 DEF Back, ClockStart
    <3> QED BY <3>1, <3>2
  <2>5. Expire(n) = n
    <3>1. ClockExpired(n) = ClockExpired(s) /\ n.status = s.status
      BY <2>2 DEF ClockExpired, ClockRemaining, ClockSame
    <3> QED BY <3>1 DEF Expire, FastApplies
  <2> QED BY <2>1, <2>3, <2>4, <2>5 DEF FullHeartbeat, n
<1> QED BY <1>1, InitFits, NextFits, PTL DEF Spec

(* The end of the time, recorded before or after the browser is seen.      *)
LEMMA FinalizeSeen ==
    ASSUME NEW r \in Row, r.running, ~Ended(r)
    PROVE  FinalizeSession([Seen(r) EXCEPT !.outage = FALSE], "time_expired")
             = Seen(FinalizeSession(r, "time_expired"))
<1> DEFINE n == Seen(r)
           t == [n EXCEPT !.outage = FALSE]
           ago == r.segment - Larger(0, Smaller(r.segment, r.total - r.used))
           u == Smaller(r.total, r.used + Larger(0, r.segment - ago))
           Stop(x) == [x EXCEPT !.used = u, !.running = FALSE, !.segment = 0]
           End(x) == [x EXCEPT !.status = "submitted", !.endReason = "time_expired", !.canReverify = FALSE,
                               !.outage = FALSE, !.lost = FALSE, !.activeFor = 0]
<1>1. ClockSame(r, t) BY DEF Row, Seen, ClockSame
<1>2. FinalizeSession(r, "time_expired") = End(Stop(r))
  BY DEF FinalizeSession, ClockStop
<1> HIDE DEF t
<1>3. FinalizeSession(t, "time_expired") = End(Stop(t))
  BY <1>1 DEF FinalizeSession, ClockStop, ClockSame, Ended
<1> HIDE DEF u
<1>4. End(Stop(t)) = Seen(End(Stop(r))) BY DEF Seen, Row, t
<1> QED BY <1>2, <1>3, <1>4 DEF t

(* A heartbeat after an unnoticed silence leaves the row as if a pass of   *)
(* the sweeper had come first, unless the time also ran out past the       *)
(* offline limit (candidate-actions.ts heartbeat, recovery.ts              *)
(* applyOfflineLimit).                                                     *)
THEOREM LateHeartbeatExact == Spec => []LateHeartbeatAgrees
<1>1. CInv => LateHeartbeatAgrees
  <2> SUFFICES ASSUME CInv, ReportingTimedOut(s), s.control = "held",
                      ~(OverOfflineLimit(s) /\ ClockExpired(s))
               PROVE  FullHeartbeat(s, FALSE) = FullHeartbeat(Swept(s), FALSE)
    BY DEF LateHeartbeatAgrees
  <2> DEFINE R == RecordReportingTimeout(s)
             H == ApplyResumeLimit(R)
             F == FinalizeSession(R, "time_expired")
             After(x) == Expire(Back(Seen(x)))
  <2>1. /\ Fits(R) /\ GivesBack(s, R) /\ R.status = "active" /\ R.conn = "offline" /\ R.control = "held"
        /\ R.silence = s.silence /\ R.activeFor = s.activeFor /\ R \in Row
    BY RecordReportingTimeoutFits DEF CInv, ReportingTimedOut, Fits
  <2>2. TimeoutsRow(s) = R BY DEF TimeoutsRow, ReportingTimedOut, Ended
  <2>3. LateHeartbeat(s) = IF OverOfflineLimit(R) THEN H ELSE R BY DEF LateHeartbeat
  <2> HIDE DEF R
  <2>4. OverOfflineLimit(R) = OverOfflineLimit(s)
    BY <2>1 DEF OverOfflineLimit, OfflineFor, ReportingTimedOut
  <2>5. \A x : FullHeartbeat(x, FALSE) = After(LateHeartbeat(x))
    BY DEF FullHeartbeat, ApplyInstanceUsage
  <2>6. LateHeartbeat(R) = R BY <2>1 DEF LateHeartbeat, ReportingTimedOut
  <2>7. \A x : x.status # "active" => LateHeartbeat(x) = x BY DEF LateHeartbeat, ReportingTimedOut
  <2>8. R.used \in Nat /\ R.total \in Nat /\ R.segment \in Nat /\ R.used <= R.total
        /\ s.used \in Nat /\ s.total \in Nat /\ s.segment \in Nat /\ s.used <= s.total
    BY <2>1, AgeCapFacts DEF CInv, Fits, Row
  <2>9. Swept(s) = LimitsRow(ExpiryRow(R, 0)) BY <2>2 DEF Swept
  <2>10. CASE OverOfflineLimit(s)
    <3>1. ~ClockExpired(s) BY <2>10
    <3>2. R.used + R.segment < R.total
      BY <2>1, <2>8, <3>1 DEF ClockExpired, ClockRemaining, GivesBack, ClockUsed, Smaller, Larger
    <3>3. ExpiryRow(R, 0) = R BY <2>8, <3>2 DEF ExpiryRow
    <3>4. LimitsRow(R) = H BY <2>1, <2>4, <2>10 DEF LimitsRow
    <3>5. H.status # "active" BY <2>1, ApplyResumeLimitFits DEF Ended
    <3> HIDE DEF H, After
    <3>6. LateHeartbeat(H) = H BY <2>7, <3>5
    <3> QED BY <2>3, <2>4, <2>5, <2>9, <2>10, <3>3, <3>4, <3>6
  <2>11. CASE ~OverOfflineLimit(s) /\ ExpiryRow(R, 0) = R
    <3>1. LimitsRow(R) = R BY <2>4, <2>11 DEF LimitsRow
    <3> HIDE DEF H, After
    <3> QED BY <2>3, <2>4, <2>5, <2>6, <2>9, <2>11, <3>1
  <2>12. CASE ~OverOfflineLimit(s) /\ ExpiryRow(R, 0) # R
    <3> DEFINE n == Seen(R)
               t == [n EXCEPT !.outage = FALSE]
    <3>1. R.running /\ ClockExpired(R) /\ ExpiryRow(R, 0) = F
      BY <2>12 DEF ExpiryRow, Expire
    <3>2. Ended(F)
      <4>1. "time_expired" \in EndReasons BY DEF EndReasons
      <4> QED BY <2>1, <4>1, FinalizeFits
    <3>3. Swept(s) = F BY <2>9, <3>1, <3>2 DEF LimitsRow, OverOfflineLimit, Ended
    <3>4. ClockSame(R, n) /\ n.control = "held" /\ ClockSame(n, t)
      <4>1. ClockSame(R, n) /\ n.control = R.control /\ Fits(n) BY <2>1, SeenSame
      <4> HIDE DEF n
      <4>2. ClockSame(n, t) BY <4>1, OutageClosedFits
      <4> QED BY <2>1, <4>1, <4>2
    <3>5. FinalizeSession(t, "time_expired") = Seen(F)
      BY <2>1, <3>1, FinalizeSeen DEF Ended
    <3> HIDE DEF n
    <3>6. Back(n) = t
      <4>1. n.status = "active" /\ t.running BY <2>1, <3>1, <3>4 DEF ClockSame
      <4> QED BY <3>4, <4>1 DEF Back, ClockStart, Ended
    <3>7. Expire(t) = FinalizeSession(t, "time_expired")
      <4>1. t.status = "active" /\ ClockExpired(t)
        BY <2>1, <3>1, <3>4 DEF ClockSame, ClockExpired, ClockRemaining
      <4> HIDE DEF t
      <4> QED BY <4>1 DEF Expire
    <3>8. After(R) = Seen(F) BY <3>5, <3>6, <3>7 DEF n
    <3>9. LateHeartbeat(F) = F BY <2>7, <3>2 DEF Ended
    <3>10. After(F) = Seen(F)
      <4> DEFINE f == Seen(F)
      <4>1. f.status = F.status
        <5>1. Fits(F)
          <6>1. "time_expired" \in EndReasons BY DEF EndReasons
          <6> QED BY <2>1, <6>1, FinalizeFits
        <5>2. ClockSame(F, Seen(F)) BY <5>1, SeenSame
        <5> QED BY <5>2 DEF ClockSame
      <4>2. Ended(f) BY <3>2, <4>1 DEF Ended
      <4> HIDE DEF f
      <4>3. Back(f) = f BY <4>2 DEF Back
      <4>4. Expire(f) = f BY <4>2 DEF Expire, Ended
      <4> QED BY <4>3, <4>4 DEF f
    <3> HIDE DEF H, F, After
    <3> QED BY <2>3, <2>4, <2>5, <2>12, <3>3, <3>8, <3>9, <3>10
  <2> QED BY <2>10, <2>11, <2>12
<1> QED BY <1>1, InitFits, NextFits, PTL DEF Spec
=============================================================================
