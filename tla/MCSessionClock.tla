--------------------------- MODULE MCSessionClock ---------------------------
(***************************************************************************)
(* SessionClock on short exams.  Bounds: an exam of 2 ticks that may be    *)
(* extended by 2 once, a heartbeat timeout of 1 tick, an offline limit of  *)
(* 2 and a sweeper up to 1 tick late: a silence can be unnoticed, noticed, *)
(* and past the limit, each before and after the time has run out.         *)
(***************************************************************************)
EXTENDS SessionClock

(* Every pair of timer rules, every rule for the limit.                    *)
MixedRules ==
    {[pauseTimer |-> "continue", disconnectTimer |-> "stop", onLimit |-> "hold"],
     [pauseTimer |-> "stop", disconnectTimer |-> "stop", onLimit |-> "end"],
     [pauseTimer |-> "continue", disconnectTimer |-> "continue", onLimit |-> "hold"],
     [pauseTimer |-> "stop", disconnectTimer |-> "continue", onLimit |-> "none"]}

(* An outage that stops the clock, and one that does not.                  *)
LivenessRules ==
    {[pauseTimer |-> "continue", disconnectTimer |-> "stop", onLimit |-> "hold"],
     [pauseTimer |-> "continue", disconnectTimer |-> "continue", onLimit |-> "end"]}
=============================================================================
