------------------------------ MODULE Lifecycle ------------------------------
(***************************************************************************)
(* What a session promises about its life, whoever acts on it: the         *)
(* statuses of docs/ARCHITECTURE.md section 3 and the ways between them,   *)
(* with the exam clock.  SessionControl implements it (SessionLifecycle).  *)
(***************************************************************************)

VARIABLES
    phase,     \* the session's status
    running,   \* the exam clock is on
    back,      \* during a hold: the phase it interrupted
    final,     \* the session ended by the candidate's own decision
    reopened   \* an exam that had not started was reopened

life == <<phase, running, back, final, reopened>>

Over == phase \in {"submitted", "terminated"}

Init == phase = "invited" /\ ~running /\ back = "none" /\ ~final /\ ~reopened

(* The check-in is passed: only now can the exam be started.               *)
CheckIn ==
    /\ phase = "invited" /\ phase' = "ready"
    /\ UNCHANGED <<running, back, final, reopened>>

Start ==
    /\ phase = "ready" /\ phase' = "active" /\ running'
    /\ UNCHANGED <<back, final, reopened>>

Pause ==
    /\ phase = "active" /\ phase' = "paused" /\ running' \in BOOLEAN
    /\ UNCHANGED <<back, final, reopened>>

Resume ==
    /\ phase = "paused" /\ phase' = "active" /\ running'
    /\ UNCHANGED <<back, final, reopened>>

(* An outage stops the clock of an exam in progress; a return restarts it. *)
ClockTurns ==
    /\ phase = "active" /\ running' = ~running
    /\ UNCHANGED <<phase, back, final, reopened>>

(* A hold remembers what it interrupts; a pause is over then.  A check     *)
(* passed on the way to the hold may have checked the candidate in.        *)
Hold ==
    /\ phase \in {"invited", "ready", "active", "paused"}
    /\ phase' = "on_hold" /\ ~running'
    /\ CASE phase = "invited" -> back' \in {"invited", "ready"}
         [] phase = "ready" -> back' = "ready"
         [] OTHER -> back' = "active"
    /\ UNCHANGED <<final, reopened>>

(* A hold gives way to what it interrupted, or to a new check-in.          *)
Release ==
    /\ phase = "on_hold" /\ back' = "none"
    /\ phase' \in {back, "invited"} \cup (IF reopened THEN {"active"} ELSE {})
    /\ running' = (phase' = "active")
    /\ UNCHANGED <<final, reopened>>

End ==
    /\ ~Over
    /\ phase' \in {"submitted", "terminated"} /\ ~running'
    /\ final' \in BOOLEAN /\ back' = "none"
    /\ UNCHANGED reopened

(* Staff bring an ended session back, never into the running exam, and     *)
(* never against the candidate's decision.                                 *)
Reopen ==
    /\ Over /\ ~final
    /\ \/ phase' = "on_hold" /\ back' = "active" /\ UNCHANGED reopened
       \/ phase' = "invited" /\ back' = "none" /\ reopened'
    /\ UNCHANGED <<running, final>>

Next ==
    \/ CheckIn \/ Start \/ Pause \/ Resume \/ ClockTurns
    \/ Hold \/ Release \/ End \/ Reopen

Spec == Init /\ [][Next]_life
=============================================================================
