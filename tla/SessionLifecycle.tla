-------------------------- MODULE SessionLifecycle --------------------------
(***************************************************************************)
(* SessionControl implements Lifecycle: what is abstract is read off the   *)
(* session row.                                                            *)
(***************************************************************************)
EXTENDS SessionControl

CandidateDecided == session.endReason \in {"candidate_submitted", "candidate_withdrew"}

Life == INSTANCE Lifecycle WITH
    phase <- session.status,
    running <- session.running,
    back <- IF session.status = "on_hold" THEN session.holdPrev ELSE "none",
    final <- CandidateDecided,
    reopened <- recovered

(* Every step of candidates, staff and server is a step of the session's   *)
(* life or leaves it alone: no interleaving of checks, holds, pauses, jobs *)
(* and reopenings takes a way between statuses that is not one of it, and  *)
(* a hold gives back what it interrupted (session-state.ts holdNow,        *)
(* checks.ts continueAfterPass, session-actions.ts releaseHold,            *)
(* recovery.ts reopenSession).                                             *)
LifecycleKept == Life!Spec
=============================================================================
