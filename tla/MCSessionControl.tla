-------------------------- MODULE MCSessionControl --------------------------
(***************************************************************************)
(* A small instance of SessionControl: two browsers and the exam rules     *)
(* that exercise every branch.                                             *)
(***************************************************************************)
EXTENDS SessionLifecycle, TLC

CONSTANTS b1, b2, null

MCInstances == {b1, b2}

(* Identity verified automatically, with an ID photo staff must approve.   *)
Automatic ==
    [verification |-> "automatic", staffReverify |-> FALSE, onMismatch |-> "hold_for_review",
     onLimit |-> "hold", pauseTimer |-> "stop", disconnectTimer |-> "stop",
     requireApproval |-> FALSE, idPhotoRequired |-> TRUE]

(* Identity verified by staff on every return, pauses approved by them.    *)
Attended == [Automatic EXCEPT !.verification = "staff", !.staffReverify = TRUE, !.requireApproval = TRUE]

(* Identity verified by staff once; pauses and outages are on the clock    *)
(* and the resume limit ends the exam.                                     *)
Unattended ==
    [Attended EXCEPT !.staffReverify = FALSE, !.onLimit = "end",
                     !.pauseTimer = "continue", !.disconnectTimer = "continue"]

AllRules == {Automatic, Attended, Unattended}

(* Browsers are interchangeable.                                           *)
Browsers == Permutations(MCInstances)
=============================================================================
