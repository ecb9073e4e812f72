----------------------------- MODULE MCVisionPool -----------------------------
(***************************************************************************)
(* Three interactive and two background analyses on two workers: both      *)
(* queues fill, background work can become overdue behind interactive      *)
(* work, and either worker may crash.                                      *)
(***************************************************************************)
EXTENDS VisionPool
=============================================================================
