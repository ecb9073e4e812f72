---------------------------- MODULE MCIdempotency ----------------------------
(***************************************************************************)
(* Idempotency with three requests: a slow one, one that takes its key     *)
(* over, and one that meets the result.  Bounds: a timeout of 2 ticks, 4   *)
(* ticks in place of 24 hours, an attempt of the guard takes up to 1.      *)
(***************************************************************************)
EXTENDS Idempotency, TLC

AllFaults == {"overrun", "interrupted", "store_error", "late_failure"}
Interchangeable == Permutations(Requests)
=============================================================================
