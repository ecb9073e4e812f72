------------------------- MODULE MCIdentitySamples -------------------------
(***************************************************************************)
(* IdentitySamples with three samples of which the last has one frame, in  *)
(* two active periods.                                                     *)
(***************************************************************************)
EXTENDS IdentitySamples

Look(usable, bucket, llr, label) == [usable |-> usable, bucket |-> bucket, llr |-> llr, label |-> label]

AllLooks ==
    {Look(FALSE, "good", 0, "unable_to_verify"),
     Look(TRUE, "good", -20, "match"),
     Look(TRUE, "good", 8, "inconclusive"),
     Look(TRUE, "good", 20, "mismatch"),
     Look(TRUE, "poor", 20, "inconclusive")}
=============================================================================
