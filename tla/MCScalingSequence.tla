--------------------------- MODULE MCScalingSequence ---------------------------
(* Instances of ScalingSequence for TLC; the cfg files choose the sizes. *)
EXTENDS ScalingSequence, TLC

(* Less than nothing, nothing, and a step of more than one; the fewest bands that
   validateConfig lets through. *)
MCStepSizes  == {-1, 0, 2}
MCBandCounts == {-1, 0, 3, 4}
=============================================================================
