---------------------------- MODULE MCScalingEngine ----------------------------
(* Instance of ScalingEngine for TLC: the values are in the cfg files.       *)
EXTENDS ScalingEngine
=============================================================================
