---------------------------- MODULE MCWorkloads -----------------------------
(* Instances of Workloads for TLC; the cfg file chooses the sizes. *)
EXTENDS Workloads, TLC
=============================================================================
