---------------------------- MODULE MCResilience ----------------------------
(* The breaker and the checkpoints of the resilience package for TLC, each on its
   own: which one a behaviour is of is chosen at the start. *)
EXTENDS ResilienceBreaker, Checkpoint, TLC

VARIABLE part

resilienceVars == <<part, vars, checkpointVars>>

ResilienceInit == part \in {"breaker", "checkpoints"} /\ Init /\ CheckpointInit

BreakerStep    == part = "breaker" /\ Next /\ UNCHANGED <<part, checkpointVars>>
CheckpointStep == part = "checkpoints" /\ CheckpointNext /\ UNCHANGED <<part, vars>>

ResilienceSpec == ResilienceInit /\ [][BreakerStep \/ CheckpointStep]_resilienceVars

Symmetry == Permutations(Callers) \cup Permutations(Routines)
=============================================================================
