---------------------------- MODULE MCRingBuffer ----------------------------
(* Instances of RingBuffer for TLC; the cfg files choose the sizes. *)
EXTENDS RingBuffer, TLC

Symmetry == Permutations(Producers) \cup Permutations(Consumers)
=============================================================================
