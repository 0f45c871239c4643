--------------------------- MODULE MCBulkInsertBand ---------------------------
(* Instances of BulkInsertBand for TLC; the cfg files choose the sizes. *)
EXTENDS BulkInsertBand, TLC
=============================================================================
