----------------------------- MODULE MCBulkJob -----------------------------
(* Instances of BulkJob small enough for TLC. *)
EXTENDS BulkJob

AllTypes   == {"ANALYZE", "DELETE", "INCLUDE_LINKS"}
CountTypes == {"ANALYZE", "DELETE"}
PoolTypes  == {"ANALYZE"}
=============================================================================
