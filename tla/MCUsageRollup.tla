--------------------------- MODULE MCUsageRollup ---------------------------
(* Instances of UsageRollup for TLC. *)
EXTENDS UsageRollup, TLC

CONSTANTS t1, r1, r2

RecordOwner == (r1 :> t1) @@ (r2 :> t1)
=============================================================================
