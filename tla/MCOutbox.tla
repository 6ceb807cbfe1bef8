------------------------------ MODULE MCOutbox ------------------------------
(* Instances of module Outbox for TLC.                                     *)
EXTENDS Outbox, TLC

CONSTANTS i1, i2, p1, p2, r1, r2

\* The two investors hash to different partitions.
MCPartitionOf == (i1 :> p1) @@ (i2 :> p2)
=============================================================================
