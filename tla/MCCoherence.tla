---------------------------- MODULE MCCoherence -----------------------------
(* Instances of module Coherence for TLC.                                  *)
EXTENDS Coherence, TLC

CONSTANTS i1, i2, i3, i4, m1, m2, p1

MCPartitionOf == [i \in Investors |-> p1]

\* Only i1 changes; i2 is there for the sample.
MCMaxVersion == (i1 :> 2) @@ (i2 :> 1)

\* Each master has one key: the two goroutines race for allKeys.
MCTwoMasters == (m1 :> <<i1>>) @@ (m2 :> <<i2>>)

\* One master has more keys than a sample: its goroutine goes on if the other
\* one's append has made allKeys shorter again.
MCUnevenMasters == (m1 :> <<i1, i2, i3>>) @@ (m2 :> <<i4>>)

\* Nobody changes.
MCNoChange == [i \in Investors |-> 1]

\* One master, the key that does not change comes first.
MCOneMaster == (m1 :> <<i2, i1>>)
=============================================================================
