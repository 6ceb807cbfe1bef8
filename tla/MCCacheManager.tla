--------------------------- MODULE MCCacheManager ---------------------------
(* Instances of module CacheManager for TLC.                               *)
EXTENDS CacheManager, TLC

CONSTANTS i1, i2, r1, r2, r3, s1, s2

\* Two requests meet in one server, the third runs in another.
MCServerOf == (r1 :> s1) @@ (r2 :> s1) @@ (r3 :> s2)

\* All requests meet in one server.
MCOneServer == [r \in Requests |-> s1]

PairSymmetry == Permutations({r1, r2})
=============================================================================
