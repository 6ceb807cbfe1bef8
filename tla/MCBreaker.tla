----------------------------- MODULE MCBreaker ------------------------------
(* An instance of module Breaker for TLC.                                  *)
EXTENDS Breaker

CONSTANTS i1, r1, r2, s1

MCServerOf == [r \in Requests |-> s1]
=============================================================================
