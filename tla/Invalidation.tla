---------------------------- MODULE Invalidation ----------------------------
(***************************************************************************)
(* What the invalidation workers promise to whoever caches: a key that a   *)
(* message names is deleted after the message was written, or the message  *)
(* is given up, before the group's offset passes the message.  Keys may be *)
(* deleted more often than that, and offsets may go back.                  *)
(*                                                                         *)
(* Module InvalidationConsumer, the workers with their retries, crashes    *)
(* and rebalances, implements this module; Coherence composes it with the  *)
(* writers and readers of the cache.                                       *)
(***************************************************************************)
EXTENDS Naturals

CONSTANTS
  Investors,    \* investor identifiers
  Partitions    \* partitions of the topic

VARIABLES
  written,      \* written[p]: messages in partition p
  pending,      \* <<p, k, i>>: message k of p names i, and i's key was not
                \* deleted since, nor the message given up
  finished      \* finished[p]: the group is done with messages 1..finished[p]

ivars == <<written, pending, finished>>

IInit ==
  /\ written = [p \in Partitions |-> 0]
  /\ pending = {}
  /\ finished = [p \in Partitions |-> 0]

\* A message is written that names the investors in D.
Write(p, D) ==
  /\ written' = [written EXCEPT ![p] = @ + 1]
  /\ pending' = pending \cup {<<p, written[p] + 1, i>> : i \in D}
  /\ UNCHANGED finished

\* The keys of D are deleted, for whichever message.
Delete(D) ==
  /\ pending' = {t \in pending : t[3] \notin D}
  /\ UNCHANGED <<written, finished>>

GiveUp(p, k) ==
  /\ pending' = {t \in pending : t[1] # p \/ t[2] # k}
  /\ UNCHANGED <<written, finished>>

\* An offset is committed, which passes no pending message.
Finish(p) ==
  /\ finished' \in [Partitions -> Nat]
  /\ \A q \in Partitions : finished'[q] = finished[q] \/ q = p
  /\ finished'[p] <= written[p]
  /\ \A t \in pending : t[1] = p => t[2] > finished'[p]
  /\ UNCHANGED <<written, pending>>

INext ==
  \/ \E p \in Partitions, D \in SUBSET Investors : Write(p, D)
  \/ \E D \in SUBSET Investors : Delete(D)
  \/ \E p \in Partitions : \E k \in 1..written[p] : GiveUp(p, k)
  \/ \E p \in Partitions : Finish(p)

ISpec == IInit /\ [][INext]_ivars
=============================================================================
