---------------------------- MODULE Notification ----------------------------
(***************************************************************************)
(* What the write side promises to whoever keeps a copy of an investor's   *)
(* profile: every committed change is owed an announcement, an announcement *)
(* is only made of a committed change, and a debt is settled only once the  *)
(* announcement stands in the log.  Announcements may repeat and may        *)
(* overtake one another; none may be lost.                                  *)
(*                                                                         *)
(* Module Outbox, the outbox table and its relay, implements this module;  *)
(* it is also the writer's side of the models that do not care how the     *)
(* announcements get into the log.                                         *)
(***************************************************************************)
EXTENDS Naturals, Sequences

CONSTANTS
  Investors,    \* investor identifiers
  Partitions,   \* partitions of the topic
  PartitionOf   \* the partition that each investor's key hashes to

VARIABLES
  version,      \* version[i]: the committed version of investor i
  owed,         \* events whose announcement is not settled yet
  topic         \* topic[p]: the log of partition p

nvars == <<version, owed, topic>>

Event == [inv : Investors, ver : Nat]

Announced(e) ==
  \E k \in DOMAIN topic[PartitionOf[e.inv]] : topic[PartitionOf[e.inv]][k] = e

NInit ==
  /\ version = [i \in Investors |-> 1]
  /\ owed = {}
  /\ topic = [p \in Partitions |-> <<>>]

\* An investor changes: the new version and the debt appear together.
Change(i) ==
  /\ version' = [version EXCEPT ![i] = @ + 1]
  /\ owed' = owed \cup {[inv |-> i, ver |-> version[i] + 1]}
  /\ UNCHANGED topic

\* A committed change is announced, perhaps not for the first time and
\* perhaps after its debt was settled.
Announce(e) ==
  /\ e.ver \in 2..version[e.inv]
  /\ topic' = [topic EXCEPT ![PartitionOf[e.inv]] = Append(@, e)]
  /\ UNCHANGED <<version, owed>>

\* Debts whose announcement is in the log are written off.
Settle(S) ==
  /\ S # {}
  /\ S \subseteq owed
  /\ \A e \in S : Announced(e)
  /\ owed' = owed \ S
  /\ UNCHANGED <<version, topic>>

NNext ==
  \/ \E i \in Investors : Change(i)
  \/ \E i \in Investors : \E v \in 2..version[i] :
       Announce([inv |-> i, ver |-> v])
  \/ \E S \in SUBSET owed : Settle(S)

NSpec == NInit /\ [][NNext]_nvars
=============================================================================
