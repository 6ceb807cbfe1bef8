----------------------------- MODULE Coherence ------------------------------
(***************************************************************************)
(* The whole system around one Redis cluster: profiles change and the      *)
(* changes are announced (module Notification, which Outbox implements),   *)
(* the workers delete the keys announced (module Invalidation, which       *)
(* InvalidationConsumer implements), the middleware fills the cache        *)
(* (module CacheAside, which CacheManager implements), entries expire, the *)
(* reconciler of module Reconciler evicts what it finds to be stale, and a *)
(* Redis master may lose what it had not yet copied or synced.             *)
(***************************************************************************)
EXTENDS Reconciler, FiniteSets

CONSTANTS
  Partitions,   \* partitions of topic profile-updates
  PartitionOf,  \* the partition of each investor's key
  MaxVersion,   \* bound: MaxVersion[i], the versions investor i may reach
  MaxCopies     \* bound: announcements of one event

ASSUME CoherenceAssumption ==
  /\ PartitionOf \in [Investors -> Partitions]
  /\ MaxVersion \in [Investors -> Nat \ {0}]
  /\ MaxCopies \in Nat \ {0}

VARIABLES
  owed,         \* events in the outbox that are not marked
  topic,        \* topic[p]: the log of partition p
  pending,      \* <<p, k, i>>: message k of partition p is about i, and i was
                \* not deleted since for a message, nor that one given up
  told,         \* told[i]: version[i] when i was last deleted for a message,
                \* or a message about i given up
  lagging,      \* masters whose replica and disk have stopped following
  saved         \* saved[i]: the entry of i that these still have

Writer == INSTANCE Notification

\* What the group commits is nothing to the cache.
Workers == INSTANCE Invalidation WITH
             written  <- [p \in Partitions |-> Len(topic[p])],
             finished <- [p \in Partitions |-> 0]

wvars == <<owed, topic>>
durable == <<lagging, saved>>
vars == <<cvars, wvars, pending, told, durable, rvars, faults>>

Init ==
  /\ CInit
  /\ Writer!NInit
  /\ RInit
  /\ Workers!IInit
  /\ told = [i \in Investors |-> 1]
  /\ lagging = {}
  /\ saved = [i \in Investors |-> 0]

-----------------------------------------------------------------------------
(* profile-service and outbox-relay                                        *)

Change(i) ==
  /\ version[i] < MaxVersion[i]
  /\ Writer!Change(i)
  /\ UNCHANGED <<cache, loads, pending, told, durable, rvars, faults>>

Copies(e) ==
  Cardinality({k \in DOMAIN topic[PartitionOf[e.inv]] :
                 topic[PartitionOf[e.inv]][k] = e})

Announce(e) ==
  /\ Copies(e) < MaxCopies
  /\ Writer!Announce(e)
  /\ Workers!Write(PartitionOf[e.inv], {e.inv})
  /\ UNCHANGED <<cache, loads, told, durable, rvars, faults>>

\* Faulty: rows are marked although they were not all written.
SettleUnsent(S) ==
  /\ S # {}
  /\ owed' = owed \ S
  /\ UNCHANGED <<cvars, topic, pending, told, durable, rvars, faults>>

Settle(S) ==
  /\ Writer!Settle(S)
  /\ UNCHANGED <<cache, loads, pending, told, durable, rvars, faults>>

-----------------------------------------------------------------------------
(* invalidation-worker                                                     *)

Tell(i) == told' = [told EXCEPT ![i] = version[i]]

\* Faulty: an error of DEL is taken for success.
HandleRegardless(p, k) ==
  /\ Drop(topic[p][k].inv) \/ UNCHANGED cvars
  /\ Tell(topic[p][k].inv)
  /\ UNCHANGED <<wvars, durable, rvars, faults>>
  /\ Workers!Delete({topic[p][k].inv})

\* The key that message k of p asks for is deleted.  That may happen again at
\* any time: DEL was not answered, the commit failed, or the partition changed
\* hands while a worker had the message.
Handle(p, k) ==
  /\ Drop(topic[p][k].inv)
  /\ Tell(topic[p][k].inv)
  /\ UNCHANGED <<wvars, durable, rvars, faults>>
  /\ Workers!Delete({topic[p][k].inv})

\* Redis stays down through every retry: the message goes to the dead-letter
\* topic, or is passed by.
GiveUp(p, k) ==
  /\ <<p, k, topic[p][k].inv>> \in pending
  /\ Fault
  /\ Tell(topic[p][k].inv)
  /\ UNCHANGED <<cvars, wvars, durable, rvars>>
  /\ Workers!GiveUp(p, k)

-----------------------------------------------------------------------------
(* middleware                                                              *)

\* Faulty: the row is read as a transaction left it that has not committed.
ReadUncommitted(i) ==
  /\ loads' = loads \cup {<<i, version[i] + 1>>}
  /\ UNCHANGED <<version, cache, wvars, pending, told, durable, rvars, faults>>

Read(i) ==
  /\ Load(i)
  /\ UNCHANGED <<wvars, pending, told, durable, rvars, faults>>

Fill(t) ==
  /\ Store(t)
  /\ UNCHANGED <<wvars, pending, told, durable, rvars, faults>>

NoFill(t) ==
  /\ Forget({t})
  /\ UNCHANGED <<wvars, pending, told, durable, rvars, faults>>

-----------------------------------------------------------------------------
(* Redis                                                                   *)

\* The entry's TTL runs out, allkeys-lru evicts it, or the reconciler of
\* another middleware deletes it.
Expire(i) ==
  /\ cache[i] # 0
  /\ Drop(i)
  /\ UNCHANGED <<wvars, pending, told, durable, rvars, faults>>

KeysOf(m) == {Buckets[m][j] : j \in DOMAIN Buckets[m]}

\* From now on, what master m does is not copied to its replica, and not yet
\* synced to disk.
FallBehind(m) ==
  /\ m \notin lagging
  /\ Fault
  /\ lagging' = lagging \cup {m}
  /\ saved' = [i \in Investors |-> IF i \in KeysOf(m) THEN cache[i] ELSE saved[i]]
  /\ UNCHANGED <<cvars, wvars, pending, told, rvars>>

Recovered(m) ==
  /\ m \in lagging
  /\ lagging' = lagging \ {m}
  /\ saved' = [i \in Investors |-> IF i \in KeysOf(m) THEN 0 ELSE saved[i]]
  /\ UNCHANGED <<version, loads, wvars, pending, told, rvars, faults>>

CatchUp(m) == Recovered(m) /\ UNCHANGED cache

\* A master is replaced by its replica, or restarts from its disk: the latest
\* writes and deletions are undone.
Failover(m) ==
  /\ Recovered(m)
  /\ cache' = [i \in Investors |-> IF i \in KeysOf(m) THEN saved[i]
                                   ELSE cache[i]]

-----------------------------------------------------------------------------
EventOf(i, v) == [inv |-> i, ver |-> v]

AnnounceNext ==
  \E i \in Investors : \E v \in 2..version[i] : Announce(EventOf(i, v))

HandleNext ==
  \E p \in Partitions : \E k \in DOMAIN topic[p] : Handle(p, k) \/ GiveUp(p, k)

Reconciling ==
  /\ Reconcile \/ ReconcileFails
  /\ UNCHANGED <<wvars, pending, told, durable>>

Next ==
  \/ \E i \in Investors : Change(i) \/ Read(i) \/ Expire(i)
  \/ AnnounceNext
  \/ \E S \in SUBSET owed : Settle(S)
  \/ HandleNext
  \/ \E t \in loads : Fill(t) \/ NoFill(t)
  \/ \E m \in Masters : FallBehind(m) \/ CatchUp(m) \/ Failover(m)
  \/ Reconciling

Spec == Init /\ [][Next]_vars

\* A debt is announced in the end (CommittedIsPublished of Outbox) and a
\* message finished (EveryMessageEnds of InvalidationConsumer); a request
\* that has read a profile stores it or does not (EveryRequestEnds of
\* Breaker); the reconciler's ticker fires and its calls return.
FirstAnnouncement(i, v) ==
  EventOf(i, v) \in owed /\ Copies(EventOf(i, v)) = 0 /\ Announce(EventOf(i, v))

FillEnds(t) == (Fill(t) \/ NoFill(t)) /\ t \notin loads'

HandleSome(p) == \E m \in pending : m[1] = p /\ Handle(p, m[2])

ServicesRun ==
  /\ \A i \in Investors : \A v \in 2..MaxVersion[i] :
       WF_vars(FirstAnnouncement(i, v))
  /\ \A p \in Partitions : WF_vars(HandleSome(p))
  /\ \A i \in Investors : \A v \in 1..MaxVersion[i] : WF_vars(FillEnds(<<i, v>>))
  /\ WF_vars(Reconcile /\ UNCHANGED <<wvars, pending, told, durable>>)

FairSpec == Spec /\ ServicesRun

\* Every entry is stored with a TTL.
ExpirySpec == FairSpec /\ \A i \in Investors : WF_vars(Expire(i))

-----------------------------------------------------------------------------
\* The variables' possible values.
TypeOK ==
  /\ version \in [Investors -> Nat \ {0}]
  /\ \A i \in Investors : version[i] <= MaxVersion[i]
  /\ cache \in [Investors -> Nat]
  /\ \A t \in loads : t[1] \in Investors /\ t[2] \in 1..version[t[1]]
  /\ owed \subseteq Writer!Event
  /\ topic \in [Partitions -> Seq(Writer!Event)]
  /\ \A m \in pending : /\ m[1] \in Partitions /\ m[2] \in DOMAIN topic[m[1]]
                         /\ m[3] = topic[m[1]][m[2]].inv
  /\ told \in [Investors -> Nat]
  /\ lagging \subseteq Masters
  /\ saved \in [Investors -> Nat]
  /\ ReconcilerTypeOK

\* A change of i is still to be announced, or a message about i was not followed
\* by a deletion yet: i's key will be deleted.
Covered(i) ==
  \/ \E e \in owed : e.inv = i /\ ~Writer!Announced(e)
  \/ \E m \in pending : m[3] = i

\* i's entry is stale, and but for a message that is handled once more only its
\* TTL or the reconciler will remove it.
Uncovered(i) == cache[i] \notin {0, version[i]} /\ ~Covered(i)

\* The steps that may leave i's entry uncovered.
Race(i) ==
  \/ \E t \in loads : t[1] = i /\ t[2] < told[i] /\ Fill(t)
  \/ \E m \in pending : m[3] = i /\ GiveUp(m[1], m[2])
  \/ \E m \in Masters : i \in KeysOf(m) /\ Failover(m)

UncoveredByRace ==
  \A i \in Investors : Uncovered(i)' /\ ~Uncovered(i) => Race(i)

\* The three ways of invalidation's promise to fail, and no others: an entry
\* becomes stale with nothing under way to delete it only when a profile read
\* before the last announcement about it was handled is stored after that, a
\* message is given up, or a Redis master loses its latest writes.
OnlyRacesUncover == [][UncoveredByRace]_vars

EvictsStale == Evict => seen < version[Key]

\* Though it compares an entry and a row read at different times, what the
\* reconciler took for stale is stale when it deletes the key.  A current entry
\* can only be lost if it has replaced that one meanwhile.
EvictsOnlyStale == [][EvictsStale]_vars

\* Every version reached is followed by a deletion of the key made for a
\* message, then or later, or by a message given up.
ChangeIsTold ==
  \A i \in Investors : \A v \in 2..MaxVersion[i] :
    version[i] >= v ~> told[i] >= v

\* Whatever was lost, raced or failed over: once profiles stay as they are,
\* only current ones are cached from some time on.
Converges == <>[](\A i \in Investors : cache[i] \in {0, version[i]})

\* How far the goroutine of master m is from its end, at most.
Left(m) ==
  LET buckets == Len(Buckets[m]) - cursor[m]
  IN  CASE at[m] = "test" -> 3 * buckets + 3
        [] at[m] = "scan" -> 3 * buckets + 2
        [] at[m] = "append" -> IF cursor[m] = 0 THEN 1 ELSE 3 * buckets + 4
        [] OTHER -> 0

GoroutinesAdvance ==
  phase = "scan" /\ phase' = "scan" =>
    \A m \in Masters :
      UNCHANGED <<at[m], cursor[m]>> \/ Left(m)' < Left(m)

\* However the others overwrite allKeys, and so make a goroutine scan on, each
\* of its steps brings it nearer to its end.
SampleAdvances == [][GoroutinesAdvance]_vars

\* Sampling ends, however the goroutines overwrite each other's keys.
SampleEnds == phase = "scan" ~> phase # "scan"

\* What the README says of the reconciler: it evicts stale entries and so
\* insures against lost events.  Then no stale entry may need its TTL to go.
LostEventsAreRepaired ==
  \A i \in Investors : Uncovered(i) ~> ~Uncovered(i)
=============================================================================
