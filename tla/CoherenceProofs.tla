--------------------------- MODULE CoherenceProofs --------------------------
(***************************************************************************)
(* Proofs about module Coherence, for any investors, partitions, masters,  *)
(* bounds and faults: an entry is only left stale by one of the three      *)
(* races, without which the cache is coherent; none is ever ahead of its   *)
(* row; the reconciler only evicts what is stale, and its sampling comes   *)
(* to its end.                                                             *)
(***************************************************************************)
EXTENDS Coherence, TLAPS, SequenceTheorems, WellFoundedInduction

-----------------------------------------------------------------------------
(* The invariant                                                           *)

\* TypeOK but for the bounds and the reconciler's slices.
Types ==
  /\ version \in [Investors -> Nat]
  /\ cache \in [Investors -> Nat]
  /\ saved \in [Investors -> Nat]
  /\ told \in [Investors -> Nat]
  /\ \A t \in loads : /\ t[1] \in Investors /\ t[2] \in Nat
                      /\ t[2] <= version[t[1]]
  /\ owed \subseteq Writer!Event
  /\ topic \in [Partitions -> Seq(Writer!Event)]
  /\ \A m \in pending : /\ m[1] \in Partitions /\ m[2] \in DOMAIN topic[m[1]]
                         /\ m[3] = topic[m[1]][m[2]].inv

\* Events are of committed versions, so that the next one is new to the log.
EventsCommitted ==
  /\ \A e \in owed : e.ver <= version[e.inv]
  /\ \A p \in Partitions : \A k \in DOMAIN topic[p] :
       topic[p][k].ver <= version[topic[p][k].inv]

\* Who changed since the last deletion of his key has another one coming.
ToldOrCovered == \A i \in Investors : told[i] < version[i] => Covered(i)

\* The reconciler has a real key in hand while it compares, and no goroutine
\* touches allKeys then; before it deletes, the entry was older than the row.
InHand ==
  /\ seen \in Nat
  /\ at \in [Masters -> {"test", "scan", "append", "end", "failed"}]
  /\ phase # "scan" => \A m \in Masters : at[m] = "end"
  /\ phase \in {"read", "delete"} => Key \in Investors
  /\ phase = "delete" => seen < version[Key]

Inv == Types /\ EventsCommitted /\ ToldOrCovered /\ InHand

\* The constants' assumptions that the proofs need.
LEMMA Constants ==
  /\ PartitionOf \in [Investors -> Partitions]
  /\ 0 \in Nat /\ 1 \in Nat
BY CoherenceAssumption DEF CoherenceAssumption

\* Nothing has changed, is announced or is compared at first.
LEMMA InitInv == Init => Inv
<1> SUFFICES ASSUME Init PROVE Inv
  OBVIOUS
<1>1. Types
  <2>1. owed = {} /\ pending = {} /\ loads = {} /\ topic = [p \in Partitions |-> <<>>]
    BY DEF Init, CInit, Writer!NInit, Workers!IInit
  <2>2. /\ version = [i \in Investors |-> 1] /\ cache = [i \in Investors |-> 0]
        /\ saved = [i \in Investors |-> 0] /\ told = [i \in Investors |-> 1]
    BY DEF Init, CInit
  <2> QED
    BY <2>1, <2>2 DEF Types
<1>2. EventsCommitted
  BY DEF Init, Writer!NInit, EventsCommitted
<1>3. ToldOrCovered
  BY DEF Init, CInit, ToldOrCovered
<1>4. InHand
  BY DEF Init, RInit, InHand
<1> QED
  BY <1>1, <1>2, <1>3, <1>4 DEF Inv

-----------------------------------------------------------------------------
(* The write side and the workers                                          *)

\* An appended event leaves the others where they are.
LEMMA TopicGrows ==
  ASSUME Types, NEW p \in Partitions, NEW e \in Writer!Event,
         topic' = [topic EXCEPT ![p] = Append(@, e)]
  PROVE  /\ topic' \in [Partitions -> Seq(Writer!Event)]
         /\ \A q \in Partitions :
              /\ DOMAIN topic[q] = 1..Len(topic[q]) /\ Len(topic[q]) \in Nat
              /\ DOMAIN topic'[q] = 1..Len(topic'[q])
              /\ Len(topic'[q]) = IF q = p THEN Len(topic[q]) + 1 ELSE Len(topic[q])
              /\ \A k \in 1..Len(topic[q]) : topic'[q][k] = topic[q][k]
         /\ topic'[p][Len(topic[p]) + 1] = e
<1> DEFINE E == Writer!Event
<1>1. topic \in [Partitions -> Seq(E)] /\ e \in E
  BY DEF Types
<1> HIDE DEF E
<1>2. topic' \in [Partitions -> Seq(E)]
  BY <1>1
<1> QED
  BY <1>1, <1>2 DEF E

\* A change owes an event that no copy in the log can be of.
LEMMA ChangeStep ==
  ASSUME Inv, NEW i \in Investors, Change(i)
  PROVE  /\ Types' /\ EventsCommitted' /\ ToldOrCovered'
         /\ Covered(i)'
         /\ \A j \in Investors : Covered(j) => Covered(j)'
<1> PICK v \in Nat : v = version[i]
  BY DEF Inv, Types
<1> DEFINE e == [inv |-> i, ver |-> v + 1]
<1>1. /\ version' = [version EXCEPT ![i] = version[i] + 1]
      /\ owed' = owed \cup {e}
      /\ UNCHANGED <<cache, loads, topic, pending, told, saved>>
  BY DEF Change, Writer!Change, durable
<1>2. version[i] \in Nat /\ e \in Writer!Event
  BY DEF Inv, Types, Writer!Event
<1>3. \A j \in Investors : /\ version[j] \in Nat /\ version'[j] \in Nat
                           /\ version'[j] >= version[j]
                           /\ j # i => version'[j] = version[j]
  BY <1>1 DEF Inv, Types
<1>4. Types'
  <2>1. version' \in [Investors -> Nat] /\ owed' \subseteq Writer!Event
    BY <1>1, <1>2 DEF Inv, Types
  <2>2. ASSUME NEW t \in loads PROVE t[2] <= version'[t[1]]
    BY <1>3 DEF Inv, Types
  <2> QED
    BY <1>1, <2>1, <2>2 DEF Inv, Types
<1>5. EventsCommitted'
  <2>1. ASSUME NEW f \in owed PROVE f.ver <= version'[f.inv]
    BY <1>3 DEF Inv, Types, EventsCommitted, Writer!Event
  <2>2. e.ver <= version'[e.inv]
    BY <1>1, <1>2 DEF Inv, Types
  <2>3. ASSUME NEW p \in Partitions, NEW k \in DOMAIN topic[p]
        PROVE  topic[p][k].ver <= version'[topic[p][k].inv]
    <3>1. topic[p][k] \in Writer!Event
      BY DEF Inv, Types
    <3>2. topic[p][k].ver <= version[topic[p][k].inv]
      BY DEF Inv, EventsCommitted
    <3> QED
      BY <1>3, <3>1, <3>2 DEF Writer!Event
  <2> QED
    BY <1>1, <2>1, <2>2, <2>3 DEF EventsCommitted
<1>6. Covered(i)'
  <2>1. ~Writer!Announced(e)'
    <3> SUFFICES ASSUME NEW k \in DOMAIN topic[PartitionOf[i]],
                         topic[PartitionOf[i]][k] = e
                 PROVE  FALSE
      BY <1>1 DEF Writer!Announced
    <3>2. e.ver <= version[e.inv]
      BY Constants DEF Inv, EventsCommitted
    <3> QED
      BY <1>2, <3>2
  <2> QED
    BY <1>1, <2>1 DEF Covered
<1>7. ASSUME NEW j \in Investors, Covered(j) PROVE Covered(j)'
  BY <1>1, <1>7 DEF Covered, Writer!Announced
<1>8. ToldOrCovered'
  <2> SUFFICES ASSUME NEW j \in Investors, told'[j] < version'[j]
               PROVE  Covered(j)'
    BY DEF ToldOrCovered
  <2>1. CASE j = i
    BY <1>6, <2>1
  <2>2. CASE j # i
    BY <1>1, <1>3, <1>7, <2>2 DEF Inv, ToldOrCovered
  <2> QED
    BY <2>1, <2>2
<1> QED
  BY <1>4, <1>5, <1>6, <1>7, <1>8

\* Announcing an event trades the debt for a message about the same investor.
LEMMA AnnounceStep ==
  ASSUME Inv, NEW i \in Investors, NEW v \in 2..version[i], Announce(EventOf(i, v))
  PROVE  /\ Types' /\ EventsCommitted' /\ ToldOrCovered'
         /\ \A j \in Investors : Covered(j) => Covered(j)'
<1> DEFINE e == EventOf(i, v)
           p == PartitionOf[i]
           n == Len(topic[p]) + 1
<1>1. /\ topic' = [topic EXCEPT ![p] = Append(@, e)]
      /\ pending' = pending \cup {<<p, n, i>>}
      /\ UNCHANGED <<version, owed, cache, loads, told, saved>>
  <2>1. p \in Partitions
    BY Constants
  <2>2. [q \in Partitions |-> Len(topic[q])][p] = Len(topic[p])
    BY <2>1
  <2>3. pending' = pending \cup {<<p, n, j>> : j \in {i}}
    BY <2>2 DEF Announce, Workers!Write, EventOf
  <2> QED
    BY <2>3 DEF Announce, Writer!Announce, EventOf, durable
<1>2. /\ p \in Partitions /\ version[i] \in Nat /\ v \in Nat /\ v <= version[i]
      /\ e \in Writer!Event /\ e.inv = i /\ e.ver = v
  BY Constants DEF Inv, Types, Writer!Event, EventOf
<1> HIDE DEF e, p
<1>3. /\ topic' \in [Partitions -> Seq(Writer!Event)]
      /\ \A q \in Partitions :
           /\ DOMAIN topic[q] = 1..Len(topic[q]) /\ Len(topic[q]) \in Nat
           /\ DOMAIN topic'[q] = 1..Len(topic'[q])
           /\ Len(topic'[q]) = IF q = p THEN Len(topic[q]) + 1 ELSE Len(topic[q])
           /\ \A k \in 1..Len(topic[q]) : topic'[q][k] = topic[q][k]
      /\ topic'[p][n] = e
  BY <1>1, <1>2, TopicGrows DEF Inv
<1>4. ASSUME NEW q \in Partitions, NEW k \in DOMAIN topic'[q]
      PROVE  \/ k \in DOMAIN topic[q] /\ topic'[q][k] = topic[q][k]
             \/ q = p /\ k = n /\ topic'[q][k] = e
  BY <1>3
<1>5. n \in DOMAIN topic'[p]
  BY <1>2, <1>3
<1>6. ASSUME NEW q \in Partitions, NEW k \in DOMAIN topic[q]
      PROVE  k \in DOMAIN topic'[q] /\ topic'[q][k] = topic[q][k]
  BY <1>3
<1>7. \A m \in pending : /\ m[1] \in Partitions /\ m[2] \in DOMAIN topic'[m[1]]
                         /\ m[3] = topic'[m[1]][m[2]].inv
  BY <1>6 DEF Inv, Types
<1>8. Types'
  <2>1. ASSUME NEW m \in pending'
        PROVE  /\ m[1] \in Partitions /\ m[2] \in DOMAIN topic'[m[1]]
               /\ m[3] = topic'[m[1]][m[2]].inv
    BY <1>1, <1>2, <1>3, <1>5, <1>7
  <2> QED
    BY <1>1, <1>3, <2>1 DEF Inv, Types
<1>9. EventsCommitted'
  <2>1. ASSUME NEW q \in Partitions, NEW k \in DOMAIN topic'[q]
        PROVE  topic'[q][k].ver <= version[topic'[q][k].inv]
    BY <1>2, <1>4 DEF Inv, EventsCommitted
  <2> QED
    BY <1>1, <2>1 DEF Inv, EventsCommitted
<1>10. ASSUME NEW j \in Investors, Covered(j) PROVE Covered(j)'
  <2>1. ASSUME NEW m \in pending, m[3] = j PROVE Covered(j)'
    BY <1>1, <2>1 DEF Covered
  <2>2. ASSUME NEW f \in owed, f.inv = j, ~Writer!Announced(f) PROVE Covered(j)'
    <3>1. PartitionOf[f.inv] \in Partitions
      BY <2>2, Constants
    <3>2. CASE Writer!Announced(f)'
      <4>1. PICK k \in DOMAIN topic'[PartitionOf[f.inv]] :
                   topic'[PartitionOf[f.inv]][k] = f
        BY <3>2 DEF Writer!Announced
      <4>2. ~(k \in DOMAIN topic[PartitionOf[f.inv]] /\ topic[PartitionOf[f.inv]][k] = f)
        BY <2>2 DEF Writer!Announced
      <4>3. f = e
        BY <1>4, <3>1, <4>1, <4>2
      <4>4. <<p, n, i>> \in pending' /\ i = j
        BY <1>1, <1>2, <2>2, <4>3
      <4> QED
        BY <4>4 DEF Covered
    <3>3. CASE ~Writer!Announced(f)'
      BY <1>1, <2>2, <3>3 DEF Covered
    <3> QED
      BY <3>2, <3>3
  <2> QED
    BY <1>10, <2>1, <2>2 DEF Covered
<1>11. ToldOrCovered'
  BY <1>1, <1>10 DEF Inv, ToldOrCovered
<1> QED
  BY <1>8, <1>9, <1>10, <1>11

\* Only what is in the log is settled.
LEMMA SettleStep ==
  ASSUME Inv, NEW S \in SUBSET owed, Settle(S)
  PROVE  /\ Types' /\ EventsCommitted' /\ ToldOrCovered'
         /\ \A j \in Investors : Covered(j) => Covered(j)'
<1>1. /\ owed' = owed \ S
      /\ \A e \in S : Writer!Announced(e)
      /\ UNCHANGED <<version, topic, cache, loads, pending, told, saved>>
  BY DEF Settle, Writer!Settle, durable
<1>2. Types' /\ EventsCommitted'
  BY <1>1 DEF Inv, Types, EventsCommitted
<1>3. ASSUME NEW j \in Investors, Covered(j) PROVE Covered(j)'
  BY <1>1, <1>3 DEF Covered, Writer!Announced
<1>4. ToldOrCovered'
  BY <1>1, <1>3 DEF Inv, ToldOrCovered
<1> QED
  BY <1>2, <1>3, <1>4

\* A message about i is handled, not for the first time perhaps, or given up:
\* i was told, and messages about others stay.
LEMMA WorkerStep ==
  ASSUME Inv, NEW p \in Partitions, NEW k \in DOMAIN topic[p],
         Handle(p, k) \/ GiveUp(p, k)
  PROVE  /\ Types' /\ EventsCommitted' /\ ToldOrCovered'
         /\ \A j \in Investors \ {topic[p][k].inv} : Covered(j) => Covered(j)'
<1> PICK i \in Investors : i = topic[p][k].inv
  <2>1. topic[p][k] \in Writer!Event
    BY DEF Inv, Types
  <2> QED
    BY <2>1 DEF Writer!Event
<1>1. /\ told' = [told EXCEPT ![i] = version[i]]
      /\ pending' \subseteq pending
      /\ cache' \in {cache, [cache EXCEPT ![i] = 0]}
      /\ UNCHANGED <<version, owed, topic, loads, saved>>
  BY DEF Handle, GiveUp, Workers!Delete, Workers!GiveUp, Tell, Drop, wvars, cvars, durable
<1>2. \A m \in pending : m[3] # i => m \in pending'
  <2>1. CASE Handle(p, k)
    BY <2>1 DEF Handle, Workers!Delete
  <2>2. CASE GiveUp(p, k)
    <3>1. pending' = {m \in pending : m[1] # p \/ m[2] # k}
      BY <2>2 DEF GiveUp, Workers!GiveUp
    <3>2. \A m \in pending : m[1] = p /\ m[2] = k => m[3] = i
      BY DEF Inv, Types
    <3> QED
      BY <3>1, <3>2
  <2> QED
    BY <2>1, <2>2
<1>3. Types'
  <2>1. cache' \in [Investors -> Nat]
    <3>1. cache \in [Investors -> Nat]
      BY DEF Inv, Types
    <3>2. [cache EXCEPT ![i] = 0] \in [Investors -> Nat]
      BY <3>1
    <3> QED
      BY <1>1, <3>1, <3>2
  <2>2. told' \in [Investors -> Nat]
    BY <1>1 DEF Inv, Types
  <2> QED
    BY <1>1, <2>1, <2>2 DEF Inv, Types
<1>4. EventsCommitted'
  BY <1>1 DEF Inv, EventsCommitted
<1>5. ASSUME NEW j \in Investors \ {i}, Covered(j) PROVE Covered(j)'
  BY <1>1, <1>2, <1>5 DEF Covered, Writer!Announced
<1>6. ToldOrCovered'
  <2> SUFFICES ASSUME NEW j \in Investors, told'[j] < version'[j]
               PROVE  Covered(j)'
    BY DEF ToldOrCovered
  <2>1. version[i] \in Nat /\ told \in [Investors -> Nat]
    BY DEF Inv, Types
  <2>2. j # i
    BY <1>1, <2>1
  <2>3. told[j] < version[j]
    BY <1>1, <2>1, <2>2
  <2> QED
    BY <1>5, <2>2, <2>3 DEF Inv, ToldOrCovered
<1> QED
  BY <1>3, <1>4, <1>5, <1>6

-----------------------------------------------------------------------------
(* The read side, Redis and the reconciler                                 *)

\* They change neither versions nor what is to be announced or handled.
Elsewhere ==
  /\ version' = version /\ owed' = owed /\ topic' = topic
  /\ pending' = pending /\ told' = told

\* So they keep events and coverage in order.
LEMMA ElsewhereStep ==
  ASSUME Inv, Elsewhere,
         cache' \in [Investors -> Nat], saved' \in [Investors -> Nat],
         \A t \in loads' : /\ t[1] \in Investors /\ t[2] \in Nat
                           /\ t[2] <= version[t[1]]
  PROVE  Types' /\ EventsCommitted' /\ ToldOrCovered'
<1>1. Types' /\ EventsCommitted'
  BY DEF Elsewhere, Inv, Types, EventsCommitted
<1>2. ASSUME NEW j \in Investors, Covered(j) PROVE Covered(j)'
  BY <1>2 DEF Elsewhere, Covered, Writer!Announced
<1>3. ToldOrCovered'
  BY <1>2 DEF Elsewhere, Inv, ToldOrCovered
<1> QED
  BY <1>1, <1>3

\* What was read is a committed version.
LEMMA ReadStep ==
  ASSUME Inv, NEW i \in Investors, Read(i)
  PROVE  Elsewhere /\ Types' /\ EventsCommitted' /\ ToldOrCovered'
<1>1. /\ Elsewhere /\ cache' = cache /\ saved' = saved
      /\ loads' = loads \cup {<<i, version[i]>>}
  BY DEF Read, Load, Elsewhere, wvars, durable
<1>2. version[i] \in Nat
  BY DEF Inv, Types
<1>3. \A t \in loads' : t[1] \in Investors /\ t[2] \in Nat /\ t[2] <= version[t[1]]
  BY <1>1, <1>2 DEF Inv, Types
<1>4. cache' \in [Investors -> Nat] /\ saved' \in [Investors -> Nat]
  BY <1>1 DEF Inv, Types
<1> QED
  BY <1>1, <1>3, <1>4, ElsewhereStep

\* A set stores what was read or leaves what is newer.
LEMMA FillStep ==
  ASSUME Inv, NEW t \in loads, Fill(t) \/ NoFill(t)
  PROVE  Elsewhere /\ Types' /\ EventsCommitted' /\ ToldOrCovered'
<1>1. t[1] \in Investors /\ t[2] \in Nat
  BY DEF Inv, Types
<1>2. /\ Elsewhere /\ saved' = saved
      /\ \/ cache' = cache
         \/ cache' = [cache EXCEPT ![t[1]] = IF @ # 0 /\ @ >= t[2] THEN @ ELSE t[2]]
      /\ loads' \subseteq loads
  BY DEF Fill, NoFill, Store, Forget, Elsewhere, wvars, durable
<1>3. cache' \in [Investors -> Nat] /\ saved' \in [Investors -> Nat]
  BY <1>1, <1>2 DEF Inv, Types
<1>4. \A u \in loads' : u[1] \in Investors /\ u[2] \in Nat /\ u[2] <= version[u[1]]
  BY <1>2 DEF Inv, Types
<1> QED
  BY <1>2, <1>3, <1>4, ElsewhereStep

\* Entries expire, and masters recover with what they had saved.
LEMMA RedisStep ==
  ASSUME Inv,
         \/ \E i \in Investors : Expire(i)
         \/ \E m \in Masters : FallBehind(m) \/ CatchUp(m) \/ Failover(m)
  PROVE  Elsewhere /\ Types' /\ EventsCommitted' /\ ToldOrCovered'
<1>1. Elsewhere /\ loads' = loads
  BY DEF Expire, FallBehind, CatchUp, Failover, Recovered, Drop, Elsewhere,
         wvars, cvars
<1>2. cache' \in [Investors -> Nat] /\ saved' \in [Investors -> Nat]
  <2>1. ASSUME NEW i \in Investors, Expire(i)
        PROVE  cache' \in [Investors -> Nat] /\ saved' \in [Investors -> Nat]
    BY <2>1 DEF Inv, Types, Expire, Drop, durable
  <2>2. ASSUME NEW m \in Masters, FallBehind(m)
        PROVE  cache' \in [Investors -> Nat] /\ saved' \in [Investors -> Nat]
    BY <2>2 DEF Inv, Types, FallBehind, cvars
  <2>3. ASSUME NEW m \in Masters, CatchUp(m) \/ Failover(m)
        PROVE  cache' \in [Investors -> Nat] /\ saved' \in [Investors -> Nat]
    <3>1. saved' = [i \in Investors |-> IF i \in KeysOf(m) THEN 0 ELSE saved[i]]
      BY <2>3 DEF CatchUp, Failover, Recovered
    <3>2. \/ cache' = cache
          \/ cache' = [i \in Investors |-> IF i \in KeysOf(m) THEN saved[i]
                                           ELSE cache[i]]
      BY <2>3 DEF CatchUp, Failover
    <3>3. \A i \in Investors : saved[i] \in Nat /\ cache[i] \in Nat
      BY DEF Inv, Types
    <3>4. cache \in [Investors -> Nat]
      BY DEF Inv, Types
    <3>5. saved' \in [Investors -> Nat]
      BY <3>1, <3>3
    <3>6. cache' \in [Investors -> Nat]
      BY <3>2, <3>3, <3>4
    <3> QED
      BY <3>5, <3>6
  <2> QED
    BY <2>1, <2>2, <2>3
<1>3. \A u \in loads' : u[1] \in Investors /\ u[2] \in Nat /\ u[2] <= version[u[1]]
  BY <1>1 DEF Inv, Types
<1> QED
  BY <1>1, <1>2, <1>3, ElsewhereStep

\* The reconciler deletes a key or changes nothing.
LEMMA ReconcilingStep ==
  ASSUME Inv, Reconciling
  PROVE  Elsewhere /\ Types' /\ EventsCommitted' /\ ToldOrCovered'
         /\ (Evict \/ cache' = cache)
<1>1. Elsewhere /\ saved' = saved /\ loads' = loads /\ (Evict \/ cache' = cache)
  <2>1. Evict \/ UNCHANGED cvars
    BY DEF Reconciling, Reconcile, ReconcileFails, SampleKeys, StartCycle, Test, Scan,
       AppendKeys, Sampled, SamplingFailed, GetEntry, ReadRow, CycleDone, ScanFails,
       CallFails, Die
  <2>2. version' = version /\ loads' = loads /\ (Evict \/ cache' = cache)
    BY <2>1 DEF Evict, Drop, cvars
  <2> QED
    BY <2>2 DEF Reconciling, Elsewhere, wvars, durable
<1>2. cache' \in [Investors -> Nat]
  <2>1. cache \in [Investors -> Nat]
    BY DEF Inv, Types
  <2>2. Evict => cache' = [cache EXCEPT ![Key] = 0]
    BY DEF Evict, Drop
  <2>3. [cache EXCEPT ![Key] = 0] \in [Investors -> Nat]
    BY <2>1
  <2> QED
    BY <1>1, <2>1, <2>2, <2>3
<1>3. saved' \in [Investors -> Nat]
  BY <1>1 DEF Inv, Types
<1>4. \A u \in loads' : u[1] \in Investors /\ u[2] \in Nat /\ u[2] <= version[u[1]]
  BY <1>1 DEF Inv, Types
<1> QED
  BY <1>1, <1>2, <1>3, <1>4, ElsewhereStep

-----------------------------------------------------------------------------
(* The key in hand                                                         *)

\* What the others do makes no entry newer than its row.
LEMMA HandStays ==
  ASSUME Inv, UNCHANGED <<phase, allKeys, at, seen>>,
         \A i \in Investors : version'[i] \in Nat /\ version'[i] >= version[i]
  PROVE  InHand'
<1>1. phase = "delete" => seen < version'[Key]
  <2> SUFFICES ASSUME phase = "delete" PROVE seen < version'[Key]
    OBVIOUS
  <2>1. Key \in Investors /\ seen < version[Key] /\ seen \in Nat
    BY DEF Inv, InHand
  <2>2. version[Key] \in Nat
    BY <2>1 DEF Inv, Types
  <2> QED
    BY <2>1, <2>2
<1>2. Key' = Key
  BY DEF Key
<1> QED
  BY <1>1, <1>2 DEF Inv, InHand

\* A goroutine works while keys are sampled, when none is in hand.
LEMMA ScanningStep ==
  ASSUME Inv, NEW m \in Masters, Test(m) \/ Scan(m) \/ AppendKeys(m) \/ ScanFails(m)
  PROVE  InHand'
<1>1. phase = "scan"
  BY DEF Inv, InHand, Test, Scan, AppendKeys, ScanFails
<1>2. phase' = phase /\ seen' = seen
  BY DEF Test, Scan, AppendKeys, ScanFails
<1>3. at' \in [Masters -> {"test", "scan", "append", "end", "failed"}]
  <2>1. \E l \in {"test", "scan", "append", "end", "failed"} : at' = [at EXCEPT ![m] = l]
    BY DEF Test, Scan, AppendKeys, ScanFails, AfterAppend
  <2> QED
    BY <2>1 DEF Inv, InHand
<1> QED
  BY <1>1, <1>2, <1>3 DEF Inv, InHand

\* The next key, the end of a cycle, and a death leave no key in hand.
LEMMA EmptyHand ==
  ASSUME Inv, phase' \in {"idle", "get"}, seen' \in {seen, 0},
         \/ at' = at /\ phase # "scan"
         \/ at' = [m \in Masters |-> "end"]
  PROVE  InHand'
BY DEF Inv, InHand

\* The entry, then the row that it is older than.
LEMMA CompareStep ==
  ASSUME Inv, GetEntry \/ ReadRow
  PROVE  InHand'
<1>1. phase \in {"get", "read"} /\ at' = at /\ version' = version
  BY DEF GetEntry, ReadRow, NextKey, scanVars, cvars
<1>2. CASE NextKey
  <2>1. phase' = "get" /\ seen' = 0
    BY <1>2 DEF NextKey
  <2> QED
    BY <1>1, <2>1, EmptyHand
<1>3. CASE ~NextKey /\ GetEntry
  <2>1. Key \in Investors /\ phase' = "read" /\ seen' = cache[Key] /\ allKeys' = allKeys
    BY <1>3 DEF GetEntry
  <2>2. seen' \in Nat /\ Key' = Key
    BY <2>1 DEF Inv, Types, Key
  <2> QED
    BY <1>1, <2>1, <2>2 DEF Inv, InHand
<1>4. CASE ~NextKey /\ ReadRow
  <2>1. /\ phase = "read" /\ phase' = "delete" /\ seen' = seen /\ allKeys' = allKeys
        /\ seen < version[Key]
    BY <1>4 DEF ReadRow, Older
  <2>2. Key' = Key
    BY <2>1 DEF Key
  <2> QED
    BY <1>1, <2>1, <2>2 DEF Inv, InHand
<1> QED
  BY <1>2, <1>3, <1>4

\* So the reconciler keeps what is said of the key in hand.
LEMMA ReconcilingHand ==
  ASSUME Inv, Reconciling
  PROVE  InHand'
<1>1. CASE StartCycle
  BY <1>1 DEF StartCycle, Inv, InHand
<1>2. CASE GetEntry \/ ReadRow
  BY <1>2, CompareStep
<1>3. CASE Sampled \/ SamplingFailed \/ Die
  <2>1. phase' \in {"idle", "get"} /\ seen' \in {seen, 0} /\ at' = [m \in Masters |-> "end"]
    BY <1>3 DEF Sampled, SamplingFailed, Die, NoScan
  <2> QED
    BY <2>1, EmptyHand
<1>4. CASE Evict \/ CallFails \/ CycleDone
  <2>1. phase' \in {"idle", "get"} /\ seen' \in {seen, 0} /\ at' = at /\ phase # "scan"
    BY <1>4 DEF Evict, CallFails, CycleDone, NextKey, scanVars
  <2> QED
    BY <2>1, EmptyHand
<1>5. ASSUME NEW m \in Masters, Test(m) \/ Scan(m) \/ AppendKeys(m) \/ ScanFails(m)
      PROVE  InHand'
  BY <1>5, ScanningStep
<1> QED
  BY <1>1, <1>2, <1>3, <1>4, <1>5
  DEF Reconciling, Reconcile, ReconcileFails, SampleKeys

-----------------------------------------------------------------------------
(* The invariant                                                           *)

\* Every step of the system is one of these.
LEMMA Steps ==
  ASSUME Next
  PROVE  \/ \E i \in Investors : Change(i)
         \/ \E i \in Investors : \E v \in 2..version[i] : Announce(EventOf(i, v))
         \/ \E S \in SUBSET owed : Settle(S)
         \/ \E p \in Partitions : \E k \in DOMAIN topic[p] : Handle(p, k) \/ GiveUp(p, k)
         \/ \E i \in Investors : Read(i)
         \/ \E t \in loads : Fill(t) \/ NoFill(t)
         \/ \/ \E i \in Investors : Expire(i)
            \/ \E m \in Masters : FallBehind(m) \/ CatchUp(m) \/ Failover(m)
         \/ Reconciling
BY DEF Next, AnnounceNext, HandleNext

\* Every step keeps the invariant.
LEMMA NextInv == Inv /\ [Next]_vars => Inv'
<1> SUFFICES ASSUME Inv, [Next]_vars PROVE Inv'
  OBVIOUS
<1>1. ASSUME NEW i \in Investors, Change(i) PROVE Inv'
  <2>1. UNCHANGED <<phase, allKeys, at, seen>>
    BY <1>1 DEF Change, rvars, scanVars
  <2>2. version' = [version EXCEPT ![i] = version[i] + 1]
    BY <1>1 DEF Change, Writer!Change
  <2>3. \A j \in Investors : version'[j] \in Nat /\ version'[j] >= version[j]
    BY <2>2 DEF Inv, Types
  <2>4. InHand'
    BY <2>1, <2>3, HandStays
  <2> QED
    BY <1>1, <2>4, ChangeStep DEF Inv
<1>2. ASSUME UNCHANGED <<version, phase, allKeys, at, seen>> PROVE InHand'
  <2>1. \A j \in Investors : version'[j] \in Nat /\ version'[j] >= version[j]
    BY <1>2 DEF Inv, Types
  <2> QED
    BY <1>2, <2>1, HandStays
<1>3. ASSUME NEW i \in Investors, NEW v \in 2..version[i], Announce(EventOf(i, v))
      PROVE  Inv'
  <2>1. InHand'
    BY <1>2, <1>3 DEF Announce, Writer!Announce, rvars, scanVars
  <2> QED
    BY <1>3, <2>1, AnnounceStep DEF Inv
<1>4. ASSUME NEW S \in SUBSET owed, Settle(S) PROVE Inv'
  <2>1. InHand'
    BY <1>2, <1>4 DEF Settle, Writer!Settle, rvars, scanVars
  <2> QED
    BY <1>4, <2>1, SettleStep DEF Inv
<1>5. ASSUME NEW p \in Partitions, NEW k \in DOMAIN topic[p],
             Handle(p, k) \/ GiveUp(p, k)
      PROVE  Inv'
  <2>1. InHand'
    BY <1>2, <1>5 DEF Handle, GiveUp, Drop, cvars, rvars, scanVars
  <2>2. Types' /\ EventsCommitted' /\ ToldOrCovered'
    BY <1>5, WorkerStep
  <2> QED
    BY <2>1, <2>2 DEF Inv
<1>6. ASSUME NEW i \in Investors, Read(i) PROVE Inv'
  <2>1. InHand'
    BY <1>2, <1>6 DEF Read, Load, rvars, scanVars
  <2> QED
    BY <1>6, <2>1, ReadStep DEF Inv
<1>7. ASSUME NEW t \in loads, Fill(t) \/ NoFill(t) PROVE Inv'
  <2>1. InHand'
    BY <1>2, <1>7 DEF Fill, NoFill, Store, Forget, rvars, scanVars
  <2> QED
    BY <1>7, <2>1, FillStep DEF Inv
<1>8. ASSUME \/ \E i \in Investors : Expire(i)
             \/ \E m \in Masters : FallBehind(m) \/ CatchUp(m) \/ Failover(m)
      PROVE  Inv'
  <2>1. InHand'
    BY <1>2, <1>8
    DEF Expire, FallBehind, CatchUp, Failover, Recovered, Drop, cvars, rvars, scanVars
  <2> QED
    BY <1>8, <2>1, RedisStep DEF Inv
<1>9. CASE Reconciling
  BY <1>9, ReconcilingStep, ReconcilingHand DEF Inv
<1>10. CASE UNCHANGED vars
  <2>1. UNCHANGED <<version, cache, loads, owed, topic, pending, told, saved>>
        /\ UNCHANGED <<phase, allKeys, at, seen>>
    BY <1>10 DEF vars, cvars, wvars, durable, rvars, scanVars
  <2>2. Elsewhere
    BY <2>1 DEF Elsewhere
  <2>3. /\ cache' \in [Investors -> Nat] /\ saved' \in [Investors -> Nat]
        /\ \A u \in loads' : u[1] \in Investors /\ u[2] \in Nat /\ u[2] <= version[u[1]]
    BY <2>1 DEF Inv, Types
  <2>4. Types' /\ EventsCommitted' /\ ToldOrCovered'
    BY <2>2, <2>3, ElsewhereStep
  <2>5. InHand'
    BY <1>2, <2>1
  <2> QED
    BY <2>4, <2>5 DEF Inv
<1> QED
  BY <1>1, <1>3, <1>4, <1>5, <1>6, <1>7, <1>8, <1>9, <1>10, Steps

\* The inductive invariant of the composition.
THEOREM Invariance == Spec => []Inv
<1>1. Init => Inv
  BY InitInv
<1> QED
  BY <1>1, NextInv, PTL DEF Spec

-----------------------------------------------------------------------------
(* The slices of the reconciler                                            *)

\* "Smaller" on the naturals, as a set of pairs.
Less == {p \in Nat \X Nat : p[1] < p[2]}

\* Induction over the naturals, for sets: a least number outside of T would
\* have its predecessor in T.
LEMMA Induct ==
  ASSUME NEW T \in SUBSET Nat, 0 \in T, \A n \in T : n + 1 \in T
  PROVE  T = Nat
<1> SUFFICES ASSUME Nat \ T # {} PROVE FALSE
  OBVIOUS
<1>1. IsWellFoundedOn(Less, Nat)
  BY NatLessThanWellFounded DEF Less, OpToRel
<1>2. PICK n \in Nat \ T : \A k \in Nat \ T : <<k, n>> \notin Less
  BY <1>1, WFMin
<1>3. n - 1 \in Nat
  BY <1>2
<1>4. <<n - 1, n>> \in Less
  BY <1>3 DEF Less
<1>5. n - 1 \in T
  BY <1>2, <1>3, <1>4
<1>6. (n - 1) + 1 \in T
  BY <1>5
<1> QED
  BY <1>2, <1>6

\* What SCAN answers are keys: the recursive function that filters them exists,
\* by induction over its domain, and its values are sequences of keys, by
\* induction over what it has looked at.
LEMMA CachedOfType ==
  ASSUME NEW s \in Seq(Investors)
  PROVE  CachedOf(s) \in Seq(Investors)
<1> DEFINE Step(f, j) == IF j = 0 THEN <<>>
                         ELSE IF cache[s[j]] # 0 THEN Append(f[j - 1], s[j])
                         ELSE f[j - 1]
           IsUpTo(f, n) == f = [j \in 0..n |-> Step(f, j)]
           T == {n \in Nat : \E f : IsUpTo(f, n)}
<1>1. 0 \in T
  <2>1. IsUpTo([j \in 0..0 |-> <<>>], 0)
    OBVIOUS
  <2> QED
    BY <2>1
<1>2. ASSUME NEW n \in T PROVE n + 1 \in T
  <2>1. PICK f : IsUpTo(f, n)
    OBVIOUS
  <2> DEFINE g == [j \in 0..(n + 1) |-> IF j = n + 1 THEN Step(f, j) ELSE f[j]]
  <2>2. ASSUME NEW j \in 0..(n + 1) PROVE g[j] = Step(g, j)
    <3>1. CASE j = 0
      <4>1. g[j] = f[0] /\ 0 \in 0..n
        BY <3>1
      <4> QED
        BY <3>1, <4>1, <2>1
    <3>2. CASE j # 0
      <4>1. j - 1 \in 0..n /\ g[j - 1] = f[j - 1]
        BY <3>2
      <4>2. g[j] = Step(f, j)
        <5>1. CASE j = n + 1
          BY <5>1
        <5>2. CASE j # n + 1
          <6>1. j \in 0..n /\ g[j] = f[j]
            BY <5>2
          <6> HIDE DEF g
          <6> QED
            BY <6>1, <2>1
        <5> QED
          BY <5>1, <5>2
      <4> HIDE DEF g
      <4> QED
        BY <3>2, <4>1, <4>2
    <3> QED
      BY <3>1, <3>2
  <2>3. IsUpTo(g, n + 1)
    <3>1. g = [j \in 0..(n + 1) |-> g[j]]
      OBVIOUS
    <3> HIDE DEF g
    <3> QED
      BY <2>2, <3>1
  <2>4. \E h : IsUpTo(h, n + 1)
    <3> HIDE DEF g, IsUpTo
    <3> QED
      BY <2>3
  <2>5. n + 1 \in Nat
    OBVIOUS
  <2> HIDE DEF IsUpTo
  <2> QED
    BY <2>4, <2>5
<1>3. Len(s) \in T
  <2>1. T \subseteq Nat
    OBVIOUS
  <2> HIDE DEF T
  <2>2. T = Nat
    BY <1>1, <1>2, <2>1, Induct
  <2> QED
    BY <2>2
<1> DEFINE upTo == CHOOSE f : IsUpTo(f, Len(s))
<1>4. IsUpTo(upTo, Len(s))
  BY <1>3
<1>5. CachedOf(s) = upTo[Len(s)]
  BY DEF CachedOf
<1> HIDE DEF upTo
<1> DEFINE U == {n \in Nat : n <= Len(s) => upTo[n] \in Seq(Investors)}
<1>6. 0 \in U
  BY <1>4
<1>7. ASSUME NEW n \in U PROVE n + 1 \in U
  <2> SUFFICES ASSUME n + 1 <= Len(s) PROVE upTo[n + 1] \in Seq(Investors)
    OBVIOUS
  <2>1. upTo[n] \in Seq(Investors) /\ n + 1 \in 0..Len(s) /\ n + 1 \in 1..Len(s)
    OBVIOUS
  <2>2. s[n + 1] \in Investors
    BY <2>1
  <2>3. upTo[n + 1] = Step(upTo, n + 1)
    <3> HIDE DEF Step
    <3> QED
      BY <1>4, <2>1
  <2>4. n + 1 # 0 /\ (n + 1) - 1 = n
    OBVIOUS
  <2>5. Append(upTo[n], s[n + 1]) \in Seq(Investors)
    BY <2>1, <2>2
  <2>6. upTo[n + 1] \in {upTo[n], Append(upTo[n], s[n + 1])}
    BY <2>3, <2>4
  <2> QED
    BY <2>1, <2>5, <2>6
<1>8. U = Nat
  <2> HIDE DEF U
  <2>1. U \subseteq Nat
    BY DEF U
  <2> QED
    BY <1>6, <1>7, <2>1, Induct
<1> QED
  BY <1>5, <1>8

\* What ReconcilerTypeOK says of the loop and the goroutines, and that there is
\* a key in hand to go on from.
Slices ==
  /\ phase \in {"idle", "scan", "get", "read", "delete"}
  /\ allKeys \in Seq(Keys)
  /\ cursor \in [Masters -> Nat]
  /\ held \in [Masters -> [old : Seq(Keys), new : Seq(Investors)]]
  /\ phase \in {"read", "delete"} => allKeys # <<>>

\* Versions within their bound, and what was read was never "no entry".
Bounds ==
  /\ \A i \in Investors : version[i] \in 1..MaxVersion[i]
  /\ \A t \in loads : t[2] >= 1
  /\ lagging \subseteq Masters
  /\ faults \in 0..MaxFaults

TInv == Inv /\ Bounds /\ Slices

\* The assumptions about the scans and the bounds.
LEMMA ScanConstants ==
  /\ Buckets \in [Masters -> Seq(Investors)]
  /\ SampleSize \in Nat /\ MaxFaults \in Nat
  /\ MaxVersion \in [Investors -> Nat \ {0}]
BY ReconcilerAssumption, CoherenceAssumption
DEF ReconcilerAssumption, CoherenceAssumption

\* Nothing is sampled or read at first.
LEMMA InitTypes == Init => TInv
<1> SUFFICES ASSUME Init PROVE TInv
  OBVIOUS
<1>1. Inv
  BY InitInv
<1>2. Bounds
  BY ScanConstants DEF Init, CInit, RInit, Bounds
<1>3. Slices
  <2>1. Nothing \in [old : Seq(Keys), new : Seq(Investors)]
    BY DEF Nothing
  <2> QED
    BY <2>1 DEF Init, RInit, Slices
<1> QED
  BY <1>1, <1>2, <1>3 DEF TInv

\* The next buckets lie within the keys of the master.
LEMMA ScanTypes ==
  ASSUME NEW m \in Masters, cursor \in [Masters -> Nat]
  PROVE  /\ LastBucket(m) \in Nat
         /\ CachedOf(SubSeq(Buckets[m], cursor[m] + 1, LastBucket(m)))
              \in Seq(Investors)
<1> DEFINE s == Buckets[m]
<1>1. s \in Seq(Investors) /\ SampleSize \in Nat /\ cursor[m] \in Nat
  BY ScanConstants
<1>2. LastBucket(m) \in Nat /\ LastBucket(m) <= Len(s)
  BY <1>1 DEF LastBucket
<1>3. \A j \in (cursor[m] + 1)..LastBucket(m) : s[j] \in Investors
  <2> SUFFICES ASSUME NEW j \in (cursor[m] + 1)..LastBucket(m)
               PROVE  s[j] \in Investors
    OBVIOUS
  <2>1. j \in 1..Len(s)
    BY <1>1, <1>2
  <2> QED
    BY <1>1, <2>1
<1>4. SubSeq(s, cursor[m] + 1, LastBucket(m)) \in Seq(Investors)
  BY <1>1, <1>2, <1>3, SubSeqProperties
<1> QED
  BY <1>2, <1>4, CachedOfType

\* A goroutine reads allKeys, scans, and writes it back.
LEMMA GoroutineTypes ==
  ASSUME Slices, NEW m \in Masters, Test(m) \/ Scan(m) \/ AppendKeys(m) \/ ScanFails(m),
         phase = "scan"
  PROVE  Slices'
<1>1. phase' = phase
  BY DEF Test, Scan, AppendKeys, ScanFails
<1>2. CASE Test(m) \/ ScanFails(m)
  BY <1>2 DEF Test, ScanFails, Slices
<1>3. CASE Scan(m)
  <2>1. LastBucket(m) \in Nat /\ 0 \in Nat
    BY ScanTypes DEF Slices
  <2>2. cursor' \in [Masters -> Nat]
    BY <1>3, <2>1 DEF Scan, Slices
  <2>3. PICK new \in Seq(Investors) :
          new = CachedOf(SubSeq(Buckets[m], cursor[m] + 1, LastBucket(m)))
    BY ScanTypes DEF Slices
  <2>4. held' = [held EXCEPT ![m] = [old |-> allKeys, new |-> new]]
    BY <1>3, <2>3 DEF Scan
  <2>5. [old |-> allKeys, new |-> new] \in [old : Seq(Keys), new : Seq(Investors)]
    BY DEF Slices
  <2>6. held' \in [Masters -> [old : Seq(Keys), new : Seq(Investors)]]
    BY <2>4, <2>5 DEF Slices
  <2> QED
    BY <1>1, <1>3, <2>2, <2>6 DEF Scan, Slices
<1>4. CASE AppendKeys(m)
  <2>1. held[m].old \in Seq(Keys) /\ held[m].new \in Seq(Investors)
    BY DEF Slices
  <2>2. PICK s \in [DOMAIN held[m].new -> Keys] : allKeys' = held[m].old \o s
    BY <1>4 DEF AppendKeys
  <2>3. allKeys' \in Seq(Keys)
    <3>1. DOMAIN held[m].new = 1..Len(held[m].new) /\ Len(held[m].new) \in Nat
      BY <2>1
    <3>2. s \in Seq(Keys)
      BY <3>1
    <3> QED
      BY <2>1, <2>2, <3>2, ConcatProperties
  <2>4. Nothing \in [old : Seq(Keys), new : Seq(Investors)]
    BY DEF Nothing
  <2>5. held' \in [Masters -> [old : Seq(Keys), new : Seq(Investors)]]
    BY <1>4, <2>4 DEF AppendKeys, Slices
  <2> QED
    BY <1>1, <1>4, <2>3, <2>5 DEF AppendKeys, Slices
<1> QED
  BY <1>2, <1>3, <1>4

\* What remains of a sample.
LEMMA NextKeyTypes ==
  ASSUME Slices, allKeys # <<>>, NextKey
  PROVE  Slices'
<1>1. Tail(allKeys) \in Seq(Keys)
  BY HeadTailProperties DEF Slices
<1> QED
  BY <1>1 DEF NextKey, scanVars, Slices

\* The loop of reconcile, from the start of a cycle to its end.
LEMMA LoopTypes ==
  ASSUME Slices,
         \/ StartCycle \/ Sampled \/ SamplingFailed \/ GetEntry \/ ReadRow \/ Evict
         \/ CycleDone \/ CallFails \/ Die
  PROVE  Slices'
<1>1. CASE StartCycle \/ CycleDone
  BY <1>1 DEF StartCycle, CycleDone, scanVars, Slices
<1>2. ASSUME NoScan
      PROVE  /\ cursor' \in [Masters -> Nat]
             /\ held' \in [Masters -> [old : Seq(Keys), new : Seq(Investors)]]
  BY <1>2 DEF NoScan, Nothing
<1>3. CASE SamplingFailed \/ Die
  <2>1. phase' = "idle" /\ allKeys' = <<>> /\ NoScan
    BY <1>3 DEF SamplingFailed, Die
  <2> QED
    BY <1>2, <2>1 DEF Slices
<1>4. CASE Sampled
  <2> DEFINE n == IF Len(allKeys) < SampleSize THEN Len(allKeys) ELSE SampleSize
  <2>1. phase' = "get" /\ allKeys' = SubSeq(allKeys, 1, n) /\ NoScan
    BY <1>4 DEF Sampled
  <2>2. allKeys \in Seq(Keys) /\ n \in Nat /\ n <= Len(allKeys)
    BY ScanConstants DEF Slices
  <2> HIDE DEF n
  <2>3. \A j \in 1..n : allKeys[j] \in Keys
    BY <2>2
  <2>4. allKeys' \in Seq(Keys)
    BY <2>1, <2>2, <2>3, SubSeqProperties
  <2> QED
    BY <1>2, <2>1, <2>4 DEF Slices
<1>5. CASE NextKey /\ (GetEntry \/ ReadRow \/ Evict \/ CallFails)
  <2>1. allKeys # <<>>
    BY <1>5 DEF GetEntry, ReadRow, Evict, CallFails, Slices
  <2> QED
    BY <1>5, <2>1, NextKeyTypes
<1>6. CASE ~NextKey /\ (GetEntry \/ ReadRow)
  <2>1. /\ phase' \in {"read", "delete"} /\ allKeys # <<>>
        /\ UNCHANGED <<allKeys, cursor, held>>
    BY <1>6 DEF GetEntry, ReadRow, scanVars, Slices
  <2> QED
    BY <2>1 DEF Slices
<1>7. NextKey \/ ~(Evict \/ CallFails)
  BY DEF Evict, CallFails
<1> QED
  BY <1>1, <1>3, <1>4, <1>5, <1>6, <1>7

\* Only the reconciler touches its variables.
LEMMA OwnVariables ==
  ASSUME [Next]_vars
  PROVE  Reconciling \/ UNCHANGED rvars
<1>1. ASSUME NEW i \in Investors, Change(i) \/ Read(i) \/ Expire(i)
      PROVE  UNCHANGED rvars
  BY <1>1 DEF Change, Read, Expire
<1>2. CASE AnnounceNext \/ \E S \in SUBSET owed : Settle(S)
  BY <1>2 DEF AnnounceNext, Announce, Settle
<1>3. CASE HandleNext
  BY <1>3 DEF HandleNext, Handle, GiveUp
<1>4. CASE \E t \in loads : Fill(t) \/ NoFill(t)
  BY <1>4 DEF Fill, NoFill
<1>5. CASE \E m \in Masters : FallBehind(m) \/ CatchUp(m) \/ Failover(m)
  BY <1>5 DEF FallBehind, CatchUp, Failover, Recovered
<1>6. CASE UNCHANGED vars
  BY <1>6 DEF vars
<1> QED
  BY <1>1, <1>2, <1>3, <1>4, <1>5, <1>6 DEF Next

\* So their types are its own affair.
LEMMA SlicesStep ==
  ASSUME Inv, Slices, [Next]_vars
  PROVE  Slices'
<1>1. CASE Reconciling
  <2>1. ASSUME NEW m \in Masters, Test(m) \/ Scan(m) \/ AppendKeys(m) \/ ScanFails(m)
        PROVE  Slices'
    <3>1. phase = "scan"
      BY <2>1 DEF Inv, InHand, Test, Scan, AppendKeys, ScanFails
    <3> QED
      BY <2>1, <3>1, GoroutineTypes
  <2> QED
    BY <1>1, <2>1, LoopTypes DEF Reconciling, Reconcile, ReconcileFails, SampleKeys
<1>2. CASE UNCHANGED rvars
  BY <1>2 DEF rvars, scanVars, Slices
<1> QED
  BY <1>1, <1>2, OwnVariables

\* A failure is counted up to its bound.
LEMMA FaultsStep ==
  ASSUME faults \in 0..MaxFaults, [Next]_vars
  PROVE  faults' \in 0..MaxFaults
<1>1. Fault => faults' \in 0..MaxFaults
  BY ScanConstants DEF Fault
<1>2. ASSUME NEW i \in Investors, Change(i) \/ Read(i) \/ Expire(i)
      PROVE  faults' = faults
  BY <1>2 DEF Change, Read, Expire
<1>3. CASE AnnounceNext \/ \E S \in SUBSET owed : Settle(S)
  BY <1>3 DEF AnnounceNext, Announce, Settle
<1>4. CASE HandleNext
  BY <1>1, <1>4 DEF HandleNext, Handle, GiveUp
<1>5. CASE \E t \in loads : Fill(t) \/ NoFill(t)
  BY <1>5 DEF Fill, NoFill
<1>6. CASE \E m \in Masters : FallBehind(m) \/ CatchUp(m) \/ Failover(m)
  BY <1>1, <1>6 DEF FallBehind, CatchUp, Failover, Recovered
<1>7. CASE Reconciling
  <2>1. Fault \/ faults' = faults
    BY <1>7
    DEF Reconciling, Reconcile, ReconcileFails, SampleKeys, StartCycle, Test, Scan,
        AppendKeys, Sampled, SamplingFailed, GetEntry, ReadRow, Evict, CycleDone,
        ScanFails, CallFails, Die
  <2> QED
    BY <1>1, <2>1
<1>8. CASE UNCHANGED vars
  BY <1>8 DEF vars
<1> QED
  BY <1>1, <1>2, <1>3, <1>4, <1>5, <1>6, <1>7, <1>8 DEF Next

\* Versions grow to their bound, and only versions are read.
LEMMA BoundsStep ==
  ASSUME TInv, [Next]_vars
  PROVE  Bounds'
<1>1. faults' \in 0..MaxFaults
  BY FaultsStep DEF TInv, Bounds
<1>2. ASSUME version' = version, lagging' \subseteq Masters,
             \A t \in loads' : t[2] >= 1
      PROVE  Bounds'
  BY <1>1, <1>2 DEF TInv, Bounds
<1>3. lagging' \subseteq Masters
  <2>1. ASSUME NEW m \in Masters, FallBehind(m) \/ CatchUp(m) \/ Failover(m)
        PROVE  lagging' \subseteq Masters
    BY <2>1 DEF FallBehind, CatchUp, Failover, Recovered, TInv, Bounds
  <2>2. \/ lagging' = lagging
        \/ \E m \in Masters : FallBehind(m) \/ CatchUp(m) \/ Failover(m)
    <3>1. ASSUME NEW i \in Investors, Change(i) \/ Read(i) \/ Expire(i)
          PROVE  lagging' = lagging
      BY <3>1 DEF Change, Read, Expire, durable
    <3>2. CASE AnnounceNext \/ \E S \in SUBSET owed : Settle(S)
      BY <3>2 DEF AnnounceNext, Announce, Settle, durable
    <3>3. CASE HandleNext
      BY <3>3 DEF HandleNext, Handle, GiveUp, durable
    <3>4. CASE (\E t \in loads : Fill(t) \/ NoFill(t)) \/ Reconciling \/ UNCHANGED vars
      BY <3>4 DEF Fill, NoFill, Reconciling, vars, durable
    <3> QED
      BY <3>1, <3>2, <3>3, <3>4 DEF Next
  <2> QED
    BY <2>1, <2>2 DEF TInv, Bounds
<1>4. ASSUME NEW i \in Investors, Change(i) PROVE Bounds'
  <2>1. /\ version[i] < MaxVersion[i] /\ loads' = loads
        /\ version' = [version EXCEPT ![i] = version[i] + 1]
    BY <1>4 DEF Change, Writer!Change
  <2>2. version \in [Investors -> Nat]
    BY DEF TInv, Inv, Types
  <2>3. ASSUME NEW j \in Investors PROVE version'[j] \in 1..MaxVersion[j]
    <3>1. version[j] \in 1..MaxVersion[j] /\ MaxVersion[j] \in Nat
      BY ScanConstants DEF TInv, Bounds
    <3>2. version'[j] = IF j = i THEN version[j] + 1 ELSE version[j]
      BY <2>1, <2>2
    <3> QED
      BY <2>1, <3>1, <3>2
  <2> QED
    BY <1>1, <1>3, <2>1, <2>3 DEF TInv, Bounds
<1>5. ASSUME NEW i \in Investors, Read(i) PROVE Bounds'
  <2>1. loads' = loads \cup {<<i, version[i]>>} /\ version' = version
    BY <1>5 DEF Read, Load
  <2>2. version[i] \in 1..MaxVersion[i] /\ MaxVersion[i] \in Nat
    BY ScanConstants DEF TInv, Bounds
  <2>3. \A t \in loads' : t[2] >= 1
    BY <2>1, <2>2 DEF TInv, Bounds
  <2> QED
    BY <1>2, <1>3, <2>1, <2>3
<1>6. ASSUME version' = version, loads' \subseteq loads PROVE Bounds'
  BY <1>2, <1>3, <1>6 DEF TInv, Bounds
<1>7. CASE AnnounceNext \/ \E S \in SUBSET owed : Settle(S)
  BY <1>6, <1>7 DEF AnnounceNext, Announce, Settle, Writer!Announce, Writer!Settle
<1>8. CASE HandleNext
  BY <1>6, <1>8 DEF HandleNext, Handle, GiveUp, Drop, cvars
<1>9. ASSUME NEW t \in loads, Fill(t) \/ NoFill(t) PROVE Bounds'
  BY <1>6, <1>9 DEF Fill, NoFill, Store, Forget
<1>10. CASE \/ \E i \in Investors : Expire(i)
            \/ \E m \in Masters : FallBehind(m) \/ CatchUp(m) \/ Failover(m)
  <2>1. version' = version /\ loads' = loads
    BY <1>10 DEF Expire, Drop, FallBehind, CatchUp, Failover, Recovered, cvars
  <2> QED
    BY <1>6, <2>1
<1>11. CASE Reconciling
  <2>1. version' = version /\ loads' = loads
    BY <1>11
    DEF Reconciling, Reconcile, ReconcileFails, SampleKeys, StartCycle, Test, Scan,
        AppendKeys, Sampled, SamplingFailed, GetEntry, ReadRow, Evict, Drop, CycleDone,
        ScanFails, CallFails, Die, cvars
  <2> QED
    BY <1>6, <2>1
<1>12. CASE UNCHANGED vars
  BY <1>6, <1>12 DEF vars, cvars
<1> QED
  BY <1>4, <1>5, <1>7, <1>8, <1>9, <1>10, <1>11, <1>12 DEF Next

\* Both invariants together.
LEMMA TypeInvariance == Spec => []TInv
<1>1. TInv /\ [Next]_vars => TInv'
  <2> SUFFICES ASSUME TInv, [Next]_vars PROVE TInv'
    OBVIOUS
  <2>1. Inv'
    BY NextInv DEF TInv
  <2>2. Slices'
    BY SlicesStep DEF TInv
  <2> QED
    BY <2>1, <2>2, BoundsStep DEF TInv
<1> QED
  BY <1>1, InitTypes, PTL DEF Spec

\* The variables have their types, whatever the goroutines make of allKeys.
THEOREM TypeCorrect == Spec => []TypeOK
<1>1. TInv => TypeOK
  <2> SUFFICES ASSUME TInv PROVE TypeOK
    OBVIOUS
  <2>1. ASSUME NEW i \in Investors
        PROVE  version[i] \in Nat \ {0} /\ version[i] <= MaxVersion[i]
    <3>1. MaxVersion[i] \in Nat /\ version[i] \in 1..MaxVersion[i]
      BY ScanConstants DEF TInv, Bounds
    <3> QED
      BY <3>1
  <2>2. version \in [Investors -> Nat \ {0}]
    BY <2>1 DEF TInv, Inv, Types
  <2>3. ASSUME NEW t \in loads PROVE t[1] \in Investors /\ t[2] \in 1..version[t[1]]
    <3>1. t[1] \in Investors /\ t[2] \in Nat /\ t[2] <= version[t[1]] /\ t[2] >= 1
      BY DEF TInv, Inv, Types, Bounds
    <3>2. version[t[1]] \in Nat
      BY <2>1, <3>1
    <3> QED
      BY <3>1, <3>2
  <2>4. ReconcilerTypeOK
    BY DEF TInv, Inv, InHand, Bounds, Slices, ReconcilerTypeOK
  <2> QED
    BY <2>1, <2>2, <2>3, <2>4 DEF TInv, Inv, Types, Bounds, TypeOK
<1> QED
  BY <1>1, TypeInvariance, PTL

-----------------------------------------------------------------------------
(* Theorems                                                                *)

\* What is stale when the reconciler deletes it was found to be stale before.
THEOREM EvictionsAreOfStale == Spec => EvictsOnlyStale
<1>1. Inv /\ [Next]_vars => [EvictsStale]_vars
  BY DEF Inv, InHand, EvictsStale, Evict
<1> QED
  BY <1>1, Invariance, PTL DEF Spec, EvictsOnlyStale

\* Coverage does not depend on the read side.
LEMMA ElsewhereCovers ==
  ASSUME Elsewhere, NEW i \in Investors, Covered(i)
  PROVE  Covered(i)'
BY DEF Elsewhere, Covered, Writer!Announced

\* An entry that stays or goes is no worse off while its investor is covered
\* as before.
LEMMA NoWorse ==
  ASSUME NEW i \in Investors, Covered(i) => Covered(i)',
         version'[i] = version[i], cache'[i] \in {0, cache[i]},
         Uncovered(i)'
  PROVE  Uncovered(i)
BY DEF Uncovered

\* The write side covers an investor when it changes.
LEMMA WriteSideCovers ==
  ASSUME Inv, NEW i \in Investors, Uncovered(i)', ~Uncovered(i),
         \/ \E j \in Investors : Change(j)
         \/ \E j \in Investors : \E v \in 2..version[j] : Announce(EventOf(j, v))
         \/ \E S \in SUBSET owed : Settle(S)
  PROVE  FALSE
<1>1. cache' = cache
  BY DEF Change, Announce, Settle
<1>2. ASSUME NEW j \in Investors, Change(j) PROVE FALSE
  <2>1. j # i
    BY <1>2, ChangeStep DEF Uncovered
  <2>2. Covered(i) => Covered(i)'
    BY <1>2, ChangeStep
  <2>3. version'[i] = version[i]
    BY <1>2, <2>1 DEF Change, Writer!Change, Inv, Types
  <2> QED
    BY <1>1, <2>2, <2>3, NoWorse
<1>3. ASSUME NEW j \in Investors, NEW v \in 2..version[j], Announce(EventOf(j, v))
      PROVE  FALSE
  <2>1. Covered(i) => Covered(i)'
    BY <1>3, AnnounceStep
  <2>2. version' = version
    BY <1>3 DEF Announce, Writer!Announce
  <2> QED
    BY <1>1, <2>1, <2>2, NoWorse
<1>4. ASSUME NEW S \in SUBSET owed, Settle(S) PROVE FALSE
  <2>1. Covered(i) => Covered(i)'
    BY <1>4, SettleStep
  <2>2. version' = version
    BY <1>4 DEF Settle, Writer!Settle
  <2> QED
    BY <1>1, <2>1, <2>2, NoWorse
<1> QED
  BY <1>2, <1>3, <1>4

\* A message that is handled takes the entry with it.
LEMMA WorkersUncover ==
  ASSUME Inv, NEW i \in Investors, Uncovered(i)', ~Uncovered(i),
         NEW p \in Partitions, NEW k \in DOMAIN topic[p],
         Handle(p, k) \/ GiveUp(p, k)
  PROVE  Race(i)
<1>1. cache \in [Investors -> Nat]
  BY DEF Inv, Types
<1>2. CASE topic[p][k].inv # i
  <2>1. Covered(i) => Covered(i)'
    BY <1>2, WorkerStep
  <2>2. version' = version
    BY DEF Handle, GiveUp, Drop, cvars
  <2>3. cache'[i] = cache[i]
    BY <1>1, <1>2 DEF Handle, GiveUp, Drop, cvars
  <2> QED
    BY <2>1, <2>2, <2>3, NoWorse
<1>3. CASE topic[p][k].inv = i
  <2>1. CASE GiveUp(p, k)
    <3>1. <<p, k, i>> \in pending
      BY <1>3, <2>1 DEF GiveUp
    <3> QED
      BY <2>1, <3>1 DEF Race
  <2>2. CASE Handle(p, k)
    <3>1. cache' = [cache EXCEPT ![i] = 0]
      BY <1>3, <2>2 DEF Handle, Drop
    <3>2. cache'[i] = 0
      BY <1>1, <3>1
    <3> QED
      BY <3>2 DEF Uncovered
  <2> QED
    BY <2>1, <2>2
<1> QED
  BY <1>2, <1>3

\* A stale version gets stored uncovered only if it was read before the last
\* deletion.
LEMMA FillsUncover ==
  ASSUME Inv, NEW i \in Investors, Uncovered(i)', ~Uncovered(i), NEW t \in loads,
         Fill(t) \/ NoFill(t)
  PROVE  Race(i)
<1>1. Elsewhere
  BY FillStep
<1>2. Covered(i) => Covered(i)'
  BY <1>1, ElsewhereCovers
<1>3. version' = version
  BY <1>1 DEF Elsewhere
<1>4. cache'[i] \notin {0, cache[i]}
  BY <1>2, <1>3, NoWorse
<1>5. /\ cache \in [Investors -> Nat]
      /\ t[1] \in Investors /\ t[2] \in Nat /\ t[2] <= version[t[1]]
      /\ version[i] \in Nat /\ told[i] \in Nat
  BY DEF Inv, Types
<1>6. Fill(t) /\ cache' = [cache EXCEPT ![t[1]] = IF @ # 0 /\ @ >= t[2] THEN @ ELSE t[2]]
  BY <1>4 DEF Fill, NoFill, Store, Forget
<1>7. t[1] = i /\ cache'[i] = t[2]
  BY <1>4, <1>5, <1>6
<1>8. t[2] < version[i]
  BY <1>3, <1>5, <1>7 DEF Uncovered
<1>9. ~(told[i] < version[i])
  BY <1>2 DEF Uncovered, Inv, ToldOrCovered
<1>10. t[2] < told[i]
  BY <1>5, <1>8, <1>9
<1> QED
  BY <1>6, <1>7, <1>10 DEF Race

\* Redis and the reconciler only take entries away, but for a failover.
LEMMA RedisUncovers ==
  ASSUME Inv, NEW i \in Investors, Uncovered(i)', ~Uncovered(i),
         \/ \E j \in Investors : Read(j)
         \/ \E j \in Investors : Expire(j)
         \/ \E m \in Masters : FallBehind(m) \/ CatchUp(m) \/ Failover(m)
         \/ Reconciling
  PROVE  Race(i)
<1>1. Elsewhere
  BY ReadStep, RedisStep, ReconcilingStep
<1>2. Covered(i) => Covered(i)'
  BY <1>1, ElsewhereCovers
<1>3. cache'[i] \notin {0, cache[i]}
  BY <1>1, <1>2, NoWorse DEF Elsewhere
<1>4. cache \in [Investors -> Nat]
  BY DEF Inv, Types
<1>5. ASSUME NEW j, cache' = [cache EXCEPT ![j] = 0] PROVE FALSE
  BY <1>3, <1>4, <1>5
<1>6. ASSUME NEW j \in Investors, Read(j) PROVE FALSE
  BY <1>3, <1>6 DEF Read, Load
<1>7. ASSUME NEW j \in Investors, Expire(j) PROVE FALSE
  BY <1>5, <1>7 DEF Expire, Drop
<1>8. CASE Reconciling
  <2>1. Evict
    BY <1>3, <1>8, ReconcilingStep
  <2>2. cache' = [cache EXCEPT ![Key] = 0]
    BY <2>1 DEF Evict, Drop
  <2> QED
    BY <1>5, <2>2
<1>9. ASSUME NEW m \in Masters, FallBehind(m) \/ CatchUp(m) PROVE FALSE
  BY <1>3, <1>9 DEF FallBehind, CatchUp, cvars
<1>10. ASSUME NEW m \in Masters, Failover(m) PROVE Race(i)
  <2>1. i \in KeysOf(m)
    BY <1>3, <1>10 DEF Failover
  <2> QED
    BY <1>10, <2>1 DEF Race
<1> QED
  BY <1>6, <1>7, <1>8, <1>9, <1>10

\* Of all that the system may do, in any order, only three races leave a stale
\* entry behind that nothing will delete.
THEOREM OnlyThreeRaces == Spec => OnlyRacesUncover
<1>1. Inv /\ [Next]_vars => [UncoveredByRace]_vars
  <2> SUFFICES ASSUME Inv, Next, NEW i \in Investors, Uncovered(i)', ~Uncovered(i)
               PROVE  Race(i)
    BY DEF UncoveredByRace
  <2>1. CASE \/ \E j \in Investors : Change(j)
             \/ \E j \in Investors : \E v \in 2..version[j] : Announce(EventOf(j, v))
             \/ \E S \in SUBSET owed : Settle(S)
    BY <2>1, WriteSideCovers
  <2>2. ASSUME NEW p \in Partitions, NEW k \in DOMAIN topic[p],
               Handle(p, k) \/ GiveUp(p, k)
        PROVE  Race(i)
    BY <2>2, WorkersUncover
  <2>3. ASSUME NEW t \in loads, Fill(t) \/ NoFill(t) PROVE Race(i)
    BY <2>3, FillsUncover
  <2>4. CASE \/ \E j \in Investors : Read(j)
             \/ \E j \in Investors : Expire(j)
             \/ \E m \in Masters : FallBehind(m) \/ CatchUp(m) \/ Failover(m)
             \/ Reconciling
    BY <2>4, RedisUncovers
  <2> QED
    BY <2>1, <2>2, <2>3, <2>4, Steps
<1> QED
  BY <1>1, Invariance, PTL DEF Spec, OnlyRacesUncover

\* No race happens.
NoRaces == [][\A i \in Investors : ~Race(i)]_vars

\* Every entry is current, or invalidation is about to delete it.
CurrentOrCovered ==
  \A i \in Investors : cache[i] \in {0, version[i]} \/ Covered(i)

\* Cache coherence, but for the races: with retried and repeated announcements
\* and deletions, expiry, failed calls and a racy reconciler, a stale entry
\* always has a deletion coming for as long as none of the three happens.
THEOREM CoherentButForRaces == Spec /\ NoRaces => []CurrentOrCovered
<1>1. Init => CurrentOrCovered
  BY DEF Init, CInit, CurrentOrCovered
<1>2. /\ CurrentOrCovered /\ [UncoveredByRace]_vars
      /\ [\A i \in Investors : ~Race(i)]_vars
      => CurrentOrCovered'
  <2> SUFFICES ASSUME CurrentOrCovered, [UncoveredByRace]_vars,
                      [\A i \in Investors : ~Race(i)]_vars,
                      NEW i \in Investors
               PROVE  ~Uncovered(i)'
    BY DEF CurrentOrCovered, Uncovered
  <2>1. ~Uncovered(i)
    BY DEF CurrentOrCovered, Uncovered
  <2>2. CASE UNCHANGED vars
    <3>1. UNCHANGED <<version, cache, owed, topic, pending>>
      BY <2>2 DEF vars, cvars, wvars
    <3> QED
      BY <2>1, <3>1 DEF Uncovered, Covered, Writer!Announced
  <2>3. CASE UncoveredByRace /\ \A j \in Investors : ~Race(j)
    BY <2>1, <2>3 DEF UncoveredByRace
  <2> QED
    BY <2>2, <2>3
<1> QED
  BY <1>1, <1>2, OnlyThreeRaces, PTL DEF Spec, NoRaces, OnlyRacesUncover

\* No entry is newer than its row, and what a lagging master goes back to is
\* not either.
NothingAhead ==
  \A i \in Investors : cache[i] <= version[i] /\ saved[i] <= version[i]

\* The reconciler, for which an entry that is ahead of its row would never be
\* stale, has none to miss: not even a failover puts one into the cache.
THEOREM EntriesAreCommitted == Spec => []NothingAhead
<1>1. ASSUME Init PROVE NothingAhead
  <2>1. /\ version = [i \in Investors |-> 1] /\ cache = [i \in Investors |-> 0]
        /\ saved = [i \in Investors |-> 0]
    BY <1>1 DEF Init, CInit
  <2>2. \A i \in Investors : version[i] = 1 /\ cache[i] = 0 /\ saved[i] = 0
    BY <2>1
  <2>3. 0 <= 1
    OBVIOUS
  <2> QED
    BY <2>2, <2>3 DEF NothingAhead
<1>2. Inv /\ Inv' /\ NothingAhead /\ [Next]_vars => NothingAhead'
  <2> SUFFICES ASSUME Inv, Inv', NothingAhead, [Next]_vars
               PROVE  NothingAhead'
    OBVIOUS
  <2>1. /\ version \in [Investors -> Nat] /\ cache \in [Investors -> Nat]
        /\ saved \in [Investors -> Nat] /\ version' \in [Investors -> Nat]
    BY DEF Inv, Types
  <2>2. ASSUME \A i \in Investors : /\ version'[i] >= version[i]
                                    /\ cache'[i] \in {0, cache[i]}
                                    /\ saved'[i] = saved[i]
        PROVE  NothingAhead'
    <3> SUFFICES ASSUME NEW i \in Investors
                 PROVE  cache'[i] <= version'[i] /\ saved'[i] <= version'[i]
      BY DEF NothingAhead
    <3>1. /\ version[i] \in Nat /\ version'[i] \in Nat /\ cache[i] \in Nat
          /\ saved[i] \in Nat /\ cache[i] <= version[i] /\ saved[i] <= version[i]
      BY <2>1 DEF NothingAhead
    <3> QED
      BY <2>2, <3>1
  <2>3. ASSUME NEW i \in Investors, Change(i) PROVE NothingAhead'
    <3>1. /\ version' = [version EXCEPT ![i] = version[i] + 1]
          /\ cache' = cache /\ saved' = saved
      BY <2>3 DEF Change, Writer!Change, durable
    <3> QED
      BY <2>1, <2>2, <3>1
  <2>4. CASE \/ \E i \in Investors : \E v \in 2..version[i] : Announce(EventOf(i, v))
             \/ \E S \in SUBSET owed : Settle(S)
             \/ \E i \in Investors : Read(i)
    <3>1. version' = version /\ cache' = cache /\ saved' = saved
      BY <2>4 DEF Announce, Settle, Read, Load, Writer!Announce, Writer!Settle, durable
    <3> QED
      BY <2>1, <2>2, <3>1
  <2>5. ASSUME version' = version, saved' = saved, NEW j,
               cache' \in {cache, [cache EXCEPT ![j] = 0]}
        PROVE  NothingAhead'
    BY <2>1, <2>2, <2>5
  <2>6. ASSUME NEW p \in Partitions, NEW k \in DOMAIN topic[p], Handle(p, k) \/ GiveUp(p, k)
        PROVE  NothingAhead'
    BY <2>5, <2>6 DEF Handle, GiveUp, Drop, cvars, durable
  <2>7. ASSUME NEW t \in loads, Fill(t) \/ NoFill(t) PROVE NothingAhead'
    <3>1. t[1] \in Investors /\ t[2] \in Nat /\ t[2] <= version[t[1]]
      BY DEF Inv, Types
    <3>2. /\ version' = version /\ saved' = saved
          /\ \/ cache' = cache
             \/ cache' = [cache EXCEPT ![t[1]] = IF @ # 0 /\ @ >= t[2] THEN @ ELSE t[2]]
      BY <2>7 DEF Fill, NoFill, Store, Forget, durable
    <3> QED
      BY <2>1, <3>1, <3>2 DEF NothingAhead
  <2>8. ASSUME NEW i \in Investors, Expire(i) PROVE NothingAhead'
    <3>1. /\ version' = version /\ saved' = saved
          /\ cache' \in {cache, [cache EXCEPT ![i] = 0]}
      BY <2>8 DEF Expire, Drop, durable
    <3> QED
      BY <2>5, <3>1
  <2>9. ASSUME NEW m \in Masters, FallBehind(m) \/ CatchUp(m) \/ Failover(m)
        PROVE  NothingAhead'
    <3>1. /\ version' = version
          /\ \A i \in Investors : cache'[i] \in {cache[i], saved[i]}
          /\ \A i \in Investors : saved'[i] \in {saved[i], cache[i], 0}
      BY <2>9 DEF FallBehind, CatchUp, Failover, Recovered, cvars
    <3> QED
      BY <2>1, <3>1 DEF NothingAhead
  <2>10. CASE Reconciling
    <3>1. /\ version' = version /\ saved' = saved
          /\ (cache' = cache \/ cache' = [cache EXCEPT ![Key] = 0])
      BY <2>10, ReconcilingStep DEF Reconciling, Elsewhere, Evict, Drop, durable
    <3> QED
      BY <2>5, <3>1
  <2>11. CASE UNCHANGED vars
    <3>1. version' = version /\ cache' = cache /\ saved' = saved
      BY <2>11 DEF vars, cvars, durable
    <3> QED
      BY <2>1, <2>2, <3>1
  <2> QED
    BY <2>3, <2>4, <2>6, <2>7, <2>8, <2>9, <2>10, <2>11, Steps
<1> QED
  BY <1>1, <1>2, Invariance, PTL DEF Spec

\* What a goroutine will write back extends the slice as it is.
NothingOverwritten ==
  /\ allKeys \in Seq(Investors)
  /\ \A m \in Masters : /\ held[m].new \in Seq(Investors)
                        /\ at[m] = "append" => held[m].old = allKeys

\* The unlocked slice is only harmful to a cluster: with one master no key is
\* lost or garbled on its way into the sample.
THEOREM OneMasterSamplesKeys ==
  ASSUME NEW M, Masters = {M}
  PROVE  Spec => []NothingOverwritten
<1>1. ASSUME Init PROVE NothingOverwritten
  <2>1. /\ allKeys = <<>> /\ at = [m \in Masters |-> "end"]
        /\ held = [m \in Masters |-> Nothing]
    BY <1>1 DEF Init, RInit
  <2>2. \A m \in Masters : held[m].new = <<>> /\ at[m] = "end"
    BY <2>1 DEF Nothing
  <2>3. <<>> \in Seq(Investors)
    OBVIOUS
  <2> QED
    BY <2>1, <2>2, <2>3 DEF NothingOverwritten
<1>2. TInv /\ NothingOverwritten /\ [Next]_vars => NothingOverwritten'
  <2> SUFFICES ASSUME TInv, NothingOverwritten, [Next]_vars
               PROVE  NothingOverwritten'
    OBVIOUS
  <2> USE DEF NothingOverwritten
  <2>1. /\ M \in Masters /\ held[M].new \in Seq(Investors)
        /\ at[M] = "append" => held[M].old = allKeys
        /\ at \in [Masters -> {"test", "scan", "append", "end", "failed"}]
        /\ held \in [Masters -> [old : Seq(Keys), new : Seq(Investors)]]
    BY DEF TInv, Inv, InHand, Slices
  <2>2. ASSUME allKeys' \in Seq(Investors), held' = held, at'[M] # "append"
        PROVE  NothingOverwritten'
    BY <2>1, <2>2
  <2>3. CASE Test(M) \/ ScanFails(M)
    <3>1. allKeys' = allKeys /\ held' = held /\ at'[M] # "append"
      BY <2>1, <2>3 DEF Test, ScanFails
    <3> QED
      BY <2>2, <3>1
  <2>4. CASE Scan(M)
    <3>1. CachedOf(SubSeq(Buckets[M], cursor[M] + 1, LastBucket(M))) \in Seq(Investors)
      BY ScanTypes DEF TInv, Slices
    <3>2. held'[M].old = allKeys /\ held'[M].new \in Seq(Investors) /\ allKeys' = allKeys
      BY <2>1, <2>4, <3>1 DEF Scan
    <3> QED
      BY <3>2
  <2>5. CASE AppendKeys(M)
    <3> DEFINE new == held[M].new
    <3>1. allKeys' = allKeys \o new
      <4>1. held[M].old = allKeys
        BY <2>1, <2>5 DEF AppendKeys
      <4>2. PICK s \in [DOMAIN new -> Keys] :
              /\ allKeys' = allKeys \o s
              /\ \A j \in DOMAIN s :
                   s[j] = new[j] \/ Others(M, Len(allKeys) + j) # {}
        BY <2>5, <4>1 DEF AppendKeys
      <4>3. ASSUME NEW j \in DOMAIN new PROVE Others(M, Len(allKeys) + j) = {}
        <5>1. j \in Nat \ {0} /\ Len(allKeys) \in Nat /\ DOMAIN allKeys = 1..Len(allKeys)
          BY <2>1
        <5>2. {Len(allKeys) + j} \cap DOMAIN allKeys = {}
          BY <5>1
        <5>3. Masters \ {M} = {}
          OBVIOUS
        <5> QED
          BY <5>2, <5>3 DEF Others
      <4>4. \A j \in DOMAIN new : s[j] = new[j]
        BY <4>2, <4>3
      <4>5. s = new
        BY <2>1, <4>4
      <4> QED
        BY <4>2, <4>5
    <3> HIDE DEF new
    <3>2. allKeys' \in Seq(Investors)
      BY <2>1, <3>1, ConcatProperties DEF new
    <3>3. at'[M] # "append" /\ held'[M].new \in Seq(Investors)
      BY <2>1, <2>5 DEF AppendKeys, AfterAppend, Nothing
    <3> QED
      BY <3>2, <3>3
  <2>6. ASSUME NoScan, allKeys' \in Seq(Investors) PROVE NothingOverwritten'
    <3>1. at'[M] = "end" /\ held'[M].new = <<>>
      BY <2>1, <2>6 DEF NoScan, Nothing
    <3>2. held'[M].new \in Seq(Investors)
      BY <3>1
    <3> QED
      BY <2>6, <3>1, <3>2
  <2>7. CASE Sampled
    <3> DEFINE n == IF Len(allKeys) < SampleSize THEN Len(allKeys) ELSE SampleSize
    <3>1. allKeys' = SubSeq(allKeys, 1, n) /\ NoScan
      BY <2>7 DEF Sampled
    <3>2. n \in Nat /\ n <= Len(allKeys)
      BY ScanConstants
    <3> HIDE DEF n
    <3>3. \A j \in 1..n : allKeys[j] \in Investors
      BY <3>2
    <3>4. allKeys' \in Seq(Investors)
      BY <3>1, <3>2, <3>3, SubSeqProperties
    <3> QED
      BY <2>6, <3>1, <3>4
  <2>8. CASE SamplingFailed \/ Die
    <3>1. NoScan /\ allKeys' = <<>>
      BY <2>8 DEF SamplingFailed, Die
    <3> QED
      BY <2>6, <3>1
  <2>9. CASE StartCycle
    <3>1. allKeys' = allKeys /\ held' = held /\ at'[M] # "append"
      BY <2>1, <2>9 DEF StartCycle
    <3> QED
      BY <2>2, <3>1
  <2>10. CASE NextKey /\ (GetEntry \/ ReadRow \/ Evict \/ CallFails)
    <3>1. allKeys # <<>> /\ allKeys' = Tail(allKeys) /\ UNCHANGED <<at, held>>
      BY <2>10 DEF GetEntry, ReadRow, Evict, CallFails, NextKey, scanVars, TInv, Slices
    <3>2. allKeys' \in Seq(Investors)
      BY <3>1, HeadTailProperties
    <3>3. phase # "scan"
      BY <2>10 DEF GetEntry, ReadRow, Evict, CallFails
    <3>4. at[M] # "append"
      BY <2>1, <3>3 DEF TInv, Inv, InHand
    <3> QED
      BY <2>2, <3>1, <3>2, <3>4
  <2>11. ASSUME UNCHANGED <<allKeys, at, held>> PROVE NothingOverwritten'
    BY <2>11
  <2>12. CASE CycleDone \/ (~NextKey /\ (GetEntry \/ ReadRow))
    <3>1. UNCHANGED <<allKeys, at, held>>
      BY <2>12 DEF CycleDone, GetEntry, ReadRow, scanVars
    <3> QED
      BY <2>11, <3>1
  <2>13. CASE UNCHANGED rvars
    BY <2>11, <2>13 DEF rvars, scanVars
  <2>14. NextKey \/ ~(Evict \/ CallFails)
    BY DEF Evict, CallFails
  <2>15. Reconciling \/ UNCHANGED rvars
    BY OwnVariables
  <2> QED
    BY <2>3, <2>4, <2>5, <2>7, <2>8, <2>9, <2>10, <2>12, <2>13, <2>14, <2>15
    DEF Reconciling, Reconcile, ReconcileFails, SampleKeys
<1> QED
  BY <1>1, <1>2, TypeInvariance, PTL DEF Spec

-----------------------------------------------------------------------------
(* Sampling comes to its end                                               *)

\* A cursor other than 0 is of buckets still to be scanned.
CursorsInside ==
  \A m \in Masters : cursor[m] = 0 \/ cursor[m] < Len(Buckets[m])

\* A SCAN goes on behind the buckets scanned, or from the end to cursor 0.
LEMMA ScanGoesOn ==
  ASSUME TInv, CursorsInside, NEW m \in Masters, Scan(m)
  PROVE  \/ cursor'[m] = 0
         \/ cursor'[m] > cursor[m] /\ cursor'[m] < Len(Buckets[m])
<1>1. SampleSize \in Nat \ {0} /\ Len(Buckets[m]) \in Nat
  BY ReconcilerAssumption DEF ReconcilerAssumption
<1>2. cursor \in [Masters -> Nat]
  BY DEF TInv, Slices
<1>3. cursor'[m] = IF LastBucket(m) = Len(Buckets[m]) THEN 0 ELSE LastBucket(m)
  BY <1>2 DEF Scan
<1>4. /\ LastBucket(m) # Len(Buckets[m]) => LastBucket(m) = cursor[m] + SampleSize
      /\ LastBucket(m) <= Len(Buckets[m])
  BY <1>1, <1>2 DEF LastBucket
<1>5. CASE LastBucket(m) = Len(Buckets[m])
  BY <1>3, <1>5
<1>6. CASE LastBucket(m) # Len(Buckets[m])
  <2>1. cursor'[m] = cursor[m] + SampleSize
    BY <1>3, <1>4, <1>6
  <2>2. cursor[m] + SampleSize < Len(Buckets[m])
    BY <1>1, <1>2, <1>4, <1>6
  <2>3. cursor[m] + SampleSize > cursor[m]
    BY <1>1, <1>2
  <2> QED
    BY <2>1, <2>2, <2>3
<1> QED
  BY <1>5, <1>6

\* The goroutine of m steps, the others do not.
LEMMA OneGoroutine ==
  ASSUME TInv, NEW m \in Masters, Test(m) \/ Scan(m) \/ AppendKeys(m) \/ ScanFails(m)
  PROVE  /\ \A n \in Masters \ {m} : UNCHANGED <<at[n], cursor[n]>>
         /\ ~Scan(m) => UNCHANGED cursor
<1>1. /\ at \in [Masters -> {"test", "scan", "append", "end", "failed"}]
      /\ cursor \in [Masters -> Nat]
  BY DEF TInv, Inv, InHand, Slices
<1> QED
  BY <1>1 DEF Test, Scan, AppendKeys, ScanFails

\* While keys are sampled, a step is a goroutine's or leaves them all alone.
LEMMA SamplingStep ==
  ASSUME TInv, [Next]_vars
  PROVE  \/ \E m \in Masters : Test(m) \/ Scan(m) \/ AppendKeys(m) \/ ScanFails(m)
         \/ UNCHANGED <<at, cursor>>
         \/ phase = "idle" /\ UNCHANGED cursor
         \/ phase' # "scan" /\ NoScan
<1>1. CASE UNCHANGED rvars
  BY <1>1 DEF rvars, scanVars
<1>2. CASE StartCycle
  BY <1>2 DEF StartCycle
<1>3. CASE Sampled \/ SamplingFailed \/ Die
  BY <1>3 DEF Sampled, SamplingFailed, Die
<1>4. CASE GetEntry \/ ReadRow \/ Evict \/ CallFails \/ CycleDone
  BY <1>4 DEF GetEntry, ReadRow, Evict, CallFails, CycleDone, NextKey, scanVars
<1> QED
  BY <1>1, <1>2, <1>3, <1>4, OwnVariables
  DEF Reconciling, Reconcile, ReconcileFails, SampleKeys

\* Cursors stay inside.
LEMMA CursorStep ==
  ASSUME TInv, CursorsInside, [Next]_vars
  PROVE  CursorsInside'
<1>1. ASSUME NEW m \in Masters, Test(m) \/ Scan(m) \/ AppendKeys(m) \/ ScanFails(m)
      PROVE  CursorsInside'
  <2>1. CASE Scan(m)
    BY <1>1, <2>1, OneGoroutine, ScanGoesOn DEF CursorsInside
  <2>2. CASE ~Scan(m)
    BY <1>1, <2>2, OneGoroutine DEF CursorsInside
  <2> QED
    BY <2>1, <2>2
<1>2. CASE UNCHANGED cursor
  BY <1>2 DEF CursorsInside
<1>3. CASE NoScan
  BY <1>3 DEF NoScan, CursorsInside
<1> QED
  BY <1>1, <1>2, <1>3, SamplingStep

\* A goroutine's step brings it nearer to its end.
LEMMA StepsAreFewer ==
  ASSUME TInv, CursorsInside, NEW m \in Masters,
         Test(m) \/ Scan(m) \/ AppendKeys(m) \/ ScanFails(m)
  PROVE  Left(m)' < Left(m)
<1> DEFINE buckets == Len(Buckets[m]) - cursor[m]
<1>1. /\ at \in [Masters -> {"test", "scan", "append", "end", "failed"}]
      /\ cursor \in [Masters -> Nat]
  BY DEF TInv, Inv, InHand, Slices
<1>2. Len(Buckets[m]) \in Nat /\ cursor[m] \in Nat
  BY <1>1, ScanConstants
<1>3. buckets \in Nat
  BY <1>2 DEF CursorsInside
<1>4. CASE Test(m) \/ ScanFails(m)
  <2>1. cursor' = cursor
    BY <1>4 DEF Test, ScanFails
  <2>2. \/ at[m] = "test" /\ at'[m] \in {"scan", "end"}
        \/ at[m] = "scan" /\ at'[m] = "failed"
    BY <1>1, <1>4 DEF Test, ScanFails
  <2> QED
    BY <1>3, <2>1, <2>2 DEF Left
<1>5. CASE Scan(m)
  <2>1. at[m] = "scan" /\ at'[m] = "append"
    BY <1>1, <1>5 DEF Scan
  <2>2. Left(m) = 3 * buckets + 2
    BY <2>1 DEF Left
  <2>3. Left(m)' = IF cursor'[m] = 0 THEN 1
                   ELSE 3 * (Len(Buckets[m]) - cursor'[m]) + 4
    BY <2>1 DEF Left
  <2>4. PICK c : c = cursor'[m]
    OBVIOUS
  <2>5. c = 0 \/ (c \in Nat /\ c > cursor[m] /\ c < Len(Buckets[m]))
    <3>1. cursor' \in [Masters -> Nat]
      <4>1. LastBucket(m) \in Nat /\ 0 \in Nat
        BY <1>1, ScanTypes
      <4> QED
        BY <1>1, <1>5, <4>1 DEF Scan
    <3> QED
      BY <1>5, <2>4, <3>1, ScanGoesOn
  <2> QED
    BY <1>2, <1>3, <2>2, <2>3, <2>4, <2>5
<1>6. CASE AppendKeys(m)
  <2>1. cursor' = cursor /\ at[m] = "append"
        /\ at'[m] = IF cursor[m] = 0 THEN "end" ELSE "test"
    BY <1>1, <1>6 DEF AppendKeys, AfterAppend
  <2>2. Left(m) = IF cursor[m] = 0 THEN 1 ELSE 3 * buckets + 4
    BY <2>1 DEF Left
  <2>3. Left(m)' = IF cursor[m] = 0 THEN 0 ELSE 3 * buckets + 3
    BY <2>1 DEF Left
  <2> QED
    BY <1>3, <2>2, <2>3
<1> QED
  BY <1>4, <1>5, <1>6

\* For any masters, keys and sample size: a goroutine of sampleKeys makes at most
\* 3 * Len(Buckets[m]) + 3 steps, however often the others overwrite its keys.
THEOREM SamplingAdvances == Spec => SampleAdvances
<1>1. Init => CursorsInside
  BY DEF Init, RInit, CursorsInside
<1>2. TInv /\ CursorsInside /\ [Next]_vars => [GoroutinesAdvance]_vars
  <2> SUFFICES ASSUME TInv, CursorsInside, [Next]_vars, phase = "scan", phase' = "scan",
                      NEW n \in Masters
               PROVE  UNCHANGED <<at[n], cursor[n]>> \/ Left(n)' < Left(n)
    BY DEF GoroutinesAdvance
  <2>1. ASSUME NEW m \in Masters, Test(m) \/ Scan(m) \/ AppendKeys(m) \/ ScanFails(m)
        PROVE  UNCHANGED <<at[n], cursor[n]>> \/ Left(n)' < Left(n)
    <3>1. CASE n = m
      BY <2>1, <3>1, StepsAreFewer
    <3>2. CASE n # m
      BY <2>1, <3>2, OneGoroutine
    <3> QED
      BY <3>1, <3>2
  <2> QED
    BY <2>1, SamplingStep
<1> QED
  BY <1>1, <1>2, CursorStep, TypeInvariance, PTL DEF Spec, SampleAdvances
=============================================================================
