---------------------------- MODULE OutboxProofs ----------------------------
(***************************************************************************)
(* Proofs about module Outbox, for any number of investors, partitions,    *)
(* relays, transactions and faults: IInv is inductive, hence the safety    *)
(* properties of Outbox hold, and Outbox implements Notification.          *)
(***************************************************************************)
EXTENDS Outbox, SequenceTheorems, FiniteSetTheorems, TLAPS

-----------------------------------------------------------------------------
(* What a step of profile-service does to txs, row by row.                 *)

\* A committed row does not change any more and stays committed.
RowsStable ==
  \A n \in OutboxRows : n \in OutboxRows' /\ txs'[n] = txs[n]

\* What a transaction number is an index of.
LEMMA TxInSeq ==
  ASSUME TypeOK, NEW n \in DOMAIN txs
  PROVE  /\ n \in 1..Len(txs) /\ n \in 1..MaxTx
         /\ txs[n] \in Tx
         /\ txs[n].inv \in Investors
         /\ version[txs[n].inv] \in Nat \ {0}
<1>1. txs \in Seq(Tx) /\ DOMAIN txs = 1..Len(txs) /\ Len(txs) \in Nat
  BY DEF TypeOK
<1>2. txs[n] \in Tx
  BY <1>1
<1>3. Len(txs) <= MaxTx
  BY DEF TypeOK
<1>4. n \in 1..MaxTx
  BY <1>1, <1>3, OutboxAssumption DEF OutboxAssumption
<1>5. txs[n].inv \in Investors
  BY <1>2 DEF Tx
<1> QED
  BY <1>1, <1>2, <1>4, <1>5 DEF TypeOK

\* SetTx replaces one transaction and nothing else.
LEMMA SetTxEffect ==
  ASSUME TypeOK, NEW n \in DOMAIN txs, NEW s \in Stages, NEW v \in Nat,
         SetTx(n, s, v)
  PROVE  /\ txs' \in Seq(Tx)
         /\ Len(txs') = Len(txs)
         /\ DOMAIN txs = 1..Len(txs) /\ DOMAIN txs' = DOMAIN txs
         /\ txs[n].inv \in Investors
         /\ txs'[n] = [inv |-> txs[n].inv, ver |-> v, stage |-> s]
         /\ \A m \in DOMAIN txs : m # n => txs'[m] = txs[m]
<1> DEFINE t == [inv |-> txs[n].inv, ver |-> v, stage |-> s]
<1>1. txs \in Seq(Tx) /\ DOMAIN txs = 1..Len(txs) /\ txs[n] \in Tx
  BY DEF TypeOK
<1>2. t \in Tx
  BY <1>1 DEF Tx
<1>3. txs' = [txs EXCEPT ![n] = t]
  BY DEF SetTx
<1> HIDE DEF t
<1>4. /\ txs' \in Seq(Tx)
      /\ Len(txs') = Len(txs)
      /\ \A j \in 1..Len(txs) : txs'[j] = IF j = n THEN t ELSE txs[j]
  BY <1>1, <1>2, <1>3, ExceptSeq
<1>5. DOMAIN txs' = 1..Len(txs')
  BY <1>4
<1> QED
  BY <1>1, <1>4, <1>5 DEF t, Tx

\* BEGIN appends a transaction.
LEMMA BeginTxEffect ==
  ASSUME TypeOK, NEW i \in Investors, BeginTx(i)
  PROVE  /\ txs' \in Seq(Tx)
         /\ Len(txs') = Len(txs) + 1
         /\ DOMAIN txs = 1..Len(txs) /\ DOMAIN txs' = 1..Len(txs) + 1
         /\ txs'[Len(txs) + 1] = [inv |-> i, ver |-> 0, stage |-> "begun"]
         /\ \A m \in DOMAIN txs : txs'[m] = txs[m]
<1> DEFINE t == [inv |-> i, ver |-> 0, stage |-> "begun"]
<1>1. txs \in Seq(Tx) /\ DOMAIN txs = 1..Len(txs) /\ Len(txs) \in Nat
  BY DEF TypeOK
<1>2. t \in Tx
  BY DEF Tx, Stages
<1>3. txs' = Append(txs, t)
  BY DEF BeginTx
<1> HIDE DEF t
<1>4. /\ txs' \in Seq(Tx)
      /\ Len(txs') = Len(txs) + 1
      /\ \A m \in 1..Len(txs) : txs'[m] = txs[m]
      /\ txs'[Len(txs) + 1] = t
  BY <1>1, <1>2, <1>3, AppendProperties
<1>5. DOMAIN txs' = 1..Len(txs')
  BY <1>4
<1> QED
  BY <1>1, <1>4, <1>5 DEF t

-----------------------------------------------------------------------------
(* What each half of the system leaves alone.                              *)

\* Steps of profile-service keep what relays and Kafka know of the rows.
LEMMA WriteFrame ==
  ASSUME IInv, TypeOK', RowsStable,
         UNCHANGED <<published, relay, kafkaVars, faults>>
  PROVE  RowsInFlight' /\ RowsExclusive' /\ PublishedIsInTopic'
<1>1. /\ published' = published /\ relay' = relay
      /\ topic' = topic /\ delayed' = delayed
  BY DEF kafkaVars
<1>2. \A n \in OutboxRows : n \in OutboxRows' /\ (InTopic(n) => InTopic(n)')
  BY <1>1 DEF RowsStable, InTopic, NewProfileUpdatedEvent
<1>3. RowsInFlight'
  <2>1. ASSUME NEW r \in Relays
        PROVE  /\ relay[r].locked \subseteq OutboxRows'
               /\ relay[r].sent \subseteq relay[r].locked
               /\ \A n \in relay[r].sent : InTopic(n)'
    BY <1>2 DEF IInv, RowsInFlight
  <2>2. ASSUME NEW n \in 1..MaxTx, delayed[n] > 0
        PROVE  n \in OutboxRows'
    BY <1>2, <2>2 DEF IInv, RowsInFlight
  <2> QED
    BY <1>1, <2>1, <2>2 DEF RowsInFlight
<1>4. RowsExclusive'
  BY <1>1 DEF IInv, RowsExclusive
<1>5. PublishedIsInTopic'
  BY <1>1, <1>2 DEF IInv, PublishedIsInTopic
<1> QED
  BY <1>3, <1>4, <1>5

\* As long as the committed rows and versions stay, so does their relation.
LEMMA EventsFrame ==
  ASSUME EventPerVersion, RowsStable, OutboxRows' = OutboxRows,
         version' = version
  PROVE  EventPerVersion'
<1>1. \A n \in OutboxRows : txs'[n] = txs[n]
  BY DEF RowsStable
<1>2. \A n \in OutboxRows :
        NewProfileUpdatedEvent(n)' = NewProfileUpdatedEvent(n)
  BY <1>1 DEF NewProfileUpdatedEvent
<1>3. \A n \in OutboxRows' : txs'[n].ver \in 2..version'[txs'[n].inv]
  BY <1>1 DEF EventPerVersion
<1>4. \A m, n \in OutboxRows' :
        NewProfileUpdatedEvent(m)' = NewProfileUpdatedEvent(n)' => m = n
  BY <1>2 DEF EventPerVersion
<1>5. \A i \in Investors : \A v \in 2..version'[i] :
        \E n \in OutboxRows' : txs'[n].inv = i /\ txs'[n].ver = v
  BY <1>1 DEF EventPerVersion
<1> QED
  BY <1>3, <1>4, <1>5 DEF EventPerVersion

\* Steps of the relays and of Kafka leave investors and outbox rows alone.
LEMMA RelayFrame ==
  ASSUME IInv, version' = version, txs' = txs
  PROVE  /\ OutboxRows' = OutboxRows
         /\ \A n : NewProfileUpdatedEvent(n)' = NewProfileUpdatedEvent(n)
         /\ RowLock' /\ EventPerVersion'
<1>1. /\ OutboxRows' = OutboxRows
      /\ \A n : NewProfileUpdatedEvent(n)' = NewProfileUpdatedEvent(n)
  BY DEF OutboxRows, NewProfileUpdatedEvent
<1>2. RowLock'
  BY DEF IInv, RowLock, HoldsRow
<1>3. EventPerVersion'
  BY <1>1, EventsFrame DEF IInv, RowsStable
<1> QED
  BY <1>1, <1>2, <1>3

\* A message appended to the log of a row's partition is found there, and
\* whatever was found before is still found.
LEMMA WriteMessageEffect ==
  ASSUME IInv, NEW n \in OutboxRows, WriteMessage(n),
         version' = version, txs' = txs
  PROVE  /\ topic' \in [Partitions -> Seq(Message)]
         /\ InTopic(n)'
         /\ \A m \in OutboxRows : InTopic(m) => InTopic(m)'
<1> DEFINE e == NewProfileUpdatedEvent(n)
           p == PartitionOf[txs[n].inv]
<1>1. \A m \in OutboxRows : txs[m] \in Tx
  BY DEF IInv, TypeOK, OutboxRows
<1>2. e \in Message /\ p \in Partitions
  BY <1>1, OutboxAssumption
  DEF NewProfileUpdatedEvent, Message, Tx, OutboxAssumption
<1>3. topic \in [Partitions -> Seq(Message)]
  BY DEF IInv, TypeOK
<1>4. topic' = [topic EXCEPT ![p] = Append(topic[p], e)]
  BY DEF WriteMessage
<1>5. \A m \in OutboxRows : txs[m].inv \in Investors
  BY <1>1 DEF Tx
<1> HIDE DEF e, p
<1>6. topic[p] \in Seq(Message)
  BY <1>2, <1>3
<1>7. /\ Append(topic[p], e) \in Seq(Message)
      /\ Len(Append(topic[p], e)) = Len(topic[p]) + 1
      /\ Append(topic[p], e)[Len(topic[p]) + 1] = e
      /\ \A k \in 1..Len(topic[p]) : Append(topic[p], e)[k] = topic[p][k]
  BY <1>2, <1>6, AppendProperties
<1>8. DOMAIN Append(topic[p], e) = 1..Len(topic[p]) + 1 /\ Len(topic[p]) \in Nat
  BY <1>6, <1>7
<1>9. topic' \in [Partitions -> Seq(Message)]
  BY <1>2, <1>3, <1>4, <1>7
<1>10. Len(topic[p]) + 1 \in DOMAIN topic'[p] /\ topic'[p][Len(topic[p]) + 1] = e
  BY <1>2, <1>3, <1>4, <1>7, <1>8
<1>11. InTopic(n)'
  BY <1>10 DEF InTopic, e, p, NewProfileUpdatedEvent
<1>12. ASSUME NEW m \in OutboxRows, InTopic(m)
       PROVE  InTopic(m)'
  <2> DEFINE q == PartitionOf[txs[m].inv]
             f == NewProfileUpdatedEvent(m)
  <2>1. q \in Partitions
    BY <1>5, OutboxAssumption DEF OutboxAssumption
  <2>2. PICK k \in DOMAIN topic[q] : topic[q][k] = f
    BY <1>12 DEF InTopic
  <2> HIDE DEF q, f
  <2>3. k \in DOMAIN topic'[q] /\ topic'[q][k] = f
    <3>1. CASE q = p
      BY <1>2, <1>3, <1>4, <1>6, <1>7, <1>8, <2>2, <3>1
    <3>2. CASE q # p
      BY <1>3, <1>4, <2>1, <2>2, <3>2
    <3> QED
      BY <3>1, <3>2
  <2> QED
    BY <2>3 DEF InTopic, q, f, NewProfileUpdatedEvent
<1> QED
  BY <1>9, <1>11, <1>12

-----------------------------------------------------------------------------
(* profile-service preserves the invariant.                                *)

\* BEGIN of UpdateProfile: a transaction that holds nothing yet.
LEMMA BeginTxInv ==
  ASSUME IInv, NEW i \in Investors, BeginTx(i)
  PROVE  IInv'
<1>1. TypeOK
  BY DEF IInv
<1>2. /\ txs' \in Seq(Tx)
      /\ Len(txs') = Len(txs) + 1
      /\ DOMAIN txs = 1..Len(txs) /\ DOMAIN txs' = 1..Len(txs) + 1
      /\ txs'[Len(txs) + 1] = [inv |-> i, ver |-> 0, stage |-> "begun"]
      /\ \A m \in DOMAIN txs : txs'[m] = txs[m]
  BY <1>1, BeginTxEffect
<1>3. Len(txs) \in Nat /\ Len(txs) < MaxTx
  BY <1>1 DEF TypeOK, BeginTx
<1>4. \A m \in DOMAIN txs' : m \in DOMAIN txs \/ m = Len(txs) + 1
  BY <1>2, <1>3
<1>5. TypeOK'
  BY <1>1, <1>2, <1>3, OutboxAssumption
  DEF TypeOK, BeginTx, kafkaVars, OutboxAssumption
<1>6. OutboxRows' = OutboxRows /\ RowsStable
  BY <1>2, <1>3, <1>4 DEF OutboxRows, RowsStable
<1>7. RowLock'
  BY <1>2, <1>3, <1>4 DEF IInv, RowLock, HoldsRow, BeginTx
<1>8. EventPerVersion'
  BY <1>6, EventsFrame DEF IInv, BeginTx
<1>9. RowsInFlight' /\ RowsExclusive' /\ PublishedIsInTopic'
  BY <1>5, <1>6, WriteFrame DEF BeginTx
<1> QED
  BY <1>5, <1>7, <1>8, <1>9 DEF IInv

\* UPDATE ... RETURNING version: the row lock makes the new version unique.
LEMMA UpdateInv ==
  ASSUME IInv, NEW n \in DOMAIN txs, Update(n)
  PROVE  IInv'
<1> DEFINE v == version[txs[n].inv] + 1
<1>1. TypeOK
  BY DEF IInv
<1>2. txs[n].inv \in Investors /\ v \in Nat /\ "updated" \in Stages
  BY <1>1, TxInSeq DEF Stages
<1>3. SetTx(n, "updated", v)
  BY DEF Update, IncrementCacheVersion
<1> HIDE DEF v
<1>4. /\ txs' \in Seq(Tx)
      /\ Len(txs') = Len(txs) /\ DOMAIN txs' = DOMAIN txs
      /\ txs'[n] = [inv |-> txs[n].inv, ver |-> v, stage |-> "updated"]
      /\ \A m \in DOMAIN txs : m # n => txs'[m] = txs[m]
  BY <1>1, <1>2, <1>3, SetTxEffect
<1>5. TypeOK'
  BY <1>1, <1>4 DEF TypeOK, Update, kafkaVars
<1>6. OutboxRows' = OutboxRows /\ RowsStable
  BY <1>4 DEF OutboxRows, RowsStable, Update
<1>7. RowLock'
  <2>1. \A m \in DOMAIN txs : m # n /\ HoldsRow(m)' =>
          /\ HoldsRow(m)
          /\ txs'[m] = txs[m]
          /\ txs[m].inv # txs[n].inv
    BY <1>4 DEF HoldsRow, Update
  <2>2. txs'[n].ver = version'[txs'[n].inv] + 1
    BY <1>4 DEF v, Update
  <2>3. ASSUME NEW m \in DOMAIN txs', HoldsRow(m)'
        PROVE  txs'[m].ver = version'[txs'[m].inv] + 1
    BY <1>4, <2>1, <2>2, <2>3 DEF IInv, RowLock, Update
  <2>4. ASSUME NEW l \in DOMAIN txs', NEW m \in DOMAIN txs',
               HoldsRow(l)', HoldsRow(m)', txs'[l].inv = txs'[m].inv
        PROVE  l = m
    BY <1>4, <2>1, <2>4 DEF IInv, RowLock
  <2> QED
    BY <2>3, <2>4 DEF RowLock
<1>8. EventPerVersion'
  BY <1>6, EventsFrame DEF IInv, Update
<1>9. RowsInFlight' /\ RowsExclusive' /\ PublishedIsInTopic'
  BY <1>5, <1>6, WriteFrame DEF Update
<1> QED
  BY <1>5, <1>7, <1>8, <1>9 DEF IInv

\* INSERT INTO outbox, in the transaction and with the version it read back.
LEMMA AddEventInv ==
  ASSUME IInv, NEW n \in DOMAIN txs, AddEvent(n)
  PROVE  IInv'
<1>1. TypeOK
  BY DEF IInv
<1>2. txs[n].ver \in Nat /\ "inserted" \in Stages
  BY <1>1, TxInSeq DEF Tx, Stages
<1>3. /\ txs' \in Seq(Tx)
      /\ Len(txs') = Len(txs) /\ DOMAIN txs' = DOMAIN txs
      /\ txs'[n] = [inv |-> txs[n].inv, ver |-> txs[n].ver,
                    stage |-> "inserted"]
      /\ \A m \in DOMAIN txs : m # n => txs'[m] = txs[m]
  BY <1>1, <1>2, SetTxEffect DEF AddEvent
<1>4. TypeOK'
  BY <1>1, <1>3 DEF TypeOK, AddEvent, kafkaVars
<1>5. OutboxRows' = OutboxRows /\ RowsStable
  BY <1>3 DEF OutboxRows, RowsStable, AddEvent
<1>6. RowLock'
  <2>1. \A m \in DOMAIN txs : /\ HoldsRow(m)' => HoldsRow(m)
                             /\ txs'[m].inv = txs[m].inv
                             /\ txs'[m].ver = txs[m].ver
    BY <1>3 DEF HoldsRow, AddEvent
  <2> QED
    BY <1>3, <2>1 DEF IInv, RowLock, AddEvent
<1>7. EventPerVersion'
  BY <1>5, EventsFrame DEF IInv, AddEvent
<1>8. RowsInFlight' /\ RowsExclusive' /\ PublishedIsInTopic'
  BY <1>4, <1>5, WriteFrame DEF AddEvent
<1> QED
  BY <1>4, <1>6, <1>7, <1>8 DEF IInv

\* ROLLBACK of UpdateProfile: the lock and the rows go together.
LEMMA RollbackTxInv ==
  ASSUME IInv, NEW n \in DOMAIN txs, RollbackTx(n)
  PROVE  IInv'
<1>1. TypeOK
  BY DEF IInv
<1>2. "aborted" \in Stages
  BY DEF Stages
<1>3. /\ txs' \in Seq(Tx)
      /\ Len(txs') = Len(txs) /\ DOMAIN txs' = DOMAIN txs
      /\ txs'[n] = [inv |-> txs[n].inv, ver |-> 0, stage |-> "aborted"]
      /\ \A m \in DOMAIN txs : m # n => txs'[m] = txs[m]
  BY <1>1, <1>2, SetTxEffect DEF RollbackTx
<1>4. TypeOK'
  BY <1>1, <1>3 DEF TypeOK, RollbackTx, kafkaVars
<1>5. OutboxRows' = OutboxRows /\ RowsStable
  BY <1>3 DEF OutboxRows, RowsStable, RollbackTx
<1>6. RowLock'
  <2>1. \A m \in DOMAIN txs :
          HoldsRow(m)' => HoldsRow(m) /\ txs'[m] = txs[m]
    BY <1>3 DEF HoldsRow
  <2> QED
    BY <1>3, <2>1 DEF IInv, RowLock, RollbackTx
<1>7. EventPerVersion'
  BY <1>5, EventsFrame DEF IInv, RollbackTx
<1>8. RowsInFlight' /\ RowsExclusive' /\ PublishedIsInTopic'
  BY <1>4, <1>5, WriteFrame DEF RollbackTx
<1> QED
  BY <1>4, <1>6, <1>7, <1>8 DEF IInv

\* What COMMIT makes visible, and that it is the next version.
LEMMA CommitTxEffect ==
  ASSUME IInv, NEW n \in DOMAIN txs, CommitTx(n)
  PROVE  /\ txs' \in Seq(Tx)
         /\ Len(txs') = Len(txs) /\ DOMAIN txs' = DOMAIN txs
         /\ txs'[n] = [inv |-> txs[n].inv, ver |-> txs[n].ver,
                       stage |-> "committed"]
         /\ \A m \in DOMAIN txs : m # n => txs'[m] = txs[m]
         /\ n \notin OutboxRows
         /\ OutboxRows' = OutboxRows \cup {n}
         /\ RowsStable
         /\ txs[n].inv \in Investors
         /\ txs[n].ver = version[txs[n].inv] + 1
         /\ version' = [version EXCEPT ![txs[n].inv] = txs[n].ver]
<1>1. TypeOK
  BY DEF IInv
<1>2. txs[n].inv \in Investors /\ txs[n].ver \in Nat /\ "committed" \in Stages
  BY <1>1, TxInSeq DEF Tx, Stages
<1>3. /\ txs' \in Seq(Tx)
      /\ Len(txs') = Len(txs) /\ DOMAIN txs' = DOMAIN txs
      /\ txs'[n] = [inv |-> txs[n].inv, ver |-> txs[n].ver,
                    stage |-> "committed"]
      /\ \A m \in DOMAIN txs : m # n => txs'[m] = txs[m]
  BY <1>1, <1>2, SetTxEffect DEF CommitTx
<1>4. n \notin OutboxRows /\ OutboxRows' = OutboxRows \cup {n}
  BY <1>3 DEF OutboxRows, CommitTx
<1>5. RowsStable
  <2>1. \A m \in OutboxRows : m \in DOMAIN txs /\ m # n
    BY <1>4 DEF OutboxRows
  <2> QED
    BY <1>3, <1>4, <2>1 DEF RowsStable
<1>6. txs[n].ver = version[txs[n].inv] + 1
  BY DEF IInv, RowLock, HoldsRow, CommitTx
<1> QED
  BY <1>2, <1>3, <1>4, <1>5, <1>6 DEF CommitTx

\* COMMIT of UpdateProfile: the version and its row become visible at once.
LEMMA CommitTxInv ==
  ASSUME IInv, NEW n \in DOMAIN txs, CommitTx(n)
  PROVE  IInv'
<1> DEFINE i == txs[n].inv
           v == txs[n].ver
<1>1. TypeOK
  BY DEF IInv
<1>2. /\ txs' \in Seq(Tx)
      /\ Len(txs') = Len(txs) /\ DOMAIN txs' = DOMAIN txs
      /\ txs'[n] = [inv |-> i, ver |-> v, stage |-> "committed"]
      /\ \A m \in DOMAIN txs : m # n => txs'[m] = txs[m]
      /\ n \notin OutboxRows
      /\ OutboxRows' = OutboxRows \cup {n}
      /\ RowsStable
      /\ i \in Investors /\ v = version[i] + 1
      /\ version' = [version EXCEPT ![i] = v]
  BY CommitTxEffect
<1>3. version \in [Investors -> Nat \ {0}] /\ version[i] \in Nat \ {0}
  BY <1>1, <1>2 DEF TypeOK
<1>4. TypeOK'
  BY <1>1, <1>2, <1>3 DEF TypeOK, CommitTx, kafkaVars
<1>5. RowLock'
  <2>1. \A m \in DOMAIN txs : HoldsRow(m)' =>
          HoldsRow(m) /\ m # n /\ txs'[m] = txs[m]
    BY <1>2 DEF HoldsRow
  <2>2. \A m \in DOMAIN txs : HoldsRow(m)' => txs[m].inv # i
    BY <2>1 DEF IInv, RowLock, HoldsRow, CommitTx
  <2>3. \A m \in DOMAIN txs : HoldsRow(m)' =>
          version'[txs[m].inv] = version[txs[m].inv]
    BY <1>1, <1>2, <1>3, <2>2, TxInSeq
  <2> QED
    BY <1>2, <2>1, <2>3 DEF IInv, RowLock
<1>6. EventPerVersion'
  <2>1. \A m \in OutboxRows : /\ txs'[m] = txs[m]
                              /\ m # n
                              /\ txs[m].inv \in Investors
                              /\ txs[m].ver \in 2..version[txs[m].inv]
    BY <1>1, <1>2, TxInSeq DEF IInv, EventPerVersion, RowsStable, OutboxRows
  <2>2. \A j \in Investors : version[j] \in Nat /\ version'[j] >= version[j]
    BY <1>2, <1>3
  <2>3. version'[i] = v
    BY <1>2, <1>3
  <2>4. \A m \in OutboxRows' : txs'[m].ver \in 2..version'[txs'[m].inv]
    BY <1>2, <1>3, <2>1, <2>2, <2>3
  <2>5. \A m \in OutboxRows : ~(txs[m].inv = i /\ txs[m].ver = v)
    BY <1>2, <1>3, <2>1
  <2>6. ASSUME NEW l \in OutboxRows', NEW m \in OutboxRows',
               NewProfileUpdatedEvent(l)' = NewProfileUpdatedEvent(m)'
        PROVE  l = m
    <3>1. txs'[l].inv = txs'[m].inv /\ txs'[l].ver = txs'[m].ver
      BY <2>6 DEF NewProfileUpdatedEvent
    <3>2. CASE l # n /\ m # n
      <4>1. l \in OutboxRows /\ m \in OutboxRows
        BY <1>2, <3>2
      <4>2. NewProfileUpdatedEvent(l) = NewProfileUpdatedEvent(m)
        BY <2>1, <3>1, <4>1 DEF NewProfileUpdatedEvent
      <4> QED
        BY <4>1, <4>2 DEF IInv, EventPerVersion
    <3> QED
      BY <1>2, <2>1, <2>5, <3>1, <3>2
  <2>7. ASSUME NEW j \in Investors, NEW w \in 2..version'[j]
        PROVE  \E m \in OutboxRows' : txs'[m].inv = j /\ txs'[m].ver = w
    <3>1. CASE w \in 2..version[j]
      <4>1. PICK m \in OutboxRows : txs[m].inv = j /\ txs[m].ver = w
        BY <3>1 DEF IInv, EventPerVersion
      <4> QED
        BY <1>2, <2>1, <4>1
    <3>2. CASE w \notin 2..version[j]
      <4>1. j = i /\ w = v
        BY <1>2, <1>3, <3>2
      <4> QED
        BY <1>2, <4>1
    <3> QED
      BY <3>1, <3>2
  <2> QED
    BY <2>4, <2>6, <2>7 DEF EventPerVersion
<1>7. RowsInFlight' /\ RowsExclusive' /\ PublishedIsInTopic'
  BY <1>2, <1>4, WriteFrame DEF CommitTx
<1> QED
  BY <1>4, <1>5, <1>6, <1>7 DEF IInv

-----------------------------------------------------------------------------
(* The relays and Kafka preserve the invariant.                            *)

\* FOR UPDATE SKIP LOCKED: a batch takes only rows nobody else holds.
LEMMA FetchInv ==
  ASSUME IInv, NEW r \in Relays, Fetch(r)
  PROVE  IInv'
<1>1. TypeOK /\ relay \in [Relays -> Cycle]
  BY DEF IInv, TypeOK
<1>2. /\ version' = version /\ txs' = txs /\ published' = published
      /\ topic' = topic /\ delayed' = delayed /\ faults' = faults
      /\ relay' = [relay EXCEPT ![r].locked = FetchUnpublished]
  BY DEF Fetch, kafkaVars
<1>3. /\ FetchUnpublished \subseteq OutboxRows \ published
      /\ \A q \in Relays : FetchUnpublished \cap relay[q].locked = {}
  BY DEF FetchUnpublished, Oldest
<1>4. OutboxRows \subseteq 1..MaxTx
  BY <1>1, TxInSeq DEF OutboxRows
<1>5. /\ relay'[r].locked = FetchUnpublished
      /\ relay'[r].sent = relay[r].sent /\ relay[r].sent = {}
      /\ \A q \in Relays : q # r => relay'[q] = relay[q]
  BY <1>1, <1>2 DEF Cycle, IInv, RowsInFlight, Fetch
<1>6. TypeOK'
  <2>1. relay' \in [Relays -> Cycle]
    BY <1>1, <1>2, <1>3, <1>4 DEF Cycle
  <2> QED
    BY <1>1, <1>2, <2>1 DEF TypeOK
<1>7. /\ OutboxRows' = OutboxRows
      /\ RowLock' /\ EventPerVersion'
  BY <1>2, RelayFrame
<1>8. \A n : InTopic(n)' <=> InTopic(n)
  BY <1>2 DEF InTopic, NewProfileUpdatedEvent
<1>9. RowsInFlight'
  BY <1>2, <1>3, <1>5, <1>7, <1>8 DEF IInv, RowsInFlight
<1>10. RowsExclusive'
  BY <1>2, <1>3, <1>5 DEF IInv, RowsExclusive
<1>11. PublishedIsInTopic'
  BY <1>2, <1>7, <1>8 DEF IInv, PublishedIsInTopic
<1> QED
  BY <1>6, <1>7, <1>9, <1>10, <1>11 DEF IInv

\* An acknowledged WriteMessages leaves the event in its log.
LEMMA PublishInv ==
  ASSUME IInv, NEW r \in Relays, Publish(r)
  PROVE  IInv'
<1>1. TypeOK /\ relay \in [Relays -> Cycle]
  BY DEF IInv, TypeOK
<1>2. PICK n \in relay[r].locked :
        /\ WriteMessage(n)
        /\ relay' = [relay EXCEPT ![r].sent = @ \cup {n}]
  BY DEF Publish
<1>3. /\ version' = version /\ txs' = txs /\ published' = published
      /\ delayed' = delayed /\ faults' = faults
  BY DEF Publish
<1>4. n \in OutboxRows /\ n \in 1..MaxTx
  BY <1>1, TxInSeq DEF IInv, RowsInFlight, OutboxRows
<1>5. /\ topic' \in [Partitions -> Seq(Message)]
      /\ InTopic(n)'
      /\ \A m \in OutboxRows : InTopic(m) => InTopic(m)'
  BY <1>2, <1>3, <1>4, WriteMessageEffect
<1>6. /\ \A q \in Relays : relay'[q].locked = relay[q].locked
      /\ relay'[r].sent = relay[r].sent \cup {n}
      /\ \A q \in Relays : q # r => relay'[q] = relay[q]
  BY <1>1, <1>2 DEF Cycle
<1>7. TypeOK'
  <2>1. relay' \in [Relays -> Cycle]
    BY <1>1, <1>2, <1>4 DEF Cycle
  <2> QED
    BY <1>1, <1>3, <1>5, <2>1 DEF TypeOK
<1>8. OutboxRows' = OutboxRows /\ RowLock' /\ EventPerVersion'
  BY <1>3, RelayFrame
<1>9. RowsInFlight'
  <2>1. ASSUME NEW q \in Relays
        PROVE  /\ relay'[q].locked \subseteq OutboxRows'
               /\ relay'[q].sent \subseteq relay'[q].locked
               /\ \A m \in relay'[q].sent : InTopic(m)'
    BY <1>4, <1>5, <1>6, <1>8 DEF IInv, RowsInFlight
  <2>2. \A m \in 1..MaxTx : delayed'[m] > 0 => m \in OutboxRows'
    BY <1>3, <1>8 DEF IInv, RowsInFlight
  <2> QED
    BY <2>1, <2>2 DEF RowsInFlight
<1>10. RowsExclusive'
  BY <1>3, <1>6 DEF IInv, RowsExclusive
<1>11. PublishedIsInTopic'
  BY <1>3, <1>5, <1>8 DEF IInv, PublishedIsInTopic
<1> QED
  BY <1>7, <1>8, <1>9, <1>10, <1>11 DEF IInv

\* A write nobody answered promises nothing, and may still arrive.
LEMMA UnansweredInv ==
  ASSUME IInv, NEW r \in Relays, Unanswered(r)
  PROVE  IInv'
<1>1. TypeOK
  BY DEF IInv
<1>2. PICK n \in relay[r].locked : delayed' = [delayed EXCEPT ![n] = @ + 1]
  BY DEF Unanswered
<1>3. /\ version' = version /\ txs' = txs /\ published' = published
      /\ relay' = relay /\ topic' = topic
      /\ faults' = faults + 1 /\ faults < MaxFaults
  BY DEF Unanswered
<1>4. n \in OutboxRows /\ n \in 1..MaxTx
  BY <1>1, TxInSeq DEF IInv, RowsInFlight, OutboxRows
<1>5. TypeOK'
  BY <1>1, <1>2, <1>3, <1>4, OutboxAssumption DEF TypeOK, OutboxAssumption
<1>6. OutboxRows' = OutboxRows /\ RowLock' /\ EventPerVersion'
  BY <1>3, RelayFrame
<1>7. \A m : InTopic(m)' <=> InTopic(m)
  BY <1>3 DEF InTopic, NewProfileUpdatedEvent
<1>8. \A m \in 1..MaxTx : delayed'[m] > 0 => m \in OutboxRows
  BY <1>1, <1>2, <1>4 DEF IInv, RowsInFlight, TypeOK
<1>9. RowsInFlight'
  BY <1>3, <1>6, <1>7, <1>8 DEF IInv, RowsInFlight
<1>10. RowsExclusive' /\ PublishedIsInTopic'
  BY <1>3, <1>6, <1>7 DEF IInv, RowsExclusive, PublishedIsInTopic
<1> QED
  BY <1>5, <1>6, <1>9, <1>10 DEF IInv

\* The late arrival only adds to the log.
LEMMA LateWriteInv ==
  ASSUME IInv, NEW n \in 1..MaxTx, LateWrite(n)
  PROVE  IInv'
<1>1. TypeOK
  BY DEF IInv
<1>2. /\ WriteMessage(n) /\ delayed[n] > 0
      /\ delayed' = [delayed EXCEPT ![n] = @ - 1]
      /\ version' = version /\ txs' = txs /\ published' = published
      /\ relay' = relay /\ faults' = faults
  BY DEF LateWrite
<1>3. n \in OutboxRows
  BY <1>2 DEF IInv, RowsInFlight
<1>4. /\ topic' \in [Partitions -> Seq(Message)]
      /\ \A m \in OutboxRows : InTopic(m) => InTopic(m)'
  BY <1>2, <1>3, WriteMessageEffect
<1>5. TypeOK'
  BY <1>1, <1>2, <1>4 DEF TypeOK
<1>6. OutboxRows' = OutboxRows /\ RowLock' /\ EventPerVersion'
  BY <1>2, RelayFrame
<1>7. \A m \in 1..MaxTx : delayed'[m] > 0 => m \in OutboxRows
  BY <1>1, <1>2, <1>3 DEF IInv, RowsInFlight, TypeOK
<1>8. RowsInFlight'
  BY <1>2, <1>4, <1>6, <1>7 DEF IInv, RowsInFlight
<1>9. RowsExclusive' /\ PublishedIsInTopic'
  BY <1>2, <1>4, <1>6 DEF IInv, RowsExclusive, PublishedIsInTopic
<1> QED
  BY <1>5, <1>6, <1>8, <1>9 DEF IInv

\* A refused write ends the batch; the rows before it stay sent.
LEMMA PublishFailsInv ==
  ASSUME IInv, NEW r \in Relays, PublishFails(r)
  PROVE  IInv'
<1>1. TypeOK /\ relay \in [Relays -> Cycle]
  BY DEF IInv, TypeOK
<1>2. /\ version' = version /\ txs' = txs /\ published' = published
      /\ topic' = topic /\ delayed' = delayed
      /\ faults' = faults + 1 /\ faults < MaxFaults
      /\ relay' = [relay EXCEPT ![r].stopped = TRUE]
  BY DEF PublishFails, kafkaVars
<1>3. \A q \in Relays : /\ relay'[q].locked = relay[q].locked
                         /\ relay'[q].sent = relay[q].sent
  BY <1>1, <1>2 DEF Cycle
<1>4. relay' \in [Relays -> Cycle]
  BY <1>1, <1>2 DEF Cycle
<1>5. TypeOK'
  BY <1>1, <1>2, <1>4, OutboxAssumption DEF TypeOK, OutboxAssumption
<1>6. OutboxRows' = OutboxRows /\ RowLock' /\ EventPerVersion'
  BY <1>2, RelayFrame
<1>7. \A m : InTopic(m)' <=> InTopic(m)
  BY <1>2 DEF InTopic, NewProfileUpdatedEvent
<1>8. RowsInFlight'
  BY <1>2, <1>3, <1>6, <1>7 DEF IInv, RowsInFlight
<1>9. RowsExclusive' /\ PublishedIsInTopic'
  BY <1>2, <1>3, <1>6, <1>7 DEF IInv, RowsExclusive, PublishedIsInTopic
<1> QED
  BY <1>5, <1>6, <1>8, <1>9 DEF IInv

\* A cycle that ends, either way, gives its rows back.
LEMMA EndOfCycle ==
  ASSUME IInv, NEW r \in Relays, relay' = [relay EXCEPT ![r] = NoCycle]
  PROVE  /\ relay' \in [Relays -> Cycle]
         /\ relay'[r].locked = {} /\ relay'[r].sent = {}
         /\ \A q \in Relays : q # r => relay'[q] = relay[q]
<1>1. relay \in [Relays -> Cycle] /\ NoCycle \in Cycle
  BY DEF IInv, TypeOK, NoCycle, Cycle
<1> QED
  BY <1>1 DEF NoCycle

\* COMMIT of runCycle marks only rows whose event is in the log.
LEMMA CommitCycleInv ==
  ASSUME IInv, NEW r \in Relays, CommitCycle(r)
  PROVE  IInv'
<1>1. TypeOK
  BY DEF IInv
<1>2. /\ version' = version /\ txs' = txs
      /\ topic' = topic /\ delayed' = delayed /\ faults' = faults
      /\ published' = published \cup relay[r].sent
      /\ relay' = [relay EXCEPT ![r] = NoCycle]
  BY DEF CommitCycle, MarkPublished, kafkaVars
<1>3. /\ relay' \in [Relays -> Cycle]
      /\ relay'[r].locked = {} /\ relay'[r].sent = {}
      /\ \A q \in Relays : q # r => relay'[q] = relay[q]
  BY <1>2, EndOfCycle
<1>4. /\ relay[r].sent \subseteq relay[r].locked
      /\ relay[r].locked \subseteq OutboxRows
      /\ \A n \in relay[r].sent : InTopic(n)
  BY DEF IInv, RowsInFlight
<1>5. OutboxRows \subseteq 1..MaxTx
  BY <1>1, TxInSeq DEF OutboxRows
<1>6. TypeOK'
  BY <1>1, <1>2, <1>3, <1>4, <1>5 DEF TypeOK
<1>7. OutboxRows' = OutboxRows /\ RowLock' /\ EventPerVersion'
  BY <1>2, RelayFrame
<1>8. \A m : InTopic(m)' <=> InTopic(m)
  BY <1>2 DEF InTopic, NewProfileUpdatedEvent
<1>9. RowsInFlight'
  BY <1>2, <1>3, <1>7, <1>8 DEF IInv, RowsInFlight
<1>10. RowsExclusive'
  BY <1>2, <1>3, <1>4 DEF IInv, RowsExclusive
<1>11. PublishedIsInTopic'
  BY <1>2, <1>4, <1>7, <1>8 DEF IInv, PublishedIsInTopic
<1> QED
  BY <1>6, <1>7, <1>9, <1>10, <1>11 DEF IInv

\* ROLLBACK of runCycle marks nothing and frees the rows.
LEMMA RollbackCycleInv ==
  ASSUME IInv, NEW r \in Relays, RollbackCycle(r)
  PROVE  IInv'
<1>1. TypeOK
  BY DEF IInv
<1>2. /\ version' = version /\ txs' = txs /\ published' = published
      /\ topic' = topic /\ delayed' = delayed
      /\ faults' = faults + 1 /\ faults < MaxFaults
      /\ relay' = [relay EXCEPT ![r] = NoCycle]
  BY DEF RollbackCycle, kafkaVars
<1>3. /\ relay' \in [Relays -> Cycle]
      /\ relay'[r].locked = {} /\ relay'[r].sent = {}
      /\ \A q \in Relays : q # r => relay'[q] = relay[q]
  BY <1>2, EndOfCycle
<1>4. TypeOK'
  BY <1>1, <1>2, <1>3, OutboxAssumption DEF TypeOK, OutboxAssumption
<1>5. OutboxRows' = OutboxRows /\ RowLock' /\ EventPerVersion'
  BY <1>2, RelayFrame
<1>6. \A m : InTopic(m)' <=> InTopic(m)
  BY <1>2 DEF InTopic, NewProfileUpdatedEvent
<1>7. RowsInFlight'
  BY <1>2, <1>3, <1>5, <1>6 DEF IInv, RowsInFlight
<1>8. RowsExclusive'
  BY <1>2, <1>3 DEF IInv, RowsExclusive
<1>9. PublishedIsInTopic'
  BY <1>2, <1>5, <1>6 DEF IInv, PublishedIsInTopic
<1> QED
  BY <1>4, <1>5, <1>7, <1>8, <1>9 DEF IInv

\* Nothing changes: IInv speaks of vars only.
LEMMA StutterInv ==
  ASSUME IInv, UNCHANGED vars
  PROVE  IInv'
<1>1. /\ version' = version /\ txs' = txs /\ published' = published
      /\ relay' = relay /\ topic' = topic /\ delayed' = delayed
      /\ faults' = faults
  BY DEF vars
<1>2. OutboxRows' = OutboxRows /\ RowLock' /\ EventPerVersion'
  BY <1>1, RelayFrame
<1>3. \A m : InTopic(m)' <=> InTopic(m)
  BY <1>1 DEF InTopic, NewProfileUpdatedEvent
<1>4. TypeOK'
  BY <1>1 DEF IInv, TypeOK
<1>5. RowsInFlight'
  BY <1>1, <1>2, <1>3 DEF IInv, RowsInFlight
<1>6. RowsExclusive' /\ PublishedIsInTopic'
  BY <1>1, <1>2, <1>3 DEF IInv, RowsExclusive, PublishedIsInTopic
<1> QED
  BY <1>2, <1>4, <1>5, <1>6 DEF IInv

-----------------------------------------------------------------------------
(* The invariant.                                                          *)

\* The empty outbox satisfies the invariant.
LEMMA InitInv ==
  ASSUME Init
  PROVE  IInv
<1>1. /\ txs = <<>> /\ txs \in Seq(Tx) /\ Len(txs) = 0 /\ DOMAIN txs = {}
      /\ published = {} /\ OutboxRows = {}
  BY DEF Init, OutboxRows
<1>2. NoCycle \in Cycle
  BY DEF NoCycle, Cycle
<1>3. relay \in [Relays -> Cycle] /\ \A r \in Relays : relay[r] = NoCycle
  BY <1>2 DEF Init
<1>4. topic \in [Partitions -> Seq(Message)]
  BY DEF Init
<1>5. TypeOK
  BY <1>1, <1>3, <1>4, OutboxAssumption DEF Init, TypeOK, OutboxAssumption
<1>6. RowLock
  BY <1>1 DEF RowLock
<1>7. EventPerVersion
  BY <1>1 DEF EventPerVersion, Init
<1>8. RowsInFlight
  BY <1>1, <1>3 DEF RowsInFlight, Init, NoCycle
<1>9. RowsExclusive /\ PublishedIsInTopic
  BY <1>1, <1>3 DEF RowsExclusive, PublishedIsInTopic, NoCycle
<1> QED
  BY <1>5, <1>6, <1>7, <1>8, <1>9 DEF IInv

\* Every step of the system keeps the invariant.
LEMMA NextInv ==
  ASSUME IInv, [Next]_vars
  PROVE  IInv'
<1>1. ASSUME NEW i \in Investors, BeginTx(i) PROVE IInv'
  BY <1>1, BeginTxInv
<1>2. ASSUME NEW n \in DOMAIN txs, Update(n) PROVE IInv'
  BY <1>2, UpdateInv
<1>3. ASSUME NEW n \in DOMAIN txs, AddEvent(n) PROVE IInv'
  BY <1>3, AddEventInv
<1>4. ASSUME NEW n \in DOMAIN txs, CommitTx(n) PROVE IInv'
  BY <1>4, CommitTxInv
<1>5. ASSUME NEW n \in DOMAIN txs, RollbackTx(n) PROVE IInv'
  BY <1>5, RollbackTxInv
<1>6. ASSUME NEW r \in Relays, Fetch(r) PROVE IInv'
  BY <1>6, FetchInv
<1>7. ASSUME NEW r \in Relays, Publish(r) PROVE IInv'
  BY <1>7, PublishInv
<1>8. ASSUME NEW r \in Relays, CommitCycle(r) PROVE IInv'
  BY <1>8, CommitCycleInv
<1>9. ASSUME NEW r \in Relays, Unanswered(r) PROVE IInv'
  BY <1>9, UnansweredInv
<1>10. ASSUME NEW r \in Relays, PublishFails(r) PROVE IInv'
  BY <1>10, PublishFailsInv
<1>11. ASSUME NEW r \in Relays, RollbackCycle(r) PROVE IInv'
  BY <1>11, RollbackCycleInv
<1>12. ASSUME NEW n \in 1..MaxTx, LateWrite(n) PROVE IInv'
  BY <1>12, LateWriteInv
<1>13. ASSUME UNCHANGED vars PROVE IInv'
  BY <1>13, StutterInv
<1> QED
  BY <1>1, <1>2, <1>3, <1>4, <1>5, <1>6, <1>7, <1>8, <1>9, <1>10, <1>11,
     <1>12, <1>13
  DEF Next, ProfileService, OutboxRelay, RunCycle, Quiescent

\* IInv is an invariant of the outbox.
THEOREM Invariance == Spec => []IInv
<1>1. Init => IInv
  BY InitInv
<1>2. IInv /\ [Next]_vars => IInv'
  BY NextInv
<1> QED
  BY <1>1, <1>2, PTL DEF Spec

\* The variables keep to their types.
THEOREM TypeCorrect == Spec => []TypeOK
<1>1. IInv => TypeOK
  BY DEF IInv
<1> QED
  BY <1>1, Invariance, PTL

\* One event per version and one version per event, whichever UpdateProfile
\* transactions race for an investor.
THEOREM OneEventPerVersion == Spec => []EventPerVersion
<1>1. IInv => EventPerVersion
  BY DEF IInv
<1> QED
  BY <1>1, Invariance, PTL

\* No row is marked published without its event being in Kafka.
THEOREM NothingLost == Spec => []PublishedIsInTopic
<1>1. IInv => PublishedIsInTopic
  BY DEF IInv
<1> QED
  BY <1>1, Invariance, PTL

\* No two relays work on the same row, none on a published one.
THEOREM RelaysDisjoint == Spec => []RowsExclusive
<1>1. IInv => RowsExclusive
  BY DEF IInv
<1> QED
  BY <1>1, Invariance, PTL

-----------------------------------------------------------------------------
(* How many copies of an event are in the log.                             *)

Occurrences(e, s) == {k \in DOMAIN s : s[k] = e}

\* A message appended to a log is one more of its own kind only.
LEMMA AppendCounts ==
  ASSUME NEW s \in Seq(Message), NEW a \in Message, NEW e
  PROVE  /\ Cardinality(Occurrences(e, s)) \in Nat
         /\ Cardinality(Occurrences(e, Append(s, a))) =
              Cardinality(Occurrences(e, s)) + (IF a = e THEN 1 ELSE 0)
<1> DEFINE old == Occurrences(e, s)
           new == Occurrences(e, Append(s, a))
           l == Len(s) + 1
<1>1. /\ DOMAIN s = 1..Len(s) /\ Len(s) \in Nat
      /\ DOMAIN Append(s, a) = 1..l
      /\ Append(s, a)[l] = a
      /\ \A k \in 1..Len(s) : Append(s, a)[k] = s[k]
  BY AppendProperties
<1>2. IsFiniteSet(1..Len(s))
  BY <1>1, FS_Interval
<1>3. old \in SUBSET (1..Len(s))
  BY <1>1 DEF Occurrences
<1>4. IsFiniteSet(old)
  BY <1>2, <1>3, FS_Subset
<1>5. Cardinality(old) \in Nat
  BY <1>4, FS_CardinalityType
<1>6. l \notin old
  BY <1>1, <1>3
<1>7. CASE a = e
  <2>1. new = old \cup {l}
    BY <1>1, <1>7 DEF Occurrences
  <2> QED
    BY <1>4, <1>5, <1>6, <1>7, <2>1, FS_AddElement
<1>8. CASE a # e
  <2>1. new = old
    BY <1>1, <1>8 DEF Occurrences
  <2> QED
    BY <1>5, <1>8, <2>1
<1> QED
  BY <1>7, <1>8

\* Copies counts the occurrences of a row's event in its partition.
LEMMA CopiesType ==
  ASSUME TypeOK, NEW n \in OutboxRows
  PROVE  /\ Copies(n) = Cardinality(Occurrences(NewProfileUpdatedEvent(n),
                                                topic[PartitionOf[txs[n].inv]]))
         /\ Copies(n) \in Nat
         /\ NewProfileUpdatedEvent(n) \in Message
         /\ PartitionOf[txs[n].inv] \in Partitions
         /\ n \in 1..MaxTx /\ delayed[n] \in Nat
         /\ faults \in Nat
<1>1. n \in 1..MaxTx /\ txs[n] \in Tx /\ txs[n].inv \in Investors
  BY TxInSeq DEF OutboxRows
<1>2. /\ NewProfileUpdatedEvent(n) \in Message
      /\ PartitionOf[txs[n].inv] \in Partitions
  BY <1>1, OutboxAssumption
  DEF NewProfileUpdatedEvent, Message, Tx, OutboxAssumption
<1>3. topic[PartitionOf[txs[n].inv]] \in Seq(Message)
  BY <1>2 DEF TypeOK
<1>4. Copies(n) = Cardinality(Occurrences(NewProfileUpdatedEvent(n),
                                          topic[PartitionOf[txs[n].inv]]))
  BY DEF Copies, Occurrences
<1>5. delayed[n] \in Nat /\ faults \in Nat
  BY <1>1, OutboxAssumption DEF TypeOK, OutboxAssumption
<1> QED
  BY <1>1, <1>2, <1>3, <1>4, <1>5, AppendCounts

\* A write of row n adds a copy of its event, and of no other row's.
LEMMA WriteMessageCounts ==
  ASSUME IInv, NEW n \in OutboxRows, WriteMessage(n),
         version' = version, txs' = txs
  PROVE  /\ \A m \in OutboxRows :
              Copies(m)' = Copies(m) + (IF m = n THEN 1 ELSE 0)
         /\ AnnouncedCommitted => AnnouncedCommitted'
<1> DEFINE e == NewProfileUpdatedEvent(n)
           p == PartitionOf[txs[n].inv]
<1>1. TypeOK /\ topic \in [Partitions -> Seq(Message)]
  BY DEF IInv, TypeOK
<1>2. e \in Message /\ p \in Partitions
  BY <1>1, CopiesType
<1>3. topic' = [topic EXCEPT ![p] = Append(topic[p], e)]
  BY DEF WriteMessage
<1>4. /\ e.inv = txs[n].inv /\ e.ver = txs[n].ver
      /\ txs[n].ver <= version[txs[n].inv]
  <2>1. n \in DOMAIN txs /\ txs[n].ver \in 2..version[txs[n].inv]
    BY DEF IInv, EventPerVersion, OutboxRows
  <2>2. version[txs[n].inv] \in Nat
    BY <1>1, <2>1, TxInSeq
  <2> QED
    BY <2>1, <2>2 DEF NewProfileUpdatedEvent
<1>5. ASSUME NEW m \in OutboxRows
      PROVE  Copies(m)' = Copies(m) + (IF m = n THEN 1 ELSE 0)
  <2> DEFINE f == NewProfileUpdatedEvent(m)
             q == PartitionOf[txs[m].inv]
  <2>1. f = e <=> m = n
    BY DEF IInv, EventPerVersion
  <2>2. f = e => q = p
    BY DEF NewProfileUpdatedEvent
  <2>3. /\ Copies(m) = Cardinality(Occurrences(f, topic[q]))
        /\ Copies(m) \in Nat
        /\ q \in Partitions
    BY <1>1, CopiesType
  <2>4. Copies(m)' = Cardinality(Occurrences(f, topic'[q]))
    BY DEF Copies, Occurrences, NewProfileUpdatedEvent
  <2> HIDE DEF e, p, f, q
  <2>5. CASE q = p
    <3>1. topic'[q] = Append(topic[q], e) /\ topic[q] \in Seq(Message)
      BY <1>1, <1>2, <1>3, <2>5
    <3>2. Cardinality(Occurrences(f, Append(topic[q], e))) =
            Cardinality(Occurrences(f, topic[q])) + (IF e = f THEN 1 ELSE 0)
      BY <1>2, <3>1, AppendCounts
    <3> QED
      BY <2>1, <2>3, <2>4, <3>1, <3>2
  <2>6. CASE q # p
    <3>1. topic'[q] = topic[q]
      BY <1>1, <1>3, <2>3, <2>6
    <3> QED
      BY <2>1, <2>2, <2>3, <2>4, <2>6, <3>1
  <2> QED
    BY <2>5, <2>6
<1>6. ASSUME AnnouncedCommitted
      PROVE  AnnouncedCommitted'
  <2> HIDE DEF e, p
  <2>1. ASSUME NEW q \in Partitions, NEW k \in DOMAIN topic'[q]
        PROVE  topic'[q][k].ver <= version'[topic'[q][k].inv]
    <3>1. topic[q] \in Seq(Message) /\ topic[p] \in Seq(Message)
      BY <1>1, <1>2
    <3>2. CASE q # p
      <4>1. topic'[q] = topic[q]
        BY <1>1, <1>3, <3>2
      <4> QED
        BY <1>6, <2>1, <4>1 DEF AnnouncedCommitted
    <3>3. CASE q = p
      <4>1. topic'[q] = Append(topic[q], e)
        BY <1>1, <1>2, <1>3, <3>3
      <4>2. \/ k = Len(topic[q]) + 1 /\ topic'[q][k] = e
            \/ k \in DOMAIN topic[q] /\ topic'[q][k] = topic[q][k]
        BY <1>2, <2>1, <3>1, <4>1, AppendProperties
      <4>3. e.ver <= version[e.inv]
        BY <1>4
      <4> QED
        BY <1>6, <4>2, <4>3 DEF AnnouncedCommitted
    <3> QED
      BY <3>2, <3>3
  <2> QED
    BY <2>1 DEF AnnouncedCommitted
<1> QED
  BY <1>5, <1>6

-----------------------------------------------------------------------------
(* A superfluous copy takes a fault.                                       *)

\* Steps that write nothing and take back no more than they pay for.
LEMMA PaidFrame ==
  ASSUME CopiesInv, IInv', version' = version, txs' = txs, topic' = topic,
         \A n \in OutboxRows :
           WritesToCome(n)' + faults <= WritesToCome(n) + faults'
  PROVE  CopiesInv'
<1>1. OutboxRows' = OutboxRows
  BY DEF OutboxRows
<1>2. AnnouncedCommitted'
  BY DEF CopiesInv, AnnouncedCommitted
<1>3. ASSUME NEW n \in OutboxRows
      PROVE  Copies(n)' + WritesToCome(n)' <= 1 + faults'
  <2>1. Copies(n)' = Copies(n)
    BY DEF Copies, NewProfileUpdatedEvent
  <2>2. Copies(n) \in Nat /\ WritesToCome(n) \in Nat /\ faults \in Nat
    BY CopiesType DEF CopiesInv, IInv, WritesToCome
  <2>3. WritesToCome(n)' \in Nat /\ faults' \in Nat
    <3>1. n \in 1..MaxTx
      BY CopiesType DEF CopiesInv, IInv
    <3>2. delayed'[n] \in Nat
      BY <3>1 DEF IInv, TypeOK
    <3>3. faults' \in Nat
      BY OutboxAssumption DEF IInv, TypeOK, OutboxAssumption
    <3> QED
      BY <3>2, <3>3 DEF WritesToCome
  <2>4. Copies(n) + WritesToCome(n) <= 1 + faults
    BY DEF CopiesInv, CopiesPaid
  <2> QED
    BY <2>1, <2>2, <2>3, <2>4
<1> QED
  BY <1>1, <1>2, <1>3 DEF CopiesInv, CopiesPaid

\* Steps of profile-service that commit nothing.
LEMMA QuietTxCopies ==
  ASSUME CopiesInv, IInv', RowsStable, OutboxRows' = OutboxRows,
         UNCHANGED <<version, published, relay, kafkaVars, faults>>
  PROVE  CopiesInv'
<1>1. /\ version' = version /\ published' = published /\ relay' = relay
      /\ topic' = topic /\ delayed' = delayed /\ faults' = faults
  BY DEF kafkaVars
<1>2. AnnouncedCommitted'
  BY <1>1 DEF CopiesInv, AnnouncedCommitted
<1>3. \A n \in OutboxRows : /\ Copies(n)' = Copies(n)
                            /\ WritesToCome(n)' = WritesToCome(n)
  BY <1>1 DEF RowsStable, Copies, NewProfileUpdatedEvent, WritesToCome, ToBeSent
<1> QED
  BY <1>1, <1>2, <1>3 DEF CopiesInv, CopiesPaid

\* COMMIT of UpdateProfile: the new version was never announced, so that the
\* log holds no copy of its event.
LEMMA CommitTxCopies ==
  ASSUME CopiesInv, IInv', NEW n \in DOMAIN txs, CommitTx(n)
  PROVE  CopiesInv'
<1> DEFINE i == txs[n].inv
           v == txs[n].ver
<1>1. IInv /\ TypeOK
  BY DEF CopiesInv, IInv
<1>2. /\ txs'[n] = [inv |-> i, ver |-> v, stage |-> "committed"]
      /\ n \notin OutboxRows /\ OutboxRows' = OutboxRows \cup {n}
      /\ RowsStable
      /\ i \in Investors /\ v = version[i] + 1
      /\ version' = [version EXCEPT ![i] = v]
  BY <1>1, CommitTxEffect
<1>3. /\ published' = published /\ relay' = relay
      /\ topic' = topic /\ delayed' = delayed /\ faults' = faults
  BY DEF CommitTx, kafkaVars
<1>4. version \in [Investors -> Nat \ {0}] /\ topic \in [Partitions -> Seq(Message)]
  BY <1>1 DEF TypeOK
<1>5. \A p \in Partitions : \A k \in DOMAIN topic[p] :
        topic[p][k].inv \in Investors /\ topic[p][k].ver \in Nat
  <2> TAKE p \in Partitions
  <2>1. topic[p] \in Seq(Message)
    BY <1>4
  <2>2. \A k \in DOMAIN topic[p] : topic[p][k] \in Message
    BY <2>1
  <2> QED
    BY <2>2 DEF Message
<1>6. \A j \in Investors : version[j] \in Nat /\ version'[j] \in Nat
                           /\ version[j] <= version'[j]
  BY <1>2, <1>4
<1>7. AnnouncedCommitted'
  BY <1>3, <1>5, <1>6 DEF CopiesInv, AnnouncedCommitted
<1>8. ASSUME NEW m \in OutboxRows
      PROVE  Copies(m)' + WritesToCome(m)' <= 1 + faults'
  <2>1. /\ Copies(m)' = Copies(m)
        /\ WritesToCome(m)' = WritesToCome(m)
    BY <1>2, <1>3
    DEF RowsStable, Copies, NewProfileUpdatedEvent, WritesToCome, ToBeSent
  <2> QED
    BY <1>3, <2>1 DEF CopiesInv, CopiesPaid
<1>9. Copies(n)' + WritesToCome(n)' <= 1 + faults'
  <2>1. PartitionOf[i] \in Partitions
    BY <1>2, OutboxAssumption DEF OutboxAssumption
  <2>2. \A k \in DOMAIN topic[PartitionOf[i]] :
          topic[PartitionOf[i]][k] # [inv |-> i, ver |-> v]
    BY <1>2, <1>5, <1>6, <2>1 DEF CopiesInv, AnnouncedCommitted
  <2>3. Copies(n)' = Cardinality(Occurrences([inv |-> i, ver |-> v],
                                             topic[PartitionOf[i]]))
    BY <1>2, <1>3 DEF Copies, Occurrences, NewProfileUpdatedEvent
  <2>4. Occurrences([inv |-> i, ver |-> v], topic[PartitionOf[i]]) = {}
    BY <2>2 DEF Occurrences
  <2>5. Copies(n)' = 0
    BY <2>3, <2>4, FS_EmptySet
  <2>6. n \in 1..MaxTx /\ delayed[n] \in Nat /\ faults \in Nat
    BY <1>1, TxInSeq, OutboxAssumption DEF TypeOK, OutboxAssumption
  <2>7. delayed[n] = 0
    BY <1>1, <1>2, <2>6 DEF IInv, RowsInFlight
  <2> QED
    BY <1>3, <2>5, <2>6, <2>7 DEF WritesToCome
<1> QED
  BY <1>2, <1>7, <1>8, <1>9 DEF CopiesInv, CopiesPaid

\* An acknowledged write is the one that takes no fault: nobody else has
\* sent the row, for nobody else holds it.
LEMMA PublishCopies ==
  ASSUME CopiesInv, IInv', NEW r \in Relays, Publish(r)
  PROVE  CopiesInv'
<1>1. IInv /\ TypeOK /\ relay \in [Relays -> Cycle]
  BY DEF CopiesInv, IInv, TypeOK
<1>2. PICK n \in relay[r].locked :
        /\ IsNext(n, r)
        /\ WriteMessage(n)
        /\ relay' = [relay EXCEPT ![r].sent = @ \cup {n}]
  BY DEF Publish
<1>3. /\ version' = version /\ txs' = txs /\ published' = published
      /\ delayed' = delayed /\ faults' = faults
  BY DEF Publish
<1>4. n \in OutboxRows
  BY <1>1 DEF IInv, RowsInFlight
<1>5. /\ AnnouncedCommitted'
      /\ \A m \in OutboxRows :
           Copies(m)' = Copies(m) + (IF m = n THEN 1 ELSE 0)
  BY <1>1, <1>2, <1>3, <1>4, WriteMessageCounts DEF CopiesInv
<1>6. /\ relay'[r].sent = relay[r].sent \cup {n}
      /\ \A q \in Relays : q # r => relay'[q] = relay[q]
  BY <1>1, <1>2 DEF Cycle
<1>7. ToBeSent(n) /\ ~ToBeSent(n)'
  <2>1. n \notin relay[r].sent
    BY <1>2 DEF IsNext
  <2>2. n \notin published /\ \A q \in Relays : q # r => n \notin relay[q].sent
    BY <1>1, <1>2 DEF IInv, RowsInFlight, RowsExclusive
  <2> QED
    BY <1>6, <2>1, <2>2 DEF ToBeSent
<1>8. \A m \in OutboxRows : m # n => (ToBeSent(m)' <=> ToBeSent(m))
  BY <1>3, <1>6 DEF ToBeSent
<1>9. ASSUME NEW m \in OutboxRows
      PROVE  Copies(m)' + WritesToCome(m)' <= 1 + faults'
  <2>1. Copies(m) \in Nat /\ delayed[m] \in Nat /\ faults \in Nat
    BY <1>1, CopiesType
  <2>2. Copies(m) + WritesToCome(m) <= 1 + faults
    BY DEF CopiesInv, CopiesPaid
  <2> QED
    BY <1>3, <1>5, <1>7, <1>8, <2>1, <2>2 DEF WritesToCome
<1>10. OutboxRows' = OutboxRows
  BY <1>3 DEF OutboxRows
<1> QED
  BY <1>5, <1>9, <1>10 DEF CopiesInv, CopiesPaid

\* A late arrival was counted when its answer failed to come.
LEMMA LateWriteCopies ==
  ASSUME CopiesInv, IInv', NEW n \in 1..MaxTx, LateWrite(n)
  PROVE  CopiesInv'
<1>1. IInv /\ TypeOK
  BY DEF CopiesInv, IInv
<1>2. /\ WriteMessage(n) /\ delayed[n] > 0
      /\ delayed' = [delayed EXCEPT ![n] = @ - 1]
      /\ version' = version /\ txs' = txs /\ published' = published
      /\ relay' = relay /\ faults' = faults
  BY DEF LateWrite
<1>3. n \in OutboxRows
  BY <1>1, <1>2 DEF IInv, RowsInFlight
<1>4. /\ AnnouncedCommitted'
      /\ \A m \in OutboxRows :
           Copies(m)' = Copies(m) + (IF m = n THEN 1 ELSE 0)
  BY <1>1, <1>2, <1>3, WriteMessageCounts DEF CopiesInv
<1>5. delayed \in [1..MaxTx -> Nat]
  BY <1>1 DEF TypeOK
<1>6. ASSUME NEW m \in OutboxRows
      PROVE  Copies(m)' + WritesToCome(m)' <= 1 + faults'
  <2>1. m \in 1..MaxTx /\ Copies(m) \in Nat /\ delayed[m] \in Nat /\ faults \in Nat
    BY <1>1, CopiesType
  <2>2. Copies(m) + WritesToCome(m) <= 1 + faults
    BY DEF CopiesInv, CopiesPaid
  <2>3. ToBeSent(m)' <=> ToBeSent(m)
    BY <1>2 DEF ToBeSent
  <2>4. delayed'[m] = delayed[m] - (IF m = n THEN 1 ELSE 0)
    BY <1>2, <1>5, <2>1
  <2> QED
    BY <1>2, <1>4, <2>1, <2>2, <2>3, <2>4 DEF WritesToCome
<1>7. OutboxRows' = OutboxRows
  BY <1>2 DEF OutboxRows
<1> QED
  BY <1>4, <1>6, <1>7 DEF CopiesInv, CopiesPaid

\* The other steps of a cycle write nothing.  What a fault gives back to the
\* outbox, or leaves behind in the network, is one write of a row.
LEMMA CycleCopies ==
  ASSUME CopiesInv, IInv', NEW r \in Relays,
         \/ Fetch(r) \/ Unanswered(r) \/ PublishFails(r)
         \/ CommitCycle(r) \/ RollbackCycle(r)
  PROVE  CopiesInv'
<1>1. IInv /\ TypeOK /\ relay \in [Relays -> Cycle]
  BY DEF CopiesInv, IInv, TypeOK
<1>2. delayed \in [1..MaxTx -> Nat] /\ faults \in Nat
  BY <1>1, OutboxAssumption DEF TypeOK, OutboxAssumption
<1>3. OutboxRows \subseteq 1..MaxTx
  BY <1>1, TxInSeq DEF OutboxRows
<1>4. CASE Fetch(r)
  <2>1. \A q \in Relays : relay'[q].sent = relay[q].sent
    BY <1>1, <1>4 DEF Fetch, Cycle
  <2>2. \A n \in OutboxRows : WritesToCome(n)' = WritesToCome(n)
    BY <1>4, <2>1 DEF Fetch, WritesToCome, ToBeSent, kafkaVars
  <2>3. \A n \in OutboxRows : WritesToCome(n) \in Nat
    BY <1>2, <1>3 DEF WritesToCome
  <2> QED
    BY <1>2, <1>4, <2>2, <2>3, PaidFrame DEF Fetch, kafkaVars
<1>5. CASE Unanswered(r)
  <2>1. PICK n \in relay[r].locked : delayed' = [delayed EXCEPT ![n] = @ + 1]
    BY <1>5 DEF Unanswered
  <2>2. n \in 1..MaxTx
    BY <1>1, <1>3 DEF IInv, RowsInFlight
  <2>3. \A m \in OutboxRows : ToBeSent(m)' <=> ToBeSent(m)
    BY <1>5 DEF Unanswered, ToBeSent
  <2>4. \A m \in OutboxRows : /\ delayed[m] \in Nat
                              /\ delayed'[m] = delayed[m] + (IF m = n THEN 1 ELSE 0)
    BY <1>2, <1>3, <2>1, <2>2
  <2>5. \A m \in OutboxRows :
          WritesToCome(m)' + faults <= WritesToCome(m) + (faults + 1)
    BY <1>2, <2>3, <2>4 DEF WritesToCome
  <2> QED
    BY <1>5, <2>5, PaidFrame DEF Unanswered
<1>6. CASE PublishFails(r) \/ RollbackCycle(r)
  <2>1. /\ version' = version /\ txs' = txs /\ topic' = topic
        /\ published' = published /\ delayed' = delayed /\ faults' = faults + 1
    BY <1>6 DEF PublishFails, RollbackCycle, kafkaVars
  <2>2. \A m \in OutboxRows :
          WritesToCome(m)' + faults <= WritesToCome(m) + (faults + 1)
    BY <1>2, <1>3, <2>1 DEF WritesToCome
  <2> QED
    BY <2>1, <2>2, PaidFrame
<1>7. CASE CommitCycle(r)
  <2>1. /\ version' = version /\ txs' = txs /\ topic' = topic
        /\ delayed' = delayed /\ faults' = faults
        /\ published' = published \cup relay[r].sent
        /\ relay' = [relay EXCEPT ![r] = NoCycle]
    BY <1>7 DEF CommitCycle, MarkPublished, kafkaVars
  <2>2. /\ relay'[r].sent = {}
        /\ \A q \in Relays : q # r => relay'[q] = relay[q]
    BY <1>1, <2>1, EndOfCycle
  <2>3. \A m \in OutboxRows : ToBeSent(m)' <=> ToBeSent(m)
    BY <2>1, <2>2 DEF ToBeSent
  <2>4. \A m \in OutboxRows : /\ WritesToCome(m)' = WritesToCome(m)
                              /\ WritesToCome(m) \in Nat
    BY <1>2, <1>3, <2>1, <2>3 DEF WritesToCome
  <2> QED
    BY <1>2, <2>1, <2>4, PaidFrame
<1> QED
  BY <1>4, <1>5, <1>6, <1>7

\* The transactions of profile-service.
LEMMA ProfileServiceCopies ==
  ASSUME CopiesInv, IInv', ProfileService
  PROVE  CopiesInv'
<1>1. IInv /\ TypeOK
  BY DEF CopiesInv, IInv
<1>2. ASSUME NEW i \in Investors, BeginTx(i) PROVE CopiesInv'
  <2>1. /\ DOMAIN txs = 1..Len(txs) /\ DOMAIN txs' = 1..Len(txs) + 1
        /\ txs'[Len(txs) + 1] = [inv |-> i, ver |-> 0, stage |-> "begun"]
        /\ \A m \in DOMAIN txs : txs'[m] = txs[m]
    BY <1>1, <1>2, BeginTxEffect
  <2>2. Len(txs) \in Nat
    BY <1>1 DEF TypeOK
  <2>3. \A m \in DOMAIN txs' : m \in DOMAIN txs \/ m = Len(txs) + 1
    BY <2>1, <2>2
  <2>4. OutboxRows' = OutboxRows /\ RowsStable
    BY <2>1, <2>2, <2>3 DEF OutboxRows, RowsStable
  <2> QED
    BY <1>2, <2>4, QuietTxCopies DEF BeginTx
<1>3. ASSUME NEW n \in DOMAIN txs, NEW s \in Stages, NEW v \in Nat,
             txs[n].stage # "committed", s # "committed", SetTx(n, s, v),
             UNCHANGED <<version, published, relay, kafkaVars, faults>>
      PROVE  CopiesInv'
  <2>1. /\ DOMAIN txs' = DOMAIN txs
        /\ txs'[n] = [inv |-> txs[n].inv, ver |-> v, stage |-> s]
        /\ \A m \in DOMAIN txs : m # n => txs'[m] = txs[m]
    BY <1>1, <1>3, SetTxEffect
  <2>2. OutboxRows' = OutboxRows /\ RowsStable
    BY <1>3, <2>1 DEF OutboxRows, RowsStable
  <2> QED
    BY <1>3, <2>2, QuietTxCopies
<1>4. ASSUME NEW n \in DOMAIN txs, Update(n) PROVE CopiesInv'
  <2>1. version[txs[n].inv] + 1 \in Nat /\ "updated" \in Stages
    BY <1>1, TxInSeq DEF Stages
  <2> QED
    BY <1>3, <1>4, <2>1 DEF Update, IncrementCacheVersion
<1>5. ASSUME NEW n \in DOMAIN txs, AddEvent(n) PROVE CopiesInv'
  <2>1. txs[n].ver \in Nat /\ "inserted" \in Stages
    BY <1>1, TxInSeq DEF Tx, Stages
  <2> QED
    BY <1>3, <1>5, <2>1 DEF AddEvent
<1>6. ASSUME NEW n \in DOMAIN txs, RollbackTx(n) PROVE CopiesInv'
  <2>1. "aborted" \in Stages
    BY DEF Stages
  <2> QED
    BY <1>3, <1>6, <2>1 DEF RollbackTx
<1>7. ASSUME NEW n \in DOMAIN txs, CommitTx(n) PROVE CopiesInv'
  BY <1>7, CommitTxCopies
<1> QED
  BY <1>2, <1>4, <1>5, <1>6, <1>7 DEF ProfileService

\* An event is in Kafka at most once more than there were faults, with any
\* number of relays, however their cycles end.
THEOREM CopiesBounded == Spec => []DuplicatesNeedFaults
<1>1. Init => CopiesInv
  <2> SUFFICES ASSUME Init PROVE CopiesInv
    OBVIOUS
  <2>1. IInv /\ OutboxRows = {}
    BY InitInv DEF Init, OutboxRows
  <2>2. AnnouncedCommitted
    BY DEF Init, AnnouncedCommitted
  <2> QED
    BY <2>1, <2>2 DEF CopiesInv, CopiesPaid
<1>2. CopiesInv /\ [Next]_vars => CopiesInv'
  <2> SUFFICES ASSUME CopiesInv, [Next]_vars PROVE CopiesInv'
    OBVIOUS
  <2>1. IInv'
    BY NextInv DEF CopiesInv
  <2>2. ASSUME NEW r \in Relays, OutboxRelay(r) PROVE CopiesInv'
    BY <2>1, <2>2, PublishCopies, CycleCopies DEF OutboxRelay, RunCycle
  <2>3. ASSUME NEW n \in 1..MaxTx, LateWrite(n) PROVE CopiesInv'
    BY <2>1, <2>3, LateWriteCopies
  <2>4. ASSUME UNCHANGED vars PROVE CopiesInv'
    <3>1. OutboxRows' = OutboxRows /\ RowsStable
      BY <2>4 DEF vars, OutboxRows, RowsStable
    <3> QED
      BY <2>1, <2>4, <3>1, QuietTxCopies DEF vars, kafkaVars
  <2> QED
    BY <2>1, <2>2, <2>3, <2>4, ProfileServiceCopies DEF Next, Quiescent
<1>3. CopiesInv => DuplicatesNeedFaults
  <2> SUFFICES ASSUME CopiesInv, NEW n \in OutboxRows
               PROVE  Copies(n) <= 1 + faults
    BY DEF DuplicatesNeedFaults
  <2>1. Copies(n) \in Nat /\ delayed[n] \in Nat /\ faults \in Nat
    BY CopiesType DEF CopiesInv, IInv
  <2>2. Copies(n) + WritesToCome(n) <= 1 + faults
    BY DEF CopiesInv, CopiesPaid
  <2> QED
    BY <2>1, <2>2 DEF WritesToCome
<1> QED
  BY <1>1, <1>2, <1>3, PTL DEF Spec

-----------------------------------------------------------------------------
(* The outbox implements Notification.                                     *)

\* No event and no mark appears: nothing the promise can see.
LEMMA InvisibleStep ==
  ASSUME RowsStable, OutboxRows' = OutboxRows, published' = published,
         version' = version, topic' = topic
  PROVE  UNCHANGED Promise!nvars
<1>1. \A n \in OutboxRows :
        NewProfileUpdatedEvent(n)' = NewProfileUpdatedEvent(n)
  BY DEF RowsStable, NewProfileUpdatedEvent
<1>2. Owed' = Owed
  BY <1>1 DEF Owed
<1> QED
  BY <1>2 DEF Promise!nvars

\* COMMIT of UpdateProfile is a change, and its event is owed at once.
LEMMA CommitTxChanges ==
  ASSUME IInv, NEW n \in DOMAIN txs, CommitTx(n)
  PROVE  Promise!NNext
<1> DEFINE i == txs[n].inv
<1>1. /\ txs'[n] = [inv |-> i, ver |-> txs[n].ver, stage |-> "committed"]
      /\ n \notin OutboxRows /\ OutboxRows' = OutboxRows \cup {n}
      /\ RowsStable
      /\ i \in Investors /\ txs[n].ver = version[i] + 1
      /\ version' = [version EXCEPT ![i] = txs[n].ver]
  BY CommitTxEffect
<1>2. published' = published /\ topic' = topic /\ n \notin published
  BY <1>1 DEF CommitTx, kafkaVars, IInv, PublishedIsInTopic
<1>3. NewProfileUpdatedEvent(n)' = [inv |-> i, ver |-> version[i] + 1]
  BY <1>1 DEF NewProfileUpdatedEvent
<1>4. \A m \in OutboxRows :
        NewProfileUpdatedEvent(m)' = NewProfileUpdatedEvent(m)
  BY <1>1 DEF RowsStable, NewProfileUpdatedEvent
<1>5. Owed' = Owed \cup {[inv |-> i, ver |-> version[i] + 1]}
  BY <1>1, <1>2, <1>3, <1>4 DEF Owed
<1>6. version' = [version EXCEPT ![i] = version[i] + 1]
  BY <1>1
<1>7. Promise!Change(i)
  BY <1>2, <1>5, <1>6 DEF Promise!Change
<1> QED
  BY <1>1, <1>7 DEF Promise!NNext

\* Any append of an event to its log is an announcement.
LEMMA WriteMessageAnnounces ==
  ASSUME IInv, NEW n \in OutboxRows, WriteMessage(n),
         version' = version, txs' = txs, published' = published
  PROVE  Promise!NNext
<1> DEFINE e == NewProfileUpdatedEvent(n)
<1>1. TypeOK /\ n \in DOMAIN txs
  BY DEF IInv, OutboxRows
<1>2. /\ e = [inv |-> txs[n].inv, ver |-> txs[n].ver]
      /\ txs[n].inv \in Investors
      /\ txs[n].ver \in 2..version[txs[n].inv]
  BY <1>1, TxInSeq DEF NewProfileUpdatedEvent, IInv, EventPerVersion
<1>3. Owed' = Owed
  BY RelayFrame DEF Owed
<1>4. Promise!Announce(e)
  BY <1>2, <1>3 DEF Promise!Announce, WriteMessage
<1> QED
  BY <1>2, <1>4 DEF Promise!NNext

\* COMMIT of runCycle settles the debts of the rows that were sent.
LEMMA CommitCycleSettles ==
  ASSUME IInv, NEW r \in Relays, CommitCycle(r)
  PROVE  [Promise!NNext]_Promise!nvars
<1> DEFINE S == {NewProfileUpdatedEvent(n) : n \in relay[r].sent}
<1>1. /\ version' = version /\ txs' = txs /\ topic' = topic
      /\ published' = published \cup relay[r].sent
  BY DEF CommitCycle, MarkPublished, kafkaVars
<1>2. /\ relay[r].sent \subseteq OutboxRows \ published
      /\ \A n \in relay[r].sent : InTopic(n)
  BY DEF IInv, RowsInFlight, RowsExclusive
<1>3. S \subseteq Owed
  BY <1>2 DEF Owed
<1>4. Owed' = Owed \ S
  <2>1. /\ OutboxRows' = OutboxRows
        /\ \A n : NewProfileUpdatedEvent(n)' = NewProfileUpdatedEvent(n)
    BY <1>1, RelayFrame
  <2>2. \A m, n \in OutboxRows :
          NewProfileUpdatedEvent(m) = NewProfileUpdatedEvent(n) => m = n
    BY DEF IInv, EventPerVersion
  <2> QED
    BY <1>1, <1>2, <2>1, <2>2 DEF Owed
<1>5. \A e \in S : Promise!Announced(e)
  BY <1>2 DEF Promise!Announced, InTopic, NewProfileUpdatedEvent
<1>6. CASE S = {}
  BY <1>1, <1>4, <1>6 DEF Promise!nvars
<1>7. CASE S # {}
  <2>1. Promise!Settle(S)
    BY <1>1, <1>3, <1>4, <1>5, <1>7 DEF Promise!Settle
  <2> QED
    BY <1>3, <2>1 DEF Promise!NNext
<1> QED
  BY <1>6, <1>7

\* The empty outbox owes nothing.
LEMMA PromiseInit ==
  ASSUME Init
  PROVE  Promise!NInit
<1>1. Owed = {}
  BY DEF Init, Owed, OutboxRows
<1> QED
  BY <1>1 DEF Init, Promise!NInit

\* Every step is a step of the promise or invisible to it.
LEMMA PromiseNext ==
  ASSUME IInv, [Next]_vars
  PROVE  [Promise!NNext]_Promise!nvars
<1>1. ASSUME NEW i \in Investors, BeginTx(i) PROVE UNCHANGED Promise!nvars
  <2>1. /\ DOMAIN txs = 1..Len(txs) /\ DOMAIN txs' = 1..Len(txs) + 1
        /\ txs'[Len(txs) + 1] = [inv |-> i, ver |-> 0, stage |-> "begun"]
        /\ \A m \in DOMAIN txs : txs'[m] = txs[m]
    BY <1>1, BeginTxEffect DEF IInv
  <2>2. Len(txs) \in Nat
    BY DEF IInv, TypeOK
  <2>3. \A m \in DOMAIN txs' : m \in DOMAIN txs \/ m = Len(txs) + 1
    BY <2>1, <2>2
  <2>4. OutboxRows' = OutboxRows /\ RowsStable
    BY <2>1, <2>2, <2>3 DEF OutboxRows, RowsStable
  <2> QED
    BY <1>1, <2>4, InvisibleStep DEF BeginTx, kafkaVars
<1>2. ASSUME NEW n \in DOMAIN txs, NEW s \in Stages, NEW v \in Nat,
             txs[n].stage # "committed", s # "committed", SetTx(n, s, v),
             UNCHANGED <<version, published, relay, kafkaVars, faults>>
      PROVE  UNCHANGED Promise!nvars
  <2>1. TypeOK
    BY DEF IInv
  <2>2. /\ DOMAIN txs' = DOMAIN txs
        /\ txs'[n] = [inv |-> txs[n].inv, ver |-> v, stage |-> s]
        /\ \A m \in DOMAIN txs : m # n => txs'[m] = txs[m]
    BY <1>2, <2>1, SetTxEffect
  <2>3. OutboxRows' = OutboxRows /\ RowsStable
    BY <1>2, <2>2 DEF OutboxRows, RowsStable
  <2> QED
    BY <1>2, <2>3, InvisibleStep DEF kafkaVars
<1>3. ASSUME NEW n \in DOMAIN txs, Update(n) PROVE UNCHANGED Promise!nvars
  <2>1. version[txs[n].inv] + 1 \in Nat /\ "updated" \in Stages
    BY TxInSeq DEF IInv, Stages
  <2> QED
    BY <1>2, <1>3, <2>1 DEF Update, IncrementCacheVersion
<1>4. ASSUME NEW n \in DOMAIN txs, AddEvent(n) PROVE UNCHANGED Promise!nvars
  <2>1. txs[n].ver \in Nat /\ "inserted" \in Stages
    BY TxInSeq DEF IInv, Tx, Stages
  <2> QED
    BY <1>2, <1>4, <2>1 DEF AddEvent
<1>5. ASSUME NEW n \in DOMAIN txs, RollbackTx(n) PROVE UNCHANGED Promise!nvars
  <2>1. "aborted" \in Stages
    BY DEF Stages
  <2> QED
    BY <1>2, <1>5, <2>1 DEF RollbackTx
<1>6. ASSUME NEW n \in DOMAIN txs, CommitTx(n) PROVE Promise!NNext
  BY <1>6, CommitTxChanges
<1>7. ASSUME version' = version, txs' = txs, published' = published,
             topic' = topic
      PROVE  UNCHANGED Promise!nvars
  <2>1. Owed' = Owed
    BY <1>7, RelayFrame DEF Owed
  <2> QED
    BY <1>7, <2>1 DEF Promise!nvars
<1>8. ASSUME NEW r \in Relays,
             Fetch(r) \/ Unanswered(r) \/ PublishFails(r) \/ RollbackCycle(r)
      PROVE  UNCHANGED Promise!nvars
  BY <1>7, <1>8
  DEF Fetch, Unanswered, PublishFails, RollbackCycle, kafkaVars
<1>9. ASSUME NEW r \in Relays, Publish(r) PROVE Promise!NNext
  <2>1. PICK n \in relay[r].locked : WriteMessage(n)
    BY <1>9 DEF Publish
  <2>2. n \in OutboxRows
    BY DEF IInv, RowsInFlight
  <2> QED
    BY <1>9, <2>1, <2>2, WriteMessageAnnounces DEF Publish
<1>10. ASSUME NEW n \in 1..MaxTx, LateWrite(n) PROVE Promise!NNext
  <2>1. n \in OutboxRows
    BY <1>10 DEF LateWrite, IInv, RowsInFlight
  <2> QED
    BY <1>10, <2>1, WriteMessageAnnounces DEF LateWrite
<1>11. ASSUME NEW r \in Relays, CommitCycle(r)
       PROVE  [Promise!NNext]_Promise!nvars
  BY <1>11, CommitCycleSettles
<1>12. ASSUME UNCHANGED vars PROVE UNCHANGED Promise!nvars
  BY <1>7, <1>12 DEF vars
<1> QED
  BY <1>1, <1>3, <1>4, <1>5, <1>6, <1>8, <1>9, <1>10, <1>11, <1>12
  DEF Next, ProfileService, OutboxRelay, RunCycle, Quiescent

\* Whatever fails between PostgreSQL and Kafka, the outbox announces what
\* was committed, only that, and writes no debt off unpaid.
THEOREM Refinement == Spec => ImplementsNotification
<1>1. Init => Promise!NInit
  BY PromiseInit
<1>2. IInv /\ [Next]_vars => [Promise!NNext]_Promise!nvars
  BY PromiseNext
<1> QED
  BY <1>1, <1>2, Invariance, PTL DEF Spec, ImplementsNotification, Promise!NSpec

=============================================================================
