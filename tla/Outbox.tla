------------------------------- MODULE Outbox -------------------------------
(***************************************************************************)
(* The transactional outbox: UpdateProfile of profile-service changes an   *)
(* investor row and inserts an outbox row in one PostgreSQL transaction;   *)
(* each outbox-relay locks a batch of unpublished rows, writes them to     *)
(* Kafka one by one and marks them published when its own transaction      *)
(* commits.                                                                *)
(*                                                                         *)
(* Transactions of profile-service are numbered in the order of their      *)
(* BEGIN.  A transaction inserts at most one outbox row, whose created_at  *)
(* is now(), PostgreSQL's time of that BEGIN, so the number n of a         *)
(* transaction stands for its row and for the row's place in ORDER BY      *)
(* created_at.  Field values other than cache_version, retry_count,        *)
(* last_error and metrics are left out: nothing reads them.                *)
(***************************************************************************)
EXTENDS Naturals, Sequences, FiniteSets

CONSTANTS
  Investors,    \* investor ids that have a row
  Partitions,   \* partitions of topic profile-updates
  PartitionOf,  \* kafka.Hash of the message key, the investor id
  Relays,       \* running outbox-relay instances
  BatchSize,    \* OUTBOX_BATCH_SIZE
  MaxTx,        \* bound: transactions profile-service ever begins
  MaxFaults     \* bound: failed or unanswered publications, aborted cycles

ASSUME OutboxAssumption ==
  /\ PartitionOf \in [Investors -> Partitions]
  /\ BatchSize \in Nat \ {0}
  /\ MaxTx \in Nat
  /\ MaxFaults \in Nat

VARIABLES
  version,      \* investors.cache_version, as committed
  txs,          \* profile-service's transactions, in the order of BEGIN
  published,    \* outbox rows with published = true, as committed
  relay,        \* relay[r]: the runCycle transaction of relay r
  topic,        \* topic[p]: Kafka's log of partition p
  delayed,      \* delayed[n]: produce requests for row n given up by the
                \* writer that the broker may still carry out
  faults        \* faults so far

vars == <<version, txs, published, relay, topic, delayed, faults>>
kafkaVars == <<topic, delayed>>

\* A relay between two cycles.  In a cycle, `locked` are the rows fetched
\* FOR UPDATE, `sent` is successIDs and `stopped` says that the loop broke.
NoCycle == [locked |-> {}, sent |-> {}, stopped |-> FALSE]

Init ==
  /\ version = [i \in Investors |-> 1]
  /\ txs = <<>>
  /\ published = {}
  /\ relay = [r \in Relays |-> NoCycle]
  /\ topic = [p \in Partitions |-> <<>>]
  /\ delayed = [n \in 1..MaxTx |-> 0]
  /\ faults = 0

-----------------------------------------------------------------------------
(* profile-service                                                         *)

\* Transaction n comes to stage s, with version v for its investor.
SetTx(n, s, v) ==
  txs' = [txs EXCEPT ![n] = [inv |-> txs[n].inv, ver |-> v, stage |-> s]]

HoldsRow(n) == txs[n].stage \in {"updated", "inserted"}

\* UpdateProfile accepted the patch and opened its transaction.
BeginTx(i) ==
  /\ Len(txs) < MaxTx
  /\ txs' = Append(txs, [inv |-> i, ver |-> 0, stage |-> "begun"])
  /\ UNCHANGED <<version, published, relay, kafkaVars, faults>>

\* Faulty: the trigger counts down.
DecrementCacheVersion(old) == old - 1

\* The BEFORE UPDATE trigger: NEW.cache_version := OLD.cache_version + 1.
IncrementCacheVersion(old) == old + 1

\* Faulty: version computed without waiting for the row.
UpdateWithoutRowLock(n) ==
  /\ txs[n].stage = "begun"
  /\ SetTx(n, "updated", IncrementCacheVersion(version[txs[n].inv]))
  /\ UNCHANGED <<version, published, relay, kafkaVars, faults>>

\* UPDATE investors ... RETURNING cache_version.  It waits while another
\* transaction holds the row, then sees the row that one committed.
Update(n) ==
  /\ txs[n].stage = "begun"
  /\ \A m \in DOMAIN txs : HoldsRow(m) => txs[m].inv # txs[n].inv
  /\ SetTx(n, "updated", IncrementCacheVersion(version[txs[n].inv]))
  /\ UNCHANGED <<version, published, relay, kafkaVars, faults>>

\* INSERT INTO outbox, in the same transaction.
AddEvent(n) ==
  /\ txs[n].stage = "updated"
  /\ SetTx(n, "inserted", txs[n].ver)
  /\ UNCHANGED <<version, published, relay, kafkaVars, faults>>

\* COMMIT: the investor row and the outbox row become visible together.
\* (When the reply to COMMIT is lost the caller gets an error after this.)
CommitTx(n) ==
  /\ txs[n].stage = "inserted"
  /\ SetTx(n, "committed", txs[n].ver)
  /\ version' = [version EXCEPT ![txs[n].inv] = txs[n].ver]
  /\ UNCHANGED <<published, relay, kafkaVars, faults>>

\* Any error return of UpdateProfile (not found, unique e-mail, a failed
\* INSERT or COMMIT, a cancelled request) and the death of the process.
RollbackTx(n) ==
  /\ txs[n].stage \in {"begun", "updated", "inserted"}
  /\ SetTx(n, "aborted", 0)
  /\ UNCHANGED <<version, published, relay, kafkaVars, faults>>

\* Rows of the outbox table that other transactions can see.
OutboxRows == {n \in DOMAIN txs : txs[n].stage = "committed"}

-----------------------------------------------------------------------------
(* outbox-relay                                                            *)

NewProfileUpdatedEvent(n) == [inv |-> txs[n].inv, ver |-> txs[n].ver]

Oldest(S, k) == {n \in S : Cardinality({m \in S : m < n}) < k}

\* Faulty: SELECT ... without FOR UPDATE SKIP LOCKED.
FetchUnlocked == Oldest(OutboxRows \ published, BatchSize)

\* SELECT ... WHERE published = false ORDER BY created_at LIMIT n
\* FOR UPDATE SKIP LOCKED.
FetchUnpublished ==
  Oldest({n \in OutboxRows \ published :
            \A r \in Relays : n \notin relay[r].locked}, BatchSize)

\* A cycle begins.  (A cycle that fetches no row changes nothing.)
Fetch(r) ==
  /\ relay[r].locked = {}
  /\ FetchUnpublished # {}
  /\ relay' = [relay EXCEPT ![r].locked = FetchUnpublished]
  /\ UNCHANGED <<version, txs, published, kafkaVars, faults>>

Publishing(r) == ~relay[r].stopped /\ relay[r].sent # relay[r].locked

\* The loop of runCycle has come to row n.
IsNext(n, r) ==
  /\ ~relay[r].stopped
  /\ n \in relay[r].locked \ relay[r].sent
  /\ \A m \in relay[r].locked \ relay[r].sent : n <= m

WriteMessage(n) ==
  topic' = [topic EXCEPT ![PartitionOf[txs[n].inv]] =
                           Append(@, NewProfileUpdatedEvent(n))]

\* WriteMessages returned nil: every in-sync replica has the message.
Publish(r) ==
  /\ \E n \in relay[r].locked :
       /\ IsNext(n, r)
       /\ WriteMessage(n)
       /\ relay' = [relay EXCEPT ![r].sent = @ \cup {n}]
  /\ UNCHANGED <<version, txs, published, delayed, faults>>

\* A produce request went unanswered.  The writer tries again inside
\* WriteMessages, or gives up with an error; the request may still be
\* carried out: the acknowledgement was lost, or it is on its way.
Unanswered(r) ==
  /\ faults < MaxFaults
  /\ \E n \in relay[r].locked :
       /\ IsNext(n, r)
       /\ delayed' = [delayed EXCEPT ![n] = @ + 1]
  /\ faults' = faults + 1
  /\ UNCHANGED <<version, txs, published, relay, topic>>

\* The broker carries out an unanswered request, perhaps long after.
LateWrite(n) ==
  /\ delayed[n] > 0
  /\ WriteMessage(n)
  /\ delayed' = [delayed EXCEPT ![n] = @ - 1]
  /\ UNCHANGED <<version, txs, published, relay, faults>>

\* Faulty: the loop goes on as if the row had been sent.
PublishFailsUnnoticed(r) ==
  /\ faults < MaxFaults
  /\ \E n \in relay[r].locked :
       /\ IsNext(n, r)
       /\ relay' = [relay EXCEPT ![r].sent = @ \cup {n}]
  /\ faults' = faults + 1
  /\ UNCHANGED <<version, txs, published, kafkaVars>>

\* WriteMessages returned an error: RecordError, then break.
PublishFails(r) ==
  /\ faults < MaxFaults
  /\ Publishing(r)
  /\ relay' = [relay EXCEPT ![r].stopped = TRUE]
  /\ faults' = faults + 1
  /\ UNCHANGED <<version, txs, published, kafkaVars>>

\* Faulty: the whole batch is marked.
MarkBatch(r) == published \cup relay[r].locked

\* Faulty: nothing is marked.
MarkNothing(r) == published

\* UPDATE outbox SET published = true WHERE id = ANY(successIDs).
MarkPublished(r) == published \cup relay[r].sent

\* Faulty: with nothing to mark the transaction is left open.
CommitCycleIfSent(r) ==
  /\ relay[r].sent # {}
  /\ ~Publishing(r)
  /\ published' = MarkPublished(r)
  /\ relay' = [relay EXCEPT ![r] = NoCycle]
  /\ UNCHANGED <<version, txs, kafkaVars, faults>>

\* The loop is over: MarkPublished and COMMIT.
CommitCycle(r) ==
  /\ relay[r].locked # {}
  /\ ~Publishing(r)
  /\ published' = MarkPublished(r)
  /\ relay' = [relay EXCEPT ![r] = NoCycle]
  /\ UNCHANGED <<version, txs, kafkaVars, faults>>

\* The cycle's transaction is rolled back, whatever was published: the
\* relay was killed, shut down in WriteMessages, or RecordError,
\* MarkPublished or COMMIT failed.
RollbackCycle(r) ==
  /\ faults < MaxFaults
  /\ relay[r].locked # {}
  /\ relay' = [relay EXCEPT ![r] = NoCycle]
  /\ faults' = faults + 1
  /\ UNCHANGED <<version, txs, published, kafkaVars>>

-----------------------------------------------------------------------------
ProfileService ==
  \/ \E i \in Investors : BeginTx(i)
  \/ \E n \in DOMAIN txs :
       \/ Update(n)
       \/ AddEvent(n)
       \/ CommitTx(n)
       \/ RollbackTx(n)

RunCycle(r) == Fetch(r) \/ Publish(r) \/ CommitCycle(r)

OutboxRelay(r) ==
  \/ RunCycle(r)
  \/ Unanswered(r)
  \/ PublishFails(r)
  \/ RollbackCycle(r)

\* No transaction left to begin or end, no row left to publish: the relays
\* go on polling an empty outbox.
Quiescent ==
  /\ Len(txs) = MaxTx
  /\ \A n \in DOMAIN txs : txs[n].stage \in {"committed", "aborted"}
  /\ published = OutboxRows
  /\ UNCHANGED vars

Next ==
  \/ ProfileService
  \/ \E r \in Relays : OutboxRelay(r)
  \/ \E n \in 1..MaxTx : LateWrite(n)
  \/ Quiescent

Spec == Init /\ [][Next]_vars

\* Each relay's ticker keeps starting cycles and a cycle goes on while it
\* can.  Nothing is assumed of the clients or of the faults, which
\* MaxFaults ends.
FairSpec == Spec /\ \A r \in Relays : WF_vars(RunCycle(r))

-----------------------------------------------------------------------------
Stages == {"begun", "updated", "inserted", "committed", "aborted"}
Tx == [inv : Investors, ver : Nat, stage : Stages]
Message == [inv : Investors, ver : Nat]
Cycle == [locked : SUBSET (1..MaxTx), sent : SUBSET (1..MaxTx),
          stopped : BOOLEAN]

\* The variables' possible values.
TypeOK ==
  /\ version \in [Investors -> Nat \ {0}]
  /\ txs \in Seq(Tx)
  /\ Len(txs) <= MaxTx
  /\ published \in SUBSET (1..MaxTx)
  /\ relay \in [Relays -> Cycle]
  /\ topic \in [Partitions -> Seq(Message)]
  /\ delayed \in [1..MaxTx -> Nat]
  /\ faults \in 0..MaxFaults

\* "Changed -> notified": the outbox holds exactly one event for each
\* version an investor has reached by an update.  Two racing UpdateProfile
\* transactions must not produce the same version, and none may commit a
\* version without its event or an event without its version.
EventPerVersion ==
  /\ \A n \in OutboxRows : txs[n].ver \in 2..version[txs[n].inv]
  /\ \A m, n \in OutboxRows :
       NewProfileUpdatedEvent(m) = NewProfileUpdatedEvent(n) => m = n
  /\ \A i \in Investors : \A v \in 2..version[i] :
       \E n \in OutboxRows : txs[n].inv = i /\ txs[n].ver = v

InTopic(n) ==
  LET log == topic[PartitionOf[txs[n].inv]]
  IN  \E k \in DOMAIN log : log[k] = NewProfileUpdatedEvent(n)

\* runCycle never commits published = true for an event that Kafka does not
\* hold, whichever of its publications failed and wherever it was cut off.
PublishedIsInTopic == \A n \in published : n \in OutboxRows /\ InTopic(n)

\* FOR UPDATE SKIP LOCKED: two relays never work on the same row, and a row
\* once marked is never taken up again.
RowsExclusive ==
  /\ \A r \in Relays : relay[r].locked \cap published = {}
  /\ \A r, q \in Relays :
       r # q => relay[r].locked \cap relay[q].locked = {}

Copies(n) ==
  LET log == topic[PartitionOf[txs[n].inv]]
  IN  Cardinality({k \in DOMAIN log : log[k] = NewProfileUpdatedEvent(n)})

\* An event is written to Kafka again only after a fault: with several
\* relays polling, k faults mean at most k superfluous copies of an event.
DuplicatesNeedFaults == \A n \in OutboxRows : Copies(n) <= 1 + faults

\* Every event that profile-service commits ends up published, however the
\* cycles that carried it failed.
CommittedIsPublished ==
  \A n \in 1..MaxTx : n \in OutboxRows ~> n \in published

-----------------------------------------------------------------------------
\* The inductive invariant of OutboxProofs: why the properties above hold.

\* The transaction that updated an investor holds its row until it ends, so
\* it is alone and its version is the next one.
RowLock ==
  /\ \A n \in DOMAIN txs : HoldsRow(n) => txs[n].ver = version[txs[n].inv] + 1
  /\ \A m, n \in DOMAIN txs :
       HoldsRow(m) /\ HoldsRow(n) /\ txs[m].inv = txs[n].inv => m = n

\* Relays and late requests carry committed rows; what was sent is in Kafka.
RowsInFlight ==
  /\ \A r \in Relays :
       /\ relay[r].locked \subseteq OutboxRows
       /\ relay[r].sent \subseteq relay[r].locked
       /\ \A n \in relay[r].sent : InTopic(n)
  /\ \A n \in 1..MaxTx : delayed[n] > 0 => n \in OutboxRows

IInv ==
  /\ TypeOK
  /\ RowLock
  /\ EventPerVersion
  /\ RowsInFlight
  /\ RowsExclusive
  /\ PublishedIsInTopic

\* No version is announced before it is committed.
AnnouncedCommitted ==
  \A p \in Partitions : \A k \in DOMAIN topic[p] :
    topic[p][k].ver <= version[topic[p][k].inv]

\* No relay counts row n as sent, and it is not marked: it will be written.
ToBeSent(n) == n \notin published /\ \A r \in Relays : n \notin relay[r].sent

WritesToCome(n) == delayed[n] + (IF ToBeSent(n) THEN 1 ELSE 0)

\* Every write of a row but one, done or to come, was paid for with a fault.
CopiesPaid == \A n \in OutboxRows : Copies(n) + WritesToCome(n) <= 1 + faults

CopiesInv == IInv /\ AnnouncedCommitted /\ CopiesPaid

-----------------------------------------------------------------------------
\* The outbox implements the abstract promise: a change is owed from its
\* COMMIT until the COMMIT that marks its row.
Owed == {NewProfileUpdatedEvent(n) : n \in OutboxRows \ published}

Promise == INSTANCE Notification WITH owed <- Owed

\* Every step of profile-service and of the relays is a step of the promise
\* (or is invisible to it).
ImplementsNotification == Promise!NSpec
=============================================================================
