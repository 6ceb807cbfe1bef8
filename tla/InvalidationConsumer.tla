------------------------ MODULE InvalidationConsumer ------------------------
(***************************************************************************)
(* The invalidation workers: one consumer group that reads the partitions  *)
(* of topic profile-updates and deletes the cache keys each message names. *)
(* A message that keeps failing goes to the dead-letter topic.  Workers    *)
(* crash and restart, the group rebalances, Redis, the dead-letter writer  *)
(* and offset commits fail.                                                *)
(*                                                                         *)
(* Offsets count messages: message k of a partition is log[p][k], and      *)
(* committed[p] = k says that the group is done with messages 1..k.        *)
(* Metrics, logging, keys' spelling and the backoff's length are left out. *)
(***************************************************************************)
EXTENDS Naturals, Sequences, FiniteSets

CONSTANTS
  Investors,    \* investor ids
  Partitions,   \* partitions of the topic
  Workers,      \* invalidation-worker processes of the group
  Messages,     \* messages that producers may write
  MaxRetries,   \* maxRetries
  BulkBatch,    \* batchSize of processBulkInvalidation
  MaxLog,       \* bound: messages per partition
  MaxFaults     \* bound: rebalances, crashes, failed commits

EventTypes == {"update", "delete", "bulk_update", "other"}

\* A payload that json.Unmarshal rejects, or an InvalidationEvent.
Event == [valid : BOOLEAN, type : EventTypes, ids : Seq(Investors)]

ASSUME ConsumerAssumption ==
  /\ Messages \subseteq Event
  /\ \A m \in Messages :        \* investor_id is always there
       m.type \in {"update", "delete"} => m.ids # <<>>
  /\ MaxRetries \in Nat
  /\ BulkBatch \in Nat \ {0}
  /\ MaxLog \in Nat
  /\ MaxFaults \in Nat

VARIABLES
  log,          \* log[p]: the messages of partition p
  committed,    \* committed[p]: the group's offset, kept by Kafka
  owner,        \* owner[p]: the worker that partition p is assigned to
  pos,          \* pos[p]: messages of p fetched since the last rebalance
  pc,           \* pc[w]: what worker w is at
  cur,          \* cur[w]: the message it has in hand, <<p, k>>
  done,         \* done[w]: identifiers of that message dealt with
  attempt,      \* attempt[w]: 0, or the attempt of handleFailure's loop
  dlq,          \* messages in the dead-letter topic
  faults,       \* faults so far
  pending,      \* <<p, k, i>>: no DEL of i since log[p][k] was written
  abandoned     \* messages whose write to the dead-letter topic ever failed

kafkaVars == <<log, committed>>
groupVars == <<owner, pos>>
workVars  == <<cur, done, attempt>>
ghosts    == <<pending, abandoned>>
vars == <<kafkaVars, groupVars, pc, workVars, dlq, faults, ghosts>>

\* The identifiers processEvent deletes; an unknown event type has none.
Targets(m) ==
  IF m.type = "other" THEN <<>>
  ELSE IF m.type = "bulk_update" THEN m.ids
  ELSE SubSeq(m.ids, 1, 1)

Msg(w) == log[cur[w][1]][cur[w][2]]

Init ==
  /\ log = [p \in Partitions |-> <<>>]
  /\ committed = [p \in Partitions |-> 0]
  /\ owner \in [Partitions -> Workers]
  /\ pos = [p \in Partitions |-> 0]
  /\ pc = [w \in Workers |-> "fetch"]
  /\ cur = [w \in Workers |-> <<>>]
  /\ done = [w \in Workers |-> 0]
  /\ attempt = [w \in Workers |-> 0]
  /\ dlq = {}
  /\ faults = 0
  /\ pending = {}
  /\ abandoned = {}

\* A producer writes a message: the copies cached now are to be deleted.
Produce(p, m) ==
  /\ Len(log[p]) < MaxLog
  /\ log' = [log EXCEPT ![p] = Append(@, m)]
  /\ pending' = pending \cup
       (IF m.valid THEN {<<p, Len(log[p]) + 1, Targets(m)[j]>> :
                           j \in DOMAIN Targets(m)}
                   ELSE {})
  /\ UNCHANGED <<committed, groupVars, pc, workVars, dlq, faults, abandoned>>

-----------------------------------------------------------------------------
(* A worker                                                                *)

\* FetchMessage and json.Unmarshal.  An invalid payload is only committed.
FetchMessage(w) ==
  /\ pc[w] = "fetch"
  /\ \E p \in Partitions :
       /\ owner[p] = w
       /\ pos[p] < Len(log[p])
       /\ pos' = [pos EXCEPT ![p] = @ + 1]
       /\ cur' = [cur EXCEPT ![w] = <<p, pos[p] + 1>>]
       /\ pc' = [pc EXCEPT ![w] = IF log[p][pos[p] + 1].valid THEN "process"
                                  ELSE "commit"]
  /\ UNCHANGED <<kafkaVars, owner, done, attempt, dlq, faults, ghosts>>

\* Where the batch that starts after `done` identifiers ends.
BatchEnd(w) ==
  IF done[w] + BulkBatch < Len(Targets(Msg(w)))
  THEN done[w] + BulkBatch ELSE Len(Targets(Msg(w)))

Batch(w) == {Targets(Msg(w))[j] : j \in done[w] + 1 .. BatchEnd(w)}

\* The keys in D are deleted, for whichever messages asked for it.
Deleted(D) == {t \in pending : t[3] \notin D}

\* Delete or DeleteBatch succeeds: every key of the batch is gone.
DeleteBatch(w) ==
  /\ pc[w] = "process"
  /\ done[w] < Len(Targets(Msg(w)))
  /\ pending' = Deleted(Batch(w))
  /\ done' = [done EXCEPT ![w] = BatchEnd(w)]
  /\ UNCHANGED <<kafkaVars, groupVars, pc, cur, attempt, dlq, faults, abandoned>>

\* Faulty: one attempt too many.
MayRetryOnceMore(w) == attempt[w] <= MaxRetries

\* handleFailure's loop has an attempt left.
MayRetry(w) == attempt[w] < MaxRetries

\* Faulty: a retry goes on after the batch that failed.
RestartAfter(w) == BatchEnd(w)

\* processEvent runs from its beginning on a retry.
Restart(w) == 0

\* Delete or DeleteBatch returns an error: any part of the batch may have
\* been deleted.  handleFailure runs processEvent again or turns to the
\* dead-letter topic.
DeleteFails(w) ==
  /\ pc[w] = "process"
  /\ done[w] < Len(Targets(Msg(w)))
  /\ \E D \in SUBSET Batch(w) : pending' = Deleted(D)
  /\ \/ /\ MayRetry(w)
        /\ attempt' = [attempt EXCEPT ![w] = @ + 1]
        /\ done' = [done EXCEPT ![w] = Restart(w)]
        /\ UNCHANGED pc
     \/ /\ ~MayRetry(w)
        /\ pc' = [pc EXCEPT ![w] = "dlq"]
        /\ UNCHANGED <<attempt, done>>
  /\ UNCHANGED <<kafkaVars, groupVars, cur, dlq, faults, abandoned>>

\* processEvent returns nil.
Processed(w) ==
  /\ pc[w] = "process"
  /\ done[w] = Len(Targets(Msg(w)))
  /\ pc' = [pc EXCEPT ![w] = "commit"]
  /\ UNCHANGED <<kafkaVars, groupVars, workVars, dlq, faults, ghosts>>

\* The local variables of Run's loop body go out of scope.
NextIteration(w) ==
  /\ pc' = [pc EXCEPT ![w] = "fetch"]
  /\ cur' = [cur EXCEPT ![w] = <<>>]
  /\ done' = [done EXCEPT ![w] = 0]
  /\ attempt' = [attempt EXCEPT ![w] = 0]

\* The message stands in the dead-letter topic.
WriteDLQ(w) ==
  /\ pc[w] = "dlq"
  /\ dlq' = dlq \cup {cur[w]}
  /\ pc' = [pc EXCEPT ![w] = "commit"]
  /\ UNCHANGED <<kafkaVars, groupVars, workVars, faults, ghosts>>

\* Faulty: a message that cannot be written there is processed all over.
WriteDLQFailsRestarts(w) ==
  /\ pc[w] = "dlq"
  /\ pc' = [pc EXCEPT ![w] = "process"]
  /\ done' = [done EXCEPT ![w] = 0]
  /\ attempt' = [attempt EXCEPT ![w] = 0]
  /\ UNCHANGED <<kafkaVars, groupVars, cur, dlq, faults, ghosts>>

\* WriteMessages of the dead-letter writer returns an error (the message
\* may be there all the same): the offset is not committed, the loop goes on.
WriteDLQFails(w) ==
  /\ pc[w] = "dlq"
  /\ dlq' \in {dlq, dlq \cup {cur[w]}}
  /\ abandoned' = abandoned \cup {cur[w]}
  /\ NextIteration(w)
  /\ UNCHANGED <<kafkaVars, groupVars, faults, pending>>

\* CommitMessages.  A worker that lost the partition in a rebalance may
\* still commit: Kafka takes an offset from any live member of the group.
CommitMessages(w) ==
  /\ pc[w] = "commit"
  /\ committed' = [committed EXCEPT ![cur[w][1]] = cur[w][2]]
  /\ NextIteration(w)
  /\ UNCHANGED <<log, groupVars, dlq, faults, ghosts>>

\* Its error is ignored.
CommitFails(w) ==
  /\ pc[w] = "commit"
  /\ faults < MaxFaults
  /\ faults' = faults + 1
  /\ NextIteration(w)
  /\ UNCHANGED <<kafkaVars, groupVars, dlq, ghosts>>

-----------------------------------------------------------------------------
(* The group                                                               *)

\* Faulty: a partition is taken over where its last owner had read to.
ReassignInPlace == owner' \in [Partitions -> Workers] /\ UNCHANGED pos

\* A new generation: partitions are assigned anew and read on from the
\* committed offsets.
Reassign == owner' \in [Partitions -> Workers] /\ pos' = committed

\* Workers keep the message they have in hand across a rebalance.
Rebalance ==
  /\ faults < MaxFaults
  /\ Reassign
  /\ faults' = faults + 1
  /\ UNCHANGED <<kafkaVars, pc, workVars, dlq, ghosts>>

\* A worker dies, or is shut down with a message in hand, and the group
\* rebalances; the worker restarts.
Crash(w) ==
  /\ faults < MaxFaults
  /\ Reassign
  /\ NextIteration(w)
  /\ faults' = faults + 1
  /\ UNCHANGED <<kafkaVars, dlq, ghosts>>

-----------------------------------------------------------------------------
Run(w) ==
  \/ FetchMessage(w)
  \/ DeleteBatch(w)
  \/ DeleteFails(w)
  \/ Processed(w)
  \/ WriteDLQ(w)
  \/ WriteDLQFails(w)
  \/ CommitMessages(w)

\* The topic is full, everything is fetched: FetchMessage goes on waiting.
Quiescent ==
  /\ \A p \in Partitions : Len(log[p]) = MaxLog /\ pos[p] = MaxLog
  /\ \A w \in Workers : pc[w] = "fetch"
  /\ UNCHANGED vars

Next ==
  \/ \E p \in Partitions, m \in Messages : Produce(p, m)
  \/ \E w \in Workers : Run(w) \/ CommitFails(w) \/ Crash(w)
  \/ Rebalance
  \/ Quiescent

Spec == Init /\ [][Next]_vars

\* Every worker that is up runs its loop.  Nothing says that Redis or the
\* dead-letter topic ever works; MaxFaults ends rebalances and crashes.
FairSpec == Spec /\ \A w \in Workers : WF_vars(Run(w))

-----------------------------------------------------------------------------
\* The variables' possible values.
TypeOK ==
  /\ log \in [Partitions -> Seq(Messages)]
  /\ committed \in [Partitions -> 0..MaxLog]
  /\ owner \in [Partitions -> Workers]
  /\ pos \in [Partitions -> 0..MaxLog]
  /\ pc \in [Workers -> {"fetch", "process", "dlq", "commit"}]
  /\ cur \in [Workers -> (Partitions \X (1..MaxLog)) \cup {<<>>}]
  /\ done \in [Workers -> Nat]
  /\ attempt \in [Workers -> 0..MaxRetries]
  /\ dlq \subseteq Partitions \X (1..MaxLog)
  /\ faults \in 0..MaxFaults
  /\ pending \subseteq Partitions \X (1..MaxLog) \X Investors
  /\ abandoned \subseteq Partitions \X (1..MaxLog)

\* All the keys message k names were deleted after it was written, or the
\* message can be read from the dead-letter topic.
Handled(p, k) ==
  \/ \A i \in Investors : <<p, k, i>> \notin pending
  \/ <<p, k>> \in dlq

\* At-least-once invalidation.  However workers die, lose partitions to one
\* another and delete only parts of bulk messages, the group's offset passes
\* a message only when it is handled, or its dead-letter write failed.
CommittedIsHandledOrAbandoned ==
  \A p \in Partitions : \A k \in 1..committed[p] :
    Handled(p, k) \/ <<p, k>> \in abandoned

\* What the log line of handleFailure says: a message that could be neither
\* processed nor written to the dead-letter topic has its offset NOT
\* committed.
CommittedIsHandled ==
  \A p \in Partitions : \A k \in 1..committed[p] : Handled(p, k)

\* What the system around the workers sees of them.
Promise ==
  INSTANCE Invalidation WITH
    written  <- [p \in Partitions |-> Len(log[p])],
    pending  <- {t \in pending : <<t[1], t[2]>> \notin dlq \cup abandoned},
    finished <- committed

\* The promise of module Invalidation is kept: deletions and give-ups apart,
\* nothing that workers or the group do takes a deletion off the list, and
\* what is committed is never ahead of the list.
ImplementsInvalidation == Promise!ISpec

\* No message blocks its partition for ever, even with Redis down for good:
\* each one ends up handled, or abandoned to a failing dead-letter topic.
EveryMessageEnds ==
  \A p \in Partitions : \A k \in 1..MaxLog :
    k <= Len(log[p]) ~> Handled(p, k) \/ <<p, k>> \in abandoned
=============================================================================
