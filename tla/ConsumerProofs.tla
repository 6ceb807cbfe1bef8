--------------------------- MODULE ConsumerProofs ---------------------------
(***************************************************************************)
(* Proofs about module InvalidationConsumer, for any number of workers,    *)
(* partitions, messages, retries and faults: the group never commits past  *)
(* a message that was neither handled nor given up, and it implements the  *)
(* promise of module Invalidation.                                         *)
(***************************************************************************)
EXTENDS InvalidationConsumer, SequenceTheorems, TLAPS

-----------------------------------------------------------------------------
(* Types                                                                   *)

\* What a message names is a sequence of investors.
LEMMA TargetsType ==
  ASSUME NEW m \in Messages
  PROVE  /\ Targets(m) \in Seq(Investors)
         /\ Len(Targets(m)) \in Nat
         /\ DOMAIN Targets(m) = 1..Len(Targets(m))
         /\ \A j \in 1..Len(Targets(m)) : Targets(m)[j] \in Investors
<1>1. m.ids \in Seq(Investors) /\ m.type \in EventTypes
  BY ConsumerAssumption DEF ConsumerAssumption, Event
<1>2. Targets(m) \in Seq(Investors)
  <2>1. CASE m.type \in {"other", "bulk_update"}
    BY <1>1, <2>1 DEF Targets
  <2>2. CASE m.type \in {"update", "delete"}
    <3>1. m.ids # <<>>
      BY <2>2, ConsumerAssumption DEF ConsumerAssumption
    <3>2. Len(m.ids) \in Nat /\ Len(m.ids) >= 1
      BY <1>1, <3>1, EmptySeq
    <3>3. \A j \in 1..1 : m.ids[j] \in Investors
      BY <1>1, <3>2
    <3>4. SubSeq(m.ids, 1, 1) \in Seq(Investors)
      BY <1>1, <3>2, <3>3, SubSeqProperties
    <3> QED
      BY <2>2, <3>4 DEF Targets
  <2> QED
    BY <1>1, <2>1, <2>2 DEF EventTypes
<1> QED
  BY <1>2

\* Offsets stay within the log, the log within its bound.
LogBounds ==
  \A p \in Partitions :
    /\ Len(log[p]) <= MaxLog
    /\ committed[p] <= Len(log[p])
    /\ pos[p] <= Len(log[p])

\* A worker that is not fetching has a message of the log in hand.
InHand ==
  \A w \in Workers :
    /\ pc[w] = "fetch" => cur[w] = <<>> /\ done[w] = 0
    /\ pc[w] # "fetch" =>
         \E p \in Partitions : \E k \in 1..Len(log[p]) : cur[w] = <<p, k>>
    /\ pc[w] = "process" => done[w] <= Len(Targets(Msg(w)))

TypeInv == TypeOK /\ LogBounds /\ InHand

\* The message in hand and how much of it is done.
LEMMA MsgType ==
  ASSUME TypeInv, NEW w \in Workers, pc[w] # "fetch"
  PROVE  \E p \in Partitions : \E k \in 1..Len(log[p]) :
           /\ cur[w] = <<p, k>>
           /\ k \in 1..MaxLog
           /\ Msg(w) = log[p][k]
           /\ Msg(w) \in Messages
<1>1. PICK p \in Partitions : \E k \in 1..Len(log[p]) : cur[w] = <<p, k>>
  BY DEF TypeInv, InHand
<1>2. PICK k \in 1..Len(log[p]) : cur[w] = <<p, k>>
  BY <1>1
<1>3. log[p] \in Seq(Messages) /\ Len(log[p]) \in Nat /\ MaxLog \in Nat
  BY ConsumerAssumption DEF TypeInv, TypeOK, ConsumerAssumption
<1>4. Len(log[p]) <= MaxLog
  BY DEF TypeInv, LogBounds
<1>5. k \in 1..MaxLog
  BY <1>3, <1>4
<1>6. Msg(w) = log[p][k]
  BY <1>2 DEF Msg
<1>7. Msg(w) \in Messages
  BY <1>3, <1>6
<1> QED
  BY <1>2, <1>5, <1>6, <1>7

LEMMA CurType ==
  ASSUME TypeInv, NEW w \in Workers, pc[w] # "fetch"
  PROVE  cur[w] \in Partitions \X (1..MaxLog)
<1>1. PICK p \in Partitions : \E k \in 1..Len(log[p]) :
             cur[w] = <<p, k>> /\ k \in 1..MaxLog
  BY MsgType
<1> QED
  BY <1>1

\* The batch in hand: where it ends and what it deletes.
LEMMA BatchType ==
  ASSUME TypeInv, NEW w \in Workers, pc[w] = "process",
         done[w] < Len(Targets(Msg(w)))
  PROVE  /\ BatchEnd(w) \in done[w] .. Len(Targets(Msg(w)))
         /\ BatchEnd(w) \in Nat
<1>1. Len(Targets(Msg(w))) \in Nat
  BY MsgType, TargetsType
<1>2. done[w] \in Nat /\ BulkBatch \in Nat
  BY ConsumerAssumption DEF TypeInv, TypeOK, ConsumerAssumption
<1> QED
  BY <1>1, <1>2 DEF BatchEnd

\* An appended message leaves the others where they are.
LEMMA LogGrows ==
  ASSUME TypeInv, NEW p \in Partitions, NEW m \in Messages,
         log' = [log EXCEPT ![p] = Append(@, m)]
  PROVE  /\ log' \in [Partitions -> Seq(Messages)]
         /\ \A q \in Partitions :
              /\ Len(log[q]) \in Nat /\ Len(log'[q]) \in Nat
              /\ Len(log'[q]) = IF q = p THEN Len(log[q]) + 1 ELSE Len(log[q])
              /\ \A k \in 1..Len(log[q]) : log'[q][k] = log[q][k]
         /\ log'[p][Len(log[p]) + 1] = m
BY DEF TypeInv, TypeOK

\* Init gives every variable a value of its type.
LEMMA InitTypeInv == Init => TypeInv
BY ConsumerAssumption
DEF Init, TypeInv, TypeOK, LogBounds, InHand, ConsumerAssumption

\* A producer's message keeps the types.
LEMMA ProduceType ==
  ASSUME TypeInv, NEW p \in Partitions, NEW m \in Messages, Produce(p, m)
  PROVE  TypeInv'
<1> USE ConsumerAssumption DEF ConsumerAssumption
<1> DEFINE n == Len(log[p]) + 1
           named == {<<p, n, Targets(m)[j]>> : j \in DOMAIN Targets(m)}
<1>1. /\ Len(log[p]) < MaxLog
      /\ log' = [log EXCEPT ![p] = Append(@, m)]
      /\ pending' = pending \cup (IF m.valid THEN named ELSE {})
      /\ UNCHANGED <<committed, owner, pos, pc, cur, done, attempt, dlq, faults,
                     abandoned>>
  BY DEF Produce, groupVars, workVars
<1>2. /\ log' \in [Partitions -> Seq(Messages)]
      /\ \A q \in Partitions :
           /\ Len(log[q]) \in Nat /\ Len(log'[q]) \in Nat
           /\ Len(log'[q]) = IF q = p THEN Len(log[q]) + 1 ELSE Len(log[q])
           /\ \A k \in 1..Len(log[q]) : log'[q][k] = log[q][k]
  BY <1>1, LogGrows
<1>3. n \in 1..MaxLog
  BY <1>1, <1>2
<1>4. named \subseteq Partitions \X (1..MaxLog) \X Investors
  BY <1>3, TargetsType
<1>5. TypeOK'
  BY <1>1, <1>2, <1>4 DEF TypeInv, TypeOK
<1>6. LogBounds'
  BY <1>1, <1>2 DEF TypeInv, TypeOK, LogBounds
<1>7. ASSUME NEW w \in Workers, pc[w] # "fetch"
      PROVE  /\ \E q \in Partitions : \E k \in 1..Len(log'[q]) : cur[w] = <<q, k>>
             /\ Msg(w)' = Msg(w)
  <2>1. PICK q \in Partitions : \E k \in 1..Len(log[q]) :
               cur[w] = <<q, k>> /\ Msg(w) = log[q][k]
    BY <1>7, MsgType
  <2>2. PICK k \in 1..Len(log[q]) : cur[w] = <<q, k>> /\ Msg(w) = log[q][k]
    BY <2>1
  <2>3. k \in 1..Len(log'[q]) /\ log'[q][k] = log[q][k]
    BY <1>2, <2>2
  <2>4. Msg(w)' = log'[q][k]
    BY <1>1, <2>2 DEF Msg
  <2> QED
    BY <2>2, <2>3, <2>4
<1>8. InHand'
  BY <1>1, <1>7 DEF TypeInv, InHand
<1> QED
  BY <1>5, <1>6, <1>8 DEF TypeInv

\* A step that changes one worker and neither log nor positions keeps the
\* types if that worker's new values do.
LEMMA WorkerType ==
  ASSUME TypeInv, NEW w \in Workers,
         NEW l \in {"fetch", "process", "dlq", "commit"},
         NEW c \in (Partitions \X (1..MaxLog)) \cup {<<>>},
         NEW d \in Nat,
         NEW a \in 0..MaxRetries,
         pc' = [pc EXCEPT ![w] = l],
         cur' = [cur EXCEPT ![w] = c],
         done' = [done EXCEPT ![w] = d],
         attempt' = [attempt EXCEPT ![w] = a],
         log' = log,
         l = "fetch" => c = <<>> /\ d = 0,
         l # "fetch" => \E p \in Partitions : \E k \in 1..Len(log[p]) : c = <<p, k>>,
         l = "process" => d <= Len(Targets(log[c[1]][c[2]])),
         committed' \in [Partitions -> 0..MaxLog],
         \A p \in Partitions : committed'[p] <= Len(log[p]),
         owner' \in [Partitions -> Workers],
         pos' \in [Partitions -> 0..MaxLog],
         \A p \in Partitions : pos'[p] <= Len(log[p]),
         dlq' \subseteq Partitions \X (1..MaxLog),
         abandoned' \subseteq Partitions \X (1..MaxLog),
         pending' \subseteq pending,
         faults' \in 0..MaxFaults
  PROVE  TypeInv'
<1>1. TypeOK'
  BY DEF TypeInv, TypeOK
<1>2. LogBounds'
  BY DEF TypeInv, LogBounds
<1>3. \A v \in Workers :
        /\ pc'[v] = IF v = w THEN l ELSE pc[v]
        /\ cur'[v] = IF v = w THEN c ELSE cur[v]
        /\ done'[v] = IF v = w THEN d ELSE done[v]
  BY DEF TypeInv, TypeOK
<1>4. ASSUME NEW v \in Workers
      PROVE  /\ pc'[v] = "fetch" => cur'[v] = <<>> /\ done'[v] = 0
             /\ pc'[v] # "fetch" => \E p \in Partitions :
                  \E k \in 1..Len(log'[p]) : cur'[v] = <<p, k>>
             /\ pc'[v] = "process" => done'[v] <= Len(Targets(Msg(v)'))
  <2>1. CASE v = w
    <3>1. Msg(v)' = log[c[1]][c[2]]
      BY <1>3, <2>1 DEF Msg
    <3>2. pc'[v] = l /\ cur'[v] = c /\ done'[v] = d
      BY <1>3, <2>1
    <3>3. l = "process" => d <= Len(Targets(Msg(v)'))
      BY <3>1
    <3> QED
      BY <3>2, <3>3
  <2>2. CASE v # w
    <3>1. Msg(v)' = Msg(v)
      BY <1>3, <2>2 DEF Msg
    <3> QED
      BY <1>3, <2>2, <3>1 DEF TypeInv, InHand
  <2> QED
    BY <2>1, <2>2
<1>5. InHand'
  BY <1>4 DEF InHand
<1> QED
  BY <1>1, <1>2, <1>5 DEF TypeInv

\* What WorkerType asks of the variables that most steps leave alone.
LEMMA Unmoved ==
  ASSUME TypeInv
  PROVE  /\ committed \in [Partitions -> 0..MaxLog]
         /\ \A p \in Partitions : committed[p] <= Len(log[p])
         /\ owner \in [Partitions -> Workers]
         /\ pos \in [Partitions -> 0..MaxLog]
         /\ \A p \in Partitions : pos[p] <= Len(log[p])
         /\ dlq \subseteq Partitions \X (1..MaxLog)
         /\ abandoned \subseteq Partitions \X (1..MaxLog)
         /\ faults \in 0..MaxFaults
         /\ 0 \in 0..MaxRetries
         /\ \A w \in Workers :
              /\ cur[w] \in (Partitions \X (1..MaxLog)) \cup {<<>>}
              /\ done[w] \in Nat
              /\ attempt[w] \in 0..MaxRetries
              /\ pc = [pc EXCEPT ![w] = pc[w]]
              /\ cur = [cur EXCEPT ![w] = cur[w]]
              /\ done = [done EXCEPT ![w] = done[w]]
              /\ attempt = [attempt EXCEPT ![w] = attempt[w]]
<1> USE ConsumerAssumption DEF TypeInv, TypeOK, LogBounds, ConsumerAssumption
<1>1. 0 \in 0..MaxRetries
  OBVIOUS
<1>2. ASSUME NEW w \in Workers
      PROVE  /\ cur[w] \in (Partitions \X (1..MaxLog)) \cup {<<>>}
             /\ done[w] \in Nat
             /\ attempt[w] \in 0..MaxRetries
             /\ pc = [pc EXCEPT ![w] = pc[w]]
             /\ cur = [cur EXCEPT ![w] = cur[w]]
             /\ done = [done EXCEPT ![w] = done[w]]
             /\ attempt = [attempt EXCEPT ![w] = attempt[w]]
  <2>1. cur[w] \in (Partitions \X (1..MaxLog)) \cup {<<>>}
    OBVIOUS
  <2>2. done[w] \in Nat /\ attempt[w] \in 0..MaxRetries
    OBVIOUS
  <2>3. pc = [pc EXCEPT ![w] = pc[w]]
    OBVIOUS
  <2>4. cur = [cur EXCEPT ![w] = cur[w]]
    OBVIOUS
  <2>5. done = [done EXCEPT ![w] = done[w]]
    OBVIOUS
  <2>6. attempt = [attempt EXCEPT ![w] = attempt[w]]
    OBVIOUS
  <2> QED
    BY <2>1, <2>2, <2>3, <2>4, <2>5, <2>6
<1> QED
  BY <1>1, <1>2

\* A message taken from the log keeps the types.
LEMMA FetchType ==
  ASSUME TypeInv, NEW w \in Workers, FetchMessage(w)
  PROVE  TypeInv'
<1> USE ConsumerAssumption DEF ConsumerAssumption
<1>1. PICK p \in Partitions :
        /\ owner[p] = w
        /\ pos[p] < Len(log[p])
        /\ pos' = [pos EXCEPT ![p] = @ + 1]
        /\ cur' = [cur EXCEPT ![w] = <<p, pos[p] + 1>>]
        /\ pc' = [pc EXCEPT ![w] = IF log[p][pos[p] + 1].valid THEN "process"
                                   ELSE "commit"]
  BY DEF FetchMessage
<1> DEFINE n == pos[p] + 1
           l == IF log[p][n].valid THEN "process" ELSE "commit"
<1>2. UNCHANGED <<log, committed, owner, done, attempt, dlq, faults, pending,
                  abandoned>>
  BY DEF FetchMessage, kafkaVars, ghosts
<1>3. /\ pos[p] \in Nat /\ Len(log[p]) \in Nat /\ Len(log[p]) <= MaxLog
      /\ log[p] \in Seq(Messages)
  BY DEF TypeInv, TypeOK, LogBounds
<1>4. n \in 1..Len(log[p]) /\ n \in 1..MaxLog
  BY <1>1, <1>3
<1>5. done[w] = 0
  BY DEF FetchMessage, TypeInv, InHand
<1>6. log[p][n] \in Messages
  BY <1>3, <1>4
<1>7. 0 <= Len(Targets(log[p][n]))
  BY <1>6, TargetsType
<1>8. pos' \in [Partitions -> 0..MaxLog]
  BY <1>1, <1>4 DEF TypeInv, TypeOK
<1>9. \A q \in Partitions : pos'[q] <= Len(log[q])
  BY <1>1, <1>4, Unmoved
<1>10. done' = [done EXCEPT ![w] = 0] /\ attempt' = [attempt EXCEPT ![w] = attempt[w]]
  BY <1>2, <1>5, Unmoved
<1>11. <<p, n>> \in (Partitions \X (1..MaxLog)) \cup {<<>>}
  BY <1>4
<1>12. l \in {"fetch", "process", "dlq", "commit"} /\ l # "fetch"
  OBVIOUS
<1> HIDE DEF l, n
<1>13. pc' = [pc EXCEPT ![w] = l] /\ cur' = [cur EXCEPT ![w] = <<p, n>>]
  BY <1>1 DEF l, n
<1>14. attempt[w] \in 0..MaxRetries
  BY Unmoved
<1> DEFINE c == <<p, n>>
<1>15. \E q \in Partitions : \E k \in 1..Len(log[q]) : c = <<q, k>>
  BY <1>4
<1>16. 0 <= Len(Targets(log[c[1]][c[2]]))
  BY <1>7 DEF n
<1>17. cur' = [cur EXCEPT ![w] = c] /\ c \in (Partitions \X (1..MaxLog)) \cup {<<>>}
  BY <1>11, <1>13
<1>18. /\ committed' \in [Partitions -> 0..MaxLog]
       /\ \A q \in Partitions : committed'[q] <= Len(log[q])
       /\ owner' \in [Partitions -> Workers]
       /\ dlq' \subseteq Partitions \X (1..MaxLog)
       /\ abandoned' \subseteq Partitions \X (1..MaxLog)
       /\ faults' \in 0..MaxFaults
       /\ pending' \subseteq pending
       /\ log' = log
  BY <1>2, Unmoved
<1> HIDE DEF c
<1> QED
  BY <1>8, <1>9, <1>10, <1>12, <1>13, <1>14, <1>15, <1>16, <1>17, <1>18, WorkerType

\* A step of the loop that keeps the message in hand.
LEMMA SameMessageType ==
  ASSUME TypeInv, NEW w \in Workers, pc[w] # "fetch",
         NEW l \in {"process", "dlq", "commit"},
         NEW d \in Nat,
         NEW a \in 0..MaxRetries,
         pc' = [pc EXCEPT ![w] = l],
         done' = [done EXCEPT ![w] = d],
         attempt' = [attempt EXCEPT ![w] = a],
         l = "process" => d <= Len(Targets(Msg(w))),
         dlq' \subseteq Partitions \X (1..MaxLog),
         pending' \subseteq pending,
         UNCHANGED <<log, committed, groupVars, cur, faults, abandoned>>
  PROVE  TypeInv'
<1>1. \E p \in Partitions : \E k \in 1..Len(log[p]) : cur[w] = <<p, k>>
  BY MsgType
<1>2. Msg(w) = log[cur[w][1]][cur[w][2]]
  BY DEF Msg
<1>3. UNCHANGED <<owner, pos>> /\ cur' = [cur EXCEPT ![w] = cur[w]]
  BY Unmoved DEF groupVars
<1>4. cur[w] \in (Partitions \X (1..MaxLog)) \cup {<<>>}
  BY Unmoved
<1> QED
  BY <1>1, <1>2, <1>3, <1>4, Unmoved, WorkerType

\* The end of an iteration.
LEMMA NextIterationType ==
  ASSUME TypeInv, NEW w \in Workers, NextIteration(w),
         log' = log,
         committed' \in [Partitions -> 0..MaxLog],
         \A p \in Partitions : committed'[p] <= Len(log[p]),
         owner' \in [Partitions -> Workers],
         pos' \in [Partitions -> 0..MaxLog],
         \A p \in Partitions : pos'[p] <= Len(log[p]),
         dlq' \subseteq Partitions \X (1..MaxLog),
         abandoned' \subseteq Partitions \X (1..MaxLog),
         pending' = pending,
         faults' \in 0..MaxFaults
  PROVE  TypeInv'
<1>1. <<>> \in (Partitions \X (1..MaxLog)) \cup {<<>>} /\ 0 \in 0..MaxRetries
  BY Unmoved
<1> QED
  BY <1>1, WorkerType DEF NextIteration

\* Deleting, failing, retrying and ending keep the types.
LEMMA RunType ==
  ASSUME TypeInv, NEW w \in Workers, Run(w)
  PROVE  TypeInv'
<1> USE ConsumerAssumption DEF ConsumerAssumption
<1>1. ASSUME DeleteBatch(w) PROVE TypeInv'
  <2>1. /\ pc[w] = "process" /\ done[w] < Len(Targets(Msg(w)))
        /\ pending' \subseteq pending
        /\ done' = [done EXCEPT ![w] = BatchEnd(w)]
        /\ UNCHANGED <<log, committed, groupVars, pc, cur, attempt, dlq, faults,
                       abandoned>>
    BY <1>1 DEF DeleteBatch, kafkaVars, Deleted
  <2>2. BatchEnd(w) \in Nat /\ BatchEnd(w) <= Len(Targets(Msg(w)))
    <3>1. Len(Targets(Msg(w))) \in Nat
      BY <2>1, MsgType, TargetsType
    <3> QED
      BY <2>1, <3>1, BatchType
  <2>3. /\ pc' = [pc EXCEPT ![w] = "process"]
        /\ attempt' = [attempt EXCEPT ![w] = attempt[w]]
        /\ attempt[w] \in 0..MaxRetries
        /\ dlq' \subseteq Partitions \X (1..MaxLog)
    BY <2>1, Unmoved
  <2> QED
    BY <2>1, <2>2, <2>3, SameMessageType
<1>2. ASSUME DeleteFails(w) PROVE TypeInv'
  <2>1. /\ pc[w] = "process"
        /\ pending' \subseteq pending
        /\ UNCHANGED <<log, committed, groupVars, cur, dlq, faults, abandoned>>
    BY <1>2 DEF DeleteFails, kafkaVars, Deleted
  <2>2. dlq' \subseteq Partitions \X (1..MaxLog)
    BY <2>1, Unmoved
  <2>3. ASSUME MayRetry(w), attempt' = [attempt EXCEPT ![w] = @ + 1],
               done' = [done EXCEPT ![w] = Restart(w)], pc' = pc
        PROVE  TypeInv'
    <3>1. pc' = [pc EXCEPT ![w] = "process"]
      BY <2>1, <2>3, Unmoved
    <3>2. attempt[w] + 1 \in 0..MaxRetries
      BY <2>3, Unmoved DEF MayRetry
    <3>3. 0 <= Len(Targets(Msg(w)))
      BY <2>1, MsgType, TargetsType
    <3>4. done' = [done EXCEPT ![w] = 0]
      BY <2>3 DEF Restart
    <3> QED
      BY <2>1, <2>2, <2>3, <3>1, <3>2, <3>3, <3>4, SameMessageType
  <2>4. ASSUME pc' = [pc EXCEPT ![w] = "dlq"], UNCHANGED <<attempt, done>>
        PROVE  TypeInv'
    <3>1. /\ done' = [done EXCEPT ![w] = done[w]]
          /\ attempt' = [attempt EXCEPT ![w] = attempt[w]]
          /\ done[w] \in Nat /\ attempt[w] \in 0..MaxRetries
      BY <2>4, Unmoved
    <3> QED
      BY <2>1, <2>2, <2>4, <3>1, SameMessageType
  <2> QED
    BY <1>2, <2>3, <2>4 DEF DeleteFails
<1>3. ASSUME Processed(w) \/ WriteDLQ(w) PROVE TypeInv'
  <2>1. /\ pc[w] # "fetch"
        /\ pc' = [pc EXCEPT ![w] = "commit"]
        /\ UNCHANGED <<log, committed, groupVars, cur, done, attempt, faults,
                       pending, abandoned>>
    BY <1>3 DEF Processed, WriteDLQ, kafkaVars, workVars, ghosts
  <2>2. cur[w] \in Partitions \X (1..MaxLog)
    BY <2>1, CurType
  <2>3. dlq' \subseteq Partitions \X (1..MaxLog)
    BY <1>3, <2>2, Unmoved DEF Processed, WriteDLQ
  <2>4. /\ done' = [done EXCEPT ![w] = done[w]]
        /\ attempt' = [attempt EXCEPT ![w] = attempt[w]]
        /\ done[w] \in Nat /\ attempt[w] \in 0..MaxRetries
    BY <2>1, Unmoved
  <2> QED
    BY <2>1, <2>3, <2>4, SameMessageType
<1>4. ASSUME WriteDLQFails(w) PROVE TypeInv'
  <2>1. cur[w] \in Partitions \X (1..MaxLog)
    BY <1>4, CurType DEF WriteDLQFails
  <2>2. UNCHANGED <<log, committed, owner, pos, faults, pending>>
    BY <1>4 DEF WriteDLQFails, kafkaVars, groupVars
  <2>3. /\ dlq' \subseteq Partitions \X (1..MaxLog)
        /\ abandoned' \subseteq Partitions \X (1..MaxLog)
    BY <1>4, <2>1, Unmoved DEF WriteDLQFails
  <2>4. NextIteration(w)
    BY <1>4 DEF WriteDLQFails
  <2> QED
    <3>1. /\ committed' \in [Partitions -> 0..MaxLog]
          /\ \A p \in Partitions : committed'[p] <= Len(log[p])
          /\ owner' \in [Partitions -> Workers]
          /\ pos' \in [Partitions -> 0..MaxLog]
          /\ \A p \in Partitions : pos'[p] <= Len(log[p])
          /\ faults' \in 0..MaxFaults
      BY <2>2, Unmoved
    <3> QED
      BY <2>2, <2>3, <2>4, <3>1, NextIterationType
<1>5. ASSUME CommitMessages(w) PROVE TypeInv'
  <2>1. PICK p \in Partitions : \E k \in 1..Len(log[p]) :
               cur[w] = <<p, k>> /\ k \in 1..MaxLog
    BY <1>5, MsgType DEF CommitMessages
  <2>2. PICK k \in 1..Len(log[p]) : cur[w] = <<p, k>> /\ k \in 1..MaxLog
    BY <2>1
  <2>3. committed' = [committed EXCEPT ![p] = k]
    BY <1>5, <2>2 DEF CommitMessages
  <2>4. Len(log[p]) \in Nat
    BY DEF TypeInv, TypeOK
  <2>5. committed' \in [Partitions -> 0..MaxLog]
    BY <2>2, <2>3, Unmoved
  <2>6. \A q \in Partitions : committed'[q] <= Len(log[q])
    BY <2>2, <2>3, <2>4, Unmoved
  <2>7. UNCHANGED <<log, owner, pos, dlq, faults, pending, abandoned>>
    BY <1>5 DEF CommitMessages, groupVars, ghosts
  <2>8. NextIteration(w)
    BY <1>5 DEF CommitMessages
  <2> QED
    BY <2>5, <2>6, <2>7, <2>8, Unmoved, NextIterationType
<1> QED
  BY <1>1, <1>2, <1>3, <1>4, <1>5, FetchType DEF Run

\* So do failed commits, crashes and rebalances, and every step.
LEMMA NextTypeInv ==
  ASSUME TypeInv, [Next]_vars
  PROVE  TypeInv'
<1> USE ConsumerAssumption DEF ConsumerAssumption
<1>1. ASSUME NEW w \in Workers, CommitFails(w) PROVE TypeInv'
  <2>1. /\ UNCHANGED <<log, committed, owner, pos, dlq, pending, abandoned>>
        /\ NextIteration(w)
        /\ faults < MaxFaults /\ faults' = faults + 1
    BY <1>1 DEF CommitFails, kafkaVars, groupVars, ghosts
  <2>2. faults' \in 0..MaxFaults
    BY <2>1, Unmoved
  <2> QED
    BY <2>1, <2>2, Unmoved, NextIterationType
<1>2. ASSUME Reassign
      PROVE  /\ owner' \in [Partitions -> Workers]
             /\ pos' \in [Partitions -> 0..MaxLog]
             /\ \A p \in Partitions : pos'[p] <= Len(log[p])
  BY <1>2, Unmoved DEF Reassign
<1>3. ASSUME NEW w \in Workers, Crash(w) PROVE TypeInv'
  <2>1. /\ UNCHANGED <<log, committed, dlq, pending, abandoned>>
        /\ NextIteration(w)
        /\ Reassign
        /\ faults < MaxFaults /\ faults' = faults + 1
    BY <1>3 DEF Crash, kafkaVars, ghosts
  <2>2. faults' \in 0..MaxFaults
    BY <2>1, Unmoved
  <2> QED
    BY <1>2, <2>1, <2>2, Unmoved, NextIterationType
<1>4. ASSUME Rebalance PROVE TypeInv'
  <2>1. /\ UNCHANGED <<log, committed, pc, cur, done, attempt, dlq, pending,
                       abandoned>>
        /\ Reassign
        /\ faults < MaxFaults /\ faults' = faults + 1
    BY <1>4 DEF Rebalance, kafkaVars, workVars, ghosts
  <2>2. faults' \in 0..MaxFaults
    BY <2>1, Unmoved
  <2>3. \A w \in Workers : Msg(w)' = Msg(w)
    BY <2>1 DEF Msg
  <2>4. TypeOK'
    BY <1>2, <2>1, <2>2 DEF TypeInv, TypeOK
  <2>5. LogBounds'
    BY <1>2, <2>1 DEF TypeInv, LogBounds
  <2>6. InHand'
    BY <2>1, <2>3 DEF TypeInv, InHand
  <2> QED
    BY <2>4, <2>5, <2>6 DEF TypeInv
<1>5. ASSUME UNCHANGED vars PROVE TypeInv'
  <2>1. UNCHANGED <<log, committed, owner, pos, pc, cur, done, attempt, dlq,
                    faults, pending, abandoned>>
    BY <1>5 DEF vars, kafkaVars, groupVars, workVars, ghosts
  <2> QED
    BY <2>1 DEF TypeInv, TypeOK, LogBounds, InHand, Msg
<1> QED
  BY <1>1, <1>3, <1>4, <1>5, ProduceType, RunType DEF Next, Quiescent

LEMMA InvariantTypeInv == Spec => []TypeInv
<1>1. TypeInv /\ [Next]_vars => TypeInv'
  BY NextTypeInv
<1> QED
  BY <1>1, InitTypeInv, PTL DEF Spec

\* The group's offsets, the workers' messages and what is in the dead-letter
\* topic keep to their types, for any number of workers, partitions, retries
\* and faults.
THEOREM TypeCorrect == Spec => []TypeOK
<1>1. TypeInv => TypeOK
  BY DEF TypeInv
<1> QED
  BY <1>1, InvariantTypeInv, PTL

-----------------------------------------------------------------------------
(* At-least-once invalidation                                              *)

\* Message k of p may be passed by the group's offset.
Settled(p, k) == Handled(p, k) \/ <<p, k>> \in abandoned

\* What is pending is named by a message that was written.
PendingNamed ==
  \A p \in Partitions, k \in 1..MaxLog, i \in Investors :
    <<p, k, i>> \in pending =>
      /\ k <= Len(log[p])
      /\ log[p][k].valid
      /\ \E j \in 1..Len(Targets(log[p][k])) : i = Targets(log[p][k])[j]

\* What processEvent has behind it is deleted.
DoneDeleted ==
  \A w \in Workers : pc[w] = "process" =>
    \A j \in 1..done[w] :
      <<cur[w][1], cur[w][2], Targets(Msg(w))[j]>> \notin pending

\* A message about to be committed is settled ...
CommitSettled ==
  \A w \in Workers : pc[w] = "commit" => Settled(cur[w][1], cur[w][2])

\* ... and so are those before the one in hand, whoever owns the partition
\* by now ...
BeforeSettled ==
  \A w \in Workers : pc[w] # "fetch" =>
    \A k \in 1..MaxLog : k < cur[w][2] => Settled(cur[w][1], k)

\* ... for a partition's owner fetches a message with empty hands.
ReadSettled ==
  \A p \in Partitions : \A k \in 1..MaxLog : k <= pos[p] =>
    Settled(p, k) \/ cur[owner[p]] = <<p, k>>

OffsetSettled ==
  \A p \in Partitions : \A k \in 1..MaxLog : k <= committed[p] => Settled(p, k)

SafeInv ==
  /\ PendingNamed
  /\ DoneDeleted
  /\ CommitSettled
  /\ BeforeSettled
  /\ ReadSettled
  /\ OffsetSettled

\* Nothing that is settled comes undone while the log stays.
LEMMA SettledStays ==
  ASSUME pending' \subseteq pending, dlq \subseteq dlq',
         abandoned \subseteq abandoned'
  PROVE  \A p, k : Settled(p, k) => Settled(p, k)'
BY DEF Settled, Handled

\* A step of worker w that keeps the log is safe if w's new message, the
\* positions and the offsets are.
LEMMA WorkerSafe ==
  ASSUME TypeInv, SafeInv, NEW w \in Workers,
         log' = log, pending' \subseteq pending, dlq \subseteq dlq',
         abandoned \subseteq abandoned',
         \A v \in Workers \ {w} :
           pc'[v] = pc[v] /\ cur'[v] = cur[v] /\ done'[v] = done[v],
         pc'[w] = "process" =>
           \A j \in 1..done'[w] :
             <<cur'[w][1], cur'[w][2], Targets(log[cur'[w][1]][cur'[w][2]])[j]>>
               \notin pending',
         pc'[w] = "commit" => Settled(cur[w][1], cur[w][2])' ,
         pc'[w] # "fetch" =>
           \A k \in 1..MaxLog : k < cur'[w][2] => Settled(cur[w][1], k)',
         ReadSettled',
         OffsetSettled'
  PROVE  SafeInv'
<1>1. \A p, k : Settled(p, k) => Settled(p, k)'
  BY SettledStays
<1>2. PendingNamed'
  BY DEF SafeInv, PendingNamed
<1>3. ASSUME NEW v \in Workers, pc'[v] = "process", NEW j \in 1..done'[v]
      PROVE  <<cur'[v][1], cur'[v][2], Targets(Msg(v)')[j]>> \notin pending'
  <2>1. CASE v = w
    BY <1>3, <2>1 DEF Msg
  <2>2. CASE v # w
    <3>1. Msg(v)' = Msg(v)
      BY <2>2 DEF Msg
    <3>2. pc'[v] = pc[v] /\ cur'[v] = cur[v] /\ done'[v] = done[v]
      BY <2>2
    <3> QED
      BY <1>3, <3>1, <3>2 DEF SafeInv, DoneDeleted
  <2> QED
    BY <2>1, <2>2
<1>4. DoneDeleted'
  BY <1>3 DEF DoneDeleted
<1>5. ASSUME NEW v \in Workers, pc'[v] = "commit"
      PROVE  Settled(cur[v][1], cur[v][2])'
  <2>1. CASE v # w
    <3>1. pc[v] = "commit" /\ cur'[v] = cur[v]
      BY <1>5, <2>1
    <3>2. Settled(cur[v][1], cur[v][2])
      BY <3>1 DEF SafeInv, CommitSettled
    <3> QED
      BY <3>1, <3>2 DEF Settled, Handled
  <2> QED
    BY <1>5, <2>1
<1>6. CommitSettled'
  BY <1>5 DEF CommitSettled
<1>7. ASSUME NEW v \in Workers, pc'[v] # "fetch", NEW k \in 1..MaxLog,
             k < cur'[v][2]
      PROVE  Settled(cur[v][1], k)'
  <2>1. CASE v # w
    <3>1. pc[v] # "fetch" /\ cur'[v] = cur[v]
      BY <1>7, <2>1
    <3>2. Settled(cur[v][1], k)
      BY <1>7, <3>1 DEF SafeInv, BeforeSettled
    <3> QED
      BY <3>1, <3>2 DEF Settled, Handled
  <2> QED
    BY <1>7, <2>1
<1>8. BeforeSettled'
  BY <1>7 DEF BeforeSettled
<1> QED
  BY <1>2, <1>4, <1>6, <1>8 DEF SafeInv

\* A new message unsettles none that was there.
LEMMA ProduceSafe ==
  ASSUME TypeInv, SafeInv, NEW p \in Partitions, NEW m \in Messages, Produce(p, m)
  PROVE  SafeInv'
<1> DEFINE n == Len(log[p]) + 1
           named == {<<p, n, Targets(m)[j]>> : j \in DOMAIN Targets(m)}
<1>1. /\ log' = [log EXCEPT ![p] = Append(@, m)]
      /\ pending' = pending \cup (IF m.valid THEN named ELSE {})
      /\ UNCHANGED <<committed, owner, pos, pc, cur, done, attempt, dlq,
                     abandoned>>
  BY DEF Produce, groupVars, workVars
<1>2. /\ \A q \in Partitions :
           /\ Len(log[q]) \in Nat /\ Len(log'[q]) \in Nat
           /\ Len(log'[q]) = IF q = p THEN Len(log[q]) + 1 ELSE Len(log[q])
           /\ \A k \in 1..Len(log[q]) : log'[q][k] = log[q][k]
      /\ log'[p][n] = m
  BY <1>1, LogGrows
<1>3. ASSUME NEW q \in Partitions, NEW k \in 1..Len(log[q]), NEW i
      PROVE  <<q, k, i>> \in pending' => <<q, k, i>> \in pending
  BY <1>1, <1>2
<1>4. ASSUME NEW q \in Partitions, NEW k \in 1..Len(log[q]), Settled(q, k)
      PROVE  Settled(q, k)'
  BY <1>1, <1>3, <1>4 DEF Settled, Handled
<1>5. ASSUME NEW w \in Workers, pc[w] # "fetch"
      PROVE  \E q \in Partitions : \E k \in 1..Len(log[q]) :
               cur[w] = <<q, k>> /\ Msg(w)' = Msg(w)
  <2>1. PICK q \in Partitions : \E k \in 1..Len(log[q]) :
               cur[w] = <<q, k>> /\ Msg(w) = log[q][k]
    BY <1>5, MsgType
  <2>2. PICK k \in 1..Len(log[q]) : cur[w] = <<q, k>> /\ Msg(w) = log[q][k]
    BY <2>1
  <2>3. Msg(w)' = log'[q][k]
    BY <1>1, <2>2 DEF Msg
  <2>4. log'[q][k] = log[q][k]
    BY <1>2
  <2> QED
    BY <2>2, <2>3, <2>4
<1>6. PendingNamed'
  <2> SUFFICES ASSUME NEW q \in Partitions, NEW k \in 1..MaxLog, NEW i \in Investors,
                      <<q, k, i>> \in pending'
               PROVE  /\ k <= Len(log'[q])
                      /\ log'[q][k].valid
                      /\ \E j \in 1..Len(Targets(log'[q][k])) :
                           i = Targets(log'[q][k])[j]
    BY DEF PendingNamed
  <2>1. CASE <<q, k, i>> \in pending
    <3>1. /\ k <= Len(log[q])
          /\ log[q][k].valid
          /\ \E j \in 1..Len(Targets(log[q][k])) : i = Targets(log[q][k])[j]
      BY <2>1 DEF SafeInv, PendingNamed
    <3>2. k \in 1..Len(log[q])
      BY <1>2, <3>1
    <3>3. log'[q][k] = log[q][k] /\ k <= Len(log'[q])
      BY <1>2, <3>2
    <3> QED
      BY <3>1, <3>3
  <2>2. CASE <<q, k, i>> \notin pending
    <3>1. m.valid /\ <<q, k, i>> \in named
      BY <1>1, <2>2
    <3>2. PICK j \in DOMAIN Targets(m) : <<q, k, i>> = <<p, n, Targets(m)[j]>>
      BY <3>1
    <3>3. j \in 1..Len(Targets(m))
      BY TargetsType
    <3> QED
      BY <1>2, <3>1, <3>2, <3>3
  <2> QED
    BY <2>1, <2>2
<1>7. DoneDeleted'
  <2> SUFFICES ASSUME NEW w \in Workers, pc'[w] = "process", NEW j \in 1..done'[w]
               PROVE  <<cur'[w][1], cur'[w][2], Targets(Msg(w)')[j]>> \notin pending'
    BY DEF DoneDeleted
  <2>1. pc[w] = "process" /\ cur'[w] = cur[w] /\ j \in 1..done[w]
    BY <1>1
  <2>2. PICK q \in Partitions : \E k \in 1..Len(log[q]) :
               cur[w] = <<q, k>> /\ Msg(w)' = Msg(w)
    BY <1>5, <2>1
  <2>3. PICK k \in 1..Len(log[q]) : cur[w] = <<q, k>> /\ Msg(w)' = Msg(w)
    BY <2>2
  <2>4. <<q, k, Targets(Msg(w))[j]>> \notin pending
    <3>1. <<cur[w][1], cur[w][2], Targets(Msg(w))[j]>> \notin pending
      BY <2>1 DEF SafeInv, DoneDeleted
    <3>2. cur[w][1] = q /\ cur[w][2] = k
      BY <2>3
    <3> QED
      BY <3>1, <3>2
  <2> QED
    BY <1>3, <2>1, <2>3, <2>4
<1>8. CommitSettled'
  <2> SUFFICES ASSUME NEW w \in Workers, pc[w] = "commit"
               PROVE  Settled(cur[w][1], cur[w][2])'
    BY <1>1 DEF CommitSettled
  <2>1. PICK q \in Partitions : \E k \in 1..Len(log[q]) : cur[w] = <<q, k>>
    BY <1>5
  <2>2. PICK k \in 1..Len(log[q]) : cur[w] = <<q, k>>
    BY <2>1
  <2>3. Settled(q, k)
    BY <2>2 DEF SafeInv, CommitSettled
  <2>4. Settled(q, k)'
    BY <1>4, <2>3
  <2>5. cur'[w] = <<q, k>>
    BY <1>1, <2>2
  <2> QED
    BY <2>4, <2>5 DEF Settled, Handled
<1>9. BeforeSettled'
  <2> SUFFICES ASSUME NEW w \in Workers, pc[w] # "fetch", NEW k \in 1..MaxLog,
                      k < cur[w][2]
               PROVE  Settled(cur[w][1], k)'
    BY <1>1 DEF BeforeSettled
  <2>1. PICK q \in Partitions : \E l \in 1..Len(log[q]) : cur[w] = <<q, l>>
    BY <1>5
  <2>2. PICK l \in 1..Len(log[q]) : cur[w] = <<q, l>>
    BY <2>1
  <2>3. k \in 1..Len(log[q])
    <3>1. cur[w][2] = l /\ Len(log[q]) \in Nat
      BY <1>2, <2>2
    <3> QED
      BY <2>2, <3>1
  <2>4. Settled(q, k)
    BY <2>2 DEF SafeInv, BeforeSettled
  <2>5. Settled(q, k)'
    BY <1>4, <2>3, <2>4
  <2>6. cur'[w] = <<q, l>>
    BY <1>1, <2>2
  <2> QED
    BY <2>5, <2>6 DEF Settled, Handled
<1>10. ASSUME NEW q \in Partitions, NEW k \in 1..MaxLog,
              k <= pos[q] \/ k <= committed[q]
       PROVE  k \in 1..Len(log[q])
  <2>1. pos[q] <= Len(log[q]) /\ committed[q] <= Len(log[q])
    BY DEF TypeInv, LogBounds
  <2>2. pos[q] \in Nat /\ committed[q] \in Nat
    BY DEF TypeInv, TypeOK
  <2> QED
    BY <1>2, <1>10, <2>1, <2>2
<1>11. ReadSettled'
  BY <1>1, <1>4, <1>10 DEF SafeInv, ReadSettled
<1>12. OffsetSettled'
  BY <1>1, <1>4, <1>10 DEF SafeInv, OffsetSettled
<1> QED
  BY <1>6, <1>7, <1>8, <1>9, <1>11, <1>12 DEF SafeInv

\* The worker that takes the next message has settled those before it.
LEMMA FetchSafe ==
  ASSUME TypeInv, SafeInv, NEW w \in Workers, FetchMessage(w)
  PROVE  SafeInv'
<1>1. PICK p \in Partitions :
        /\ owner[p] = w
        /\ pos[p] < Len(log[p])
        /\ pos' = [pos EXCEPT ![p] = @ + 1]
        /\ cur' = [cur EXCEPT ![w] = <<p, pos[p] + 1>>]
        /\ pc' = [pc EXCEPT ![w] = IF log[p][pos[p] + 1].valid THEN "process"
                                   ELSE "commit"]
  BY DEF FetchMessage
<1> DEFINE n == pos[p] + 1
<1>2. UNCHANGED <<log, committed, owner, done, dlq, pending, abandoned>>
  BY DEF FetchMessage, kafkaVars, ghosts
<1>3. cur[w] = <<>> /\ done[w] = 0
  BY DEF FetchMessage, TypeInv, InHand
<1>4. pos[p] \in Nat /\ n \in Nat
  BY DEF TypeInv, TypeOK
<1>5. \A q, k : Settled(q, k) => Settled(q, k)'
  BY <1>2, SettledStays
<1>6. ASSUME NEW k \in 1..MaxLog, k < n PROVE Settled(p, k)
  <2>1. k <= pos[p] /\ cur[owner[p]] # <<p, k>>
    BY <1>1, <1>3, <1>4, <1>6
  <2> QED
    BY <2>1 DEF SafeInv, ReadSettled
<1>7. /\ cur'[w] = <<p, n>> /\ done'[w] = 0
      /\ pc'[w] = IF log[p][n].valid THEN "process" ELSE "commit"
      /\ \A v \in Workers \ {w} :
           pc'[v] = pc[v] /\ cur'[v] = cur[v] /\ done'[v] = done[v]
  BY <1>1, <1>2, <1>3 DEF TypeInv, TypeOK
<1>8. ASSUME pc'[w] = "commit" PROVE Settled(cur[w][1], cur[w][2])'
  <2>1. ~log[p][n].valid
    BY <1>7, <1>8
  <2>2. n \in 1..MaxLog
    <3>1. Len(log[p]) \in Nat /\ Len(log[p]) <= MaxLog /\ MaxLog \in Nat
      BY ConsumerAssumption DEF TypeInv, TypeOK, LogBounds, ConsumerAssumption
    <3> QED
      BY <1>1, <1>4, <3>1
  <2>3. Settled(p, n)
    BY <2>1, <2>2 DEF SafeInv, PendingNamed, Settled, Handled
  <2> QED
    BY <1>2, <1>7, <2>3 DEF Settled, Handled
<1>9. ASSUME NEW k \in 1..MaxLog, k < cur'[w][2] PROVE Settled(cur[w][1], k)'
  <2>1. Settled(p, k)
    BY <1>6, <1>7, <1>9
  <2> QED
    BY <1>2, <1>7, <2>1 DEF Settled, Handled
<1>10. ASSUME NEW q \in Partitions, NEW k \in 1..MaxLog, k <= pos'[q]
       PROVE  Settled(q, k)' \/ cur'[owner'[q]] = <<q, k>>
  <2>1. CASE q = p
    <3>1. k < n \/ k = n
      BY <1>1, <1>4, <1>10, <2>1 DEF TypeInv, TypeOK
    <3> QED
      BY <1>1, <1>2, <1>5, <1>6, <1>7, <2>1, <3>1
  <2>2. CASE q # p
    <3>1. k <= pos[q]
      BY <1>1, <1>10, <2>2 DEF TypeInv, TypeOK
    <3>2. Settled(q, k) \/ cur[owner[q]] = <<q, k>>
      BY <3>1 DEF SafeInv, ReadSettled
    <3>3. owner[q] \in Workers
      BY DEF TypeInv, TypeOK
    <3> QED
      BY <1>2, <1>3, <1>5, <1>7, <3>2, <3>3
  <2> QED
    BY <2>1, <2>2
<1>11. ReadSettled'
  BY <1>10 DEF ReadSettled
<1>12. OffsetSettled'
  BY <1>2, <1>5 DEF SafeInv, OffsetSettled
<1>13. \A j \in 1..done'[w] :
         <<cur'[w][1], cur'[w][2], Targets(log[cur'[w][1]][cur'[w][2]])[j]>>
           \notin pending'
  BY <1>7
<1> QED
  BY <1>2, <1>7, <1>8, <1>9, <1>11, <1>12, <1>13, WorkerSafe

\* A step that keeps the message in hand is safe if what it takes for done
\* and for settled is.
LEMMA SameMessageSafe ==
  ASSUME TypeInv, SafeInv, NEW w \in Workers, pc[w] # "fetch",
         UNCHANGED <<log, committed, groupVars, cur>>,
         pending' \subseteq pending, dlq \subseteq dlq',
         abandoned \subseteq abandoned',
         \A v \in Workers \ {w} : pc'[v] = pc[v] /\ done'[v] = done[v],
         pc'[w] = "process" =>
           \A j \in 1..done'[w] :
             <<cur[w][1], cur[w][2], Targets(Msg(w))[j]>> \notin pending',
         pc'[w] = "commit" => Settled(cur[w][1], cur[w][2])'
  PROVE  SafeInv'
<1>1. \A q, k : Settled(q, k) => Settled(q, k)'
  BY SettledStays
<1>2. UNCHANGED <<owner, pos>>
  BY DEF groupVars
<1>3. ReadSettled'
  BY <1>1, <1>2 DEF SafeInv, ReadSettled
<1>4. OffsetSettled'
  BY <1>1 DEF SafeInv, OffsetSettled
<1>5. ASSUME NEW k \in 1..MaxLog, k < cur'[w][2] PROVE Settled(cur[w][1], k)'
  <2>1. Settled(cur[w][1], k)
    BY <1>5 DEF SafeInv, BeforeSettled
  <2> QED
    BY <2>1 DEF Settled, Handled
<1>6. pc'[w] = "process" =>
        \A j \in 1..done'[w] :
          <<cur'[w][1], cur'[w][2], Targets(log[cur'[w][1]][cur'[w][2]])[j]>>
            \notin pending'
  BY DEF Msg
<1> QED
  BY <1>3, <1>4, <1>5, <1>6, WorkerSafe

\* The end of an iteration is safe if positions and offsets are.
LEMMA NextIterationSafe ==
  ASSUME TypeInv, SafeInv, NEW w \in Workers, NextIteration(w),
         log' = log, pending' = pending, dlq \subseteq dlq',
         abandoned \subseteq abandoned', ReadSettled', OffsetSettled'
  PROVE  SafeInv'
<1>1. /\ pc'[w] = "fetch"
      /\ \A v \in Workers \ {w} :
           pc'[v] = pc[v] /\ cur'[v] = cur[v] /\ done'[v] = done[v]
  BY DEF NextIteration, TypeInv, TypeOK
<1> QED
  BY <1>1, WorkerSafe

\* A worker lets go of a message that is settled: nobody else's is touched.
LEMMA LetGo ==
  ASSUME TypeInv, SafeInv, NEW w \in Workers, NextIteration(w),
         \A i \in Investors : <<cur[w][1], cur[w][2], i>> \notin pending'
           \/ cur[w] \in dlq' \/ cur[w] \in abandoned',
         UNCHANGED groupVars, pending' = pending, dlq \subseteq dlq',
         abandoned \subseteq abandoned'
  PROVE  ReadSettled'
<1> SUFFICES ASSUME NEW q \in Partitions, NEW k \in 1..MaxLog, k <= pos[q]
             PROVE  Settled(q, k)' \/ cur'[owner[q]] = <<q, k>>
  BY DEF ReadSettled, groupVars
<1>1. CASE Settled(q, k)
  BY <1>1, SettledStays
<1>2. CASE cur[owner[q]] = <<q, k>> /\ owner[q] = w
  <2>1. cur[w][1] = q /\ cur[w][2] = k
    BY <1>2
  <2>2. \/ \A i \in Investors : <<q, k, i>> \notin pending'
        \/ <<q, k>> \in dlq'
        \/ <<q, k>> \in abandoned'
    BY <1>2, <2>1
  <2> QED
    BY <2>2 DEF Settled, Handled
<1>3. CASE cur[owner[q]] = <<q, k>> /\ owner[q] # w
  BY <1>3 DEF NextIteration, TypeInv, TypeOK
<1> QED
  BY <1>1, <1>2, <1>3 DEF SafeInv, ReadSettled

\* What a worker does with its message: partial deletions, retries, the
\* dead-letter topic and the commit.
LEMMA RunSafe ==
  ASSUME TypeInv, SafeInv, NEW w \in Workers, Run(w)
  PROVE  SafeInv'
<1>1. ASSUME DeleteBatch(w) PROVE SafeInv'
  <2>1. /\ pc[w] = "process" /\ done[w] < Len(Targets(Msg(w)))
        /\ pending' = Deleted(Batch(w))
        /\ pending' \subseteq pending
        /\ done' = [done EXCEPT ![w] = BatchEnd(w)]
        /\ UNCHANGED <<log, committed, groupVars, pc, cur, dlq, abandoned>>
    BY <1>1 DEF DeleteBatch, kafkaVars, Deleted
  <2>2. done[w] \in Nat /\ BatchEnd(w) \in Nat /\ done'[w] = BatchEnd(w)
    BY <2>1, BatchType DEF TypeInv, TypeOK
  <2>3. ASSUME NEW j \in 1..done'[w]
        PROVE  <<cur[w][1], cur[w][2], Targets(Msg(w))[j]>> \notin pending'
    <3>1. CASE j <= done[w]
      BY <2>1, <2>2, <3>1 DEF SafeInv, DoneDeleted
    <3>2. CASE j > done[w]
      <4>1. Targets(Msg(w))[j] \in Batch(w)
        BY <2>2, <3>2 DEF Batch
      <4> QED
        BY <2>1, <4>1 DEF Deleted
    <3> QED
      BY <2>2, <3>1, <3>2
  <2>4. \A v \in Workers \ {w} : pc'[v] = pc[v] /\ done'[v] = done[v]
    BY <2>1 DEF TypeInv, TypeOK
  <2> QED
    BY <2>1, <2>3, <2>4, SameMessageSafe
<1>2. ASSUME DeleteFails(w) PROVE SafeInv'
  <2>1. /\ pc[w] = "process"
        /\ pending' \subseteq pending
        /\ UNCHANGED <<log, committed, groupVars, cur, dlq, abandoned>>
    BY <1>2 DEF DeleteFails, kafkaVars, Deleted
  <2>2. pc'[w] # "commit" /\ (pc'[w] = "process" => done'[w] = 0)
    BY <1>2 DEF DeleteFails, Restart, TypeInv, TypeOK
  <2>3. \A v \in Workers \ {w} : pc'[v] = pc[v] /\ done'[v] = done[v]
    BY <1>2 DEF DeleteFails, TypeInv, TypeOK
  <2>4. pc'[w] = "process" => \A j \in 1..done'[w] :
          <<cur[w][1], cur[w][2], Targets(Msg(w))[j]>> \notin pending'
    BY <2>2
  <2> QED
    BY <2>1, <2>2, <2>3, <2>4, SameMessageSafe
<1>3. ASSUME Processed(w) PROVE SafeInv'
  <2>1. /\ pc[w] = "process" /\ done[w] = Len(Targets(Msg(w)))
        /\ UNCHANGED <<log, committed, groupVars, cur, done, dlq, pending,
                       abandoned>>
    BY <1>3 DEF Processed, kafkaVars, workVars, ghosts
  <2>2. PICK p \in Partitions : \E k \in 1..Len(log[p]) :
               /\ cur[w] = <<p, k>> /\ k \in 1..MaxLog /\ Msg(w) = log[p][k]
    BY <2>1, MsgType
  <2>3. PICK k \in 1..MaxLog : cur[w] = <<p, k>> /\ Msg(w) = log[p][k]
    BY <2>2
  <2>4. ASSUME NEW i \in Investors PROVE <<p, k, i>> \notin pending
    <3>1. ASSUME NEW j \in 1..Len(Targets(log[p][k]))
          PROVE  <<p, k, Targets(log[p][k])[j]>> \notin pending
      <4>1. <<cur[w][1], cur[w][2], Targets(Msg(w))[j]>> \notin pending
        BY <2>1, <2>3 DEF SafeInv, DoneDeleted
      <4>2. cur[w][1] = p /\ cur[w][2] = k
        BY <2>3
      <4> QED
        BY <2>3, <4>1, <4>2
    <3> QED
      BY <3>1 DEF SafeInv, PendingNamed
  <2>5. Settled(cur[w][1], cur[w][2])'
    BY <2>1, <2>3, <2>4 DEF Settled, Handled
  <2>6. /\ pc'[w] = "commit"
        /\ \A v \in Workers \ {w} : pc'[v] = pc[v] /\ done'[v] = done[v]
    BY <1>3, <2>1 DEF Processed, TypeInv, TypeOK
  <2> QED
    BY <2>1, <2>5, <2>6, SameMessageSafe
<1>4. ASSUME WriteDLQ(w) PROVE SafeInv'
  <2>1. /\ pc[w] = "dlq"
        /\ dlq' = dlq \cup {cur[w]}
        /\ UNCHANGED <<log, committed, groupVars, cur, done, pending, abandoned>>
    BY <1>4 DEF WriteDLQ, kafkaVars, workVars, ghosts
  <2>2. cur[w] = <<cur[w][1], cur[w][2]>>
    BY <2>1, CurType
  <2>3. Settled(cur[w][1], cur[w][2])'
    BY <2>1, <2>2 DEF Settled, Handled
  <2>4. /\ pc'[w] = "commit"
        /\ \A v \in Workers \ {w} : pc'[v] = pc[v] /\ done'[v] = done[v]
    BY <1>4, <2>1 DEF WriteDLQ, TypeInv, TypeOK
  <2> QED
    BY <2>1, <2>3, <2>4, SameMessageSafe
<1>5. ASSUME WriteDLQFails(w) PROVE SafeInv'
  <2>1. /\ NextIteration(w)
        /\ UNCHANGED <<log, committed, groupVars, pending>>
        /\ dlq \subseteq dlq'
        /\ abandoned \subseteq abandoned' /\ cur[w] \in abandoned'
    BY <1>5 DEF WriteDLQFails, kafkaVars
  <2>2. ReadSettled'
    BY <2>1, LetGo
  <2>3. OffsetSettled'
    BY <2>1, SettledStays DEF SafeInv, OffsetSettled
  <2> QED
    BY <2>1, <2>2, <2>3, NextIterationSafe
<1>6. ASSUME CommitMessages(w) PROVE SafeInv'
  <2>1. /\ NextIteration(w)
        /\ pc[w] = "commit"
        /\ committed' = [committed EXCEPT ![cur[w][1]] = cur[w][2]]
        /\ UNCHANGED <<log, groupVars, dlq, pending, abandoned>>
    BY <1>6 DEF CommitMessages, ghosts
  <2>2. cur[w] \in Partitions \X (1..MaxLog)
    BY <2>1, CurType
  <2>3. Settled(cur[w][1], cur[w][2])
    BY <2>1 DEF SafeInv, CommitSettled
  <2>4. ReadSettled'
    BY <2>1, <2>2, <2>3, LetGo DEF Settled, Handled
  <2>5. OffsetSettled'
    <3> SUFFICES ASSUME NEW q \in Partitions, NEW k \in 1..MaxLog, k <= committed'[q]
                 PROVE  Settled(q, k)
      BY <2>1, SettledStays DEF OffsetSettled
    <3>1. CASE q = cur[w][1]
      <4>1. k < cur[w][2] \/ k = cur[w][2]
        BY <2>1, <2>2, <3>1 DEF TypeInv, TypeOK
      <4> QED
        BY <2>1, <2>3, <3>1, <4>1 DEF SafeInv, BeforeSettled
    <3>2. CASE q # cur[w][1]
      BY <2>1, <3>2 DEF SafeInv, OffsetSettled, TypeInv, TypeOK
    <3> QED
      BY <3>1, <3>2
  <2> QED
    BY <2>1, <2>4, <2>5, NextIterationSafe
<1> QED
  BY <1>1, <1>2, <1>3, <1>4, <1>5, <1>6, FetchSafe DEF Run

\* Failed commits, crashes and rebalances are harmless: whoever takes the
\* partition over starts from what is settled.
LEMMA NextSafe ==
  ASSUME TypeInv, SafeInv, [Next]_vars
  PROVE  SafeInv'
<1>1. ASSUME NEW w \in Workers, CommitFails(w) PROVE SafeInv'
  <2>1. /\ NextIteration(w)
        /\ pc[w] = "commit"
        /\ UNCHANGED <<log, committed, groupVars, dlq, pending, abandoned>>
    BY <1>1 DEF CommitFails, kafkaVars, ghosts
  <2>2. cur[w] \in Partitions \X (1..MaxLog)
    BY <2>1, CurType
  <2>3. Settled(cur[w][1], cur[w][2])
    BY <2>1 DEF SafeInv, CommitSettled
  <2>4. ReadSettled'
    BY <2>1, <2>2, <2>3, LetGo DEF Settled, Handled
  <2>5. OffsetSettled'
    BY <2>1, SettledStays DEF SafeInv, OffsetSettled
  <2> QED
    BY <2>1, <2>4, <2>5, NextIterationSafe
<1>2. ASSUME Reassign, UNCHANGED <<committed, dlq, pending, abandoned>>
      PROVE  ReadSettled' /\ OffsetSettled'
  <2>1. pos' = committed
    BY <1>2 DEF Reassign
  <2> QED
    BY <1>2, <2>1, SettledStays DEF SafeInv, OffsetSettled, ReadSettled
<1>3. ASSUME NEW w \in Workers, Crash(w) PROVE SafeInv'
  <2>1. /\ NextIteration(w) /\ Reassign
        /\ UNCHANGED <<log, committed, dlq, pending, abandoned>>
    BY <1>3 DEF Crash, kafkaVars, ghosts
  <2> QED
    BY <1>2, <2>1, NextIterationSafe
<1>4. ASSUME UNCHANGED <<log, pc, cur, done, dlq, pending, abandoned>>
      PROVE  PendingNamed' /\ DoneDeleted' /\ CommitSettled' /\ BeforeSettled'
  BY <1>4 DEF SafeInv, PendingNamed, DoneDeleted, CommitSettled, BeforeSettled,
     Settled, Handled, Msg
<1>5. CASE Rebalance
  <2>1. /\ Reassign
        /\ UNCHANGED <<log, committed, pc, cur, done, dlq, pending, abandoned>>
    BY <1>5 DEF Rebalance, kafkaVars, workVars, ghosts
  <2> QED
    BY <1>2, <1>4, <2>1 DEF SafeInv
<1>6. CASE UNCHANGED vars
  <2>1. UNCHANGED <<log, committed, owner, pos, pc, cur, done, dlq, pending,
                    abandoned>>
    BY <1>6 DEF vars, kafkaVars, groupVars, workVars, ghosts
  <2>2. ReadSettled' /\ OffsetSettled'
    BY <2>1 DEF SafeInv, ReadSettled, OffsetSettled, Settled, Handled
  <2> QED
    BY <1>4, <2>1, <2>2 DEF SafeInv
<1> QED
  BY <1>1, <1>3, <1>5, <1>6, ProduceSafe, RunSafe DEF Next, Quiescent

LEMMA InitSafe == Init => SafeInv
BY ConsumerAssumption
DEF Init, SafeInv, PendingNamed, DoneDeleted, CommitSettled, BeforeSettled,
    ReadSettled, OffsetSettled, ConsumerAssumption

\* The inductive invariant of the worker group.
THEOREM Invariance == Spec => [](TypeInv /\ SafeInv)
<1>1. TypeInv /\ SafeInv /\ [Next]_vars => SafeInv'
  BY NextSafe
<1> QED
  BY <1>1, InitSafe, InvariantTypeInv, PTL DEF Spec

\* At-least-once invalidation: however workers die, lose partitions to one
\* another, retry and delete only parts of bulk messages, the group's offset
\* passes a message only when all its keys were deleted, or it is in the
\* dead-letter topic, or writing it there failed.
THEOREM AtLeastOnce == Spec => []CommittedIsHandledOrAbandoned
<1>1. TypeInv /\ SafeInv => CommittedIsHandledOrAbandoned
  <2> SUFFICES ASSUME TypeInv, SafeInv,
                      NEW p \in Partitions, NEW k \in 1..committed[p]
               PROVE  Settled(p, k)
    BY DEF CommittedIsHandledOrAbandoned, Settled
  <2>1. k \in 1..MaxLog /\ k <= committed[p]
    BY ConsumerAssumption DEF TypeInv, TypeOK, ConsumerAssumption
  <2> QED
    BY <2>1 DEF SafeInv, OffsetSettled
<1> QED
  BY <1>1, Invariance, PTL
-----------------------------------------------------------------------------
(* The workers keep the promise of module Invalidation                     *)

\* What was given up had been written.
GivenUpIsWritten ==
  \A t \in dlq \cup abandoned : t[1] \in Partitions /\ t[2] \in 1..Len(log[t[1]])

\* Only a message in hand is given up.
LEMMA GivenUpStep ==
  ASSUME TypeInv, GivenUpIsWritten, [Next]_vars
  PROVE  GivenUpIsWritten'
<1>1. ASSUME log' = log,
             \/ UNCHANGED <<dlq, abandoned>>
             \/ \E w \in Workers : /\ pc[w] = "dlq"
                                   /\ dlq' \subseteq dlq \cup {cur[w]}
                                   /\ abandoned' \subseteq abandoned \cup {cur[w]}
      PROVE  GivenUpIsWritten'
  <2>1. ASSUME NEW w \in Workers, pc[w] = "dlq"
        PROVE  cur[w][1] \in Partitions /\ cur[w][2] \in 1..Len(log[cur[w][1]])
    <3>1. PICK p \in Partitions : \E k \in 1..Len(log[p]) : cur[w] = <<p, k>>
      BY <2>1 DEF TypeInv, InHand
    <3> QED
      BY <3>1
  <2> QED
    BY <1>1, <2>1 DEF GivenUpIsWritten
<1>2. ASSUME NEW p \in Partitions, NEW m \in Messages, Produce(p, m)
      PROVE  GivenUpIsWritten'
  <2>1. /\ log' = [log EXCEPT ![p] = Append(@, m)]
        /\ UNCHANGED <<dlq, abandoned>>
    BY <1>2 DEF Produce
  <2>2. \A q \in Partitions : /\ Len(log[q]) \in Nat /\ Len(log'[q]) \in Nat
                              /\ Len(log[q]) <= Len(log'[q])
    BY <2>1, LogGrows
  <2> QED
    BY <2>1, <2>2 DEF GivenUpIsWritten
<1>3. ASSUME NEW w \in Workers, WriteDLQ(w) \/ WriteDLQFails(w)
      PROVE  GivenUpIsWritten'
  <2>1. /\ pc[w] = "dlq" /\ log' = log
        /\ dlq' \subseteq dlq \cup {cur[w]} /\ abandoned' \subseteq abandoned \cup {cur[w]}
    BY <1>3 DEF WriteDLQ, WriteDLQFails, kafkaVars, ghosts
  <2> QED
    BY <1>1, <2>1
<1>4. ASSUME NEW w \in Workers,
             \/ FetchMessage(w) \/ DeleteBatch(w) \/ DeleteFails(w) \/ Processed(w)
             \/ CommitMessages(w) \/ CommitFails(w) \/ Crash(w)
      PROVE  GivenUpIsWritten'
  <2>1. log' = log /\ UNCHANGED <<dlq, abandoned>>
    BY <1>4 DEF FetchMessage, DeleteBatch, DeleteFails, Processed, CommitMessages,
       CommitFails, Crash, kafkaVars, ghosts
  <2> QED
    BY <1>1, <2>1
<1>5. CASE Rebalance \/ UNCHANGED vars
  <2>1. log' = log /\ UNCHANGED <<dlq, abandoned>>
    BY <1>5 DEF Rebalance, vars, kafkaVars, ghosts
  <2> QED
    BY <1>1, <2>1
<1> QED
  BY <1>2, <1>3, <1>4, <1>5 DEF Next, Run, Quiescent

\* What Invalidation sees of the state.
Written == [p \in Partitions |-> Len(log[p])]
Pending == {t \in pending : <<t[1], t[2]>> \notin dlq \cup abandoned}

\* A new message was not given up before: the triples for it are those it names.
LEMMA ProduceWrites ==
  ASSUME TypeInv, SafeInv, GivenUpIsWritten, NEW p \in Partitions, NEW m \in Messages,
         Produce(p, m)
  PROVE  \E D \in SUBSET Investors : Promise!Write(p, D)
<1> DEFINE n == Len(log[p]) + 1
           D == IF m.valid THEN {Targets(m)[j] : j \in DOMAIN Targets(m)} ELSE {}
           new == {<<p, n, i>> : i \in D}
<1>1. /\ log' = [log EXCEPT ![p] = Append(@, m)]
      /\ UNCHANGED <<committed, dlq, abandoned>>
  BY DEF Produce
<1>2. pending' = pending \cup new
  BY DEF Produce
<1>3. D \in SUBSET Investors
  BY TargetsType
<1>4. \A q \in Partitions : /\ Len(log[q]) \in Nat
                            /\ Len(log'[q]) = IF q = p THEN Len(log[q]) + 1 ELSE Len(log[q])
  BY <1>1, LogGrows
<1> HIDE DEF D
<1>5. Written' = [Written EXCEPT ![p] = @ + 1]
  BY <1>4 DEF Written
<1>6. <<p, n>> \notin dlq \cup abandoned
  <2> SUFFICES ASSUME <<p, n>> \in dlq \cup abandoned PROVE FALSE
    OBVIOUS
  <2>1. n \in 1..Len(log[p])
    BY DEF GivenUpIsWritten
  <2> QED
    BY <1>4, <2>1
<1>7. \A t \in new : t[1] = p /\ t[2] = n
  OBVIOUS
<1>8. Pending' = Pending \cup new
  <2> HIDE DEF new, n
  <2> QED
    BY <1>1, <1>2, <1>6, <1>7 DEF Pending
<1>9. n = Written[p] + 1
  BY DEF Written
<1>10. Promise!Write(p, D)
  BY <1>1, <1>5, <1>8, <1>9 DEF Promise!Write, Written, Pending
<1> QED
  BY <1>3, <1>10

\* Keys are deleted, of one message or of several.
LEMMA DeletionDeletes ==
  ASSUME TypeInv, NEW w \in Workers, DeleteBatch(w) \/ DeleteFails(w)
  PROVE  \E D \in SUBSET Investors : Promise!Delete(D)
<1>1. UNCHANGED <<log, committed, dlq, abandoned>>
  BY DEF DeleteBatch, DeleteFails, kafkaVars
<1>2. PICK D \in SUBSET Batch(w) : pending' = {t \in pending : t[3] \notin D}
  BY DEF DeleteBatch, DeleteFails, Deleted
<1>3. Batch(w) \subseteq Investors
  <2>1. /\ pc[w] = "process" /\ done[w] < Len(Targets(Msg(w)))
    BY DEF DeleteBatch, DeleteFails
  <2>2. /\ done[w] \in Nat /\ BatchEnd(w) \in done[w]..Len(Targets(Msg(w)))
        /\ Len(Targets(Msg(w))) \in Nat
    BY <2>1, BatchType, MsgType, TargetsType DEF TypeInv, TypeOK
  <2>3. \A j \in 1..Len(Targets(Msg(w))) : Targets(Msg(w))[j] \in Investors
    BY <2>1, MsgType, TargetsType
  <2> QED
    BY <2>2, <2>3 DEF Batch
<1>4. Promise!Delete(D)
  BY <1>1, <1>2 DEF Promise!Delete
<1> QED
  BY <1>2, <1>3, <1>4

\* A message that cannot be processed is given up.
LEMMA DLQGivesUp ==
  ASSUME TypeInv, NEW w \in Workers, WriteDLQ(w) \/ WriteDLQFails(w)
  PROVE  \E p \in Partitions : \E k \in 1..Len(log[p]) : Promise!GiveUp(p, k)
<1>1. /\ pc[w] = "dlq" /\ UNCHANGED <<log, committed, pending>>
      /\ dlq' \cup abandoned' = (dlq \cup abandoned) \cup {cur[w]}
  BY DEF WriteDLQ, WriteDLQFails, kafkaVars, ghosts
<1>2. PICK p \in Partitions : \E k \in 1..Len(log[p]) : cur[w] = <<p, k>>
  BY <1>1 DEF TypeInv, InHand
<1>3. PICK k \in 1..Len(log[p]) : cur[w] = <<p, k>>
  BY <1>2
<1>4. Pending' = {t \in Pending : t[1] # p \/ t[2] # k}
  BY <1>1, <1>3 DEF Pending
<1>5. Promise!GiveUp(p, k)
  BY <1>1, <1>4 DEF Promise!GiveUp, Pending
<1> QED
  BY <1>5

\* An offset is committed with everything before it settled.
LEMMA CommitFinishes ==
  ASSUME TypeInv, SafeInv, NEW w \in Workers, CommitMessages(w)
  PROVE  \E p \in Partitions : Promise!Finish(p)
<1>1. /\ pc[w] = "commit" /\ UNCHANGED <<log, dlq, pending, abandoned>>
      /\ committed' = [committed EXCEPT ![cur[w][1]] = cur[w][2]]
  BY DEF CommitMessages, ghosts
<1>2. PICK p \in Partitions : \E k \in 1..Len(log[p]) : cur[w] = <<p, k>> /\ k \in 1..MaxLog
  BY <1>1, MsgType
<1>3. PICK k \in 1..Len(log[p]) : cur[w] = <<p, k>> /\ k \in 1..MaxLog
  BY <1>2
<1>4. /\ committed \in [Partitions -> 0..MaxLog] /\ MaxLog \in Nat /\ Len(log[p]) \in Nat
      /\ pending \subseteq Partitions \X (1..MaxLog) \X Investors
  BY ConsumerAssumption DEF TypeInv, TypeOK, ConsumerAssumption
<1>5. /\ committed' \in [Partitions -> Nat] /\ committed'[p] = k
      /\ \A q \in Partitions : committed'[q] = committed[q] \/ q = p
  BY <1>1, <1>3, <1>4
<1>6. k <= Written[p]
  BY <1>3, <1>4 DEF Written
<1>7. ASSUME NEW t \in Pending, t[1] = p PROVE t[2] > k
  <2>1. /\ t \in pending /\ <<t[1], t[2]>> \notin dlq \cup abandoned
        /\ t[2] \in 1..MaxLog /\ t[3] \in Investors /\ t = <<t[1], t[2], t[3]>>
    BY <1>4 DEF Pending
  <2>2. ~Settled(p, t[2])
    BY <1>7, <2>1 DEF Settled, Handled
  <2>3. \A j \in 1..MaxLog : j <= k => Settled(p, j)
    BY <1>1, <1>3, <1>4 DEF SafeInv, CommitSettled, BeforeSettled
  <2> QED
    BY <1>3, <1>4, <2>1, <2>2, <2>3
<1>8. Promise!Finish(p)
  BY <1>1, <1>5, <1>6, <1>7 DEF Promise!Finish, Written, Pending
<1> QED
  BY <1>8

\* The group implements Invalidation: a message written is a Write, a DEL,
\* whole or in part, a Delete, the way through the dead-letter topic a GiveUp
\* and a commit a Finish; fetching, retrying, crashing and rebalancing are
\* invisible.
THEOREM Refinement == Spec => ImplementsInvalidation
<1>1. Init => Promise!IInit
  BY DEF Init, Promise!IInit
<1>2. Init => GivenUpIsWritten
  BY DEF Init, GivenUpIsWritten
<1>3. TypeInv /\ SafeInv /\ GivenUpIsWritten /\ [Next]_vars
        => [Promise!INext]_(Promise!ivars)
  <2> SUFFICES ASSUME TypeInv, SafeInv, GivenUpIsWritten, [Next]_vars
               PROVE  Promise!INext \/ UNCHANGED Promise!ivars
    OBVIOUS
  <2>1. ASSUME NEW p \in Partitions, NEW m \in Messages, Produce(p, m)
        PROVE  Promise!INext
    BY <2>1, ProduceWrites DEF Promise!INext
  <2>2. ASSUME NEW w \in Workers, DeleteBatch(w) \/ DeleteFails(w)
        PROVE  Promise!INext
    BY <2>2, DeletionDeletes DEF Promise!INext
  <2>3. ASSUME NEW w \in Workers, WriteDLQ(w) \/ WriteDLQFails(w)
        PROVE  Promise!INext
    <3>1. PICK p \in Partitions : \E k \in 1..Len(log[p]) : Promise!GiveUp(p, k)
      BY <2>3, DLQGivesUp
    <3>2. [q \in Partitions |-> Len(log[q])][p] = Len(log[p])
      OBVIOUS
    <3> QED
      BY <3>1, <3>2 DEF Promise!INext
  <2>4. ASSUME NEW w \in Workers, CommitMessages(w)
        PROVE  Promise!INext
    BY <2>4, CommitFinishes DEF Promise!INext
  <2>5. ASSUME NEW w \in Workers,
               FetchMessage(w) \/ Processed(w) \/ CommitFails(w) \/ Crash(w)
        PROVE  UNCHANGED Promise!ivars
    BY <2>5 DEF FetchMessage, Processed, CommitFails, Crash, kafkaVars, ghosts,
       Promise!ivars
  <2>6. CASE Rebalance \/ UNCHANGED vars
    BY <2>6 DEF Rebalance, vars, kafkaVars, ghosts, Promise!ivars
  <2> QED
    BY <2>1, <2>2, <2>3, <2>4, <2>5, <2>6 DEF Next, Run, Quiescent
<1>4. TypeInv /\ GivenUpIsWritten /\ [Next]_vars => GivenUpIsWritten'
  BY GivenUpStep
<1> QED
  BY <1>1, <1>2, <1>3, <1>4, Invariance, PTL
  DEF Spec, ImplementsInvalidation, Promise!ISpec
=============================================================================
