----------------------------- MODULE Reconciler -----------------------------
(***************************************************************************)
(* The reconciler of a middleware process: every cycle samples cached keys *)
(* with SCAN, one goroutine per Redis master, and then takes the keys one  *)
(* by one, comparing the entry with the row and deleting the key if the    *)
(* entry is older.                                                         *)
(*                                                                         *)
(* The goroutines share the slice allKeys without a lock.  An append reads *)
(* the slice and later writes it back; if another one wrote in between,    *)
(* that one's keys are lost.  Two that write the same part of the array    *)
(* leave keys of both there, or strings that are no key at all (NoKey).    *)
(*                                                                         *)
(* Module Coherence composes these actions with the writers, readers and   *)
(* workers that change version and cache meanwhile.                        *)
(***************************************************************************)
EXTENDS CacheAside, Sequences

CONSTANTS
  Masters,      \* masters of the Redis cluster
  Buckets,      \* Buckets[m]: the keys of master m in the order of SCAN
  SampleSize,   \* RECONCILE_SAMPLE_SIZE
  NoKey,        \* a garbled key
  MaxFaults     \* bound: failed calls and deaths, here and in Coherence

ASSUME ReconcilerAssumption ==
  /\ Buckets \in [Masters -> Seq(Investors)]
  /\ SampleSize \in Nat \ {0}
  /\ NoKey \notin Investors
  /\ MaxFaults \in Nat

VARIABLES
  phase,        \* "idle", "scan", or what is next for the key in hand
  allKeys,      \* the shared slice; then the keys still to be compared
  at,           \* at[m]: what the goroutine of master m is at
  cursor,       \* cursor[m]: buckets it has scanned, 0 again at the end
  held,         \* held[m]: the slice it read and the keys it will append
  seen,         \* cached.CacheVersion of the key in hand
  faults        \* faults so far

scanVars == <<at, cursor, held>>
rvars == <<phase, allKeys, scanVars, seen>>

Keys == Investors \cup {NoKey}

Nothing == [old |-> <<>>, new |-> <<>>]

RInit ==
  /\ phase = "idle"
  /\ allKeys = <<>>
  /\ at = [m \in Masters |-> "end"]
  /\ cursor = [m \in Masters |-> 0]
  /\ held = [m \in Masters |-> Nothing]
  /\ seen = 0
  /\ faults = 0

Fault == faults < MaxFaults /\ faults' = faults + 1

-----------------------------------------------------------------------------
(* sampleKeys                                                              *)

\* The ticker fires: ForEachMaster starts its goroutines.
StartCycle ==
  /\ phase = "idle"
  /\ phase' = "scan"
  /\ at' = [m \in Masters |-> "test"]
  /\ UNCHANGED <<cvars, allKeys, cursor, held, seen, faults>>

\* The condition of the loop.
Test(m) ==
  /\ at[m] = "test"
  /\ at' = [at EXCEPT ![m] = IF Len(allKeys) < SampleSize THEN "scan"
                             ELSE "end"]
  /\ UNCHANGED <<cvars, phase, allKeys, cursor, held, seen, faults>>

\* The last bucket of a SCAN with COUNT sampleSize.
LastBucket(m) ==
  IF cursor[m] + SampleSize < Len(Buckets[m])
  THEN cursor[m] + SampleSize ELSE Len(Buckets[m])

\* Those of the keys s that are cached, in the order of s.
CachedOf(s) ==
  LET upTo[j \in 0..Len(s)] ==
        IF j = 0 THEN <<>>
        ELSE IF cache[s[j]] # 0 THEN Append(upTo[j - 1], s[j])
        ELSE upTo[j - 1]
  IN  upTo[Len(s)]

\* Faulty: every SCAN starts at cursor 0.
ScanFromStart(m) ==
  /\ at[m] = "scan"
  /\ LET last == IF SampleSize < Len(Buckets[m]) THEN SampleSize
                 ELSE Len(Buckets[m])
     IN  /\ held' = [held EXCEPT ![m] =
              [old |-> allKeys, new |-> CachedOf(SubSeq(Buckets[m], 1, last))]]
         /\ cursor' = [cursor EXCEPT ![m] =
              IF last = Len(Buckets[m]) THEN 0 ELSE last]
  /\ at' = [at EXCEPT ![m] = "append"]
  /\ UNCHANGED <<cvars, phase, allKeys, seen, faults>>

\* Redis answers SCAN: the keys cached now in the next buckets, and the
\* cursor of the next call, 0 if there is none.  append reads allKeys.
Scan(m) ==
  /\ at[m] = "scan"
  /\ held' = [held EXCEPT ![m] =
       [old |-> allKeys,
        new |-> CachedOf(SubSeq(Buckets[m], cursor[m] + 1, LastBucket(m)))]]
  /\ cursor' = [cursor EXCEPT ![m] =
       IF LastBucket(m) = Len(Buckets[m]) THEN 0 ELSE LastBucket(m)]
  /\ at' = [at EXCEPT ![m] = "append"]
  /\ UNCHANGED <<cvars, phase, allKeys, seen, faults>>

ScanFails(m) ==
  /\ at[m] = "scan"
  /\ Fault
  /\ at' = [at EXCEPT ![m] = "failed"]
  /\ UNCHANGED <<cvars, phase, allKeys, cursor, held, seen>>

\* What other goroutines may write, or have written, at position j of the array.
Others(m, j) ==
  {allKeys[k] : k \in {j} \cap DOMAIN allKeys} \cup
  UNION {{held[n].new[k] : k \in {k \in DOMAIN held[n].new :
                                    Len(held[n].old) + k = j}} :
           n \in Masters \ {m}}

\* Faulty: SCAN starts again when the cursor comes back as 0.
AfterAppendAgain(m) == "test"

\* cursor == 0 ends the loop.
AfterAppend(m) == IF cursor[m] = 0 THEN "end" ELSE "test"

\* append writes allKeys: m's keys, but where others write too, theirs or
\* what comes out of both.
AppendKeys(m) ==
  /\ at[m] = "append"
  /\ \E s \in [DOMAIN held[m].new -> Keys] :
       /\ \A j \in DOMAIN s :
            LET o == Others(m, Len(held[m].old) + j)
            IN  s[j] = held[m].new[j] \/ (o # {} /\ s[j] \in o \cup {NoKey})
       /\ allKeys' = held[m].old \o s
  /\ at' = [at EXCEPT ![m] = AfterAppend(m)]
  /\ held' = [held EXCEPT ![m] = Nothing]
  /\ UNCHANGED <<cvars, phase, cursor, seen, faults>>

NoScan ==
  /\ at' = [m \in Masters |-> "end"]
  /\ cursor' = [m \in Masters |-> 0]
  /\ held' = [m \in Masters |-> Nothing]

\* All goroutines are done: keys beyond the sample are cut off.
Sampled ==
  /\ phase = "scan"
  /\ \A m \in Masters : at[m] = "end"
  /\ phase' = "get"
  /\ allKeys' = SubSeq(allKeys, 1, IF Len(allKeys) < SampleSize
                                   THEN Len(allKeys) ELSE SampleSize)
  /\ NoScan
  /\ UNCHANGED <<cvars, seen, faults>>

\* One of them failed: there is nothing to compare in this cycle.
SamplingFailed ==
  /\ phase = "scan"
  /\ \A m \in Masters : at[m] \in {"end", "failed"}
  /\ \E m \in Masters : at[m] = "failed"
  /\ phase' = "idle"
  /\ allKeys' = <<>>
  /\ NoScan
  /\ UNCHANGED <<cvars, seen, faults>>

-----------------------------------------------------------------------------
(* The loop of reconcile                                                   *)

Key == Head(allKeys)

NextKey ==
  /\ phase' = "get"
  /\ allKeys' = Tail(allKeys)
  /\ seen' = 0
  /\ UNCHANGED scanVars

\* CacheStore.Get of the key in hand: the entry, or none (any more).
GetEntry ==
  /\ phase = "get" /\ allKeys # <<>>
  /\ IF Key \in Investors /\ cache[Key] # 0
     THEN phase' = "read" /\ seen' = cache[Key] /\ UNCHANGED <<allKeys, scanVars>>
     ELSE NextKey
  /\ UNCHANGED <<cvars, faults>>

\* Faulty: an entry as new as the row is evicted too.
NotNewer(cached, current) == cached <= current

Older(cached, current) == cached < current

\* ProfileRepository.GetByID, and the comparison.
ReadRow ==
  /\ phase = "read"
  /\ IF Older(seen, version[Key])
     THEN phase' = "delete" /\ UNCHANGED <<allKeys, scanVars, seen>>
     ELSE NextKey
  /\ UNCHANGED <<cvars, faults>>

\* CacheStore.Delete, whatever the key holds by now.
Evict ==
  /\ phase = "delete"
  /\ Drop(Key)
  /\ NextKey
  /\ UNCHANGED faults

\* A failed call skips the key; a failed Delete is ignored.
CallFails ==
  /\ phase \in {"get", "read", "delete"} /\ allKeys # <<>>
  /\ Fault
  /\ NextKey
  /\ UNCHANGED cvars

CycleDone ==
  /\ phase = "get" /\ allKeys = <<>>
  /\ phase' = "idle"
  /\ UNCHANGED <<cvars, allKeys, scanVars, seen, faults>>

\* The process is stopped, or what the data race left in memory kills it.
Die ==
  /\ phase # "idle"
  /\ Fault
  /\ phase' = "idle" /\ allKeys' = <<>> /\ seen' = 0
  /\ NoScan
  /\ UNCHANGED cvars

-----------------------------------------------------------------------------
SampleKeys ==
  \/ \E m \in Masters : Test(m) \/ Scan(m) \/ AppendKeys(m)
  \/ Sampled
  \/ SamplingFailed

Reconcile ==
  \/ StartCycle
  \/ SampleKeys
  \/ GetEntry \/ ReadRow \/ Evict
  \/ CycleDone

ReconcileFails ==
  \/ \E m \in Masters : ScanFails(m)
  \/ CallFails
  \/ Die

-----------------------------------------------------------------------------
ReconcilerTypeOK ==
  /\ phase \in {"idle", "scan", "get", "read", "delete"}
  /\ allKeys \in Seq(Keys)
  /\ at \in [Masters -> {"test", "scan", "append", "end", "failed"}]
  /\ cursor \in [Masters -> Nat]
  /\ held \in [Masters -> [old : Seq(Keys), new : Seq(Investors)]]
  /\ seen \in Nat
  /\ faults \in 0..MaxFaults
=============================================================================
