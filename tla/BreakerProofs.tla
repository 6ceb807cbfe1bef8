---------------------------- MODULE BreakerProofs ---------------------------
(***************************************************************************)
(* Proofs about module Breaker, for any servers, requests and thresholds:  *)
(* counts add up, a full half-open breaker waits for somebody, misses      *)
(* never open one, and the read path keeps its promises behind them.       *)
(***************************************************************************)
EXTENDS Breaker, CacheManagerProofs, FiniteSetTheorems, TLAPS

-----------------------------------------------------------------------------
(* The invariant                                                           *)

Counters == [state : {"closed", "open", "half-open"}, requests : Nat,
             successes : Nat, failures : Nat]

\* How many requests a generation counts at most.
Limit(state) ==
  CASE state = "closed" -> MaxCount
    [] state = "half-open" -> MaxRequests
    [] OTHER -> 0

\* The counts b of a server whose lookups are L: each request counted is among
\* the lookups or was answered, no more than its state lets through, and a
\* half-open breaker has not decided.
Sound(b, L) ==
  /\ b.requests = b.successes + b.failures + Cardinality(L)
  /\ b.requests <= Limit(b.state)
  /\ b.state = "half-open" => b.failures = 0 /\ b.successes < MaxRequests

BInv ==
  /\ breaker \in [Servers -> Counters]
  /\ permit \in [Requests -> {"none", "current", "old"}]
  /\ \A s \in Servers : Sound(breaker[s], Lookups(s))

\* A server has finitely many lookups.
LEMMA LookupsFinite ==
  ASSUME NEW s
  PROVE  IsFiniteSet(Lookups(s)) /\ Cardinality(Lookups(s)) \in Nat
<1>1. IsFiniteSet(Requests) /\ Lookups(s) \subseteq Requests
  BY BreakerAssumption DEF BreakerAssumption, Lookups
<1> QED
  BY <1>1, FS_Subset, FS_CardinalityType

\* A generation begins without counts.
LEMMA FreshSound ==
  ASSUME NEW l \in {"closed", "open", "half-open"}
  PROVE  Fresh(l) \in Counters /\ Sound(Fresh(l), {})
<1>1. Cardinality({}) = 0
  BY FS_EmptySet
<1>2. MaxRequests \in Nat \ {0} /\ MaxCount \in Nat
  BY BreakerAssumption DEF BreakerAssumption
<1> QED
  BY <1>1, <1>2 DEF Fresh, Counters, Sound, Limit

\* At first nobody looks anything up.
LEMMA InitBInv == BInit => BInv
<1> SUFFICES ASSUME BInit PROVE BInv
  OBVIOUS
<1>1. \A s \in Servers : breaker[s] = Fresh("closed") /\ Lookups(s) = {}
  BY DEF BInit, Lookups
<1> QED
  BY <1>1, FreshSound DEF BInit, BInv

\* What concerns the breaker of s: the others' counts and permits stay.
At(s, c, L) ==
  /\ breaker' = [breaker EXCEPT ![s] = c]
  /\ permit' \in [Requests -> {"none", "current", "old"}]
  /\ \A q \in Requests : ServerOf[q] # s => permit'[q] = permit[q]
  /\ {q \in Requests : ServerOf[q] = s /\ permit'[q] = "current"} = L

\* Such a step is sound if its counts are.
LEMMA ServerStep ==
  ASSUME BInv, NEW s \in Servers, NEW c \in Counters, NEW L,
         At(s, c, L), Sound(c, L)
  PROVE  BInv'
<1>1. Lookups(s)' = L
  BY DEF At, Lookups
<1>2. \A t \in Servers \ {s} : Lookups(t)' = Lookups(t)
  BY DEF At, Lookups
<1>3. \A t \in Servers : breaker'[t] = IF t = s THEN c ELSE breaker[t]
  BY DEF At, BInv
<1>4. breaker' \in [Servers -> Counters]
  BY DEF At, BInv
<1>5. ASSUME NEW t \in Servers PROVE Sound(breaker[t], Lookups(t))'
  <2>1. CASE t = s
    BY <1>1, <1>3, <2>1 DEF Sound
  <2>2. CASE t # s
    BY <1>2, <1>3, <2>2 DEF BInv, Sound
  <2> QED
    BY <2>1, <2>2
<1> QED
  BY <1>4, <1>5 DEF At, BInv

-----------------------------------------------------------------------------
(* Steps                                                                   *)

\* A new generation on s: nobody's lookup belongs to it.
LEMMA GenerationStep ==
  ASSUME BInv, NEW s \in Servers, NEW l \in {"closed", "open", "half-open"},
         breaker' = [breaker EXCEPT ![s] = Fresh(l)],
         permit' \in [Requests -> {"none", "current", "old"}],
         \A q \in Requests :
           IF ServerOf[q] = s THEN permit'[q] # "current" ELSE permit'[q] = permit[q]
  PROVE  BInv'
<1>1. At(s, Fresh(l), {})
  BY DEF At
<1> QED
  BY <1>1, FreshSound, ServerStep

\* The same on behalf of a request whose answer changes the state.
LEMMA SetStateStep ==
  ASSUME BInv, NEW r \in Requests, NEW l \in {"closed", "open", "half-open"},
         SetState(r, l)
  PROVE  BInv'
<1> DEFINE s == ServerOf[r]
<1>1. s \in Servers
  BY CacheManagerAssumption DEF CacheManagerAssumption
<1>2. permit \in [Requests -> {"none", "current", "old"}]
  BY DEF BInv
<1>3. /\ breaker' = [breaker EXCEPT ![s] = Fresh(l)]
      /\ permit' \in [Requests -> {"none", "current", "old"}]
      /\ \A q \in Requests :
           IF ServerOf[q] = s THEN permit'[q] # "current" ELSE permit'[q] = permit[q]
  BY <1>2 DEF SetState, Outdated
<1> HIDE DEF s
<1> QED
  BY <1>1, <1>3, GenerationStep

\* An answer that is counted leaves the lookups.
LEMMA CountStep ==
  ASSUME BInv, NEW r \in Requests, permit[r] = "current",
         NEW c \in Counters, Count(r, c),
         c.requests = Of(r).requests, c.state = Of(r).state,
         c.successes + c.failures = Of(r).successes + Of(r).failures + 1,
         c.state = "half-open" => c.failures = 0 /\ c.successes < MaxRequests
  PROVE  BInv'
<1> DEFINE s == ServerOf[r]
           L == Lookups(s) \ {r}
<1>1. s \in Servers
  BY CacheManagerAssumption DEF CacheManagerAssumption
<1>2. r \in Lookups(s)
  BY DEF Lookups
<1>3. Cardinality(L) = Cardinality(Lookups(s)) - 1 /\ Cardinality(Lookups(s)) \in Nat
  BY <1>2, LookupsFinite, FS_RemoveElement
<1>4. /\ Of(r) \in Counters
      /\ Of(r).requests = Of(r).successes + Of(r).failures + Cardinality(Lookups(s))
      /\ Of(r).requests <= Limit(Of(r).state)
  BY <1>1 DEF BInv, Of, Sound
<1>5. At(s, c, L)
  BY DEF BInv, At, Count, Lookups
<1> HIDE DEF s, L
<1>6. Sound(c, L)
  BY <1>3, <1>4 DEF Sound, Counters
<1> QED
  BY <1>1, <1>5, <1>6, ServerStep

\* An answer counts in its own generation.
LEMMA AnswerStep ==
  ASSUME BInv, NEW r \in Requests, NEW ok \in BOOLEAN, permit[r] # "none",
         AfterRequest(r, ok)
  PROVE  BInv'
<1>1. CASE permit[r] = "old"
  <2>1. breaker' = breaker /\ permit' = [permit EXCEPT ![r] = "none"]
    BY <1>1 DEF AfterRequest
  <2>2. permit' \in [Requests -> {"none", "current", "old"}]
    BY <2>1 DEF BInv
  <2>3. \A s \in Servers : Lookups(s)' = Lookups(s)
    BY <1>1, <2>1 DEF BInv, Lookups
  <2> QED
    BY <2>1, <2>2, <2>3 DEF BInv, Sound
<1>2. CASE permit[r] = "current"
  <2> DEFINE b == Of(r)
             cs == [b EXCEPT !.successes = @ + 1]
             cf == [b EXCEPT !.failures = @ + 1]
  <2>1. ServerOf[r] \in Servers /\ MaxRequests \in Nat
    BY CacheManagerAssumption, BreakerAssumption
    DEF CacheManagerAssumption, BreakerAssumption
  <2>2. /\ b \in Counters
        /\ b.state = "half-open" => b.failures = 0 /\ b.successes < MaxRequests
    BY <2>1 DEF BInv, Of, Sound
  <2>3. \/ SetState(r, "closed")
        \/ /\ Count(r, cs)
           /\ ~(b.state = "half-open" /\ cs.successes >= MaxRequests)
        \/ SetState(r, "open")
        \/ Count(r, cf) /\ b.state # "half-open"
    BY <1>2, <2>2 DEF AfterRequest, OnSuccess, OnFailure, Counters
  <2> HIDE DEF b
  <2>4. CASE Count(r, cs) /\ ~(b.state = "half-open" /\ cs.successes >= MaxRequests)
    <3>1. /\ cs \in Counters /\ cs.state = b.state /\ cs.requests = b.requests
          /\ cs.successes = b.successes + 1 /\ cs.failures = b.failures
      BY <2>2 DEF Counters
    <3> HIDE DEF cs
    <3>2. cs.state = "half-open" => cs.failures = 0 /\ cs.successes < MaxRequests
      BY <2>1, <2>2, <2>4, <3>1 DEF Counters
    <3>3. cs.successes + cs.failures = b.successes + b.failures + 1
      BY <2>2, <3>1 DEF Counters
    <3> QED
      BY <1>2, <2>4, <3>1, <3>2, <3>3, CountStep DEF b
  <2>5. CASE Count(r, cf) /\ b.state # "half-open"
    <3>1. /\ cf \in Counters /\ cf.state = b.state /\ cf.requests = b.requests
          /\ cf.successes = b.successes /\ cf.failures = b.failures + 1
      BY <2>2 DEF Counters
    <3> HIDE DEF cf
    <3>2. cf.successes + cf.failures = b.successes + b.failures + 1
      BY <2>2, <3>1 DEF Counters
    <3> QED
      BY <1>2, <2>5, <3>1, <3>2, CountStep DEF b
  <2> QED
    BY <2>3, <2>4, <2>5, SetStateStep
<1> QED
  BY <1>1, <1>2 DEF BInv

\* A lookup that is let through is one more request and one more lookup, in a
\* generation of its own if the interval was over.
LEMMA AdmitStep ==
  ASSUME BInv, NEW r \in Requests, Admit(r)
  PROVE  BInv'
<1> DEFINE s == ServerOf[r]
<1>1. s \in Servers /\ permit[r] = "none" /\ permit \in [Requests -> {"none", "current", "old"}]
  BY CacheManagerAssumption DEF CacheManagerAssumption, Admit, BInv
<1>2. breaker[s] \in Counters /\ Sound(breaker[s], Lookups(s))
  BY <1>1 DEF BInv
<1>3. CASE Closed(s) /\ Of(r).requests = MaxCount
  <2> DEFINE c == [Fresh("closed") EXCEPT !.requests = @ + 1]
  <2>1. /\ breaker' = [breaker EXCEPT ![s] = c]
        /\ permit' = [Outdated(s, r) EXCEPT ![r] = "current"]
    BY <1>3 DEF Admit
  <2>2. At(s, c, {r})
    BY <1>1, <2>1 DEF At, Outdated
  <2>3. c = [state |-> "closed", requests |-> 1, successes |-> 0, failures |-> 0]
    BY DEF Fresh
  <2>4. Cardinality({r}) = 1
    BY FS_Singleton
  <2> HIDE DEF c, s
  <2>5. MaxCount \in Nat \ {0}
    BY BreakerAssumption DEF BreakerAssumption
  <2>6. c \in Counters /\ Sound(c, {r})
    BY <2>3, <2>4, <2>5 DEF Counters, Sound, Limit
  <2> QED
    BY <1>1, <2>2, <2>6, ServerStep
<1>4. CASE ~(Closed(s) /\ Of(r).requests = MaxCount)
  <2> DEFINE b == breaker[s]
             c == [b EXCEPT !.requests = @ + 1]
             L == Lookups(s) \cup {r}
  <2>1. /\ breaker' = [breaker EXCEPT ![s] = c]
        /\ permit' = [permit EXCEPT ![r] = "current"]
    BY <1>4 DEF Admit, Of
  <2>2. At(s, c, L)
    BY <1>1, <2>1 DEF At, Lookups
  <2>3. r \notin Lookups(s)
    BY <1>1 DEF Lookups
  <2>4. Cardinality(L) = Cardinality(Lookups(s)) + 1 /\ Cardinality(Lookups(s)) \in Nat
    BY <2>3, LookupsFinite, FS_AddElement
  <2>5. b \in Counters /\ Sound(b, Lookups(s))
    BY <1>2
  <2>6. /\ b.state # "open"
        /\ b.state = "closed" => b.requests # MaxCount
        /\ b.state = "half-open" => ~(b.requests >= MaxRequests)
    BY <1>4 DEF Admit, Refuses, Full, Closed, Of
  <2>7. MaxRequests \in Nat /\ MaxCount \in Nat
    BY BreakerAssumption DEF BreakerAssumption
  <2> HIDE DEF b, L, s
  <2>8. /\ c \in Counters /\ c.state = b.state /\ c.requests = b.requests + 1
        /\ c.successes = b.successes /\ c.failures = b.failures
    BY <2>5 DEF Counters
  <2> HIDE DEF c
  <2>9. Sound(c, L)
    <3>1. c.requests <= Limit(c.state)
      BY <2>5, <2>8, <2>6, <2>7 DEF Sound, Counters, Limit
    <3> QED
      BY <2>4, <2>5, <2>8, <3>1 DEF Sound, Counters
  <2> QED
    BY <1>1, <2>2, <2>8, <2>9, ServerStep
<1> QED
  BY <1>3, <1>4

\* Time and crashes start generations.
LEMMA ServerEvents ==
  ASSUME BInv, NEW s \in Servers, IntervalEnds(s) \/ TimeoutEnds(s) \/ CrashServer(s)
  PROVE  BInv'
<1>1. permit \in [Requests -> {"none", "current", "old"}]
  BY DEF BInv
<1>2. ASSUME NEW l \in {"closed", "half-open"}, NewGeneration(s, l) PROVE BInv'
  <2>1. /\ breaker' = [breaker EXCEPT ![s] = Fresh(l)]
        /\ permit' \in [Requests -> {"none", "current", "old"}]
        /\ \A q \in Requests :
             IF ServerOf[q] = s THEN permit'[q] # "current" ELSE permit'[q] = permit[q]
    BY <1>1, <1>2 DEF NewGeneration
  <2> QED
    BY <2>1, GenerationStep
<1>3. CASE CrashServer(s)
  <2>1. /\ breaker' = [breaker EXCEPT ![s] = Fresh("closed")]
        /\ permit' \in [Requests -> {"none", "current", "old"}]
        /\ \A q \in Requests :
             IF ServerOf[q] = s THEN permit'[q] # "current" ELSE permit'[q] = permit[q]
    BY <1>1, <1>3 DEF CrashServer
  <2> QED
    BY <2>1, GenerationStep
<1> QED
  BY <1>2, <1>3 DEF IntervalEnds, TimeoutEnds

\* Every step of the read path keeps the breakers sound.
LEMMA NextBInv == BInv /\ [BNext]_<<vars, bvars>> => BInv'
<1> SUFFICES ASSUME BInv, [BNext]_<<vars, bvars>> PROVE BInv'
  OBVIOUS
<1>1. CASE UNCHANGED <<breaker, permit>>
  BY <1>1 DEF BInv, Lookups, Sound
<1>2. ASSUME NEW r \in Requests, GuardedServe(r) PROVE BInv'
  <2>1. CASE Admit(r)
    BY <2>1, AdmitStep
  <2>2. CASE Answered(r)
    BY <2>2, AnswerStep DEF Answered, IsSuccessful
  <2>3. CASE Unanswerable(r)
    BY <2>3, AnswerStep DEF Unanswerable
  <2>4. CASE Refuse(r) \/ (GoOn(r) /\ UNCHANGED bvars)
    BY <1>1, <2>4 DEF Refuse, bvars
  <2> QED
    BY <1>2, <2>1, <2>2, <2>3, <2>4 DEF GuardedServe
<1>3. ASSUME NEW s \in Servers, IntervalEnds(s) \/ TimeoutEnds(s) \/ CrashServer(s)
      PROVE  BInv'
  BY <1>3, ServerEvents
<1> QED
  BY <1>1, <1>2, <1>3 DEF BNext, Ask, HealthChanges, bvars

-----------------------------------------------------------------------------
(* Theorems                                                                *)

\* The inductive invariant of the breakers.
THEOREM BreakersSound == BSpec => []BInv
<1>1. BInit => BInv
  BY InitBInv
<1> QED
  BY <1>1, NextBInv, PTL DEF BSpec

\* Nothing is counted twice, forgotten or counted in the wrong generation.
THEOREM CountsAgree == BSpec => []CountsAddUp
<1>1. BInv => CountsAddUp
  BY DEF BInv, Sound, CountsAddUp
<1> QED
  BY <1>1, BreakersSound, PTL

\* Half-open never refuses everybody with no probe out to end it.
THEOREM ProbesStayOut == BSpec => []ProbesAreOut
<1>1. BInv => ProbesAreOut
  <2> SUFFICES ASSUME BInv, NEW s \in Servers, Full(s), Lookups(s) = {}
               PROVE  FALSE
    BY DEF ProbesAreOut
  <2>1. breaker[s] \in Counters /\ Sound(breaker[s], {})
    BY DEF BInv
  <2>2. Cardinality({}) = 0 /\ MaxRequests \in Nat
    BY FS_EmptySet, BreakerAssumption DEF BreakerAssumption
  <2> QED
    BY <2>1, <2>2 DEF Full, Sound, Counters
<1> QED
  BY <1>1, BreakersSound, PTL

\* Only a lookup that failed opens a breaker.
THEOREM MissesDoNotOpen == BSpec => OpensOnFailuresOnly
<1>1. BInv /\ [BNext]_<<vars, bvars>> => [FailuresOpen]_<<vars, bvars>>
  <2> SUFFICES ASSUME BInv, BNext, NEW s \in Servers,
                      breaker[s].state # "open", breaker'[s].state = "open", healthy
               PROVE  FALSE
    BY DEF FailuresOpen
  <2>1. breaker \in [Servers -> Counters]
    BY DEF BInv
  <2>2. breaker' # breaker
    OBVIOUS
  <2>3. ASSUME NEW t \in Servers, NEW l \in {"closed", "half-open"},
               breaker' = [breaker EXCEPT ![t] = Fresh(l)]
        PROVE  FALSE
    BY <2>1, <2>3 DEF Fresh
  <2>4. ASSUME NEW t \in Servers, NEW c \in Counters, c.state \in {breaker[t].state, "closed"},
               breaker' = [breaker EXCEPT ![t] = c]
        PROVE  FALSE
    BY <2>1, <2>4
  <2>5. ASSUME NEW t \in Servers, IntervalEnds(t) \/ TimeoutEnds(t) \/ CrashServer(t)
        PROVE  FALSE
    BY <2>3, <2>5 DEF IntervalEnds, TimeoutEnds, CrashServer, NewGeneration
  <2>6. ASSUME NEW r \in Requests, Admit(r) PROVE FALSE
    <3> DEFINE t == ServerOf[r]
               fresh == [Fresh("closed") EXCEPT !.requests = @ + 1]
               next == [breaker[t] EXCEPT !.requests = @ + 1]
    <3>1. t \in Servers
      BY CacheManagerAssumption DEF CacheManagerAssumption
    <3>2. breaker' = [breaker EXCEPT ![t] = fresh] \/ breaker' = [breaker EXCEPT ![t] = next]
      BY <2>6 DEF Admit, Of
    <3>3. fresh \in Counters /\ fresh.state = "closed"
      BY DEF Fresh, Counters
    <3>4. next \in Counters /\ next.state = breaker[t].state
      BY <2>1, <3>1 DEF Counters
    <3> HIDE DEF t, fresh, next
    <3> QED
      BY <2>4, <3>1, <3>2, <3>3, <3>4
  <2>7. ASSUME NEW r \in Requests, Answered(r) PROVE FALSE
    <3> DEFINE t == ServerOf[r]
               c == [breaker[t] EXCEPT !.successes = @ + 1]
    <3>1. t \in Servers
      BY CacheManagerAssumption DEF CacheManagerAssumption
    <3>2. \/ breaker' = breaker
          \/ breaker' = [breaker EXCEPT ![t] = Fresh("closed")]
          \/ breaker' = [breaker EXCEPT ![t] = c]
      BY <2>7 DEF Answered, IsSuccessful, AfterRequest, OnSuccess, SetState, Count, Of
    <3>3. c \in Counters /\ c.state = breaker[t].state
      BY <2>1, <3>1 DEF Counters
    <3> HIDE DEF t, c
    <3> QED
      BY <2>2, <2>3, <2>4, <3>1, <3>2, <3>3
  <2> QED
    BY <2>2, <2>5, <2>6, <2>7
    DEF BNext, GuardedServe, Refuse, Unanswerable, Ask, HealthChanges, bvars
<1> QED
  BY <1>1, BreakersSound, PTL DEF BSpec, OpensOnFailuresOnly

\* The breaker adds nothing to what the read path may do.
THEOREM GuardIsInvisible == BSpec => ImplementsReadPath
<1>1. BInit => Init
  BY DEF BInit
<1>2. [BNext]_<<vars, bvars>> => [Next]_vars
  <2> SUFFICES ASSUME BNext PROVE Next \/ UNCHANGED vars
    OBVIOUS
  <2>1. ASSUME NEW r \in Requests, GuardedServe(r) PROVE Next \/ UNCHANGED vars
    BY <2>1 DEF GuardedServe, Admit, Refuse, Answered, Unanswerable, Next, Serve, LookUp
  <2>2. ASSUME NEW r \in Requests, Ask(r) PROVE Next
    BY <2>2 DEF Ask, Next
  <2>3. ASSUME NEW s \in Servers, IntervalEnds(s) \/ TimeoutEnds(s) \/ CrashServer(s)
        PROVE  Next \/ UNCHANGED vars
    BY <2>3 DEF IntervalEnds, TimeoutEnds, NewGeneration, CrashServer, Next
  <2> QED
    BY <2>1, <2>2, <2>3 DEF BNext, HealthChanges, Next
<1> QED
  BY <1>1, <1>2, PTL DEF BSpec, Spec, ImplementsReadPath

\* gobreaker lets through what its thresholds allow in each state, so its
\* counts stay within them; the read path keeps the types it has without it.
THEOREM GuardedTypes == BSpec => []BTypeOK
<1>1. healthy \in BOOLEAN /\ [BNext]_<<vars, bvars>> => (healthy \in BOOLEAN)'
  BY DEF BNext, GuardedServe, Admit, Refuse, Answered, Unanswerable, Ask, bvars,
         IntervalEnds, TimeoutEnds, NewGeneration, CrashServer, HealthChanges
<1>2. BInit => healthy \in BOOLEAN
  BY DEF BInit
<1>3. BSpec => [](healthy \in BOOLEAN)
  BY <1>1, <1>2, PTL DEF BSpec
<1>4. BInv /\ TypeOK /\ healthy \in BOOLEAN => BTypeOK
  <2> SUFFICES ASSUME BInv, TypeOK, healthy \in BOOLEAN PROVE BTypeOK
    OBVIOUS
  <2>1. MaxRequests \in Nat /\ MaxCount \in Nat
    BY BreakerAssumption DEF BreakerAssumption
  <2>2. ASSUME NEW s \in Servers
        PROVE  breaker[s] \in [state : {"closed", "open", "half-open"},
                               requests : Counts, successes : Counts,
                               failures : Counts]
    <3> DEFINE b == breaker[s]
    <3>1. b \in Counters /\ Sound(b, Lookups(s))
      BY DEF BInv
    <3>2. Cardinality(Lookups(s)) \in Nat
      BY LookupsFinite
    <3> HIDE DEF b
    <3>3. b.requests \in Nat /\ b.successes \in Nat /\ b.failures \in Nat
      BY <3>1 DEF Counters
    <3>4. b.requests \in Counts
      BY <2>1, <3>1, <3>3 DEF Sound, Limit, Counts
    <3>5. b.successes <= b.requests /\ b.failures <= b.requests
      BY <3>1, <3>2, <3>3 DEF Sound
    <3>6. b.successes \in Counts /\ b.failures \in Counts
      BY <2>1, <3>3, <3>4, <3>5 DEF Counts
    <3>7. b \in [state : {"closed", "open", "half-open"}, requests : Counts,
                 successes : Counts, failures : Counts]
      BY <3>1, <3>4, <3>6 DEF Counters
    <3> QED
      BY <3>7 DEF b
  <2> QED
    BY <2>2 DEF BInv, BTypeOK
<1> QED
  BY <1>3, <1>4, BreakersSound, GuardIsInvisible, TypeCorrect, PTL
  DEF ImplementsReadPath

\* With the breaker in place the read path still does to the cache only what
\* CacheAside promises: entries never go back in version.
THEOREM GuardedCacheAside == BSpec => ImplementsCacheAside /\ NoRegress
BY GuardIsInvisible, Refinement, EntriesNeverGoBack, PTL DEF ImplementsReadPath
=============================================================================
