------------------------------ MODULE Breaker -------------------------------
(***************************************************************************)
(* The read path with its circuit breaker: every lookup of CacheManager    *)
(* runs in Execute of gobreaker, with the settings of NewCircuitBreaker.   *)
(* Each middleware server has one breaker.                                 *)
(*                                                                         *)
(* gobreaker counts requests per generation; a change of state or the end  *)
(* of an interval starts a new generation, and answers that belong to an   *)
(* older one do not count.  With CACHE_DISABLE_CB the read path is         *)
(* CacheManager as it stands.                                              *)
(***************************************************************************)
EXTENDS CacheManager

CONSTANTS
  MinRequests,  \* requests before ReadyToTrip looks at the ratio (10)
  MaxRequests,  \* requests that half-open lets through (3)
  MaxCount      \* bound: requests counted in one closed generation

ASSUME BreakerAssumption ==
  /\ IsFiniteSet(Requests)
  /\ MinRequests \in Nat \ {0}
  /\ MaxRequests \in Nat \ {0}
  /\ MaxCount \in Nat \ {0}

VARIABLES
  breaker,      \* breaker[s]: the state and counts of server s's breaker
  permit,       \* permit[r]: whether r's lookup was let through in the
                \* generation of now ("current"), before it ("old"), or not
  healthy       \* Redis answers in time, and clients wait for answers

bvars == <<breaker, permit, healthy>>

Fresh(state) ==
  [state |-> state, requests |-> 0, successes |-> 0, failures |-> 0]

BInit ==
  /\ Init
  /\ breaker = [s \in Servers |-> Fresh("closed")]
  /\ permit = [r \in Requests |-> "none"]
  /\ healthy = TRUE

-----------------------------------------------------------------------------
(* gobreaker                                                               *)

Of(r) == breaker[ServerOf[r]]

\* The permits of server s when a new generation starts; r's is given back.
Outdated(s, r) ==
  [q \in Requests |-> IF q = r THEN "none"
                      ELSE IF ServerOf[q] = s /\ permit[q] = "current" THEN "old"
                      ELSE permit[q]]

\* setState, on behalf of r.
SetState(r, state) ==
  /\ breaker' = [breaker EXCEPT ![ServerOf[r]] = Fresh(state)]
  /\ permit' = Outdated(ServerOf[r], r)

\* A counted answer that changes nothing else.
Count(r, counts) ==
  /\ breaker' = [breaker EXCEPT ![ServerOf[r]] = counts]
  /\ permit' = [permit EXCEPT ![r] = "none"]

ReadyToTrip(c) == c.requests >= MinRequests /\ 2 * c.failures >= c.requests

\* Faulty: half-open waits for one success more than it lets through.
OnSuccessLate(r) ==
  LET c == [Of(r) EXCEPT !.successes = @ + 1]
  IN  IF c.state = "half-open" /\ c.successes > MaxRequests
      THEN SetState(r, "closed") ELSE Count(r, c)

OnSuccess(r) ==
  LET c == [Of(r) EXCEPT !.successes = @ + 1]
  IN  IF c.state = "half-open" /\ c.successes >= MaxRequests
      THEN SetState(r, "closed") ELSE Count(r, c)

\* Faulty: a failed probe is forgotten.
OnFailureForgets(r) ==
  LET c == [Of(r) EXCEPT !.failures = @ + 1]
  IN  IF c.state = "closed" /\ ReadyToTrip(c)
      THEN SetState(r, "open") ELSE Count(r, c)

OnFailure(r) ==
  LET c == [Of(r) EXCEPT !.failures = @ + 1]
  IN  IF c.state = "half-open" \/ ReadyToTrip(c)
      THEN SetState(r, "open") ELSE Count(r, c)

\* Faulty: an answer counts in whatever generation it comes.
AfterAnyRequest(r, success) ==
  IF success THEN OnSuccess(r) ELSE OnFailure(r)

AfterRequest(r, success) ==
  IF permit[r] = "old"
  THEN permit' = [permit EXCEPT ![r] = "none"] /\ UNCHANGED breaker
  ELSE IF success THEN OnSuccess(r) ELSE OnFailure(r)

Closed(s) == breaker[s].state = "closed"
Full(s) == breaker[s].state = "half-open" /\ breaker[s].requests >= MaxRequests
Refuses(s) == breaker[s].state = "open" \/ Full(s)

\* A new generation, when a request finds that the interval is over or that
\* the timeout has passed.
NewGeneration(s, state) ==
  /\ breaker' = [breaker EXCEPT ![s] = Fresh(state)]
  /\ permit' = [r \in Requests |->
       IF ServerOf[r] = s /\ permit[r] = "current" THEN "old" ELSE permit[r]]
  /\ UNCHANGED <<vars, healthy>>

IntervalEnds(s) ==
  Closed(s) /\ breaker[s].requests > 0 /\ NewGeneration(s, "closed")

TimeoutEnds(s) == breaker[s].state = "open" /\ NewGeneration(s, "half-open")

-----------------------------------------------------------------------------
(* A lookup                                                                *)

\* Faulty: a miss is a failure of Redis, as its error is not nil.
OnlyHitsSucceed(r) == cache[key[r]] # 0

\* IsSuccessful: an entry, or redis.Nil.  (An entry that mapToProfile cannot
\* parse would count as a failure; SetVersioned writes none.)
IsSuccessful(r) == TRUE

\* beforeRequest lets r through; the interval is over by the time that
\* MaxCount requests have been counted.
Admit(r) ==
  LET over == Closed(ServerOf[r]) /\ Of(r).requests = MaxCount
      c == IF over THEN Fresh("closed") ELSE Of(r)
      p == IF over THEN Outdated(ServerOf[r], r) ELSE permit
  IN  /\ pc[r] = "get" /\ permit[r] = "none"
      /\ ~Refuses(ServerOf[r])
      /\ breaker' = [breaker EXCEPT ![ServerOf[r]] =
                       [c EXCEPT !.requests = @ + 1]]
      /\ permit' = [p EXCEPT ![r] = "current"]
      /\ UNCHANGED <<vars, healthy>>

\* Faulty: while the breaker refuses, so does the handler.
RefuseWithError(r) ==
  /\ pc[r] = "get" /\ permit[r] = "none"
  /\ Refuses(ServerOf[r])
  /\ Answer(r, 0, "error")
  /\ UNCHANGED <<stores, flight, key, ghosts, bvars>>

\* ErrOpenState or ErrTooManyRequests: r reads PostgreSQL.
Refuse(r) ==
  /\ permit[r] = "none"
  /\ Refuses(ServerOf[r])
  /\ CacheFails(r)
  /\ UNCHANGED bvars

\* Redis answers.
Answered(r) ==
  /\ permit[r] # "none"
  /\ Hit(r) \/ Miss(r)
  /\ AfterRequest(r, IsSuccessful(r))
  /\ UNCHANGED healthy

\* It does not, or the client of r has gone.
Unanswerable(r) ==
  /\ permit[r] # "none"
  /\ ~healthy
  /\ CacheFails(r)
  /\ AfterRequest(r, FALSE)
  /\ UNCHANGED healthy

HealthChanges == healthy' = ~healthy /\ UNCHANGED <<vars, breaker, permit>>

CrashServer(s) ==
  /\ Crash(s)
  /\ breaker' = [breaker EXCEPT ![s] = Fresh("closed")]
  /\ permit' = [r \in Requests |-> IF ServerOf[r] = s THEN "none" ELSE permit[r]]
  /\ UNCHANGED healthy

-----------------------------------------------------------------------------
GuardedServe(r) ==
  \/ Admit(r)
  \/ Refuse(r)
  \/ Answered(r)
  \/ Unanswerable(r)
  \/ GoOn(r) /\ UNCHANGED bvars

Ask(r) == (\E i \in Investors : Begin(r, i)) /\ UNCHANGED bvars

BNext ==
  \/ \E r \in Requests : GuardedServe(r) \/ Ask(r)
  \/ \E r \in Requests : StoreUnanswered(r) /\ UNCHANGED bvars
  \/ Around /\ UNCHANGED bvars
  \/ \E s \in Servers : IntervalEnds(s) \/ TimeoutEnds(s) \/ CrashServer(s)
  \/ HealthChanges

BSpec == BInit /\ [][BNext]_<<vars, bvars>>

\* Handlers go on as in CacheManager, time passes, and clients that ask again
\* and again do not all ask for a bypass.
AskCached(r) == Ask(r) /\ pc'[r] = "get"

BFairSpec ==
  /\ BSpec
  /\ \A r \in Requests : /\ WF_<<vars, bvars>>(GuardedServe(r))
                         /\ SF_<<vars, bvars>>(AskCached(r))
  /\ \A s \in Servers : WF_<<vars, bvars>>(TimeoutEnds(s))

-----------------------------------------------------------------------------
Counts == 0..(IF MaxCount > MaxRequests THEN MaxCount ELSE MaxRequests)

\* The variables' possible values.
BTypeOK ==
  /\ TypeOK
  /\ breaker \in [Servers -> [state : {"closed", "open", "half-open"},
                              requests : Counts,
                              successes : Counts,
                              failures : Counts]]
  /\ permit \in [Requests -> {"none", "current", "old"}]
  /\ healthy \in BOOLEAN

Lookups(s) == {r \in Requests : ServerOf[r] = s /\ permit[r] = "current"}

\* A breaker that refuses because its probes are out is waiting for one that
\* is: half-open cannot be full with nobody left to open or close it, whatever
\* answers come late, from other generations, or never because of a crash.
ProbesAreOut == \A s \in Servers : Full(s) => Lookups(s) # {}

\* Every request counted is still being looked up or was counted once as a
\* success or failure, so the ratio that trips the breaker is never computed
\* from an answer of another generation.
CountsAddUp ==
  \A s \in Servers :
    breaker[s].requests =
      breaker[s].successes + breaker[s].failures + Cardinality(Lookups(s))

FailuresOpen ==
  \A s \in Servers :
    breaker[s].state # "open" /\ breaker'[s].state = "open" => ~healthy

\* Misses do not open the breaker, be there ever so many: only failures do.
OpensOnFailuresOnly == [][FailuresOpen]_<<vars, bvars>>

\* When Redis works again, the breakers close in the end and stay closed, and
\* so the cache is used again.
Recovers == <>[]healthy => <>[](\A s \in Servers : Closed(s))

\* Behind the breaker the read path does what CacheManager lets it do: a lookup
\* that is refused falls back to PostgreSQL like one that fails, and what holds
\* of CacheManager holds with the breaker in place.
ImplementsReadPath == Spec
=============================================================================
