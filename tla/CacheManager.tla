---------------------------- MODULE CacheManager ----------------------------
(***************************************************************************)
(* The read path: GET handlers of one or more middleware servers look an   *)
(* investor up in Redis, load misses from PostgreSQL through singleflight   *)
(* and fill the cache with a versioned set; meanwhile profiles are updated *)
(* and keys are deleted and expire.                                        *)
(*                                                                         *)
(* A profile is represented by its cache_version.  The circuit breaker is  *)
(* abstracted to what CacheManager sees of it: any lookup may return an    *)
(* error.  The investors exist, so a load fails only by an error of the    *)
(* database or the end of the request's context.                           *)
(***************************************************************************)
EXTENDS Naturals, FiniteSets

CONSTANTS
  Investors,    \* investor ids
  Requests,     \* handler goroutines, each serving one request after another
  Servers,      \* middleware processes
  ServerOf,     \* the server that runs each goroutine
  MaxVersion,   \* bound: versions an investor may reach
  MaxFaults     \* bound: unanswered sets and crashes

ASSUME CacheManagerAssumption ==
  /\ ServerOf \in [Requests -> Servers]
  /\ MaxVersion \in Nat \ {0}
  /\ MaxFaults \in Nat

VARIABLES
  version,      \* version[i]: investors.cache_version in PostgreSQL
  cache,        \* cache[i]: cache_version of the entry in Redis, 0 if none
  late,         \* <<i, v, n>>: a set of version v that Redis may still carry
                \* out, n being the faults until then, to tell sets apart
  faults,       \* faults so far
  flight,       \* flight[s][i]: the request that leads server s's
                \* singleflight call for i, if there is one
  pc,           \* pc[r]: what request r is at
  key,          \* key[r]: the investor it asks for
  val,          \* val[r]: the version it got, 0 for an error
  result,       \* result[r]: its CacheResult
  invalidated,  \* invalidated[i]: version[i] when i was last deleted
  floor         \* floor[r]: version and invalidated of key[r] when r began

stores  == <<version, cache, late, faults>>
reqVars == <<pc, key, val, result>>
ghosts  == <<invalidated, floor>>
vars == <<stores, flight, reqVars, ghosts>>

NoFloor == [version |-> 0, invalidated |-> 0]

Init ==
  /\ version = [i \in Investors |-> 1]
  /\ cache = [i \in Investors |-> 0]
  /\ late = {}
  /\ faults = 0
  /\ flight = [s \in Servers |-> [i \in Investors |-> {}]]
  /\ pc = [r \in Requests |-> "idle"]
  /\ key \in [Requests -> Investors]
  /\ val = [r \in Requests |-> 0]
  /\ result = [r \in Requests |-> "unknown"]
  /\ invalidated = [i \in Investors |-> 1]
  /\ floor = [r \in Requests |-> NoFloor]

-----------------------------------------------------------------------------
(* PostgreSQL and Redis as the middleware meets them                       *)

\* UpdateProfile commits.
Change(i) ==
  /\ version[i] < MaxVersion
  /\ version' = [version EXCEPT ![i] = @ + 1]
  /\ UNCHANGED <<cache, late, faults, flight, reqVars, ghosts>>

\* DEL by invalidation-worker.
Invalidate(i) ==
  /\ cache' = [cache EXCEPT ![i] = 0]
  /\ invalidated' = [invalidated EXCEPT ![i] = version[i]]
  /\ UNCHANGED <<version, late, faults, flight, reqVars, floor>>

\* The entry's TTL runs out, or allkeys-lru evicts it.
Expire(i) ==
  /\ cache[i] # 0
  /\ cache' = [cache EXCEPT ![i] = 0]
  /\ UNCHANGED <<version, late, faults, flight, reqVars, ghosts>>

\* Faulty: HSET without the comparison.
HSet(i, v) == cache' = [cache EXCEPT ![i] = v]

\* Faulty: the script numbers the entries itself.
LuaOwnVersion(i, v) ==
  cache' = [cache EXCEPT ![i] = IF @ # 0 /\ @ >= v THEN @ + 1 ELSE v]

\* luaVersionedSet, one atomic script.
LuaVersionedSet(i, v) ==
  cache' = [cache EXCEPT ![i] = IF @ # 0 /\ @ >= v THEN @ ELSE v]

\* Redis carries out a set that its sender has given up on.
LateSet ==
  /\ \E t \in late : LuaVersionedSet(t[1], t[2]) /\ late' = late \ {t}
  /\ UNCHANGED <<version, faults, flight, reqVars, ghosts>>

-----------------------------------------------------------------------------
(* A request                                                               *)

GoTo(r, label) == pc' = [pc EXCEPT ![r] = label]

\* Request r has its answer: version v, or an error if v is 0.
Answer(r, v, how) ==
  /\ GoTo(r, "done")
  /\ val' = [val EXCEPT ![r] = v]
  /\ result' = [result EXCEPT ![r] = how]

\* A GET comes in; with Cache-Control: no-cache it passes the cache by.
Begin(r, i) ==
  /\ pc[r] = "idle"
  /\ \/ GoTo(r, "get") /\ UNCHANGED result
     \/ GoTo(r, "direct") /\ result' = [result EXCEPT ![r] = "bypass"]
  /\ key' = [key EXCEPT ![r] = i]
  /\ floor' = [floor EXCEPT ![r] = [version |-> version[i],
                                    invalidated |-> invalidated[i]]]
  /\ UNCHANGED <<stores, flight, val, invalidated>>

\* CacheStore.Get finds the entry.
Hit(r) ==
  /\ pc[r] = "get"
  /\ cache[key[r]] # 0
  /\ Answer(r, cache[key[r]], "hit")
  /\ UNCHANGED <<stores, flight, key, ghosts>>

\* CacheStore.Get returns redis.Nil.
Miss(r) ==
  /\ pc[r] = "get"
  /\ cache[key[r]] = 0
  /\ GoTo(r, "join")
  /\ UNCHANGED <<stores, flight, key, val, result, ghosts>>

\* Redis fails, times out, or the circuit breaker does not let r through.
CacheFails(r) ==
  /\ pc[r] = "get"
  /\ GoTo(r, "direct")
  /\ result' = [result EXCEPT ![r] = "error"]
  /\ UNCHANGED <<stores, flight, key, val, ghosts>>

\* Faulty: a bypass is answered from the cache when it can be.
DirectFromCache(r) ==
  /\ pc[r] = "direct"
  /\ \E v \in {0, IF cache[key[r]] # 0 THEN cache[key[r]] ELSE version[key[r]]} :
       Answer(r, v, result[r])
  /\ UNCHANGED <<stores, flight, key, ghosts>>

\* GetByID for a bypass or a fallback; nothing is cached.
DirectRead(r) ==
  /\ pc[r] = "direct"
  /\ \E v \in {0, version[key[r]]} : Answer(r, v, result[r])
  /\ UNCHANGED <<stores, flight, key, ghosts>>

Call(r) == flight[ServerOf[r]][key[r]]
SetCall(r, S) == flight' = [flight EXCEPT ![ServerOf[r]][key[r]] = S]

\* Faulty: Do starts a call of its own although one is in flight.
DoUnshared(r) ==
  /\ pc[r] = "join"
  /\ SetCall(r, {r})
  /\ GoTo(r, "load")
  /\ UNCHANGED <<stores, key, val, result, ghosts>>

\* singleflight.Do: the first request for a key runs loadAndCache.
Lead(r) ==
  /\ pc[r] = "join"
  /\ Call(r) = {}
  /\ SetCall(r, {r})
  /\ GoTo(r, "load")
  /\ UNCHANGED <<stores, key, val, result, ghosts>>

\* Those that come while it does wait for its result.
Follow(r) ==
  /\ pc[r] = "join"
  /\ Call(r) # {}
  /\ GoTo(r, "wait")
  /\ UNCHANGED <<stores, flight, key, val, result, ghosts>>

\* Faulty: GetByID sees what a transaction has not committed yet.
LoadUncommitted(r) ==
  /\ pc[r] = "load"
  /\ \E v \in {version[key[r]], version[key[r]] + 1} \cap (1..MaxVersion) :
       val' = [val EXCEPT ![r] = v]
  /\ GoTo(r, "store")
  /\ UNCHANGED <<stores, flight, key, result, ghosts>>

\* Faulty: GetByID asks a replica of PostgreSQL, which is one version behind.
LoadFromReplica(r) ==
  /\ pc[r] = "load"
  /\ \E v \in {version[key[r]], version[key[r]] - 1} \cap (1..MaxVersion) :
       val' = [val EXCEPT ![r] = v]
  /\ GoTo(r, "store")
  /\ UNCHANGED <<stores, flight, key, result, ghosts>>

\* GetByID of loadAndCache.
Load(r) ==
  /\ pc[r] = "load"
  /\ val' = [val EXCEPT ![r] = version[key[r]]]
  /\ GoTo(r, "store")
  /\ UNCHANGED <<stores, flight, key, result, ghosts>>

\* It fails: the database, or the context of the request that leads.
LoadFails(r) ==
  /\ pc[r] = "load"
  /\ val' = [val EXCEPT ![r] = 0]
  /\ GoTo(r, "return")
  /\ UNCHANGED <<stores, flight, key, result, ghosts>>

\* SetVersioned returns, whether or not the script stored anything.
Store(r) ==
  /\ pc[r] = "store"
  /\ LuaVersionedSet(key[r], val[r])
  /\ GoTo(r, "return")
  /\ UNCHANGED <<version, late, faults, flight, key, val, result, ghosts>>

\* Redis does not answer the script, but may yet run it; the client sends
\* it again or gives up.
StoreUnanswered(r) ==
  /\ pc[r] = "store"
  /\ faults < MaxFaults
  /\ late' = late \cup {<<key[r], val[r], faults>>}
  /\ faults' = faults + 1
  /\ UNCHANGED <<version, cache, flight, reqVars, ghosts>>

\* SetVersioned returns an error, which loadAndCache only logs.
StoreFails(r) ==
  /\ pc[r] = "store"
  /\ GoTo(r, "return")
  /\ UNCHANGED <<stores, flight, key, val, result, ghosts>>

Waiters(r) == {q \in Requests : /\ pc[q] = "wait"
                                /\ ServerOf[q] = ServerOf[r]
                                /\ key[q] = key[r]}

\* Faulty: the call is forgotten before its waiters are told.
ReturnForgetsWaiters(r) ==
  /\ pc[r] = "return"
  /\ Answer(r, val[r], "miss")
  /\ SetCall(r, {})
  /\ UNCHANGED <<stores, key, ghosts>>

\* loadAndCache returned: the call is over, every waiter has its result.
Return(r) ==
  /\ pc[r] = "return"
  /\ LET over == {r} \cup Waiters(r)
     IN  /\ pc' = [q \in Requests |-> IF q \in over THEN "done" ELSE pc[q]]
         /\ val' = [q \in Requests |-> IF q \in over THEN val[r] ELSE val[q]]
         /\ result' = [q \in Requests |->
                         IF q \in over THEN "miss" ELSE result[q]]
  /\ SetCall(r, {})
  /\ UNCHANGED <<stores, key, ghosts>>

\* The response is written.
Respond(r) ==
  /\ pc[r] = "done"
  /\ GoTo(r, "idle")
  /\ val' = [val EXCEPT ![r] = 0]
  /\ result' = [result EXCEPT ![r] = "unknown"]
  /\ floor' = [floor EXCEPT ![r] = NoFloor]
  /\ UNCHANGED <<stores, flight, key, invalidated>>

\* A middleware process dies and is started again.
Crash(s) ==
  /\ faults < MaxFaults
  /\ faults' = faults + 1
  /\ flight' = [flight EXCEPT ![s] = [i \in Investors |-> {}]]
  /\ pc' = [r \in Requests |-> IF ServerOf[r] = s THEN "idle" ELSE pc[r]]
  /\ val' = [r \in Requests |-> IF ServerOf[r] = s THEN 0 ELSE val[r]]
  /\ result' = [r \in Requests |->
                  IF ServerOf[r] = s THEN "unknown" ELSE result[r]]
  /\ floor' = [r \in Requests |-> IF ServerOf[r] = s THEN NoFloor ELSE floor[r]]
  /\ UNCHANGED <<version, cache, late, key, invalidated>>

-----------------------------------------------------------------------------
LookUp(r) == Hit(r) \/ Miss(r) \/ CacheFails(r)

\* What a request does after its lookup.
GoOn(r) ==
  \/ DirectRead(r)
  \/ Lead(r)
  \/ Follow(r)
  \/ Load(r)
  \/ LoadFails(r)
  \/ Store(r)
  \/ StoreFails(r)
  \/ Return(r)
  \/ Respond(r)

Serve(r) == LookUp(r) \/ GoOn(r)

\* What happens around the requests.
Around ==
  \/ \E i \in Investors : Change(i) \/ Invalidate(i) \/ Expire(i)
  \/ LateSet

Next ==
  \/ Around
  \/ \E r \in Requests : Serve(r) \/ StoreUnanswered(r)
  \/ \E r \in Requests, i \in Investors : Begin(r, i)
  \/ \E s \in Servers : Crash(s)

Spec == Init /\ [][Next]_vars

\* A handler that can go on does; whether Redis and PostgreSQL answer or
\* fail is open, but that one of the two happens is assumed.  go-redis has
\* timeouts; GetByID has the request's context only, which ends when PostgreSQL
\* answers, the connection breaks, or the client hangs up.
FairSpec == Spec /\ \A r \in Requests : WF_vars(Serve(r))

-----------------------------------------------------------------------------
Labels == {"idle", "get", "direct", "join", "load", "store", "return", "wait",
           "done"}
Results == {"unknown", "bypass", "hit", "miss", "error"}

\* The variables' possible values.
TypeOK ==
  /\ version \in [Investors -> 1..MaxVersion]
  /\ cache \in [Investors -> 0..MaxVersion]
  /\ late \subseteq Investors \X (1..MaxVersion) \X (0..MaxFaults)
  /\ faults \in 0..MaxFaults
  /\ flight \in [Servers -> [Investors -> SUBSET Requests]]
  /\ pc \in [Requests -> Labels]
  /\ key \in [Requests -> Investors]
  /\ val \in [Requests -> 0..MaxVersion]
  /\ result \in [Requests -> Results]
  /\ invalidated \in [Investors -> 1..MaxVersion]
  /\ floor \in [Requests -> [version : 0..MaxVersion,
                             invalidated : 0..MaxVersion]]

\* Only committed versions are cached and served, so a version read from
\* Redis can always be compared with the one in PostgreSQL.
NeverAhead ==
  /\ \A i \in Investors : cache[i] <= version[i]
  /\ \A t \in late : t[2] <= version[t[1]]
  /\ \A r \in Requests : val[r] <= version[key[r]]

\* A step takes no entry back to an earlier version.
EntriesGoUp ==
  \A i \in Investors :
    cache[i] # 0 /\ cache'[i] # 0 => cache'[i] >= cache[i]

\* "An older version never overwrites a newer one": as long as an entry
\* stays, its version does not go down, whatever servers fill it, in
\* whatever order, retrying or late.
NoRegress == [][EntriesGoUp]_vars

\* A bypass or a fallback reads what was committed when the request came in,
\* or something later.
DirectReadsAreFresh ==
  \A r \in Requests :
    pc[r] = "done" /\ result[r] \in {"bypass", "error"} /\ val[r] # 0 =>
      val[r] >= floor[r].version

\* What a request has loaded itself was committed when it came in, or later:
\* a miss answers with an older version only if it joins another's load.
OwnLoadsAreFresh ==
  \A r \in Requests :
    pc[r] \in {"store", "return"} /\ val[r] # 0 => val[r] >= floor[r].version

Loading(s, i) ==
  {r \in Requests : /\ pc[r] \in {"load", "store", "return"}
                    /\ ServerOf[r] = s
                    /\ key[r] = i}

\* singleflight: a server has at most one load per investor under way, the
\* call knows it, and whoever waits, waits for a load that goes on.
OneLoadPerKey ==
  \A s \in Servers, i \in Investors :
    /\ Cardinality(Loading(s, i)) <= 1
    /\ flight[s][i] = Loading(s, i)
    /\ (\E r \in Requests : pc[r] = "wait" /\ ServerOf[r] = s /\ key[r] = i)
         => flight[s][i] # {}

\* Every request is answered, whatever fails and whoever crashes.
EveryRequestEnds ==
  \A r \in Requests : pc[r] # "idle" ~> pc[r] = "idle"

\* What the README says of the versioned set: it protects from races between
\* fills and invalidations, so no entry is older than the last invalidation.
FillsRespectInvalidation ==
  \A i \in Investors : cache[i] # 0 => cache[i] >= invalidated[i]

\* What the README says of the worker: it deletes the key so that the next
\* read loads fresh data.  A miss must not answer with a version older than
\* one invalidated before the request came in.
MissReloadsFreshData ==
  \A r \in Requests :
    pc[r] = "done" /\ result[r] = "miss" /\ val[r] # 0 =>
      val[r] >= floor[r].invalidated

-----------------------------------------------------------------------------
\* The handlers implement the abstract read side: what has been read and may
\* yet be stored is with a request before its set, or with a set that Redis
\* has not answered.
Loads ==
  {<<t[1], t[2]>> : t \in late} \cup
  {<<key[r], val[r]>> : r \in {q \in Requests : pc[q] = "store"}}

ReadSide == INSTANCE CacheAside WITH loads <- Loads

\* Whatever singleflight, the fallback, retries, late sets and crashes do, an
\* entry only ever becomes a version that was read from PostgreSQL, through
\* the versioned set, or disappears.
ImplementsCacheAside == ReadSide!CSpec
=============================================================================
