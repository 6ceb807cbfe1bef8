------------------------- MODULE CacheManagerProofs -------------------------
(***************************************************************************)
(* Proofs about module CacheManager, for any number of investors,          *)
(* requests, servers, versions and faults: its variables keep to their     *)
(* types, only committed versions are cached and served, direct reads and  *)
(* a request's own loads are fresh, an entry never goes back, singleflight *)
(* shares loads, and the handlers implement CacheAside.                    *)
(***************************************************************************)
EXTENDS CacheManager, FiniteSetTheorems, TLAPS

-----------------------------------------------------------------------------
(* Types                                                                   *)

\* The script stores versions and nothing else.
LEMMA ScriptType ==
  ASSUME TypeOK, NEW i \in Investors, NEW v \in 0..MaxVersion,
         LuaVersionedSet(i, v)
  PROVE  cache' \in [Investors -> 0..MaxVersion]
<1>1. cache \in [Investors -> 0..MaxVersion] /\ MaxVersion \in Nat
  BY CacheManagerAssumption DEF TypeOK, CacheManagerAssumption
<1> QED
  BY <1>1 DEF LuaVersionedSet

\* Init gives every variable a value of its type.
LEMMA InitType == Init => TypeOK
BY CacheManagerAssumption
DEF Init, TypeOK, CacheManagerAssumption, Labels, Results, NoFloor

\* Steps of PostgreSQL and Redis keep the types.
LEMMA AroundType ==
  ASSUME TypeOK, Around
  PROVE  TypeOK'
<1> USE CacheManagerAssumption DEF CacheManagerAssumption
<1>1. ASSUME NEW i \in Investors, Change(i) PROVE TypeOK'
  BY <1>1 DEF Change, TypeOK, reqVars, ghosts
<1>2. ASSUME NEW i \in Investors, Invalidate(i) PROVE TypeOK'
  BY <1>2 DEF Invalidate, TypeOK, reqVars
<1>3. ASSUME NEW i \in Investors, Expire(i) PROVE TypeOK'
  BY <1>3 DEF Expire, TypeOK, reqVars, ghosts
<1>4. CASE LateSet
  <2>1. PICK t \in late : LuaVersionedSet(t[1], t[2]) /\ late' = late \ {t}
    BY <1>4 DEF LateSet
  <2>2. t[1] \in Investors /\ t[2] \in 1..MaxVersion
    BY DEF TypeOK
  <2>3. cache' \in [Investors -> 0..MaxVersion]
    BY <2>1, <2>2, ScriptType
  <2> QED
    BY <1>4, <2>1, <2>3 DEF LateSet, TypeOK, reqVars, ghosts
<1> QED
  BY <1>1, <1>2, <1>3, <1>4 DEF Around

\* So does what a request does.
LEMMA ServeType ==
  ASSUME TypeOK, NEW r \in Requests, Serve(r)
  PROVE  TypeOK'
<1> USE CacheManagerAssumption DEF CacheManagerAssumption
<1>1. CASE Hit(r)
  BY <1>1 DEF Hit, Answer, GoTo, TypeOK, stores, ghosts, Labels, Results
<1>2. CASE Miss(r)
  BY <1>2 DEF Miss, GoTo, TypeOK, stores, ghosts, Labels
<1>3. CASE CacheFails(r)
  BY <1>3 DEF CacheFails, GoTo, TypeOK, stores, ghosts, Labels, Results
<1>4. CASE DirectRead(r)
  <2>1. PICK v \in {0, version[key[r]]} : Answer(r, v, result[r])
    BY <1>4 DEF DirectRead
  <2>2. v \in 0..MaxVersion
    BY DEF TypeOK
  <2> QED
    BY <1>4, <2>1, <2>2
    DEF DirectRead, Answer, GoTo, TypeOK, stores, ghosts, Labels
<1>5. CASE Lead(r)
  BY <1>5 DEF Lead, SetCall, GoTo, TypeOK, stores, ghosts, Labels
<1>6. CASE Follow(r)
  BY <1>6 DEF Follow, GoTo, TypeOK, stores, ghosts, Labels
<1>7. CASE Load(r)
  BY <1>7 DEF Load, GoTo, TypeOK, stores, ghosts, Labels
<1>8. CASE LoadFails(r)
  BY <1>8 DEF LoadFails, GoTo, TypeOK, stores, ghosts, Labels
<1>9. CASE Store(r)
  <2>1. cache' \in [Investors -> 0..MaxVersion]
    <3>1. key[r] \in Investors /\ val[r] \in 0..MaxVersion
      BY DEF TypeOK
    <3> QED
      BY <1>9, <3>1, ScriptType DEF Store
  <2> QED
    BY <1>9, <2>1 DEF Store, GoTo, TypeOK, ghosts, Labels
<1>10. CASE StoreFails(r)
  BY <1>10 DEF StoreFails, GoTo, TypeOK, stores, ghosts, Labels
<1>11. CASE Return(r)
  BY <1>11 DEF Return, SetCall, TypeOK, stores, ghosts, Labels, Results
<1>12. CASE Respond(r)
  BY <1>12 DEF Respond, GoTo, TypeOK, stores, NoFloor, Labels, Results
<1> QED
  BY <1>1, <1>2, <1>3, <1>4, <1>5, <1>6, <1>7, <1>8, <1>10, <1>11, <1>12, <1>9
  DEF Serve, LookUp, GoOn

\* A request whose load is over and whose set is to come holds a version.
StoresVersions == \A r \in Requests : pc[r] = "store" => val[r] # 0

\* Every step keeps the types, if sets are of versions.
LEMMA NextType ==
  ASSUME TypeOK, StoresVersions, Next
  PROVE  TypeOK'
<1> USE CacheManagerAssumption DEF CacheManagerAssumption
<1>1. ASSUME NEW r \in Requests, StoreUnanswered(r) PROVE TypeOK'
  <2>1. key[r] \in Investors /\ val[r] \in 1..MaxVersion
    BY <1>1 DEF StoreUnanswered, StoresVersions, TypeOK
  <2>2. late' \subseteq Investors \X (1..MaxVersion) \X (0..MaxFaults)
    BY <1>1, <2>1 DEF StoreUnanswered, TypeOK
  <2>3. faults' \in 0..MaxFaults
    BY <1>1 DEF StoreUnanswered, TypeOK
  <2> QED
    BY <1>1, <2>2, <2>3 DEF StoreUnanswered, TypeOK, reqVars, ghosts
<1>2. ASSUME NEW r \in Requests, NEW i \in Investors, Begin(r, i) PROVE TypeOK'
  <2>1. version[i] \in 0..MaxVersion /\ invalidated[i] \in 0..MaxVersion
    BY DEF TypeOK
  <2>2. floor' \in [Requests -> [version : 0..MaxVersion,
                                  invalidated : 0..MaxVersion]]
    BY <1>2, <2>1 DEF Begin, TypeOK
  <2>3. pc' \in [Requests -> Labels] /\ result' \in [Requests -> Results]
    BY <1>2 DEF Begin, GoTo, TypeOK, Labels, Results
  <2> QED
    BY <1>2, <2>2, <2>3 DEF Begin, TypeOK, stores
<1>3. ASSUME NEW s \in Servers, Crash(s) PROVE TypeOK'
  <2>1. NoFloor \in [version : 0..MaxVersion, invalidated : 0..MaxVersion]
    BY DEF NoFloor
  <2>2. floor' \in [Requests -> [version : 0..MaxVersion,
                                  invalidated : 0..MaxVersion]]
    BY <1>3, <2>1 DEF Crash, TypeOK
  <2>3. faults' \in 0..MaxFaults
    BY <1>3 DEF Crash, TypeOK
  <2> QED
    BY <1>3, <2>2, <2>3 DEF Crash, TypeOK, Labels, Results
<1> QED
  BY <1>1, <1>2, <1>3, AroundType, ServeType DEF Next

\* What is about to be stored was loaded.
LEMMA NextStoresVersions ==
  ASSUME TypeOK, StoresVersions, Next
  PROVE  StoresVersions'
<1>1. CASE Around
  BY <1>1 DEF Around, Change, Invalidate, Expire, LateSet, reqVars, StoresVersions
<1>2. ASSUME NEW r \in Requests, LookUp(r) PROVE StoresVersions'
  BY <1>2 DEF LookUp, Hit, Miss, CacheFails, Answer, GoTo, StoresVersions, TypeOK
<1>3. ASSUME NEW r \in Requests, GoOn(r) PROVE StoresVersions'
  <2>1. CASE DirectRead(r)
    BY <2>1 DEF DirectRead, Answer, GoTo, StoresVersions, TypeOK
  <2>2. CASE Lead(r) \/ Follow(r) \/ Store(r) \/ StoreFails(r)
    BY <2>2 DEF Lead, Follow, Store, StoreFails, GoTo, StoresVersions, TypeOK
  <2>3. CASE Load(r)
    <3>1. version[key[r]] # 0
      BY DEF TypeOK
    <3> QED
      BY <2>3, <3>1 DEF Load, GoTo, StoresVersions, TypeOK
  <2>4. CASE LoadFails(r)
    BY <2>4 DEF LoadFails, GoTo, StoresVersions, TypeOK
  <2>5. CASE Return(r)
    BY <2>5 DEF Return, StoresVersions, TypeOK
  <2>6. CASE Respond(r)
    BY <2>6 DEF Respond, GoTo, StoresVersions, TypeOK
  <2> QED
    BY <1>3, <2>1, <2>2, <2>3, <2>4, <2>5, <2>6 DEF GoOn
<1>4. ASSUME NEW r \in Requests, StoreUnanswered(r) PROVE StoresVersions'
  BY <1>4 DEF StoreUnanswered, reqVars, StoresVersions
<1>5. ASSUME NEW r \in Requests, NEW i \in Investors, Begin(r, i)
      PROVE  StoresVersions'
  BY <1>5 DEF Begin, GoTo, StoresVersions, TypeOK
<1>6. ASSUME NEW s \in Servers, Crash(s) PROVE StoresVersions'
  BY <1>6 DEF Crash, StoresVersions, TypeOK
<1> QED
  BY <1>1, <1>2, <1>3, <1>4, <1>5, <1>6 DEF Next, Serve

TypeInv == TypeOK /\ StoresVersions

LEMMA InitTypeInv == Init => TypeInv
BY InitType DEF Init, TypeInv, StoresVersions

LEMMA StutterTypeInv ==
  ASSUME TypeInv, UNCHANGED vars
  PROVE  TypeInv'
BY DEF TypeInv, TypeOK, StoresVersions, vars, stores, reqVars, ghosts

LEMMA InvariantTypeInv == Spec => []TypeInv
<1>1. TypeInv /\ [Next]_vars => TypeInv'
  BY NextType, NextStoresVersions, StutterTypeInv DEF TypeInv
<1> QED
  BY <1>1, InitTypeInv, PTL DEF Spec

\* Every variable of the read path keeps to its type, for any number of
\* handlers, servers and faults: what CacheManager.GetProfile,
\* loadAndCache and RedisStore may leave behind.
THEOREM TypeCorrect == Spec => []TypeOK
<1>1. TypeInv => TypeOK
  BY DEF TypeInv
<1> QED
  BY <1>1, InvariantTypeInv, PTL

-----------------------------------------------------------------------------
(* Only committed versions                                                 *)

\* A handler at rest holds nothing that could be about another investor.
IdleHoldsNothing ==
  \A r \in Requests : pc[r] = "idle" => val[r] = 0 /\ floor[r] = NoFloor

\* No request under way began in the future.
FloorsAreCommitted ==
  \A r \in Requests : floor[r].version <= version[key[r]]

CommittedInv ==
  /\ IdleHoldsNothing
  /\ NeverAhead
  /\ FloorsAreCommitted
  /\ DirectReadsAreFresh

\* The script leaves the old entry or the version it was given.
LEMMA ScriptNeverAhead ==
  ASSUME TypeOK, NeverAhead, NEW i \in Investors, NEW v \in 0..version[i],
         LuaVersionedSet(i, v)
  PROVE  \A j \in Investors : cache'[j] <= version[j]
BY DEF LuaVersionedSet, TypeOK, NeverAhead

\* PostgreSQL and Redis keep to committed versions.
LEMMA AroundCommitted ==
  ASSUME TypeInv, CommittedInv, Around
  PROVE  CommittedInv'
<1> USE DEF TypeInv, CommittedInv, TypeOK
<1>1. ASSUME NEW i \in Investors, Change(i) PROVE CommittedInv'
  <2>1. \A j \in Investors : version[j] <= version'[j]
    BY <1>1 DEF Change
  <2>2. NeverAhead'
    <3>1. \A j \in Investors : cache[j] <= version'[j]
      BY <2>1, <1>1 DEF Change, NeverAhead
    <3>2. \A t \in late : t[2] <= version'[t[1]]
      BY <2>1, <1>1 DEF Change, NeverAhead
    <3>3. \A r \in Requests : val[r] <= version'[key[r]]
      BY <2>1, <1>1 DEF Change, NeverAhead
    <3> QED
      BY <1>1, <3>1, <3>2, <3>3 DEF Change, NeverAhead, reqVars
  <2>3. FloorsAreCommitted'
    BY <2>1, <1>1 DEF Change, FloorsAreCommitted, reqVars, ghosts
  <2> QED
    BY <1>1, <2>2, <2>3
    DEF Change, IdleHoldsNothing, DirectReadsAreFresh, reqVars, ghosts
<1>2. ASSUME NEW i \in Investors, Invalidate(i) \/ Expire(i)
      PROVE  CommittedInv'
  <2>1. \A j \in Investors : cache'[j] <= version[j]
    BY <1>2 DEF Invalidate, Expire, NeverAhead
  <2> QED
    BY <1>2, <2>1
    DEF Invalidate, Expire, IdleHoldsNothing, NeverAhead, FloorsAreCommitted,
        DirectReadsAreFresh, reqVars, ghosts
<1>3. CASE LateSet
  <2>1. PICK t \in late : LuaVersionedSet(t[1], t[2]) /\ late' = late \ {t}
    BY <1>3 DEF LateSet
  <2>2. t[1] \in Investors /\ t[2] \in 0..version[t[1]]
    BY DEF NeverAhead
  <2>3. \A j \in Investors : cache'[j] <= version[j]
    BY <2>1, <2>2, ScriptNeverAhead
  <2> QED
    BY <1>3, <2>1, <2>3
    DEF LateSet, IdleHoldsNothing, NeverAhead, FloorsAreCommitted,
        DirectReadsAreFresh, reqVars, ghosts
<1> QED
  BY <1>1, <1>2, <1>3 DEF Around

\* So does what a request does.
LEMMA ServeCommitted ==
  ASSUME TypeInv, CommittedInv, NEW r \in Requests, Serve(r)
  PROVE  CommittedInv'
<1> USE DEF TypeInv, CommittedInv, TypeOK
<1>1. CASE Hit(r)
  BY <1>1 DEF Hit, Answer, GoTo, IdleHoldsNothing, NeverAhead,
     FloorsAreCommitted, DirectReadsAreFresh, stores, ghosts
<1>2. CASE Miss(r) \/ CacheFails(r)
  BY <1>2 DEF Miss, CacheFails, GoTo, IdleHoldsNothing, NeverAhead,
     FloorsAreCommitted, DirectReadsAreFresh, stores, ghosts
<1>3. CASE DirectRead(r)
  <2>1. PICK v \in {0, version[key[r]]} : Answer(r, v, result[r])
    BY <1>3 DEF DirectRead
  <2>2. IdleHoldsNothing'
    BY <1>3, <2>1 DEF DirectRead, Answer, GoTo, IdleHoldsNothing, ghosts
  <2>3. NeverAhead'
    BY <1>3, <2>1 DEF DirectRead, Answer, NeverAhead, stores
  <2>4. FloorsAreCommitted'
    BY <1>3 DEF DirectRead, FloorsAreCommitted, stores, ghosts
  <2>5. DirectReadsAreFresh'
    <3>1. v # 0 => v >= floor[r].version
      BY <2>1 DEF FloorsAreCommitted
    <3> QED
      BY <1>3, <2>1, <3>1
      DEF DirectRead, Answer, GoTo, DirectReadsAreFresh, ghosts
  <2> QED
    BY <2>2, <2>3, <2>4, <2>5
<1>4. CASE Lead(r) \/ Follow(r) \/ StoreFails(r)
  BY <1>4 DEF Lead, Follow, StoreFails, GoTo, IdleHoldsNothing, NeverAhead,
     FloorsAreCommitted, DirectReadsAreFresh, stores, ghosts
<1>5. CASE Load(r) \/ LoadFails(r)
  <2>1. UNCHANGED <<version, cache, late, key, result, floor>>
    BY <1>5 DEF Load, LoadFails, stores, ghosts
  <2>2. PICK l \in {"store", "return"}, v \in {0, version[key[r]]} :
          pc' = [pc EXCEPT ![r] = l] /\ val' = [val EXCEPT ![r] = v]
    BY <1>5 DEF Load, LoadFails, GoTo
  <2>3. IdleHoldsNothing'
    BY <2>1, <2>2 DEF IdleHoldsNothing
  <2>4. NeverAhead'
    <3>1. v <= version[key[r]]
      OBVIOUS
    <3> QED
      BY <2>1, <2>2, <3>1 DEF NeverAhead
  <2>5. FloorsAreCommitted'
    BY <2>1 DEF FloorsAreCommitted
  <2>6. DirectReadsAreFresh'
    BY <2>1, <2>2 DEF DirectReadsAreFresh
  <2> QED
    BY <2>3, <2>4, <2>5, <2>6
<1>6. CASE Store(r)
  <2>1. key[r] \in Investors /\ val[r] \in 0..version[key[r]]
    BY DEF NeverAhead
  <2>2. \A j \in Investors : cache'[j] <= version[j]
    BY <1>6, <2>1, ScriptNeverAhead DEF Store
  <2> QED
    BY <1>6, <2>2 DEF Store, GoTo, IdleHoldsNothing, NeverAhead,
       FloorsAreCommitted, DirectReadsAreFresh, ghosts
<1>7. CASE Return(r)
  <2> DEFINE over == {r} \cup Waiters(r)
  <2>1. \A q \in over : key[q] = key[r]
    BY DEF Waiters
  <2>2. \A q \in Requests : val'[q] = IF q \in over THEN val[r] ELSE val[q]
    BY <1>7 DEF Return
  <2>3. \A q \in Requests : val'[q] <= version[key[q]]
    BY <2>1, <2>2 DEF NeverAhead
  <2>4. \A q \in Requests : pc'[q] = IF q \in over THEN "done" ELSE pc[q]
    BY <1>7 DEF Return
  <2>5. \A q \in Requests :
          result'[q] = IF q \in over THEN "miss" ELSE result[q]
    BY <1>7 DEF Return
  <2>6. UNCHANGED <<version, cache, late, key, floor>>
    BY <1>7 DEF Return, stores, ghosts
  <2>7. IdleHoldsNothing'
    BY <2>2, <2>4, <2>6 DEF IdleHoldsNothing
  <2>8. NeverAhead'
    BY <2>3, <2>6 DEF NeverAhead
  <2>9. FloorsAreCommitted'
    BY <2>6 DEF FloorsAreCommitted
  <2>10. DirectReadsAreFresh'
    BY <2>2, <2>4, <2>5, <2>6 DEF DirectReadsAreFresh
  <2> QED
    BY <2>7, <2>8, <2>9, <2>10
<1>8. CASE Respond(r)
  BY <1>8 DEF Respond, GoTo, IdleHoldsNothing, NeverAhead, NoFloor,
     FloorsAreCommitted, DirectReadsAreFresh, stores
<1> QED
  BY <1>1, <1>2, <1>3, <1>4, <1>5, <1>6, <1>7, <1>8 DEF Serve, LookUp, GoOn

\* And so does every step.
LEMMA NextCommitted ==
  ASSUME TypeInv, CommittedInv, Next
  PROVE  CommittedInv'
<1> USE DEF TypeInv, CommittedInv, TypeOK
<1>1. ASSUME NEW r \in Requests, StoreUnanswered(r) PROVE CommittedInv'
  BY <1>1 DEF StoreUnanswered, IdleHoldsNothing, NeverAhead,
     FloorsAreCommitted, DirectReadsAreFresh, reqVars, ghosts
<1>2. ASSUME NEW r \in Requests, NEW i \in Investors, Begin(r, i)
      PROVE  CommittedInv'
  <2>1. val[r] = 0
    BY <1>2 DEF Begin, IdleHoldsNothing
  <2>2. IdleHoldsNothing'
    BY <1>2 DEF Begin, GoTo, IdleHoldsNothing
  <2>3. NeverAhead'
    BY <1>2, <2>1 DEF Begin, NeverAhead, stores
  <2>4. FloorsAreCommitted'
    BY <1>2 DEF Begin, FloorsAreCommitted, stores
  <2>5. DirectReadsAreFresh'
    BY <1>2 DEF Begin, GoTo, DirectReadsAreFresh
  <2> QED
    BY <2>2, <2>3, <2>4, <2>5
<1>3. ASSUME NEW s \in Servers, Crash(s) PROVE CommittedInv'
  BY <1>3 DEF Crash, IdleHoldsNothing, NeverAhead, NoFloor,
     FloorsAreCommitted, DirectReadsAreFresh
<1> QED
  BY <1>1, <1>2, <1>3, AroundCommitted, ServeCommitted DEF Next

LEMMA InitCommitted == Init => CommittedInv
BY DEF Init, CommittedInv, IdleHoldsNothing, NeverAhead, NoFloor,
   FloorsAreCommitted, DirectReadsAreFresh

LEMMA StutterCommitted ==
  ASSUME CommittedInv, UNCHANGED vars
  PROVE  CommittedInv'
BY DEF CommittedInv, IdleHoldsNothing, NeverAhead, FloorsAreCommitted,
   DirectReadsAreFresh, vars, stores, reqVars, ghosts

LEMMA InvariantCommitted == Spec => []CommittedInv
<1>1. TypeInv /\ CommittedInv /\ [Next]_vars => CommittedInv'
  BY NextCommitted, StutterCommitted
<1> QED
  BY <1>1, InitCommitted, InvariantTypeInv, PTL DEF Spec

\* No entry of Redis, no set on its way and no answer of the middleware is
\* of a version that PostgreSQL has not committed.
THEOREM OnlyCommitted == Spec => []NeverAhead
<1>1. CommittedInv => NeverAhead
  BY DEF CommittedInv
<1> QED
  BY <1>1, InvariantCommitted, PTL

\* A bypass (Cache-Control: no-cache) and the fallback of a failed lookup
\* answer with what was committed when the request came in, or later.
THEOREM DirectReadsFresh == Spec => []DirectReadsAreFresh
<1>1. CommittedInv => DirectReadsAreFresh
  BY DEF CommittedInv
<1> QED
  BY <1>1, InvariantCommitted, PTL

-----------------------------------------------------------------------------
(* A load of one's own                                                     *)

\* A request that goes on keeps to it: GetByID reads what is committed by then.
LEMMA ServeOwnLoads ==
  ASSUME TypeInv, CommittedInv, OwnLoadsAreFresh, NEW r \in Requests, Serve(r)
  PROVE  OwnLoadsAreFresh'
<1> USE DEF TypeInv, TypeOK, OwnLoadsAreFresh
<1>1. CASE LookUp(r) \/ DirectRead(r) \/ Lead(r) \/ Follow(r) \/ Respond(r)
  <2>1. PICK l \in Labels \ {"store", "return"} :
          pc' = [pc EXCEPT ![r] = l]
    BY <1>1 DEF LookUp, Hit, Miss, CacheFails, DirectRead, Lead, Follow, Respond,
       Answer, GoTo, Labels
  <2>2. \A q \in Requests \ {r} : val'[q] = val[q] /\ floor'[q] = floor[q]
    BY <1>1 DEF LookUp, Hit, Miss, CacheFails, DirectRead, Lead, Follow, Respond,
       Answer, ghosts
  <2> QED
    BY <2>1, <2>2
<1>2. CASE Load(r) \/ LoadFails(r)
  <2>1. floor[r].version <= version[key[r]]
    BY DEF CommittedInv, FloorsAreCommitted
  <2>2. PICK l \in {"store", "return"}, v \in {0, version[key[r]]} :
          /\ pc' = [pc EXCEPT ![r] = l]
          /\ val' = [val EXCEPT ![r] = v]
    BY <1>2 DEF Load, LoadFails, GoTo
  <2>3. UNCHANGED floor
    BY <1>2 DEF Load, LoadFails, ghosts
  <2> QED
    BY <2>1, <2>2, <2>3
<1>3. CASE Store(r) \/ StoreFails(r)
  BY <1>3 DEF Store, StoreFails, GoTo, ghosts
<1>4. CASE Return(r)
  <2> DEFINE over == {r} \cup Waiters(r)
  <2>1. \A q \in Requests :
          /\ pc'[q] = IF q \in over THEN "done" ELSE pc[q]
          /\ val'[q] = IF q \in over THEN val[r] ELSE val[q]
    BY <1>4 DEF Return
  <2>2. UNCHANGED floor
    BY <1>4 DEF Return, ghosts
  <2> QED
    BY <2>1, <2>2
<1> QED
  BY <1>1, <1>2, <1>3, <1>4 DEF Serve, GoOn

\* Nothing around a load disturbs it.
LEMMA NextOwnLoads ==
  ASSUME TypeInv, CommittedInv, OwnLoadsAreFresh, [Next]_vars
  PROVE  OwnLoadsAreFresh'
<1> USE DEF TypeInv, TypeOK, OwnLoadsAreFresh
<1>1. CASE UNCHANGED vars
  BY <1>1 DEF vars, reqVars, ghosts
<1>2. CASE Around
  BY <1>2 DEF Around, Change, Invalidate, Expire, LateSet, reqVars, ghosts
<1>3. ASSUME NEW r \in Requests, StoreUnanswered(r) PROVE OwnLoadsAreFresh'
  BY <1>3 DEF StoreUnanswered, reqVars, ghosts
<1>4. ASSUME NEW r \in Requests, NEW i \in Investors, Begin(r, i)
      PROVE  OwnLoadsAreFresh'
  BY <1>4 DEF Begin, GoTo
<1>5. ASSUME NEW s \in Servers, Crash(s) PROVE OwnLoadsAreFresh'
  BY <1>5 DEF Crash
<1> QED
  BY <1>1, <1>2, <1>3, <1>4, <1>5, ServeOwnLoads DEF Next

\* A miss that runs loadAndCache itself stores and answers with what was
\* committed when the request came in, or later.  So the old answers of a
\* miss are those of requests that singleflight lets join an older load.
THEOREM OwnLoadsFresh == Spec => []OwnLoadsAreFresh
<1>1. Init => OwnLoadsAreFresh
  BY DEF Init, OwnLoadsAreFresh
<1>2. TypeInv /\ CommittedInv /\ OwnLoadsAreFresh /\ [Next]_vars
        => OwnLoadsAreFresh'
  BY NextOwnLoads
<1> QED
  BY <1>1, <1>2, InvariantTypeInv, InvariantCommitted, PTL DEF Spec

-----------------------------------------------------------------------------
(* An entry never goes back                                                *)

\* The script replaces an entry by a higher version only.
LEMMA ScriptGoesUp ==
  ASSUME TypeOK, NEW i \in Investors, NEW v \in 0..MaxVersion,
         LuaVersionedSet(i, v), NEW j \in Investors, cache[j] # 0
  PROVE  cache'[j] >= cache[j]
BY DEF LuaVersionedSet, TypeOK

\* luaVersionedSet keeps its promise against every interleaving of fills,
\* retried and late scripts, deletions and crashes: "an older version never
\* overwrites a newer one".
THEOREM EntriesNeverGoBack == Spec => NoRegress
<1>1. TypeInv /\ [Next]_vars => [EntriesGoUp]_vars
  <2> SUFFICES ASSUME TypeInv, Next PROVE EntriesGoUp
    OBVIOUS
  <2> USE CacheManagerAssumption DEF CacheManagerAssumption
  <2>1. CASE UNCHANGED cache
    BY <2>1 DEF TypeInv, TypeOK, EntriesGoUp
  <2>2. ASSUME NEW j \in Investors, Invalidate(j) \/ Expire(j) PROVE EntriesGoUp
    <3>1. cache \in [Investors -> 0..MaxVersion]
      BY DEF TypeInv, TypeOK
    <3>2. cache' = [cache EXCEPT ![j] = 0]
      BY <2>2 DEF Invalidate, Expire
    <3> QED
      BY <3>1, <3>2 DEF EntriesGoUp
  <2>3. CASE LateSet
    <3>1. PICK t \in late : LuaVersionedSet(t[1], t[2])
      BY <2>3 DEF LateSet
    <3>2. t[1] \in Investors /\ t[2] \in 0..MaxVersion
      BY DEF TypeInv, TypeOK
    <3> QED
      BY <3>1, <3>2, ScriptGoesUp DEF TypeInv, EntriesGoUp
  <2>4. ASSUME NEW r \in Requests, Store(r) PROVE EntriesGoUp
    <3>1. key[r] \in Investors /\ val[r] \in 0..MaxVersion
      BY DEF TypeInv, TypeOK
    <3> QED
      BY <2>4, <3>1, ScriptGoesUp DEF Store, TypeInv, EntriesGoUp
  <2>5. ASSUME NEW i \in Investors, Change(i) PROVE UNCHANGED cache
    BY <2>5 DEF Change
  <2>6. ASSUME NEW r \in Requests, LookUp(r) PROVE UNCHANGED cache
    BY <2>6 DEF LookUp, Hit, Miss, CacheFails, stores
  <2>7. ASSUME NEW r \in Requests, GoOn(r), ~Store(r) PROVE UNCHANGED cache
    BY <2>7 DEF GoOn, DirectRead, Lead, Follow, Load, LoadFails, StoreFails,
       Return, Respond, stores
  <2>8. ASSUME NEW r \in Requests, StoreUnanswered(r) PROVE UNCHANGED cache
    BY <2>8 DEF StoreUnanswered
  <2>9. ASSUME NEW r \in Requests, NEW i \in Investors, Begin(r, i)
        PROVE  UNCHANGED cache
    BY <2>9 DEF Begin, stores
  <2>10. ASSUME NEW s \in Servers, Crash(s) PROVE UNCHANGED cache
    BY <2>10 DEF Crash
  <2> QED
    BY <2>1, <2>2, <2>3, <2>4, <2>5, <2>6, <2>7, <2>8, <2>9, <2>10
    DEF Next, Around, Serve
<1> QED
  BY <1>1, InvariantTypeInv, PTL DEF Spec, NoRegress

-----------------------------------------------------------------------------
(* One load per key                                                        *)

LoadLabels == {"load", "store", "return"}

\* OneLoadPerKey without counting.
FlightInv ==
  \A s \in Servers, i \in Investors :
    /\ flight[s][i] = Loading(s, i)
    /\ \A p, q \in flight[s][i] : p = q
    /\ \A q \in Requests :
         pc[q] = "wait" /\ ServerOf[q] = s /\ key[q] = i => flight[s][i] # {}

\* Steps that start and end no load, and make nobody wait, keep it.
LEMMA FlightStays ==
  ASSUME FlightInv, UNCHANGED flight,
         \A q \in Requests : pc'[q] \in LoadLabels <=> pc[q] \in LoadLabels,
         \A q \in Requests : pc'[q] = "wait" => pc[q] = "wait",
         \A q \in Requests :
           pc[q] \in LoadLabels \cup {"wait"} => key'[q] = key[q]
  PROVE  FlightInv'
<1>1. ASSUME NEW s \in Servers, NEW i \in Investors
      PROVE  Loading(s, i)' = Loading(s, i)
  BY DEF Loading, LoadLabels
<1> QED
  BY <1>1 DEF FlightInv

\* singleflight's table and the loads under way agree after every step.
LEMMA NextFlight ==
  ASSUME TypeInv, FlightInv, Next
  PROVE  FlightInv'
<1> USE CacheManagerAssumption DEF CacheManagerAssumption, TypeInv, TypeOK
<1>1. CASE Around
  <2>1. UNCHANGED <<flight, pc, key>>
    BY <1>1 DEF Around, Change, Invalidate, Expire, LateSet, reqVars
  <2> QED
    BY <2>1, FlightStays
<1>2. ASSUME NEW r \in Requests,
             \/ LookUp(r) \/ DirectRead(r) \/ Load(r) \/ LoadFails(r)
             \/ Store(r) \/ StoreFails(r) \/ Respond(r)
      PROVE  FlightInv'
  <2>1. UNCHANGED <<flight, key>>
    BY <1>2 DEF LookUp, Hit, Miss, CacheFails, DirectRead, Load, LoadFails,
       Store, StoreFails, Respond
  <2>2. PICK l \in Labels :
          /\ pc' = [pc EXCEPT ![r] = l]
          /\ l \in LoadLabels <=> pc[r] \in LoadLabels
          /\ l # "wait"
    BY <1>2 DEF LookUp, Hit, Miss, CacheFails, DirectRead, Load, LoadFails,
       Store, StoreFails, Respond, Answer, GoTo, Labels, LoadLabels
  <2> QED
    BY <2>1, <2>2, FlightStays
<1>3. ASSUME NEW r \in Requests, StoreUnanswered(r) PROVE FlightInv'
  <2>1. UNCHANGED <<flight, pc, key>>
    BY <1>3 DEF StoreUnanswered, reqVars
  <2> QED
    BY <2>1, FlightStays
<1>4. ASSUME NEW r \in Requests, NEW i \in Investors, Begin(r, i)
      PROVE  FlightInv'
  <2>1. /\ UNCHANGED flight
        /\ pc[r] = "idle"
        /\ key' = [key EXCEPT ![r] = i]
    BY <1>4 DEF Begin
  <2>2. PICK l \in {"get", "direct"} : pc' = [pc EXCEPT ![r] = l]
    BY <1>4 DEF Begin, GoTo
  <2> QED
    BY <2>1, <2>2, FlightStays DEF LoadLabels
<1>5. ASSUME NEW r \in Requests, Lead(r) PROVE FlightInv'
  <2> DEFINE mine == ServerOf[r]
  <2>1. /\ UNCHANGED key
        /\ pc[r] = "join"
        /\ pc' = [pc EXCEPT ![r] = "load"]
        /\ flight[mine][key[r]] = {}
        /\ flight' = [flight EXCEPT ![mine][key[r]] = {r}]
    BY <1>5 DEF Lead, Call, SetCall, GoTo
  <2>2. ASSUME NEW s \in Servers, NEW i \in Investors
        PROVE  Loading(s, i)' = IF s = mine /\ i = key[r]
                                THEN {r} ELSE Loading(s, i)
    <3>1. \A q \in Requests : q # r => pc'[q] = pc[q]
      BY <2>1
    <3>2. pc'[r] = "load"
      BY <2>1
    <3>3. CASE s = mine /\ i = key[r]
      <4>1. Loading(s, i) = {}
        BY <2>1, <3>3 DEF FlightInv
      <4> QED
        BY <2>1, <3>1, <3>2, <3>3, <4>1 DEF Loading
    <3>4. CASE ~(s = mine /\ i = key[r])
      BY <2>1, <3>1, <3>4 DEF Loading
    <3> QED
      BY <3>3, <3>4
  <2>3. ASSUME NEW s \in Servers, NEW i \in Investors
        PROVE  flight'[s][i] = IF s = mine /\ i = key[r]
                               THEN {r} ELSE flight[s][i]
    BY <2>1
  <2>4. ASSUME NEW q \in Requests, pc'[q] = "wait"
        PROVE  pc[q] = "wait" /\ key'[q] = key[q]
    BY <2>1, <2>4
  <2> SUFFICES ASSUME NEW s \in Servers, NEW i \in Investors
               PROVE  /\ flight'[s][i] = Loading(s, i)'
                      /\ \A p, q \in flight'[s][i] : p = q
                      /\ \A q \in Requests :
                           pc'[q] = "wait" /\ ServerOf[q] = s /\ key'[q] = i
                             => flight'[s][i] # {}
    BY DEF FlightInv
  <2>5. CASE s = mine /\ i = key[r]
    <3>1. flight'[s][i] = {r} /\ Loading(s, i)' = {r}
      BY <2>2, <2>3, <2>5
    <3> QED
      BY <3>1
  <2>6. CASE ~(s = mine /\ i = key[r])
    <3>1. flight'[s][i] = flight[s][i] /\ Loading(s, i)' = Loading(s, i)
      BY <2>2, <2>3, <2>6
    <3> QED
      BY <3>1, <2>4 DEF FlightInv
  <2> QED
    BY <2>5, <2>6
<1>6. ASSUME NEW r \in Requests, Follow(r) PROVE FlightInv'
  <2>1. /\ UNCHANGED <<flight, key>>
        /\ pc[r] = "join"
        /\ pc' = [pc EXCEPT ![r] = "wait"]
        /\ flight[ServerOf[r]][key[r]] # {}
    BY <1>6 DEF Follow, Call, GoTo
  <2>2. ASSUME NEW s \in Servers, NEW i \in Investors
        PROVE  Loading(s, i)' = Loading(s, i)
    BY <2>1 DEF Loading
  <2>3. ASSUME NEW q \in Requests, pc'[q] = "wait"
        PROVE  pc[q] = "wait" \/ q = r
    BY <2>1, <2>3
  <2> QED
    BY <2>1, <2>2, <2>3 DEF FlightInv
<1>7. ASSUME NEW r \in Requests, Return(r) PROVE FlightInv'
  <2> DEFINE mine == ServerOf[r]
             over == {r} \cup Waiters(r)
  <2>1. /\ UNCHANGED key
        /\ pc[r] = "return"
        /\ pc' = [q \in Requests |-> IF q \in over THEN "done" ELSE pc[q]]
        /\ flight' = [flight EXCEPT ![mine][key[r]] = {}]
    BY <1>7 DEF Return, SetCall
  <2>2. ASSUME NEW s \in Servers, NEW i \in Investors
        PROVE  flight'[s][i] = IF s = mine /\ i = key[r]
                               THEN {} ELSE flight[s][i]
    BY <2>1
  <2>3. ASSUME NEW s \in Servers, NEW i \in Investors
        PROVE  Loading(s, i)' = IF s = mine /\ i = key[r]
                                THEN {} ELSE Loading(s, i)
    <3>1. \A q \in over : ServerOf[q] = mine /\ key[q] = key[r]
      BY DEF Waiters
    <3>2. CASE s = mine /\ i = key[r]
      <4>1. r \in Loading(s, i)
        BY <2>1, <3>2 DEF Loading
      <4>2. \A q \in Loading(s, i) : q = r
        BY <4>1, <3>2 DEF FlightInv
      <4>3. \A q \in Requests : q \notin Loading(s, i)'
        BY <2>1, <4>2 DEF Loading
      <4> QED
        BY <3>2, <4>3 DEF Loading
    <3>3. CASE ~(s = mine /\ i = key[r])
      <4>1. \A q \in Requests :
              ServerOf[q] = s /\ key[q] = i => pc'[q] = pc[q]
        BY <2>1, <3>1, <3>3
      <4> QED
        BY <2>1, <3>3, <4>1 DEF Loading
    <3> QED
      BY <3>2, <3>3
  <2>4. ASSUME NEW q \in Requests, pc'[q] = "wait"
        PROVE  pc[q] = "wait" /\ ~(ServerOf[q] = mine /\ key[q] = key[r])
    BY <2>1, <2>4 DEF Waiters
  <2> QED
    BY <2>1, <2>2, <2>3, <2>4 DEF FlightInv
<1>8. ASSUME NEW c \in Servers, Crash(c) PROVE FlightInv'
  <2>1. /\ UNCHANGED key
        /\ pc' = [q \in Requests |-> IF ServerOf[q] = c THEN "idle" ELSE pc[q]]
        /\ flight' = [flight EXCEPT ![c] = [i \in Investors |-> {}]]
    BY <1>8 DEF Crash
  <2>2. ASSUME NEW s \in Servers, NEW i \in Investors
        PROVE  flight'[s][i] = IF s = c THEN {} ELSE flight[s][i]
    BY <2>1
  <2>3. ASSUME NEW s \in Servers, NEW i \in Investors
        PROVE  Loading(s, i)' = IF s = c THEN {} ELSE Loading(s, i)
    BY <2>1 DEF Loading
  <2>4. ASSUME NEW q \in Requests, pc'[q] = "wait"
        PROVE  pc[q] = "wait" /\ ServerOf[q] # c
    BY <2>1, <2>4
  <2> QED
    BY <2>1, <2>2, <2>3, <2>4 DEF FlightInv
<1> QED
  BY <1>1, <1>2, <1>3, <1>4, <1>5, <1>6, <1>7, <1>8 DEF Next, Serve, GoOn

LEMMA InitFlight == Init => FlightInv
BY CacheManagerAssumption
DEF Init, FlightInv, Loading, CacheManagerAssumption

LEMMA StutterFlight ==
  ASSUME FlightInv, UNCHANGED vars
  PROVE  FlightInv'
BY DEF FlightInv, Loading, vars, reqVars

\* A set without two different elements has at most one.
LEMMA AtMostOne ==
  ASSUME NEW S, \A p, q \in S : p = q
  PROVE  Cardinality(S) <= 1
<1>1. CASE S = {}
  BY <1>1, FS_EmptySet
<1>2. ASSUME NEW p \in S PROVE Cardinality(S) <= 1
  <2>1. S = {p}
    OBVIOUS
  <2>2. Cardinality({p}) = 1
    BY FS_Singleton
  <2> QED
    BY <2>1, <2>2
<1> QED
  BY <1>1, <1>2

\* singleflight, as loadAndCache uses it: no server has two loads of one
\* investor under way, and whoever waits, waits for a load that goes on.
THEOREM LoadsAreShared == Spec => []OneLoadPerKey
<1>1. TypeInv /\ FlightInv /\ [Next]_vars => FlightInv'
  BY NextFlight, StutterFlight
<1>2. FlightInv => OneLoadPerKey
  BY AtMostOne DEF FlightInv, OneLoadPerKey
<1> QED
  BY <1>1, <1>2, InitFlight, InvariantTypeInv, PTL DEF Spec

-----------------------------------------------------------------------------
(* The handlers implement CacheAside                                       *)

\* Steps that load nothing and finish no set leave Loads as it is.
LEMMA SameLoads ==
  ASSUME late' = late,
         \A q \in Requests : pc'[q] = "store" <=> pc[q] = "store",
         \A q \in Requests :
           pc[q] = "store" => key'[q] = key[q] /\ val'[q] = val[q]
  PROVE  Loads' = Loads
BY DEF Loads

\* A request that is no longer about to store may leave its version to
\* another request or a late set.
LEMMA OneStoreLess ==
  ASSUME TypeOK, NEW r \in Requests, pc[r] = "store",
         pc' = [pc EXCEPT ![r] = "return"], UNCHANGED <<late, key, val>>
  PROVE  Loads' \in {Loads, Loads \ {<<key[r], val[r]>>}}
<1> DEFINE t == <<key[r], val[r]>>
           others == {q \in Requests : pc[q] = "store" /\ q # r}
           rest == {<<u[1], u[2]>> : u \in late} \cup
                   {<<key[q], val[q]>> : q \in others}
<1>1. {q \in Requests : pc'[q] = "store"} = others
  BY DEF TypeOK
<1>2. Loads' = rest
  BY <1>1 DEF Loads
<1>3. Loads = rest \cup {t}
  BY DEF Loads
<1> QED
  BY <1>2, <1>3

\* The initial states agree.
LEMMA ReadSideInit == Init => ReadSide!CInit
<1> SUFFICES ASSUME Init PROVE Loads = {}
  BY DEF Init, ReadSide!CInit
<1>1. {q \in Requests : pc[q] = "store"} = {}
  BY DEF Init
<1> QED
  BY <1>1 DEF Loads, Init

\* PostgreSQL's and Redis's own steps are steps of CacheAside.
LEMMA ReadSideAround ==
  ASSUME TypeInv, Around
  PROVE  ReadSide!CNext
<1> USE DEF TypeInv, TypeOK
<1>1. ASSUME NEW i \in Investors, Change(i) PROVE ReadSide!CNext
  <2>1. Loads' = Loads
    BY <1>1, SameLoads DEF Change, reqVars
  <2>2. ReadSide!Update(i)
    BY <1>1, <2>1 DEF Change, ReadSide!Update
  <2> QED
    BY <2>2 DEF ReadSide!CNext
<1>2. ASSUME NEW i \in Investors, Invalidate(i) \/ Expire(i)
      PROVE  ReadSide!CNext
  <2>1. Loads' = Loads
    BY <1>2, SameLoads DEF Invalidate, Expire, reqVars
  <2>2. ReadSide!Drop(i)
    BY <1>2, <2>1 DEF Invalidate, Expire, ReadSide!Drop
  <2> QED
    BY <2>2 DEF ReadSide!CNext
<1>3. CASE LateSet
  <2>1. PICK t \in late : LuaVersionedSet(t[1], t[2]) /\ late' = late \ {t}
    BY <1>3 DEF LateSet
  <2> DEFINE l == <<t[1], t[2]>>
  <2>2. l \in Loads
    BY DEF Loads
  <2>3. Loads' \in {Loads, Loads \ {l}}
    <3> DEFINE carried == {<<u[1], u[2]>> : u \in late}
               rest == {<<u[1], u[2]>> : u \in late \ {t}}
               pending == {<<key[q], val[q]>> :
                             q \in {p \in Requests : pc[p] = "store"}}
    <3>1. Loads = carried \cup pending
      BY DEF Loads
    <3>2. pending' = pending
      BY <1>3 DEF LateSet, reqVars
    <3>3. Loads' = rest \cup pending
      BY <2>1, <3>2 DEF Loads
    <3>4. carried = rest \cup {l}
      OBVIOUS
    <3> QED
      BY <3>1, <3>3, <3>4
  <2>4. ReadSide!Store(l)
    BY <1>3, <2>1, <2>2, <2>3 DEF LateSet, LuaVersionedSet, ReadSide!Store
  <2> QED
    BY <2>2, <2>4 DEF ReadSide!CNext
<1> QED
  BY <1>1, <1>2, <1>3 DEF Around

\* Load and Store of a request are those of CacheAside, a set that failed
\* is one that CacheAside forgets, everything else is invisible to it.
LEMMA ReadSideServe ==
  ASSUME TypeInv, NEW r \in Requests, Serve(r)
  PROVE  [ReadSide!CNext]_ReadSide!cvars
<1> USE DEF TypeInv, TypeOK
<1>1. ASSUME UNCHANGED <<version, cache, late, key>>,
             \A q \in Requests : pc'[q] = "store" <=> pc[q] = "store",
             \A q \in Requests : pc[q] = "store" => val'[q] = val[q]
      PROVE  UNCHANGED ReadSide!cvars
  <2>1. Loads' = Loads
    BY <1>1, SameLoads
  <2> QED
    BY <1>1, <2>1 DEF ReadSide!cvars
<1>2. CASE LookUp(r) \/ DirectRead(r) \/ LoadFails(r) \/ Respond(r)
  <2>1. PICK l \in Labels \ {"store"}, v \in Nat :
          /\ pc' = [pc EXCEPT ![r] = l]
          /\ val' = [val EXCEPT ![r] = v]
          /\ pc[r] # "store"
    <3>1. \A i \in Investors : version[i] \in Nat /\ cache[i] \in Nat
      BY CacheManagerAssumption DEF CacheManagerAssumption
    <3>2. key[r] \in Investors /\ val[r] \in Nat
      BY CacheManagerAssumption DEF CacheManagerAssumption
    <3>3. val = [val EXCEPT ![r] = val[r]]
      OBVIOUS
    <3> QED
      BY <1>2, <3>1, <3>2, <3>3
      DEF LookUp, Hit, Miss, CacheFails, DirectRead, LoadFails, Respond,
          Answer, GoTo, Labels
  <2>2. UNCHANGED <<version, cache, late, key>>
    BY <1>2 DEF LookUp, Hit, Miss, CacheFails, DirectRead, LoadFails, Respond,
       stores
  <2> QED
    BY <1>1, <2>1, <2>2
<1>3. CASE Lead(r) \/ Follow(r)
  <2>1. UNCHANGED <<version, cache, late, key, val>>
    BY <1>3 DEF Lead, Follow, stores
  <2>2. PICK l \in {"load", "wait"} :
          pc' = [pc EXCEPT ![r] = l] /\ pc[r] # "store"
    BY <1>3 DEF Lead, Follow, GoTo
  <2> QED
    BY <1>1, <2>1, <2>2
<1>4. CASE Return(r)
  <2> DEFINE over == {r} \cup Waiters(r)
  <2>1. \A q \in over : q \in Requests /\ pc[q] # "store"
    BY <1>4 DEF Return, Waiters
  <2>2. \A q \in Requests :
          /\ pc'[q] = IF q \in over THEN "done" ELSE pc[q]
          /\ val'[q] = IF q \in over THEN val[r] ELSE val[q]
    BY <1>4 DEF Return
  <2>3. UNCHANGED <<version, cache, late, key>>
    BY <1>4 DEF Return, stores
  <2> QED
    BY <1>1, <2>1, <2>2, <2>3
<1>5. CASE Load(r)
  <2> DEFINE i == key[r]
  <2>1. /\ UNCHANGED <<version, cache, late, key>>
        /\ pc[r] = "load" /\ pc' = [pc EXCEPT ![r] = "store"]
        /\ val' = [val EXCEPT ![r] = version[i]]
    BY <1>5 DEF Load, GoTo, stores
  <2>2. \A q \in Requests :
          pc'[q] = "store" <=> (pc[q] = "store" \/ q = r)
    BY <2>1
  <2>3. \A q \in Requests : pc[q] = "store" => val'[q] = val[q]
    BY <2>1
  <2>4. val'[r] = version[i]
    BY <2>1
  <2>5. Loads' = Loads \cup {<<i, version[i]>>}
    <3>1. ASSUME NEW t PROVE t \in Loads' <=> t \in Loads \cup {<<i, version[i]>>}
      BY <2>1, <2>2, <2>3, <2>4 DEF Loads
    <3> QED
      BY <3>1
  <2>6. i \in Investors
    OBVIOUS
  <2>7. ReadSide!Load(i)
    BY <2>1, <2>5 DEF ReadSide!Load
  <2> QED
    BY <2>6, <2>7 DEF ReadSide!CNext
<1>6. CASE Store(r)
  <2> DEFINE t == <<key[r], val[r]>>
  <2>1. t \in Loads
    BY <1>6 DEF Store, Loads
  <2>2. Loads' \in {Loads, Loads \ {t}}
    BY <1>6, OneStoreLess DEF Store, GoTo
  <2>3. ReadSide!Store(t)
    BY <1>6, <2>1, <2>2 DEF Store, LuaVersionedSet, ReadSide!Store
  <2> QED
    BY <2>1, <2>3 DEF ReadSide!CNext
<1>7. CASE StoreFails(r)
  <2> DEFINE t == <<key[r], val[r]>>
  <2>1. t \in Loads
    BY <1>7 DEF StoreFails, Loads
  <2>2. Loads' \in {Loads, Loads \ {t}}
    BY <1>7, OneStoreLess DEF StoreFails, GoTo, stores
  <2>3. UNCHANGED <<version, cache>>
    BY <1>7 DEF StoreFails, stores
  <2>4. CASE Loads' = Loads
    BY <2>3, <2>4 DEF ReadSide!cvars
  <2>5. CASE Loads' = Loads \ {t}
    <3>1. ReadSide!Forget({t})
      BY <2>1, <2>3, <2>5 DEF ReadSide!Forget
    <3>2. {t} \in SUBSET Loads
      BY <2>1
    <3> QED
      BY <3>1, <3>2 DEF ReadSide!CNext
  <2> QED
    BY <2>2, <2>4, <2>5
<1> QED
  BY <1>2, <1>3, <1>4, <1>5, <1>6, <1>7 DEF Serve, GoOn

LEMMA ReadSideNext ==
  ASSUME TypeInv, [Next]_vars
  PROVE  [ReadSide!CNext]_ReadSide!cvars
<1> USE DEF TypeInv, TypeOK
<1>1. ASSUME NEW r \in Requests, StoreUnanswered(r)
      PROVE  UNCHANGED ReadSide!cvars
  <2>1. <<key[r], val[r]>> \in Loads
    BY <1>1 DEF StoreUnanswered, Loads
  <2>2. Loads' = Loads
    <3> DEFINE pending == {<<key[q], val[q]>> :
                             q \in {p \in Requests : pc[p] = "store"}}
               carried == {<<t[1], t[2]>> : t \in late}
    <3>1. pending' = pending
      BY <1>1 DEF StoreUnanswered, reqVars
    <3>2. <<key[r], val[r]>> \in pending
      BY <1>1 DEF StoreUnanswered
    <3>3. carried' = carried \cup {<<key[r], val[r]>>}
      <4> DEFINE w == <<key[r], val[r], faults>>
      <4>1. late' = late \cup {w} /\ w[1] = key[r] /\ w[2] = val[r]
        BY <1>1 DEF StoreUnanswered
      <4> HIDE DEF w
      <4> QED
        BY <4>1
    <3> QED
      BY <3>1, <3>2, <3>3 DEF Loads
  <2> QED
    BY <1>1, <2>2 DEF StoreUnanswered, ReadSide!cvars
<1>2. ASSUME NEW r \in Requests, NEW i \in Investors, Begin(r, i)
      PROVE  UNCHANGED ReadSide!cvars
  <2>1. UNCHANGED <<version, cache, late, val>>
    BY <1>2 DEF Begin, stores
  <2>2. pc[r] = "idle" /\ key' = [key EXCEPT ![r] = i]
    BY <1>2 DEF Begin
  <2>3. PICK l \in {"get", "direct"} : pc' = [pc EXCEPT ![r] = l]
    BY <1>2 DEF Begin, GoTo
  <2>4. Loads' = Loads
    BY <2>1, <2>2, <2>3, SameLoads
  <2> QED
    BY <2>1, <2>4 DEF ReadSide!cvars
<1>3. ASSUME NEW s \in Servers, Crash(s)
      PROVE  [ReadSide!CNext]_ReadSide!cvars
  <2>1. UNCHANGED <<version, cache, late, key>>
    BY <1>3 DEF Crash
  <2>2. \A q \in Requests :
          pc'[q] = "store" => pc[q] = "store" /\ val'[q] = val[q]
    BY <1>3 DEF Crash
  <2>3. Loads' \subseteq Loads
    BY <2>1, <2>2 DEF Loads
  <2>4. CASE Loads' = Loads
    BY <2>1, <2>4 DEF ReadSide!cvars
  <2>5. CASE Loads' # Loads
    <3> DEFINE gone == Loads \ Loads'
    <3>1. gone # {} /\ gone \in SUBSET Loads /\ Loads' = Loads \ gone
      BY <2>3, <2>5
    <3>2. ReadSide!Forget(gone)
      BY <2>1, <3>1 DEF ReadSide!Forget
    <3> QED
      BY <3>1, <3>2 DEF ReadSide!CNext
  <2> QED
    BY <2>4, <2>5
<1>4. ASSUME UNCHANGED vars PROVE UNCHANGED ReadSide!cvars
  BY <1>4 DEF vars, stores, reqVars, ReadSide!cvars, Loads
<1> QED
  BY <1>1, <1>2, <1>3, <1>4, ReadSideAround, ReadSideServe DEF Next

\* Whatever singleflight, the fallback, retried and late sets and crashes do:
\* an entry only ever becomes a version read from PostgreSQL, through the
\* versioned set, or disappears.
THEOREM Refinement == Spec => ImplementsCacheAside
<1>1. TypeInv /\ [Next]_vars => [ReadSide!CNext]_ReadSide!cvars
  BY ReadSideNext
<1> QED
  BY <1>1, ReadSideInit, InvariantTypeInv, PTL
  DEF Spec, ImplementsCacheAside, ReadSide!CSpec
=============================================================================
