----------------------------- MODULE CacheAside -----------------------------
(***************************************************************************)
(* What the read side does to the copies it keeps: versions are read from  *)
(* the database, remembered for a while and stored by a versioned set, in  *)
(* any order, any number of times or never; entries may vanish at any time. *)
(* Nothing else ever gets into the cache.                                  *)
(*                                                                         *)
(* Module CacheManager, the request handlers of the middleware, implements  *)
(* this module; module Coherence uses it in their place.                   *)
(***************************************************************************)
EXTENDS Naturals

CONSTANT
  Investors     \* investor ids

VARIABLES
  version,      \* version[i]: the committed version of investor i
  cache,        \* cache[i]: the version of i's entry, 0 if there is none
  loads         \* <<i, v>>: version v of i was read and may yet be stored

cvars == <<version, cache, loads>>

CInit ==
  /\ version = [i \in Investors |-> 1]
  /\ cache = [i \in Investors |-> 0]
  /\ loads = {}

\* The investor changes in the database.
Update(i) ==
  /\ version' = [version EXCEPT ![i] = @ + 1]
  /\ UNCHANGED <<cache, loads>>

\* Faulty: the row is read from a database that lags behind.
LoadLagging(i) ==
  /\ \E v \in 1..version[i] : loads' = loads \cup {<<i, v>>}
  /\ UNCHANGED <<version, cache>>

\* A miss reads the row.
Load(i) ==
  /\ loads' = loads \cup {<<i, version[i]>>}
  /\ UNCHANGED <<version, cache>>

\* The versioned set of something that was read.  Another request, or a
\* set that was not answered, may be about to store the same.
Store(t) ==
  /\ t \in loads
  /\ cache' = [cache EXCEPT ![t[1]] = IF @ # 0 /\ @ >= t[2] THEN @ ELSE t[2]]
  /\ loads' \in {loads, loads \ {t}}
  /\ UNCHANGED version

\* What was read is not stored after all.
Forget(T) ==
  /\ T # {} /\ T \subseteq loads
  /\ loads' = loads \ T
  /\ UNCHANGED <<version, cache>>

\* The key is deleted, expires or is evicted.
Drop(i) ==
  /\ cache' = [cache EXCEPT ![i] = 0]
  /\ UNCHANGED <<version, loads>>

CNext ==
  \/ \E i \in Investors : Update(i) \/ Load(i) \/ Drop(i)
  \/ \E t \in loads : Store(t)
  \/ \E T \in SUBSET loads : Forget(T)

CSpec == CInit /\ [][CNext]_cvars
=============================================================================
