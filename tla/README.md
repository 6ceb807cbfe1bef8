# Verification of investor-cache

TLA+ models of the investor profile cache in `src/`: a write path that keeps a
transactional outbox, a relay that publishes it to Kafka, workers that delete
cache keys, a read path that fills the cache again behind a circuit breaker,
and a reconciler. TLC checks the models on small instances; TLAPS proves every
safety property and refinement that these runs check, for every size.

## The system

```
PATCH -> profile-service -> PostgreSQL {investors, outbox}
                                 | outbox-relay (any number)
                                 v
                           Kafka profile-updates
                                 | invalidation-worker (any number)
                                 v DEL
GET -> middleware (any number) <-> Redis        middleware <-> PostgreSQL
          reconciler ---------------^
```

| Component | State | Operations | Makes it correct |
|---|---|---|---|
| profile-service (`internal/profile`) | the PostgreSQL transaction of each PATCH | validate, BEGIN, UPDATE (trigger raises `cache_version`), INSERT into outbox, COMMIT or rollback | one event per version, both or neither; no lost update; every PATCH is answered |
| outbox-relay (`internal/outbox`) | a transaction with locked rows and the list of ids sent | fetch a batch, publish row by row, mark, COMMIT or rollback | nothing marked unpublished; everything published in the end; relays do not collide |
| invalidation-worker (`internal/kafka`) | position in the partition, committed offset, message in hand, attempt | fetch, delete (single, bulk in batches), retry, dead-letter, commit | at-least-once deletion, no message blocks its partition |
| middleware read path (`internal/cache`, `internal/handler`, `internal/repository`) | Redis entries, singleflight calls, requests | lookup, fallback, bypass, load, versioned set | entries never go back in version, one load per key, every request is answered |
| circuit breaker (`internal/circuitbreaker`) | gobreaker's state and counts, the lookups let through | count, trip, half-open, close | Redis is left alone when it fails, and tried again; nothing is counted twice or in the wrong generation |
| reconciler (`internal/reconciler`) | none between cycles; the sample and the key in hand within one | sample keys, compare, delete | evicts what is stale and only that |

They interact through PostgreSQL rows, Kafka's log and Redis keys only; the
middleware and the workers share no memory. What is hard: racing transactions,
crashes between an effect and its record (publish and mark, delete and commit,
load and store), lost and late answers, several instances of every process, a
cache fill that an invalidation overtakes, answers of the breaker's earlier
generations, and goroutines that append to one slice. `PROJECT.json` lists these
hazards at their lines with the properties that would catch each.

## Modules

| Module | Models | Relation |
|---|---|---|
| `Notification` | abstract: what the write side promises to keepers of copies | - |
| `Outbox` | `UpdateProfile`'s transaction, the trigger, the outbox table, `Relay.runCycle`, the broker's log | implements `Notification` |
| `ProfileService` | PATCH from the body to the status code: `UpdateProfile` handler, `ValidatePatch`, the columns, row locks, the index of e-mails | implements `Notification` up to the outbox |
| `Invalidation` | abstract: what the workers promise to whoever caches | - |
| `InvalidationConsumer` | `InvalidationConsumer.Run`, `processEvent`, `processBulkInvalidation`, `handleFailure`, the consumer group | implements `Invalidation` |
| `CacheAside` | abstract: what the read side may do to the cache | - |
| `CacheManager` | `ProfileHandler.GetProfile`, `CacheManager.GetProfile`, `loadAndCache`, `RedisStore`, singleflight | implements `CacheAside` |
| `Breaker` | `NewCircuitBreaker`'s settings, gobreaker around each lookup | implements `CacheManager` |
| `Reconciler` | `reconcile`, `sampleKeys` with its goroutines | extends `CacheAside` |
| `Coherence` | everything together around one Redis cluster | composes `Notification`, `Invalidation`, `CacheAside`, `Reconciler` |
| `OutboxProofs`, `ProfileServiceProofs`, `ConsumerProofs`, `CacheManagerProofs`, `BreakerProofs`, `CoherenceProofs` | theorems about `Outbox`, `ProfileService`, `InvalidationConsumer`, `CacheManager`, `Breaker` and `Coherence` | TLAPS |
| `MCOutbox`, `MCConsumer`, `MCCacheManager`, `MCBreaker`, `MCCoherence`, `MCProfileService` | values for TLC | - |

Operators defined just before an action and commented *Faulty* are plausible
bugs of the code it models; substituting them shows that each property can
fail.

`Coherence` is built from `Notification`, `Invalidation` and `CacheAside`, not from
`Outbox`, `InvalidationConsumer` and `CacheManager`: the three refinements say that
what holds over the abstract modules holds over the detailed ones.

### Outbox

A transaction of profile-service is an entry of `txs`, in the order of BEGIN.
It goes through the stages begun, updated, inserted, committed or aborted
(`BeginTx`, `Update`, `AddEvent`, `CommitTx`, `RollbackTx`: the steps of
`Service.UpdateProfile`). `Update` waits for the row lock and takes the version
from the trigger. The entry also stands for the outbox row it inserts: a
transaction inserts one, and the row's `created_at` is `now()`, the time of
BEGIN, which is what `FetchUnpublished` orders by.

`relay[r]` is relay r's open transaction: `locked` (rows fetched FOR UPDATE),
`sent` (`successIDs`), `stopped` (the loop broke). `Publish` writes the next row
to the log of the investor's partition. `Unanswered` is a produce request
without an answer: the writer may send again or fail, and the request may be
carried out at any later time (`LateWrite`). `PublishFails` breaks the loop,
`CommitCycle` marks what was sent, `RollbackCycle` is every way in which the
cycle's transaction is lost, from a kill to a failed COMMIT.

What is left out: column values (they are in `ProfileService`), `retry_count`,
`last_error` and metrics, which no code reads. A row whose publication fails for
ever is outside the bounds (`MaxFaults`): the loop stops at it each time, so
nothing younger than it in the batch would be published.

### ProfileService

Each of a patch's fields is absent or holds a class of values, classes being what
`ValidatePatch` and PostgreSQL tell apart: a text that is blank, too long, or of
allowed length only without the white space around it (`ValidatePatch` measures the
trimmed text, `Update` stores it as it came); a decimal, a negative number, no
number, and what `strconv.ParseFloat` takes although it is no decimal: NaN, infinity,
hexadecimal, beyond DECIMAL(18,2). Only e-mails that pass are told apart.

A request goes through decode, update, index, event, commit, done. `Update` and
`Index` are the two halves of the UPDATE statement: it waits for the row
(`RowHolders`), writes its new version, then enters the e-mail into the unique
index, where it waits for every open transaction that writes the same e-mail or
gives it up (`EmailHolders`), and fails with 409 if another investor has it in the
end. A transaction that has its row and waits in the index can be in a circle
with others; PostgreSQL's detector aborts one of them (`Deadlocked`), which is
answered with 500. An id that is no UUID fails in PostgreSQL (500), one that
nobody has finds no row (404). `Interrupted` is a failed statement, a client that
hangs up and a server that stops; `Commit` may succeed without its
acknowledgement, then the answer is a 500 for a change that was made.

Left out: the columns that no two of the modelled outcomes depend on (name, risk,
KYC and preferences decide only about refusal).

### InvalidationConsumer

The log of each partition is fed by any producer with every kind of message the
worker distinguishes: single, bulk, unknown type, invalid JSON. A worker goes
through fetch, process, dlq and commit. A `DELETE` that fails may have deleted
any part of its batch; each retry starts `processEvent` from the beginning.
After `MaxRetries` attempts of `handleFailure` the message goes to the
dead-letter topic; if that fails too, the worker goes on with the next message.
Commit errors are ignored, as in the code. `Rebalance` assigns the partitions
anew and reads on from the committed offsets while workers keep the message in
hand, and a worker that lost a partition may still commit in it: Kafka accepts
an offset from any live member. (kafka-go's own merging of uncommitted offsets
is not modelled.) `Crash` also stands for a shutdown with a message in hand.

Two history variables relate offsets to their purpose: `pending` holds <<p, k, i>>
while investor i has not been deleted since message k was written, `abandoned`
the messages whose dead-letter write ever failed.

`Invalidation` keeps of this what the cache notices: how many messages were
`written`, what is `pending`, and up to where the group is `finished`. In the
refinement these are the lengths of the logs, `pending` without the messages that
were given up (dead-lettered or abandoned), and the committed offsets: a message
is finished only when nothing about it is pending.

### CacheManager and CacheAside

A profile is its `cache_version`; an absent key is version 0. Each request has a
label: get, direct (fallback or bypass), join, load, store, return, wait, done.
`flight[s][i]` is the request that leads server s's singleflight call. `Return`
ends the call and answers all its waiters in one step, as `Group.Do` does under
its mutex. `LuaVersionedSet` is atomic; a set that was not answered can be sent
again and can be carried out late (`LateSet`), each send by itself: `late` has the number
of the fault with what is sent. `Change`, `Invalidate` and
`Expire` are the rest of the system: commits, DELs and TTL or LRU eviction at
any time. Here the breaker can refuse any lookup, so `CacheFails` is always
possible; `Breaker` says when.

History: `invalidated[i]` is the version at the last DEL of i, `floor[r]` what
`version` and `invalidated` were when request r came in.

`CacheAside` keeps of all this what the rest of the system notices: `version`,
`cache`, and `loads`, what was read and may still be stored. In the refinement
`loads` is what requests at store hold and what late sets carry (`Loads`).

### Breaker

The state of gobreaker (a library, modelled from its use and its documented
rules) for each server: `breaker[s]` with state and counts, `permit[r]` for a
lookup that was let through, of the present generation or an older one.
`Admit` and `Refuse` are `beforeRequest`, `AfterRequest` counts an answer and
changes the state, `IntervalEnds` and `TimeoutEnds` start generations.
`ReadyToTrip` and `IsSuccessful` are the functions of `breaker.go`: at least
`MinRequests` (10) with half of them failed; `redis.Nil` is a success.
`Answered` and `Unanswerable` join the count to `CacheManager`'s `Hit`, `Miss` and
`CacheFails`. `healthy` says whether Redis answers in time and clients stay: a
request that is cancelled counts as a failure of Redis too. (So would an entry that
`mapToProfile` cannot parse; none is, while only `SetVersioned` writes them.) `CACHE_DISABLE_CB` gives
`CacheManager` as it stands.

### Reconciler and Coherence

A cycle of the reconciler: one goroutine per master scans its keys (`Test`,
`Scan`, `AppendKeys`), all appending to `allKeys` without a lock. `append` is a
read and a later write, so keys that another goroutine wrote in between can be lost.
Where two write the same positions of the shared array, each of these holds the key of
either, or a string made of both (`NoKey`); or the process dies (`Die`). Then the keys are taken one by one: `GetEntry`, `ReadRow` with
the comparison, `Evict`; a call that fails skips the key.

A scan answers the keys that are cached (`CachedOf`).

`Coherence` adds PostgreSQL and outbox (`Change`, `Announce`, `Settle`), workers
(`Handle`, `GiveUp`), the read side (`Read`, `Fill`, `NoFill`), TTL,
eviction and other reconcilers (`Expire`), and a Redis master that falls behind in
replication or fsync and is replaced by what its replica or disk has
(`FallBehind`, `CatchUp`, `Failover`). `pending` is that of `Invalidation`: <<p, k, i>> from the
announcement of i's change in message k until i is deleted for a message, or this one
given up. `Handle` may take any message of the log at any time, since a redelivery,
a retry or a slow worker can delete a key long after the first deletion. Offsets are left
out; the cache does not see them. History: `told[i]` is the version of i when its
key was last deleted for a message or such a message was given up.

## Runs

| Run | Instance | Shows |
|---|---|---|
| `outbox` | 2 relays, 2 investors on 2 partitions, batch 2, 3 transactions, 2 faults | `EventPerVersion`, `PublishedIsInTopic`, `RowsExclusive`, `DuplicatesNeedFaults` (an event is announced again only if a relay or request failed), `CommittedIsPublished`, and `Outbox` implements `Notification` |
| `profile_service` | 2 requests, 2 investors, 3 e-mails, 5 patches | `UniqueEmails`, `AnswersAreKept` (no lost update), `ConflictsAreReal`, `EveryPatchEnds`, and `ProfileService` implements `Notification` |
| `portfolio_nan` | the same with every kind of portfolio value | violated: NaN is stored |
| `consumer` | 2 workers, 1 partition of 2 messages of 4 kinds, 1 retry, batches of 1 key, 2 faults | `CommittedIsHandledOrAbandoned`, `EveryMessageEnds`, and `InvalidationConsumer` implements `Invalidation` |
| `consumer_lost` | 1 worker, no crash | violated: a message is lost after a failed dead-letter write |
| `cache` | 3 requests on 2 servers, 1 investor, 2 versions, 1 fault | `NoRegress`, `NeverAhead`, `DirectReadsAreFresh`, `OwnLoadsAreFresh`, `OneLoadPerKey`, and `CacheManager` implements `CacheAside` |
| `fill_race` | 2 requests, 1 server, no fault | violated: an old version cached after its invalidation |
| `stale_follower` | the same | violated: an old version answered on a miss after its invalidation |
| `breaker` | 2 requests on 1 server, thresholds 2 and 2, 1 fault | `ProbesAreOut`, `CountsAddUp`, `OpensOnFailuresOnly`, `EveryRequestEnds`, `Recovers`, and `Breaker` implements `CacheManager` |
| `coherence` | 2 masters with a key each, of which one changes once; sample of 2, 1 fault | `OnlyRacesUncover`, `EvictsOnlyStale`, `ChangeIsTold`, `Converges` |
| `sampling` | a master with 3 keys beside one with 1, sample of 2, nobody changes, no fault | `SampleAdvances`, `SampleEnds` |
| `blind_spot` | 1 master with 2 keys, sample of 1, no fault, no TTL | violated: a stale entry is never compared |

Why the bounds are enough. *Outbox*: three transactions let two race for one
investor while the third concerns the other; two relays with two faults let
one fail or die between publishing and marking, twice, while the other takes
its rows over; a batch of two is the smallest with a middle. *ProfileService*: two requests are a
conflict, a deadlock and a lost update; three e-mails let two be swapped, taken
or moved to a free one; version 3 is two updates of one row. `MaxVersion` bounds
`Receive`: a PATCH that comes later is not modelled. *InvalidationConsumer*:
partitions do not interact except through the assignment; the hazards need a
message before and one after the one that fails, and a worker before and one
after a rebalance. One retry has the two outcomes that five have, and batches
of one key make a bulk message of two keys fail between its batches.
*CacheManager*: keys do not interact; two requests meet in a singleflight call
while a third fills the cache from another server; a second version is what
makes an entry old. *Breaker*: two requests at a time, one after another for
ever, reach every count; with thresholds of two each is reached by one answer
and by two, and an answer of an older generation can come in each state. A
closed generation ends when `MaxCount` (3) requests were counted, if not
before; the real one ends with its interval. The investor has one version: the
breaker does not look at values. *Coherence*: one fault at any place (a message
given up, a failed call of the reconciler, its death, a failover), one change
that every one of them can race with, and a second key on a second master, for
the goroutines to overwrite each other. There each SCAN ends at once; in `sampling` the
first master has more keys than a sample, so that its goroutine goes back to the test
of `allKeys`, which the other one may have made longer or shorter meanwhile, and scans
on. Nobody changes anything there, for `Expire` is enough to vary what a SCAN finds. In `blind_spot` the key that stays comes
first in the scan.

Deadlock is checked in every run. `Quiescent` in `Outbox` and
`InvalidationConsumer` is the system at rest, polling, once the bounds are used
up; it requires that everything is published or fetched.

### Fairness

- `outbox`: weak fairness of each relay's fetch, publish and commit steps. The ticker
  in `Relay.Run` starts cycles for ever and `runCycle` has no wait of its own. No
  fairness for clients; faults end with `MaxFaults`.
- `profile_service`: weak fairness of each handler; strong fairness of taking the
  row and of getting past the index, since PostgreSQL grants locks in the order of
  their queue. The deadlock detector is part of the handler's steps. Not of
  clients, and not of failures. That PostgreSQL answers or fails in the end is assumed
  here too: `UpdateProfile` sets no deadline.
- `consumer`: weak fairness of each worker's loop as a whole, not of its
  outcomes: Redis and the dead-letter topic may fail every time.
- `breaker`: weak fairness of each handler as a whole, and of the end of
  the open state's timeout. Redis and PostgreSQL may fail every time, but answer or
  fail in the end: of Redis the client's timeouts see to that, of PostgreSQL it is
  an assumption about the environment, for `GetByID` has only the request's context. `Recovers` also needs clients that keep asking for
  cached profiles (strong fairness of `AskCached`): gobreaker leaves half-open
  only by the answers to requests.
- `coherence`, `blind_spot`: an event that is owed is announced once
  (`CommittedIsPublished`), the messages of each partition are finished
  (`EveryMessageEnds`), a loaded profile is stored or not (`EveryRequestEnds`), the
  reconciler goes on (its ticker, and timeouts of its calls). `coherence` has
  `ExpirySpec`: entries expire, for `luaVersionedSet` gives each a TTL. `blind_spot` has
  not, to see what the reconciler does without it.

## What is proved

`OutboxProofs` proves, for any sets of investors, partitions and relays and any
bounds (assumption `OutboxAssumption`: `PartitionOf` maps investors to
partitions, the bounds are natural numbers):

- `Invariance`: `Spec => []IInv`;
- `TypeCorrect`, `OneEventPerVersion`, `NothingLost`, `RelaysDisjoint`: the
  invariants of the run `outbox`, from `IInv`;
- `CopiesBounded` (`DuplicatesNeedFaults`), from `CopiesInv`: each copy of an event in the
  log but one was paid for with a fault, counting the writes that are still to come
  (`CopiesPaid`): late requests, and one for a row that is neither marked nor counted
  as sent by any relay. Locked rows are disjoint, so a lost cycle brings back only
  writes of its own, and its own fault pays for them;
- `Refinement`: `Spec => ImplementsNotification`.

`IInv` adds two facts to the properties, without which they are not inductive.
`RowLock`: the transaction that holds an investor's row is alone and its
version is the committed one plus one; so COMMIT cannot produce a version that
an event has already. `RowsInFlight`: relays and late requests carry only
committed rows, and what a relay counts as sent is in Kafka; so marking is
harmless whenever it happens. Each action has a lemma that it preserves `IInv`;
steps of profile-service share `WriteFrame` (committed rows do not change, so what
relays and Kafka know stays true), steps of relays and broker share `RelayFrame`.
For the refinement, COMMIT of `UpdateProfile` is `Change`, a write to the log is
`Announce`, COMMIT of the cycle is `Settle` or nothing, and the rest is invisible.

`CacheManagerProofs` proves, for any investors, requests, servers and bounds
(assumption `CacheManagerAssumption`: every request has its server, the bounds
are natural numbers), everything that the run `cache` checks:

- `TypeCorrect`, which needs `StoresVersions`: what is about to be stored was loaded,
  so that an unanswered set carries a version;
- `OnlyCommitted` (`NeverAhead`) and `DirectReadsFresh`, from `CommittedInv`: a handler at
  rest holds nothing (`IdleHoldsNothing`), so no answer is left when its next
  request asks for another investor, and no request began at a version that is
  not committed (`FloorsAreCommitted`), so what a bypass reads is no older;
- `OwnLoadsFresh` (`OwnLoadsAreFresh`), from the same: a miss that loads for itself stores and
  answers with nothing older. So only requests that join an older load can get
  what `stale_follower` shows;
- `EntriesNeverGoBack` (`NoRegress`): the steps that write the cache are DEL, expiry
  and the script, in a request or late, and the script only goes up;
- `LoadsAreShared` (`OneLoadPerKey`), from `FlightInv`: the table of calls is the set of
  loads under way, no two of which are for one investor on one server, and nobody
  waits where it has none. `FlightStays` covers the steps that neither start nor
  end a load;
- `Refinement`: `Spec => ImplementsCacheAside`. A load is `Load`; the script, in a
  request or late, is `Store`; a set that fails and a crash are `Forget`; DEL and
  expiry are `Drop`; the rest is invisible. A request that stores may leave the
  same version with another one (`OneStoreLess`), hence `Store` of `CacheAside` may
  keep what it stored.

`ProfileServiceProofs` proves, for any investors, e-mails, requests and patches
(assumption `ProfileServiceAssumption`: the e-mails at first are distinct, the
patches are made of the classes above, investors' ids are none of the special
ones, finitely many requests at a time), the invariant `PInv` and from it:

- `EmailsStayUnique` (`UniqueEmails`), from `IndexIsUnique`: an e-mail in the index is
  nobody else's, committed or not. `IndexStep` is where this is decided: the request
  has waited for all who take or give up the e-mail;
- `NoLostUpdate` (`AnswersAreKept`), from `RowLocks`: a transaction that has written a
  row is alone with it, so that what it wrote is still the committed row with the
  patch applied;
- `ConflictsNamed` (`ConflictsAreReal`), from the same: the e-mail that is taken is the
  one in the patch;
- `TypeCorrect`, from `TInv`: what a row stores went through `ValidatePatch` (`Accepted`), and
  the versions and the requests that may still raise them stay within the bound
  (`VersionsLeft`);
- `Refinement`: `Spec => ImplementsNotification`. COMMIT is `Change`, the rest invisible.

Each step that commits nothing is a `Quiet` one (its request goes to a new label,
the others do not notice), which `RequestStep` shows once to keep `PInv`.

`ConsumerProofs` proves, for any workers, partitions, messages, retries and faults
(assumption `ConsumerAssumption`: bounds are natural numbers, an update or delete
names an investor):

- `TypeCorrect`, which needs `InHand`: what a worker processes is a message of the log;
- `AtLeastOnce` (`CommittedIsHandledOrAbandoned`), from `SafeInv`. A message is *settled* if all
  its keys were deleted, it is in the dead-letter topic, or writing it there failed.
  Everything below the committed offset is settled (`OffsetSettled`), what lies before
  a message in hand is (`BeforeSettled`), whoever owns the partition by now, and a
  worker at commit has settled its own (`CommitSettled`). So a commit by a worker that
  lost the partition is harmless, and a rebalance, which reads on from committed
  offsets, is too (`ReadSettled`);
- `Refinement`: `Spec => ImplementsInvalidation`. A message produced is `Write`, a DEL, in full
  or in part, is `Delete`, a dead-letter write, failed or not, is `GiveUp`, a commit
  is `Finish`, and rebalances, crashes, retries and fetches are invisible. That a
  commit passes nothing pending is `SafeInv` (`CommitFinishes`).

`BreakerProofs` proves, for any servers, requests and thresholds (assumptions
`CacheManagerAssumption` and `BreakerAssumption`: thresholds are positive, and there are
finitely many requests at a time):

- `CountsAgree` (`CountsAddUp`): each step moves one request between lookups and counts,
  or starts a generation without any (`ServerStep`);
- `ProbesStayOut` (`ProbesAreOut`): a half-open breaker that has not decided has counted no
  failure and fewer than `MaxRequests` successes, so if it is full, somebody is out;
- `MissesDoNotOpen` (`OpensOnFailuresOnly`);
- `GuardedTypes` (`BTypeOK`), with the limit of each state's counts (`Limit`);
- `GuardIsInvisible`: `BSpec => ImplementsReadPath`, so that the theorems of
  `CacheManagerProofs` hold with the breaker in place;
- `GuardedCacheAside`: this composed with them, `BSpec => ImplementsCacheAside /\ NoRegress`.
  What `Coherence` assumes of the read side is thus proved of it with its breaker.

`CoherenceProofs` proves, for any investors, partitions, masters and faults (assumptions
`CoherenceAssumption` and `ReconcilerAssumption`), the invariant `Inv` and from it:

- `OnlyThreeRaces` (`OnlyRacesUncover`), from `ToldOrCovered`: whoever changed since his
  key was last deleted has another deletion coming. It holds because a change owes
  an event that no copy in the log can be of (`EventsCommitted`), and the debt is
  only traded for a message about the same investor (`AnnounceStep`);
- `EvictionsAreOfStale` (`EvictsOnlyStale`), from `InHand`: between the comparison and the
  deletion no goroutine touches the key in hand, and versions only grow;
- `CoherentButForRaces`: `Spec /\ NoRaces => []CurrentOrCovered`. If none of the three races
  ever happens, every entry is current or will be deleted. This is the promise of
  the repository's design, with the exact conditions under which it is kept;
- `EntriesAreCommitted`: no entry, of a master or of its replica, is newer than the
  row, whatever fails over;
- `SamplingAdvances` (`SampleAdvances`): each step of a goroutine makes `Left` smaller, the number of
  steps it has at most to go, whatever the others do to `allKeys`; what it needs is that
  a cursor other than 0 lies inside the bucket (`CursorsInside`). So none makes more than
  3 * Len(Buckets[m]) + 3 steps, and `SampleEnds` needs no more than that they are made;
- `OneMasterSamplesKeys`: with a single Redis master `allKeys` has one writer, so that nothing
  is overwritten; the slice without a lock harms clusters only;
- `TypeCorrect`, from `TInv`: what a goroutine has scanned is a slice of its bucket, and
  the read and write of `append` stay within `allKeys`.

`CachedOf`, what a scan returns, is a recursive function over the scanned keys. The
library's induction theorems cannot be instantiated, so `CoherenceProofs` has its own
(`Induct`), from the well-foundedness of < on the natural numbers.

Only model-checked: the liveness properties (`CommittedIsPublished`, `EveryPatchEnds`,
`EveryMessageEnds`, `EveryRequestEnds`, `Recovers`, `ChangeIsTold`, `Converges`, `SampleEnds`), for neither
ENABLED nor fairness is in the prover's reach. What the five violated runs show is
shown by their traces.

## What the composition shows

An entry is *uncovered* when it is stale and nothing is under way that will
delete it (a message that was handled may be handled once more, but need not be). `OnlyRacesUncover` says that it becomes so in three ways only: a profile
read before the last announcement was handled is stored after that (the race of
`fill_race`), a message is given up (`consumer_lost`, or a message in the dead-letter
topic), or a Redis master loses a DEL that it had acknowledged. `Converges`: under the
TTL all three heal. Without them no entry is ever uncovered (`CoherentButForRaces`). `ChangeIsTold`: without them, DEL follows every change.
`EvictsOnlyStale`: the reconciler reads an entry and a row at different times, but
versions only grow, so what it compared is still older than the row when it deletes the
key. `Evict` deletes whatever the key holds by then: an entry that a fill put in its place
can be current, and costs one load.

## Findings

`README.md` and other paths here are those of the repository, under `src/`.

1. `consumer_lost`: "offset NOT committed" (`internal/kafka/consumer.go:155`) does not
   hold; the next commit of the partition passes the message.
2. `fill_race`: the versioned set does not protect a fill from the invalidation
   that overtakes it (`README.md:90-92`), for DEL leaves nothing to compare with.
3. `stale_follower`: a read after the invalidation does not always load fresh
   data (`README.md:83-84`), for it can join an older load.
4. `blind_spot`: the reconciler is no insurance against lost events
   (`README.md:100-101`) for keys beyond the first `RECONCILE_SAMPLE_SIZE` of each
   scan (`internal/reconciler/reconciler.go:89`): every cycle starts at cursor 0.
5. `portfolio_nan`: `ValidatePatch` says that the portfolio value "must be a decimal
   number" (`internal/profile/patch.go:126`) and lets NaN through (line 129), which
   PostgreSQL stores.

Seen while reading, without a run:

- `README.md:88-89` has changes notified without duplication; the relay announces at
  least once. Harmless to this consumer; `DuplicatesNeedFaults` bounds the copies.
- `README.md:78-79` calls the event `profile_updated`, the outbox row does, the Kafka
  payload says `update` (`internal/outbox/event.go:40`).
- `README.md:70-71` says that a miss is cached asynchronously; the code caches it
  before it answers.
- `metrics.RecordReconciliation` is empty, so the reconciler's results are not
  collected.
- The answer to a PATCH leaves `qualified_investor` and `investment_horizon` at their
  zero values, for UPDATE does not return them.
- A name or e-mail is validated without the white space around it and stored with
  it; its length is checked in bytes, the column's is in characters.
- A negative `RECONCILE_SAMPLE_SIZE` or a `RECONCILE_INTERVAL` of 0 panics.

## Plan

The models planned are written and the safety properties that the runs check are
proved. What may be added:

1. A theorem that no run states yet: the outbox announces each investor's versions in
   order while no transactions race, one relay runs and nothing fails.
2. The unnumbered observations under *Findings* as runs, where they concern state.

## Not modelled

Metrics, dashboards and deployment scripts (nothing depends on them);
configuration (read once, its values are CONSTANTS); the health checks, which
answer a constant; resharding of the Redis cluster and a master cut off from its
majority that still answers; strings character by character; investors that do
not exist on the read path, whose requests end with an error.
