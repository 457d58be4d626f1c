# TLA+ verification of the CDR fraud detector

The system is a pipeline: a generator writes call records (CDRs) to the Kafka
topic `cdr.raw`; the fraud service consumes them, runs three rules against state
kept in Redis and reference data asked of the subscriber service over gRPC, and
writes alerts to `cdr.fraud.alert`; the read-api stores the alerts in Postgres.
A record that keeps failing goes to `cdr.dlq`.

What is hard about it is not a rule but the consumption: offsets are committed by
hand, calls fail with or without effect, replicas crash and lose partitions in
the middle of a record, and what makes a repetition harmless is spread over four
kinds of Redis keys. Around it, services start together against a broker that
may not be there yet, and reference data is cached while its source comes and
goes. These specifications are about that.

## 1. Inventory

| Component | State | Operations | Hard behaviour |
|---|---|---|---|
| Fraud service, consume loop (`services/fraud/main.go`, `dlq.go`, `seen`/`markSeen` in `window.go`) | the group's committed offset (Kafka), the reader's position, the record in hand, the attempt, `seen:<record_id>` keys | FetchMessage, handle, retry with backoff, dead-letter, CommitMessages, shutdown | crash or rebalance between any two calls; two replicas on one partition; a commit that covers earlier offsets; a failed dead-letter write |
| Fraud service, rules and alerting (`main.go`, `window.go`, `spend.go`, `lastloc.go`) | `velocity:`, `spend:`, `lastloc:`, `alerted:` keys | checkVelocity, checkImpossibleTravel, checkIRSF, maybeEmit, emit | redelivery of a record whose calls took effect in part; keys that expire; order of emit, flag and location |
| Detection rules (`internal/rules`) | none | three Evaluate functions | thresholds and window boundaries |
| Reference cache (`services/fraud/cache.go`; `getCellGeo`, `getTariff` in `main.go`) | value and load time per key | get | load outside the lock, as long as a call takes; age counted from before the load |
| Subscriber service (`services/subscriber`) | none (static catalogs) | GetCell, GetTariff | absence, delay, a roll-out with another catalog |
| Read-api (`services/read-api/main.go`) | table `fraud_alerts`, the group's committed offset | consumeAlerts, storeAlert, recentAlerts | redelivered alerts; a store that never succeeds |
| Playground (`cmd/playground/main.go`) | in-memory copies of the Redis keys | score, configure, reset | must agree with the service it mirrors |
| Catalogs (`internal/tariff`, `internal/geo`) | none | Lookup, HaversineKm | overlapping prefixes |
| Generator (`services/generator/main.go`) | none | background calls, three injected scenarios | a lost write; time between the calls of a scenario; a scenario on top of whatever the subscriber called before |
| Load generator (`cmd/loadgen`) | none | records as fast as possible | none: a benchmark |
| Streams (`internal/stream`) | topics | EnsureTopics, NewWriter, NewReader | several services create topics at once; requests succeed in part; a broker that is still starting |
| Platform, generated code, web page, manifests | none | logging, metrics, configuration | settings that do not parse become 0 |

How they interact: the services share nothing but Kafka, Redis and one gRPC
interface. The writer keys records by caller, so one partition holds all records
of a subscriber, and everything the fraud service keeps is per subscriber or per
record: **one partition at a time can be modelled**, with every replica that may
ever work on it.

What makes each part correct:

* consume loop: a committed offset covers only records somebody settled; a
  redelivery is skipped only if the first delivery did everything; no record
  blocks the ones behind it;
* rules and alerting: an alert is backed by distinct calls whatever was retried
  or redelivered; no cooldown without an alert; an impossible trip from the stored
  location is reported before the location moves; an enrichment outage fails no
  record;
* read-api: an alert is stored before its offset is committed, and once;
* reference cache: what a lookup returns is no staler than the TTL; an outage costs
  no key that is cached;
* start-up: a service past EnsureTopics has its topics as it wants them, and every
  service gets past it in the end;
* playground: same verdicts as the service on a log delivered once and in order;
* generator: a scenario that got through without long pauses is flagged;
* catalogs: the longest prefix wins.

`PROJECT.json` lists the hazards behind these, each at its line.

## 2. Plan

In the order of importance; 1 to 12 are done.

1. `Delivery`: at-least-once delivery of one partition, the abstract promise.
2. `KafkaGroup`: one partition and its consumer group, which both consumers
   extend; `CdrConsumer`: the consume loop on one partition, any number of
   replicas. Implements `Delivery`. `MCConsumer`, `CdrConsumerProofs`.
3. `DetectionRules`: the rules and the Redis sorted set as operators.
4. `FraudService`: `CdrConsumer` with the step "checks" expanded to every call
   that handle makes. `MCFraud` goes with it.
5. `FraudServiceProofs`: `FraudService` implements `CdrConsumer`, hence
   `Delivery`; types; the cooldown flag; genuine velocity, spend and travel alerts; no
   missed trip.
6. `AlertSink`: the read-api. Implements `Delivery` with nothing set aside. `MCSink`,
   `AlertSinkProofs`.
7. `TariffCatalog`: the tariff lookup against "longest prefix".
8. `Playground`: the in-memory engine stepped along a log together with the
   service's decisions, which lag behind the calls; `Traffic`: the generator's calls
   put into both. `MCPlayground`.
9. `Topics`: EnsureTopics run by several services at once.
10. `Reference`: the subscriber service and the fraud service's cache of it.
11. `Deployment`: 9 and 10 together, a cache living and dying with a service that
    starts up. `MCDeployment`, `DeploymentProofs`.
12. `FoldProofs`: sums over sets, for the spend rule and the lookup; with it the spend
    rule in `FraudServiceProofs`, `TariffProofs`, `PlaygroundProofs` and `TrafficProofs`.
13. Open: the playground's `configure` (thresholds that change during a run); a
    composition of `FraudService` with `AlertSink` (section 6).

## 3. Modules and code

**`Delivery`** has no counterpart line by line: it is what `CommitMessages` after
`handle` is for. A record is processed only when applied (or not parseable); else
set aside; the committed offset covers only those, and may move back.

**`KafkaGroup`** is what `stream.NewReader` returns, as its two callers use it:
`HandOut` (FetchMessage), `CommitMessages`, `TakeOver` and `DropReader` (the group moves
the partition), `LeaveGroup` (reader.Close, or the end of the process). It is
external code modelled from its use: a reader starts at the committed offset and
hands out consecutive offsets; a replica that loses the partition is not
interrupted (no caller passes or checks a generation), its reader may hand out
what it has buffered, and its commit may still be accepted, moving the offset
back. This is the least favourable choice; nothing in `src/` rules it out.

**`CdrConsumer`**. One replica is `pc`, `inhand`, `attempt` and `cancelled`; one
step is one call that leaves the process.

| Code | Action |
|---|---|
| `reader.FetchMessage` (main.go:122) | `Fetch`; with the context done, `Stop` |
| `handle` (main.go:164) | `HandleUnparseable`, `HandleSeen`, `HandleNew`, `HandleError` |
| the three checks (main.go:179-187) | `ChecksDone`, `ChecksError` |
| `markSeen` (main.go:190) | `MarkSeen`, `MarkSeenError` |
| `runWithRetry` (dlq.go:24-45) | `Fail`, `Retry`, `BackoffCancelled`, `DeadLetter`, `DeadLetterError` |
| `CommitMessages` (main.go:139) | `Commit` |
| SIGTERM, crash, restart | `Cancel`, `Crash`, `Restart` |
| group coordinator, kafka-go reader | `Assign`, `DropBuffer` |
| TTL of `seen:` keys | `SeenExpire` |

`applied`, `processed` and `left` are histories: no guard reads them. Every failing
call may have taken effect or not. Liveness is stated here and checked of
`FraudService`, whose `OutageSpec` has the fairness.

**`DetectionRules`**. Whole seconds, integer costs, a table of distances. Scores
and evidence follow from the verdict and are left out. `Slide` is the MULTI/EXEC
of `slidingWindowCount` and of `premiumSpendInWindow`.

**`FraudService`** extends both. `rule` and `step` are the replica's place in
handle: `evaluate` (the pipeline or GET and the rule), `exists`, `emit`, `flag`
(maybeEmit), `advance` (setLastLocation). `SkipRule` covers a cell or tariff that
cannot be fetched: the rule returns nil. The loop's `ChecksDone` and `ChecksError`
are what `NextRule` and `AbortChecks` end in, which is why the refinement to
`CdrConsumer` needs no mapping. `silenced` is a history: the records whose travel alert
a cooldown held back. The keys of a caller are `velocity[u]`, `spend[u]`,
`lastloc[u]`, `<<rule, u>> \in alerted`; each may expire at any step, because TTLs
run by wall clock and nothing bounds how long a replica lags.

**`AlertSink`** (services/read-api). `Fetch` includes UnmarshalAlert; `StoreAlert`,
`StoreError`, `AfterStoreError` and `Retry` are the inner loop, `Insert` the statement with
ON CONFLICT DO NOTHING; `Commit`, `Stop` (return with the context done), `Crash`
(also: main returns, and does not wait for consumeAlerts), `Restart`. The table is
a set of rows (id, detected_at); `RecentAlerts` is the query of GET /alerts. An id is
the pair (record_id, rule): two offsets with one id are two publications of the
same alert, detected at different times. The refinement maps `applied` to the ids
stored and `aside` to the empty set.

**`TariffCatalog`** is `tariff.Catalog` and `Lookup`, with digits for strings and
hundredths for rates. Its constant `Numbers` is any set of sequences of digits.

**`Topics`**. The replicas of generator, fraud and read-api go through EnsureTopics:
`Request` is one pass of its loop with an answer (the broker decides topic by topic,
`made` being those it created), `CreateTopicsLost` one whose dial or answer fails,
possibly after topics were made; `TryAgain` waits a second or, after the last
round, returns the error and with it main. `ServiceStart` is the restart the
manifests ask for, `BrokerToggle` the broker's coming and going. `Created` is the
condition under which createTopics returns nil. It is modelled as stream.go:67-73
means it: the client's error tells of any topic that failed for a reason other
than "already exists". If the client reported only the existing one, stream.go:68
would turn a half failed request into success; that is the deviation
`CreatedMasked`, under which `ReadyHasTopics` fails.

**`Reference`**. A lookup of one fraud replica (its loop works on one record at a
time) is `Hit`, or `Miss`, then `Answer`, `NotFound` or `CallFails` of the call to the
subscriber service, then `Store`; the clock may move between any two, and the
service may stop and come back, with a later catalog if it was rolled out.
A value is the version of the catalog it was read from. `retired` and `loaded` are
histories.

| Code | Action |
|---|---|
| `refCache.get`, fresh entry (cache.go:33-37) | `Hit` |
| `time.Now()`, stale or no entry, `load` (main.go:268, cache.go:38-40) | `Miss` |
| `GetCell`, `GetTariff` (subscriber/main.go:25-36) | `Answer`, `NotFound` |
| `grpcTimeout`, no connection (main.go:270, 282) | `CallFails` |
| `c.m[key] = ...` (cache.go:46-49) | `Store` |

**`Deployment`** runs both: lookups happen once the fraud replica is past
EnsureTopics, and a stop of the replica is also the end of its cache.

**`Playground`**: `velWin`, `spendWin`, `lastLoc`, `alerted` are the maps of `engine`, `Score`
is score with its helpers; `redis` holds the subscriber's keys with the moment each
expires, and `Handle` is processor.handle with every call answered. `Call` gives one
call to both. The engine goes by the time a call starts; the service gets to it
some time later, `lag`, which may differ from call to call as long as their order
stays. `TTLAssumption` names what the times to live need: a lag of at most a
window, and cells no further apart than the last location's 24 hours less the
lag allow (at 1000 km/h they cover more than half the Earth's circumference; with
a lower speed limit it is false). `CallsAssumption` says that durations and gaps are
natural numbers and the numbers called are `Numbers`. A greater lag loses entries of a window whose
key has expired: that is the limit of what EXPIRE at twice the window gives.

**`Traffic`** extends it with the generator's select loop as one subscriber sees it:
`Background` (normalTick, and the page), `Inject` and `EmitScenario` (the three
injections, whose calls nothing comes between), `LoseScenarioCall` (emit's failed write).
A scenario's call starts when the write before it has returned, so there may be time
between them: at most `Pause`, which is an assumption, for nothing in the code bounds
it. `TrafficAssumption` states the settings all this rests on: no rule is off; a burst
(`BURST_SIZE`) is no smaller than the velocity threshold, and with its pauses shorter
than the velocity window (15 calls in 60 s leave 4 s for each); the premium calls
(`IRSF_CALLS`) cost the spend threshold even at their shortest (`IrsfMinutes`, 5 to 15)
and fit into the spend window; and `FarKm`, the generator's 2000 km, cannot be covered
in a pause. Other calls (`Minutes`) may be as short as one likes.

A definition under the comment *Deviation* is not used by any specification. It
is a mistake the code could plausibly hold in place of the definition that
follows it; each property was seen to fail with one of them put in.

## 4. Runs

Runs that pass:

| Run | Shows |
|---|---|
| `MCConsumer_safety` | two replicas, overlapping ownership, crashes, cancellation, failed and stale commits: `CommitCoversSettled`, `SeenIsApplied`, `ProcessedIsApplied`, the inductive `LoopInv`; together they implement `Delivery` |
| `MCFraud_counts` | one replica, two attempts, any call failing with or without effect, crashes, redeliveries, expiries: the velocity rule counts and the spend rule sums each call once and none a window older than the one alerted; no cooldown flag without an alert |
| `MCFraud_travel` | likewise, with an impossible trip in the log: a travel alert names a call that cannot go with another one; the stored location moves over an impossible trip only to a call that has its own alert or one held back by a cooldown |
| `MCFraud_outage` | one replica, two attempts; every call to Redis and Kafka may fail for records 0 and 1, none for record 2, commits for any, and the subscriber service may be absent for ever. Once disruptions stop, all three are settled (`NeverBlocked`), and record 2 is processed behind the others (`DegradesGracefully`) |
| `MCSink_delivery` | two read-api replicas: an alert is in the table before its offset is committed; the sink implements `Delivery`; a listed alert leaves GET /alerts only for newer ones, none of them a copy of a stored alert; if replicas are left alone and Postgres answers in the end, every alert gets in |
| `MCPlayground_live` | up to four calls: the service raises exactly the alerts that the log itself calls for, though it lags by 0 or 2 as it likes (up to a window) (`AlertsAreDue`), so no key expires too early; at a constant lag the playground raises the same (`SameAlerts`); a scenario whose calls all got through, each 0 or 1 after the one before, is flagged by then, or was within the cooldown (`ScenarioFlagged`); behind all of it, that engine and service remember the calls of the log their next verdict depends on, and no others (`MemoryFollowsLog`); the tariff found is the one with the longest prefix, for all 1555 numbers of up to four of the digits 0, 1, 2, 4, 8, 9 |
| `MCDeployment` | generator and fraud start against a broker that comes and goes, requests succeed in part or are lost: whoever is ready has its topics as it wants them, and both get ready again and again once the broker stays; the fraud replica's lookups return nothing staler than the TTL, and fail for no key loaded within it |

Runs that must find a violation, each of a sentence the repository states:

| Run | The sentence, and what the code does |
|---|---|
| `MCConsumer_dropped` | dlq.go:22-23, README.md:108-109: a failed dead-letter write leaves the offset uncommitted "for redelivery". main goes on with the next record, whose commit covers this one; it is redelivered only if the replica restarts or is rebalanced before that commit. |
| `MCConsumer_poison` | README.md:105-107: a record that can never be processed goes to `cdr.dlq`. One that does not parse is skipped with a log line and committed. |
| `MCFraud_cooldown` | main.go:292-293: at most one alert per rule and subscriber within the cooldown. If the SET of the flag fails for good after the emit, the next record alerts again. |
| `MCFraud_window` | window.go:11-12: distinct calls in the last window. A record delivered after later ones is counted together with them, however far they are ahead. |
| `MCFraud_race` | lastloc.go:13-15: get-then-set is race-free, one consumer owns a subscriber. After a rebalance two replicas do: the former owner SETs the location of an older record between the new owner's SET for one call and its GET for the next, which is then compared with the wrong one, and the impossible trip between the two is reported by nobody. No call fails, no lookup is skipped, nothing expires or crashes. With one replica the same run finds nothing. |

Bounds. A partition of three records is the least in which a record is followed
by one whose commit covers it, and in which one record is unparseable and another
repeats an id (`MCConsumer`), or a third call makes a burst (`MCFraud`). Two
replicas are the least with an overlap; a third adds only a second former owner.
`MaxAttempts` is 2 where retries matter and 1 in the two-replica runs, where a
redelivery plays the same part. In `MCFraud_counts` the last call is exactly a window
after another, for either rule. In `MCFraud_travel` there is time to go from the first
cell to the second and none to be back. `MCSink` has four records: one is no alert,
the last is a copy of the first, detected later, and the list holds one (`Limit`), so
that the second alert pushes the first out and its copy meets a full list without it.
`MCPlayground` bounds a run to four calls (`MaxCalls`): three make a burst, the fourth
comes before or after. Its gaps, 0 and 1 in a scenario and before it and 1 and 4
elsewhere, reach, alone or added up, every boundary: cooldown 2, velocity and spend
window 3, location 5, window keys 6. Calls last 0 minutes or 1, so that a premium call
may cost nothing; with `SomeDurationAndStart` the calls to other numbers, whose
duration nothing reads, last one minute, and the first call starts at 1; page and background dial a premium number, as a call that costs nothing
counts like any other. In `MCDeployment` two services share two of three topics, with two
rounds of the loop (`MaxTries`) so that one can fail half-way and the next finish;
two keys, one of which only the second catalog holds; a TTL of 2 on a clock that
stops at 4 (`MaxTime`), so that an entry can expire, be loaded again and expire
again. The clock's bound ends no behaviour: lookups and restarts go on. Nothing else is bounded:
crashes, restarts, rebalances and expiries occur any number of times.

Reductions. `SYMMETRY` over replicas in `MCConsumer_safety`, whose formulas name
none and none of whose properties is temporal.
The views in `MCFraud` drop variables that no guard and no property of their runs reads:
`WithoutHistory` the loop's histories and `dlq`; `OfCounts` also the location, which no
rule compares while `MaxSpeed` is 0, and `silenced`; `OfProgress`, for liveness, the
alerts and the histories but `processed`, and keeps of `dlq` and `left` that a record is settled.
`ACTION_CONSTRAINT NoShutdown` leaves SIGTERM, which `MCConsumer_safety` covers, out
of the other consumer runs but `MCFraud_outage`; it also keeps the violation of `MCConsumer_dropped` to failed writes.
`InsideCooldown` and `OnlyRebalance` narrow a violation to the case its sentence
speaks of; the latter forbids every failing call, the lookups' included.
Deadlock is not checked where the replicas wait at the end of the log; it is in `MCPlayground` and `MCDeployment`.

Fairness. A replica that is up takes its next step: every call of the loop has a
timeout and returns with a result or an error. A replica that is down is
restarted, and an unowned partition is assigned. That includes one success: a
replica at FetchMessage with a record before it gets that record in the end (Kafka
hands out what it has). Beyond that no call is assumed to succeed, no commit either, and
no rebalance to stop; `NeverBlocked`, `DegradesGracefully` and `AllStored` speak of behaviours
in which crashes, SIGTERMs and rebalances end (for `AllStored` also failing stores).
`OutageSpec` is the service with failing calls confined to the records in `Failing`; for
those every call may fail for ever.
In `Topics`, EnsureTopics' loop goes on and a service that is down is restarted
(`TopicsFairness`); that a broker which is up for good does not fail every
request is a premise of `EveryoneReady`, not of the specification. Crashes need not end there.

## 5. Proofs

All for any set of replicas, any log, any ids, any number of attempts, any
thresholds, windows and distances, from the named assumptions of the modules
(`ConsumersAssumption`, `PartitionAssumption`, `LogAssumption`, `AttemptsAssumption`,
`RulesAssumption`, `AlertsAssumption`; `CallAssumption`: event times, costs and
distances are natural numbers, and a cell is at distance 0 from itself; `TopicsAssumption`,
`ReferenceAssumption`, `DeploymentAssumption`; `NumbersAssumption`, `TTLAssumption`,
`CallsAssumption` and `TrafficAssumption` of the playground, section 3).

`CdrConsumerProofs`

* `LoopInvariance`: `Spec => [](TypeOK /\ LoopInv)`. `CommitCoversSettled` is not
  inductive: a commit keeps it only if all offsets before the record in hand are
  settled (`SettledBehindHand`), which holds at `Fetch` only if all offsets behind
  the reader's position are (`SettledBehindPosition`), apart from the one in hand;
  that holds after `Release` only if the record was settled on the way
  (`SettledBeforeCommit`), and after `Assign` because the committed offset covers
  settled records. `SeenIsApplied` needs `AppliedBeforeMark`. The lemmas
  `KeepRecord` and `ReleaseRecord` treat the two kinds of actions, those that keep
  the record in hand and those that end its round; `OutcomesGrow` says that
  nothing is ever unsettled.
* `TypeCorrect`, `CommitSafety`, `SeenSafety`, `ProcessedSafety`: types and the safety
  properties.
* `Refinement`: `Spec => Abstract!Spec`; `DeliveryStep` maps each action to a step of
  `Delivery` or a stutter, under the invariant.

`FraudServiceProofs`

* `ImplementsConsumer`: `FraudSpec => Spec`; so the loop's theorems hold of the whole
  service (`FraudCommitSafety`, `FraudRefinement`).
* `FraudTypeCorrect`: types of loop and keys; in particular the windows of a caller hold
  only calls of that caller, at their own start time.
* `FlagSafety`: `FlagMeansAlerted`, with `EmittedBeforeFlag` and `AtRest`.
* `VelocitySafety`, `TravelSafety`: `VelocityGenuine` and `TravelGenuine` in every behaviour,
  failures, crashes, rebalances and all. `VelocityGenuine` says that each call counts
  once and none that is a window or more older than the one alerted; calls that are
  newer, however much, may count (run `MCFraud_window`). Between the verdict and the alert the
  windows may expire or move on, so the invariant, `BackedInv`, speaks of the log:
  a replica whose rule triggered has a record in hand that the log backs
  (`TriggeredIsBacked`). What establishes it is `WindowCount`, that a window which slid
  to a record holds no more entries than the log has calls to count, by an
  injection from one into the other (`RulesTypeOK`: an entry is a call of this
  caller under its own start time), and `TripIsBacked`, by which a triggering last
  location belongs to another call.
* `SpendSafety`: `SpendGenuine`, which claims as much of the sum, and as little of newer
  calls, along the same argument with sums for counts. `WindowSpend`
  maps each entry of a window to its call; members carry id and cost, so no two
  entries are one call, and `SumInjection` bounds the sum of the entries by that of the
  calls. Costs must not be negative: with a refund in the window the sum of some
  calls would bound nothing.
* `TripSafety`: `NoTripMissed` if there is one replica and the rule is on. The
  invariant is `AdvanceIsCovered`: a replica about to set the location has reported the
  trip it is about to hide. It speaks of the stored location. That this is the
  latest call's is not claimed: a redelivered older call moves it back, and after
  it has expired, or where a lookup failed, nothing is compared. With two replicas it
  is false, as one may SET between the other's GET and SET; what such a race can
  miss is the run `MCFraud_race`.

`AlertSinkProofs`

* `SinkTypeCorrect`: `SinkTypeOK`.
* `SinkInvariance`: `SinkSpec => [](SinkTypeOK /\ SinkInv)`, along the argument of
  `LoopInvariance`; the new parts are `HandledIsStored`, kept because no step removes
  an id from the table, and the types' `PrimaryKey`: an alert is in the table once.
* `StoreSafety`: `StoredBeforeCommit`, from `CommitCoversHandled` and `HandledIsStored`.
* `SinkRefinement`: `SinkSpec => Abstract!Spec`.
* `ListStability`: `ListedStays`. The table only grows, so a listed row that is no
  longer listed is still in it, behind at least `Limit` newer rows, each of which was
  in it or is of an alert it did not know.

`DeploymentProofs`, for any replicas of the services, number of rounds, keys, catalogs,
TTL and length of the clock

* `DeploymentRunsBoth`: a step of the deployment is a step, or none, of each of its
  parts, so what is proved of a part holds of the whole.
* `DeployedTopics`: `ReadyHasTopics`. On its own it is not inductive: that a topic which
  exists has the partitions another service wants follows from `MadeAsWanted`, which
  holds because all mains agree on the partitions of each topic.
* `DeployedReference`, `DeployedServedIsRecent`, `DeployedFailsOnlyUncached`: the cache. Behind
  them is that an entry's time is no later than the moment its value was read
  (`CacheIsLive`), which holds because `now` is taken before the load (`LookupIsLive`) and
  a catalog that is served was never replaced (`NotYetRetired`).
* `DeploymentTypeCorrect`.

`FoldProofs`. `SumFunction`, `SumFunctionOnSet` and the fold behind them are recursive by
`CHOOSE`, and induction theorems with an operator parameter are out of reach. The
induction is done over sets of numbers instead: `FromZeroOn` (a set that holds 0 and
every successor holds `Nat`) is instantiated with the set of sizes for which the claim
holds. `IterationExists` builds the function a fold is; `SumFacts`: the sum of the empty set is
0, and any element can be split off; the rest follows from it by the same induction:
`SumInjection` (a sum is at most that of a set it goes into one to one), `SumRenamed`,
`SumAtLeast` (n times the smallest).

`TariffProofs`: `Lookup` is a fold over the catalog's positions. `PassUnfolds` is its
equation, `BestIsATariff` the induction.

* `LookupType`, `LongestMatch`: the lookup ends in a tariff of the catalog or the fallback,
  and in the one with the longest matching prefix, for every number of any length.

`PlaygroundProofs`, `TrafficProofs`, for any cells and distances, windows, thresholds, costs, times,
lags within the times to live, and any length of the run

* `MemorySafety`: `MemoryFollowsLog`, the inductive invariant. `AlertsAreDue` and `SameAlerts` say
  nothing of what is remembered, and `PlayTypeOK` not enough, so neither is inductive:
  the next verdict depends on every entry of a window and on when its key expires.
  The invariant rebuilds both from the log. The velocity window is that of the last
  call (`VelocityFromLog`), the spend window that of the last premium call
  (`SpendSince`), the location that of the last located one (`LocationSince`), the cooldowns
  run from the last alert of each side (`CooldownFromLog`, `FlagFromLog`).
  One call more: `ReadWindow` is the core. Either the key is alive and the service slides what
  it holds, or it has expired, twice a window after its last call was processed, and
  then, the lag being within a window, all it held is too old to be counted
  (`ExpiredIsOld`). Likewise a location that expired is too far ago to be too fast from
  (`ForgottenIsFarAgo`), which is where the speed limit and the 24 hours meet.
* `AlertsSafety`: `AlertsAreDue`, part of the invariant.
* `MirrorSafety`: `SameAlerts`. Each side's alerts are the triggered rules less those it
  raised within its cooldown; by induction along the log these agree if the lag is
  constant (`AlertsSame`).
* `ScenarioSafety`: `ScenarioFlagged`. Two more invariants: what got through of the scenario under
  way ends the log (`UnderWay`), and the last call of one that got through triggered
  its rule (`Finished`). That it did is `ScenarioTriggers`: a burst is in the velocity window,
  the premium calls in the spend window, pauses included, and the call before the last
  of a trip is from home no more than a pause ago, whatever else the log holds. From there, a rule that
  triggered was raised by this call or less than a cooldown before.
* `TrafficTypeSafety`, `TariffSafety`: `TrafficTypeOK`, `LongestPrefix`.

Only model-checked: liveness (`NeverBlocked`, `DegradesGracefully`, `AllStored`,
`EveryoneReady`), which the prover does not do under fairness. Every safety property of a
passing run is a theorem.

## 6. Not modelled

The playground's `configure` (its sliders): it replaces thresholds in the middle of a
run, which the service it mirrors cannot do, so there is nothing to compare with.
The load generator is a benchmark. Its workers may write one caller's records out of
event-time order, which `Traffic` does not do; `FraudService`'s log, in any order, does.
Coordinates and floating point are outside TLC. Settings that do not parse (0
turns a rule off, or makes a cooldown permanent) are mistakes of a deployment;
`PROJECT.json` lists them as hazards. HTTP, logging, metrics, the web page,
generated code and manifests change no state the properties are about.
The partitioner is not modelled; that records of one caller share a partition is
an assumption of the model's scope.

`FraudService` and `AlertSink` are not composed. Each is correct for every log it may
read; what the first appends is a log in the sense of the second (`AlertId` names
equal alerts, published twice), and nothing flows back, so their product would
only repeat the runs of both in a state space TLC cannot finish. For the same
reason `FraudService` takes a lookup's outcome as a choice instead of extending
`Reference`: it allows every outcome `Reference` has.

Records without a start time (a negative score, which spend.go:24's lower bound
never trims) are excluded by `CallAssumption`; no producer of this repository writes
one.
