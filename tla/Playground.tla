----------------------------- MODULE Playground -----------------------------
(***************************************************************************)
(* The playground's engine (cmd/playground) beside the fraud service it    *)
(* mirrors, both fed the calls of ONE subscriber, once each and in order;  *)
(* every call the service makes is answered.  (FraudService is about what  *)
(* happens otherwise, and has no clock.)                                   *)
(*                                                                         *)
(* The engine keeps maps for ever and measures its cooldown by event time; *)
(* the service keeps Redis keys with a time to live and gets to a call     *)
(* some time after it started, its partition's lag.  Times are in whole    *)
(* seconds, costs in hundredths.                                           *)
(***************************************************************************)
EXTENDS DetectionRules, TariffCatalog

CONSTANTS
  Callees,       \* the numbers called
  Cells,         \* cells of geo.Catalog
  UnknownCell,   \* a cell the catalog does not hold
  Minutes,       \* call durations
  Gaps,          \* times between the starts of two calls
  Lags,          \* times from the start of a call to its processing
  Cooldown,      \* ALERT_COOLDOWN_SEC, and the engine's cooldownMs
  LastLocTTL,    \* lastLocTTL
  MaxCalls,      \* bound on the calls scored in one run
  NoLocation

\* The service need not be on time: a lag of up to one window is within the times
\* to live.  24 hours are enough for the last location: at MaxSpeed no two cells
\* are further apart (half the Earth's circumference is 20015 km, 24 hours at 1000
\* km/h are 24000) than that less the lag.
ASSUME TTLAssumption ==
  /\ UnknownCell \notin Cells
  /\ {Cooldown, LastLocTTL} \subseteq Nat \ {0}
  /\ \A lag \in Lags :
       lag \in Nat /\ \A ttl \in {VelocityWindow, SpendWindow, LastLocTTL} : lag <= ttl
  /\ \A a, b \in Cells : Distance[<<a, b>>] \in Nat
  /\ \A a, b \in Cells, lag \in Lags :
       Distance[<<a, b>>] <= MaxSpeed * (LastLocTTL - lag)

\* What is called, from where, for how long and when.
ASSUME CallsAssumption ==
  /\ Callees \subseteq Numbers
  /\ Minutes \cup Gaps \subseteq Nat
  /\ MaxCalls \in Nat
  /\ NoLocation \notin [cell : Cells, at : Nat]

VARIABLES
  velWin,        \* engine: record_id -> event time
  spendWin,      \* engine: record_id -> event time and cost
  lastLoc,       \* engine: cell and time, or NoLocation
  alerted,       \* engine: rule -> time of its last alert
  redis,         \* service: the subscriber's keys
  log            \* history: the calls, with the alerts both raised

engineVars == <<velWin, spendWin, lastLoc, alerted>>
playVars == <<engineVars, redis, log>>

EmptyMap == [id \in {} |-> 0]

\* m[key] = value, of a map of the engine.
Put(m, key, value) ==
  [k \in DOMAIN m \cup {key} |-> IF k = key THEN value ELSE m[k]]

\* A key is gone once `until` is reached.
Key(value, until) == [value |-> value, until |-> until]
EmptyRedis == [velocity |-> Key({}, 0), spend |-> Key({}, 0),
               lastloc |-> Key(NoLocation, 0), alerted |-> [r \in Rules |-> 0]]

PlayInit ==
  /\ velWin = EmptyMap
  /\ spendWin = EmptyMap
  /\ lastLoc = NoLocation
  /\ alerted = EmptyMap
  /\ redis = EmptyRedis
  /\ log = <<>>

-----------------------------------------------------------------------------
\* The tariff is looked up once per call, by either side.
Cost(call) == call.minutes * call.tariff.rate
Premium(call) == call.tariff.premium
Located(call) == call.cell \in Cells
Location(call) == [cell |-> call.cell, at |-> call.at]

TooFast(last, call) ==
  /\ Located(call)
  /\ last # NoLocation
  /\ TravelTriggered(Distance[<<last.cell, call.cell>>], Elapsed(call.at, last.at))

-----------------------------------------------------------------------------
(***************************************************************************)
(* The engine: score, with the operators it calls.                         *)
(***************************************************************************)

\* Deviation: an entry exactly a window old stays.
VelocityWindowKeepsEdge(id, call) ==
  LET w == Put(velWin, id, call.at)
  IN  Restrict(w, {i \in DOMAIN w : w[i] >= call.at - VelocityWindow})

\* velocityCount: the window with this call in it.
VelocityWindowWith(id, call) ==
  LET w == Put(velWin, id, call.at)
  IN  Restrict(w, {i \in DOMAIN w : w[i] > call.at - VelocityWindow})

\* Deviation: every call is summed.
SpendWindowWithAny(id, call) ==
  LET w == Put(spendWin, id, [at |-> call.at, cost |-> Cost(call)])
  IN  Restrict(w, {i \in DOMAIN w : w[i].at > call.at - SpendWindow})

\* spendInWindow: likewise, of premium calls only.
SpendWindowWith(id, call) ==
  LET w == Put(spendWin, id, [at |-> call.at, cost |-> Cost(call)])
  IN  IF Premium(call)
        THEN Restrict(w, {i \in DOMAIN w : w[i].at > call.at - SpendWindow})
        ELSE spendWin

EngineVerdicts(vel, spend, call) ==
  {r \in Rules :
     \/ r = "velocity" /\ VelocityTriggered(Cardinality(DOMAIN vel))
     \/ r = "impossible_travel" /\ TooFast(lastLoc, call)
     \/ r = "irsf" /\ Premium(call)
          /\ SpendTriggered(SumFunction([i \in DOMAIN spend |-> spend[i].cost]))}

\* Deviation: an alert exactly a cooldown old still suppresses.
EngineSuppressesEdge(r, call) ==
  r \in DOMAIN alerted /\ call.at - alerted[r] <= Cooldown

\* maybeEmit's early return.
EngineSuppresses(r, call) ==
  r \in DOMAIN alerted /\ call.at - alerted[r] < Cooldown

EngineAlerts(id, call) ==
  {r \in EngineVerdicts(VelocityWindowWith(id, call), SpendWindowWith(id, call), call) :
     ~EngineSuppresses(r, call)}

Score(id, call) ==
  /\ velWin' = VelocityWindowWith(id, call)
  /\ spendWin' = SpendWindowWith(id, call)
  /\ alerted' = [r \in EngineAlerts(id, call) \cup DOMAIN alerted |->
                   IF r \in EngineAlerts(id, call) THEN call.at ELSE alerted[r]]
  /\ lastLoc' = IF Located(call) THEN Location(call) ELSE lastLoc

-----------------------------------------------------------------------------
(***************************************************************************)
(* The service: processor.handle on a record it has not seen, with no call *)
(* failing.                                                                *)
(***************************************************************************)

\* When the replica has the call in hand.
Now(call) == call.at + call.lag

\* What a Redis command finds under a key.
Get(key, empty, call) == IF key.until > Now(call) THEN key.value ELSE empty

\* SET of the flag with the cooldown as its time to live.
FlagUntil(call) == Now(call) + Cooldown

\* Deviation: a window's key lives for one window.
WindowUntilOnce(call, window) == Now(call) + window

\* EXPIRE of a window's key: twice the window.
WindowUntil(call, window) == Now(call) + 2 * window

VelocityKey(id, call) ==
  Slide(Get(redis.velocity, {}, call), id, call.at, VelocityWindow)

SpendKey(id, call) ==
  Slide(Get(redis.spend, {}, call), [id |-> id, cost |-> Cost(call)],
        call.at, SpendWindow)

ServiceAlerts(id, call) ==
  {r \in Rules :
     /\ \/ r = "velocity" /\ VelocityTriggered(Cardinality(VelocityKey(id, call)))
        \/ r = "impossible_travel"
             /\ TooFast(Get(redis.lastloc, NoLocation, call), call)
        \/ r = "irsf" /\ Premium(call) /\ SpendTriggered(SpendIn(SpendKey(id, call)))
     /\ redis.alerted[r] <= Now(call)}

Handle(id, call) ==
  redis' =
    [velocity |-> Key(VelocityKey(id, call), WindowUntil(call, VelocityWindow)),
     spend |-> IF Premium(call)
                 THEN Key(SpendKey(id, call), WindowUntil(call, SpendWindow))
                 ELSE redis.spend,
     lastloc |-> IF Located(call)
                   THEN Key(Location(call), Now(call) + LastLocTTL)
                   ELSE redis.lastloc,
     alerted |-> [r \in Rules |->
                    IF r \in ServiceAlerts(id, call) THEN FlagUntil(call)
                                                     ELSE redis.alerted[r]]]

-----------------------------------------------------------------------------
LastStart == IF log = <<>> THEN 0 ELSE Last(log).at

NewCall(callee, cell, minutes, gap, lag) ==
  [tariff |-> Lookup(callee), cell |-> cell, minutes |-> minutes,
   at |-> LastStart + gap, lag |-> lag]

Outcome(call, scored, emitted) ==
  [tariff |-> call.tariff, cell |-> call.cell, minutes |-> call.minutes,
   at |-> call.at, lag |-> call.lag, scored |-> scored, emitted |-> emitted]

\* One more call of the subscriber; the partition keeps the order of its calls.
Call(callee, cell, minutes, gap, lag) ==
  LET id == Len(log) + 1
      call == NewCall(callee, cell, minutes, gap, lag)
  IN  /\ Len(log) < MaxCalls
      /\ log # <<>> => Now(Last(log)) <= Now(call)
      /\ Score(id, call)
      /\ Handle(id, call)
      /\ log' = Append(log, Outcome(call, EngineAlerts(id, call),
                                         ServiceAlerts(id, call)))

\* cdrReset: a fresh engine, compared with a service that knows nothing of the
\* subscriber either.  Only differences between times matter: they begin anew.
Reset ==
  /\ log # <<>>
  /\ velWin' = EmptyMap
  /\ spendWin' = EmptyMap
  /\ lastLoc' = NoLocation
  /\ alerted' = EmptyMap
  /\ redis' = EmptyRedis
  /\ log' = <<>>

-----------------------------------------------------------------------------
(***************************************************************************)
(* Properties.                                                             *)
(***************************************************************************)

Calls == DOMAIN log

Outcomes == [tariff : Tariffs, cell : Cells \cup {UnknownCell}, minutes : Minutes,
             at : Nat, lag : Lags, scored : SUBSET Rules, emitted : SUBSET Rules]

\* The windows hold calls of the log, none of them a window old when the last one
\* was counted, and an alert is never later than the last call.
PlayTypeOK ==
  /\ Len(log) <= MaxCalls
  /\ \A i \in DOMAIN velWin :
       i \in Calls /\ velWin[i] \in LastStart - VelocityWindow + 1 .. LastStart
  /\ \A i \in DOMAIN spendWin : i \in Calls /\ Premium(log[i])
  /\ lastLoc = NoLocation \/ \E i \in Calls : lastLoc = Location(log[i])
  /\ DOMAIN alerted \subseteq Rules
  /\ \A r \in DOMAIN alerted : alerted[r] \in 0 .. LastStart

\* The header of cmd/playground, "the same Evaluate logic that runs in the Kafka
\* pipeline", and score's comment, "exactly as processor.handle does": both raise
\* the same alerts for every call, although one forgets by time to live and the
\* other never, as long as the service's lag does not change (its cooldown runs by
\* the wall clock, the engine's by the calls).
SameAlerts ==
  (\A i, j \in Calls : log[i].lag = log[j].lag) =>
    \A i \in Calls : log[i].scored = log[i].emitted

\* The alerts the log itself calls for, without any state: the calls of the last
\* window by the time they started, the last located call before, and the alerts
\* published in the last cooldown.
Within(i, window) == {j \in 1 .. i : log[i].at - log[j].at < window}

PreviousLocation(i) ==
  LET before == {j \in 1 .. i - 1 : Located(log[j])}
  IN  IF before = {} THEN NoLocation ELSE Location(log[Max(before)])

PremiumWithin(i) == {j \in Within(i, SpendWindow) : Premium(log[j])}
PremiumSpend(i) == SumFunction([j \in PremiumWithin(i) |-> Cost(log[j])])

Triggered(i) ==
  {r \in Rules :
     \/ r = "velocity" /\ VelocityTriggered(Cardinality(Within(i, VelocityWindow)))
     \/ r = "impossible_travel" /\ TooFast(PreviousLocation(i), log[i])
     \/ r = "irsf" /\ Premium(log[i]) /\ SpendTriggered(PremiumSpend(i))}

Due(i) ==
  {r \in Triggered(i) :
     \A j \in 1 .. i - 1 :
       r \in log[j].emitted => Now(log[i]) - Now(log[j]) >= Cooldown}

\* window.go, spend.go and the cooldown together: on calls in order the service
\* misses no alert the log calls for and raises no other, although its lag varies, up
\* to a window: what the times to live of its keys forget is never needed again.
AlertsAreDue == \A i \in Calls : log[i].emitted = Due(i)

\* The engine's alerts, by the start of the calls.
DueByStart(i) ==
  {r \in Triggered(i) :
     \A j \in 1 .. i - 1 :
       r \in log[j].scored => log[i].at - log[j].at >= Cooldown}

\* Calls and what was made of them, in the order both of the calls and of their
\* processing.
LogOK ==
  /\ log \in Seq(Outcomes)
  /\ \A i \in Calls :
       /\ log[i].scored = DueByStart(i) /\ log[i].emitted = Due(i)
       /\ \A j \in 1 .. i : log[j].at <= log[i].at /\ Now(log[j]) <= Now(log[i])

\* Calls of the log as entries of the service's sorted sets.
CountEntries(s) == {[member |-> j, score |-> log[j].at] : j \in s}
SpendEntries(s) ==
  {[member |-> [id |-> j, cost |-> Cost(log[j])], score |-> log[j].at] : j \in s}

VelocityFromLog ==
  LET n == Len(log)
      recent == Within(n, VelocityWindow)
  IN  /\ velWin = [j \in recent |-> log[j].at]
      /\ redis.velocity =
           Key(CountEntries(recent),
               IF n = 0 THEN 0 ELSE WindowUntil(log[n], VelocityWindow))

\* p is the last premium call, or 0.
SpendSince(p) ==
  /\ p > 0 => Premium(log[p])
  /\ \A j \in p + 1 .. Len(log) : ~Premium(log[j])
  /\ spendWin =
       [j \in PremiumWithin(p) |-> [at |-> log[j].at, cost |-> Cost(log[j])]]
  /\ redis.spend = Key(SpendEntries(PremiumWithin(p)),
                       IF p = 0 THEN 0 ELSE WindowUntil(log[p], SpendWindow))

SpendFromLog == \E p \in 0 .. Len(log) : SpendSince(p)

\* l is the last call with a location, or 0.
LocationSince(l) ==
  /\ l > 0 => Located(log[l])
  /\ \A j \in l + 1 .. Len(log) : ~Located(log[j])
  /\ lastLoc = IF l = 0 THEN NoLocation ELSE Location(log[l])
  /\ redis.lastloc = Key(lastLoc, IF l = 0 THEN 0 ELSE Now(log[l]) + LastLocTTL)

LocationFromLog == \E l \in 0 .. Len(log) : LocationSince(l)

\* i is the last call the engine alerted for, or 0, ...
CooldownFromLog ==
  /\ DOMAIN alerted \subseteq Rules
  /\ \A r \in Rules : \E i \in 0 .. Len(log) :
       /\ \A j \in i + 1 .. Len(log) : r \notin log[j].scored
       /\ r \in DOMAIN alerted <=> i > 0
       /\ i > 0 => r \in log[i].scored /\ alerted[r] = log[i].at

\* ... or the service.
FlagFromLog ==
  \A r \in Rules : \E i \in 0 .. Len(log) :
    /\ \A j \in i + 1 .. Len(log) : r \notin log[j].emitted
    /\ i > 0 => r \in log[i].emitted
    /\ redis.alerted[r] = IF i = 0 THEN 0 ELSE FlagUntil(log[i])

\* score and processor.handle, however they keep what they know of a subscriber:
\* engine and service remember the same calls, those of the log their next verdict
\* can depend on, and until when the service's keys live.
MemoryFollowsLog ==
  /\ Len(log) <= MaxCalls
  /\ LogOK
  /\ VelocityFromLog /\ SpendFromLog /\ LocationFromLog
  /\ CooldownFromLog /\ FlagFromLog

\* MatchesLongest, of every number; the lookup reads no state.
LongestPrefix == log = <<>> => \A msisdn \in Numbers : MatchesLongest(msisdn)

=============================================================================
