---------------------------- MODULE TrafficProofs ----------------------------
(***************************************************************************)
(* Proofs about Traffic: engine and service raise the alerts the calls     *)
(* call for, whoever makes them, and a scenario that got through is        *)
(* flagged.                                                                *)
(***************************************************************************)
EXTENDS Traffic, PlaygroundProofs

-----------------------------------------------------------------------------
(***************************************************************************)
(* Playground's invariant holds of all traffic.                            *)
(***************************************************************************)

\* The call a scenario is about to make.
ScenarioCall(gap, lag, cell, minutes) ==
  Call(IF injecting.rule = "irsf" THEN PremiumNumber ELSE DomesticNumber,
       cell, minutes, gap, lag)

LEMMA ScenarioStep ==
  ASSUME NEW gap \in Gaps \cup (0 .. Pause), NEW lag \in Lags, EmitScenario(gap, lag)
  PROVE  /\ gap \in Nat
         /\ \E cell \in Cells, minutes \in Minutes :
              /\ cell \in IF injecting.rule = "impossible_travel" /\ injecting.left = 1
                            THEN FarCell(Home) ELSE {Home}
              /\ injecting.rule = "irsf" => minutes \in IrsfMinutes
              /\ ScenarioCall(gap, lag, cell, minutes)
<1>1. FarCell(Home) \subseteq Cells /\ Home \in Cells
  BY TrafficAssumption DEF FarCell
<1>2. gap \in Nat
  BY CallsAssumption, TrafficAssumption
<1>3. IrsfMinutes \subseteq Minutes
  BY TrafficAssumption
<1> QED BY <1>1, <1>2, <1>3 DEF EmitScenario, ScenarioCall

\* What is not a call leaves the log's alerts as they are.
LEMMA SameWindows ==
  ASSUME UNCHANGED log
  PROVE  \A i : /\ \A window : Within(i, window)' = Within(i, window)
                /\ PremiumWithin(i)' = PremiumWithin(i)
                /\ Triggered(i)' = Triggered(i)
<1>1. \A i : /\ \A window : Within(i, window)' = Within(i, window)
             /\ PremiumWithin(i)' = PremiumWithin(i)
             /\ PremiumSpend(i)' = PremiumSpend(i)
             /\ PreviousLocation(i)' = PreviousLocation(i)
  BY Zenon DEF Within, PremiumWithin, PremiumSpend, PreviousLocation, Premium,
               Cost, Located, Location
<1>2. \A i : Triggered(i)' = Triggered(i)
  BY <1>1, Zenon
  DEF Triggered, VelocityTriggered, SpendTriggered, TooFast, TravelTriggered,
      Located, Premium
<1> QED BY <1>1, <1>2

LEMMA MemoryStep ==
  ASSUME MemoryFollowsLog, [TrafficNext]_trafficVars
  PROVE  MemoryFollowsLog'
<1>1. ASSUME UNCHANGED playVars
      PROVE  MemoryFollowsLog'
  <2>1. UNCHANGED <<velWin, spendWin, lastLoc, alerted, redis, log>>
    BY <1>1 DEF playVars, engineVars
  <2>2. \A i : /\ \A window : Within(i, window)' = Within(i, window)
               /\ PremiumWithin(i)' = PremiumWithin(i)
               /\ Triggered(i)' = Triggered(i)
    BY <2>1, SameWindows
  <2>3. \A i : DueByStart(i)' = DueByStart(i) /\ Due(i)' = Due(i)
    BY <2>1, <2>2, Zenon DEF DueByStart, Due, Now
  <2>4. LogOK' = LogOK
    BY <2>1, <2>3, Zenon DEF LogOK, Calls, Now
  <2>5. VelocityFromLog' = VelocityFromLog
    BY <2>1, <2>2, Zenon DEF VelocityFromLog, CountEntries, Key, WindowUntil, Now
  <2>6. \A p : SpendSince(p)' = SpendSince(p)
    <3> SUFFICES ASSUME NEW p PROVE SpendSince(p)' = SpendSince(p)
      OBVIOUS
    <3>1. SpendEntries(PremiumWithin(p))' = SpendEntries(PremiumWithin(p))
      BY <2>1, <2>2, Zenon DEF SpendEntries, Cost
    <3>2. redis'.spend = redis.spend /\ spendWin' = spendWin /\ Len(log') = Len(log)
      BY <2>1
    <3>3. [j \in PremiumWithin(p) |-> [at |-> log[j].at, cost |-> Cost(log[j])]]'
            = [j \in PremiumWithin(p) |-> [at |-> log[j].at, cost |-> Cost(log[j])]]
      BY <2>1, <2>2, Zenon DEF Cost
    <3> QED BY <2>1, <3>1, <3>2, <3>3, Zenon
            DEF SpendSince, Key, WindowUntil, Now, Premium
  <2>7. \A l : LocationSince(l)' = LocationSince(l)
    BY <2>1, Zenon DEF LocationSince, Located, Location, Key, Now
  <2>8. CooldownFromLog'
    <3>1. ASSUME NEW r \in Rules
          PROVE  \E i \in 0 .. Len(log') :
                   /\ \A j \in i + 1 .. Len(log') : r \notin log'[j].scored
                   /\ r \in DOMAIN alerted' <=> i > 0
                   /\ i > 0 => r \in log'[i].scored /\ alerted'[r] = log'[i].at
      BY <2>1 DEF MemoryFollowsLog, CooldownFromLog
    <3>2. DOMAIN alerted' \subseteq Rules
      BY <2>1 DEF MemoryFollowsLog, CooldownFromLog
    <3> QED BY <3>1, <3>2, Zenon DEF CooldownFromLog, Rules
  <2>9. FlagFromLog'
    <3>1. ASSUME NEW r \in Rules
          PROVE  \E i \in 0 .. Len(log') :
                   /\ \A j \in i + 1 .. Len(log') : r \notin log'[j].emitted
                   /\ i > 0 => r \in log'[i].emitted
                   /\ redis'.alerted[r] = IF i = 0 THEN 0 ELSE FlagUntil(log'[i])
      BY <2>1 DEF MemoryFollowsLog, FlagFromLog
    <3> QED BY <3>1, Zenon DEF FlagFromLog, FlagUntil, Now, Rules
  <2> QED BY <2>1, <2>4, <2>5, <2>6, <2>7, <2>8, <2>9, Zenon
          DEF MemoryFollowsLog, SpendFromLog, LocationFromLog
<1>2. ASSUME NEW callee \in Callees, NEW cell \in Cells \cup {UnknownCell},
             NEW minutes \in Minutes, NEW gap \in Gaps, NEW lag \in Lags,
             Background(callee, cell, minutes, gap, lag)
      PROVE  MemoryFollowsLog'
  <2>1. gap \in Nat
    BY CallsAssumption
  <2> QED BY <1>2, <2>1, CallStep DEF Background
<1>3. ASSUME NEW rule \in Rules, Inject(rule)
      PROVE  MemoryFollowsLog'
  BY <1>1, <1>3 DEF Inject
<1>4. ASSUME NEW gap \in Gaps \cup (0 .. Pause), NEW lag \in Lags, EmitScenario(gap, lag)
      PROVE  MemoryFollowsLog'
  BY <1>4, ScenarioStep, CallStep DEF ScenarioCall
<1>5. CASE LoseScenarioCall
  BY <1>1, <1>5 DEF LoseScenarioCall
<1>6. CASE TrafficReset
  BY <1>6, ResetStep DEF TrafficReset
<1>7. CASE UNCHANGED trafficVars
  BY <1>1, <1>7 DEF trafficVars
<1> QED BY <1>2, <1>3, <1>4, <1>5, <1>6, <1>7 DEF TrafficNext

\* MemoryFollowsLog, of all traffic, of any durations and whatever the time between
\* calls: what engine and service remember of the subscriber is what the log says they
\* should, as long as the service lags no more than a window (TTLAssumption).
THEOREM MemorySafety == TrafficSpec => []MemoryFollowsLog
<1>1. TrafficInit => MemoryFollowsLog
  BY MemoryInit DEF TrafficInit
<1>2. MemoryFollowsLog /\ [TrafficNext]_trafficVars => MemoryFollowsLog'
  BY MemoryStep
<1> QED BY <1>1, <1>2, PTL DEF TrafficSpec

\* AlertsAreDue: the service misses no alert and raises no other, although its lag
\* varies, up to a window.
THEOREM AlertsSafety == TrafficSpec => []AlertsAreDue
<1>1. MemoryFollowsLog => AlertsAreDue
  BY AlertsDue
<1> QED BY <1>1, MemorySafety, PTL

\* SameAlerts: with a lag that does not change, the engine raises the same.
THEOREM MirrorSafety == TrafficSpec => []SameAlerts
<1>1. MemoryFollowsLog => SameAlerts
  BY AlertsSame
<1> QED BY <1>1, MemorySafety, PTL

\* LongestPrefix, of every set of numbers.
THEOREM TariffSafety == TrafficSpec => []LongestPrefix
<1>1. LongestPrefix
  BY LongestMatch, NumbersAssumption DEF LongestPrefix
<1> QED BY <1>1, PTL

-----------------------------------------------------------------------------
(***************************************************************************)
(* A scenario whose calls all got through triggers its rule.               *)
(***************************************************************************)

\* The last k calls of the log are the first k of a scenario.
OfScenario(rule, k) ==
  LET n == Len(log)
  IN  /\ k <= n
      /\ \A i \in n - k + 1 .. n :
           /\ log[n].at - log[i].at <= (n - i) * Pause
           /\ rule = "irsf" => /\ log[i].tariff = Lookup(PremiumNumber)
                               /\ log[i].minutes \in IrsfMinutes
           /\ rule = "impossible_travel" =>
                log[i].cell \in IF i = n - k + 2 THEN FarCell(Home) ELSE {Home}

LEMMA ScenarioSizes ==
  /\ ScenarioCalls("velocity") = BurstSize
  /\ ScenarioCalls("impossible_travel") = 2
  /\ ScenarioCalls("irsf") = IrsfCalls
  /\ \A rule \in Rules : ScenarioCalls(rule) \in Nat
BY TrafficAssumption DEF ScenarioCalls, Rules

LEMMA RangeSize ==
  ASSUME NEW k \in Nat, NEW n \in Nat, k <= n
  PROVE  /\ IsFiniteSet(n - k + 1 .. n)
         /\ Cardinality(n - k + 1 .. n) = k
<1>1. n - k + 1 \in Int /\ n \in Int
  OBVIOUS
<1>2. /\ IsFiniteSet(n - k + 1 .. n)
      /\ Cardinality(n - k + 1 .. n)
           = IF n - k + 1 > n THEN 0 ELSE n - (n - k + 1) + 1
  BY <1>1, FS_Interval
<1> QED BY <1>2

\* More pauses take longer, ...
LEMMA PausesGrow ==
  ASSUME NEW i \in Nat, NEW k \in Nat, i <= k
  PROVE  i * Pause \in Nat /\ i * Pause <= k * Pause /\ (i + 1) * Pause = i * Pause + Pause
<1>1. Pause \in Nat
  BY TrafficAssumption
<1>2. PICK d \in Nat : k = i + d
  <2>1. k - i \in Nat
    OBVIOUS
  <2> QED BY <2>1
<1>3. i * Pause \in Nat /\ d * Pause \in Nat
  BY <1>1
<1>4. (i + d) * Pause = i * Pause + d * Pause /\ (i + 1) * Pause = i * Pause + Pause
  BY <1>1
<1> QED BY <1>2, <1>3, <1>4

\* All calls of a scenario are in a window of their last one.
LEMMA ScenarioInWindow ==
  ASSUME LogOK, NEW rule \in Rules, NEW k \in Nat, OfScenario(rule, k),
         NEW n \in Nat, n = Len(log), NEW window \in Nat \ {0},
         (k - 1) * Pause < window
  PROVE  /\ n - k + 1 .. n \subseteq Within(n, window)
         /\ IsFiniteSet(Within(n, window))
<1>1. k <= n /\ \A i \in n - k + 1 .. n : log[n].at - log[i].at <= (n - i) * Pause
  BY DEF OfScenario
<1>2. ASSUME NEW i \in n - k + 1 .. n
      PROVE  i \in Within(n, window)
  <2>1. i \in 1 .. n /\ n \in 1 .. n
    BY <1>1
  <2>2. log[n].at \in Nat /\ log[i].at \in Nat
    BY <2>1, OutcomeTypes
  <2>3. n - i \in Nat /\ k - 1 \in Nat /\ n - i <= k - 1
    BY <1>1
  <2>4. (n - i) * Pause \in Nat /\ (n - i) * Pause <= (k - 1) * Pause
    BY <2>3, PausesGrow
  <2>5. (k - 1) * Pause \in Nat /\ log[n].at - log[i].at <= (n - i) * Pause
    BY <1>1, <2>3, PausesGrow
  <2> DEFINE most == (k - 1) * Pause
             some == (n - i) * Pause
  <2>6. some \in Nat /\ most \in Nat /\ some <= most /\ most < window
        /\ log[n].at - log[i].at <= some
    BY <2>4, <2>5
  <2> HIDE DEF most, some
  <2>7. log[n].at - log[i].at < window
    BY <2>2, <2>6
  <2> QED BY <2>1, <2>7 DEF Within
<1>3. IsFiniteSet(Within(n, window))
  <2>1. IsFiniteSet(1 .. n)
    BY FS_Interval
  <2>2. Within(n, window) \subseteq 1 .. n
    BY DEF Within
  <2> QED BY <2>1, <2>2, FS_Subset
<1> QED BY <1>2, <1>3

LEMMA BurstTriggers ==
  ASSUME LogOK, OfScenario("velocity", BurstSize), NEW n \in Nat, n = Len(log)
  PROVE  VelocityTriggered(Cardinality(Within(n, VelocityWindow)))
<1>1. /\ BurstSize \in Nat /\ VelocityWindow \in Nat \ {0}
      /\ VelocityThreshold \in Nat \ {0} /\ BurstSize >= VelocityThreshold
      /\ "velocity" \in Rules /\ (BurstSize - 1) * Pause < VelocityWindow
  BY TrafficAssumption DEF Rules
<1>2. BurstSize <= n
  BY DEF OfScenario
<1> DEFINE burst == n - BurstSize + 1 .. n
           recent == Within(n, VelocityWindow)
<1>3. burst \subseteq recent /\ IsFiniteSet(recent)
  BY <1>1, ScenarioInWindow
<1>4. Cardinality(burst) = BurstSize
  BY <1>1, <1>2, RangeSize
<1> HIDE DEF burst, recent
<1>5. Cardinality(burst) <= Cardinality(recent) /\ Cardinality(recent) \in Nat
  BY <1>3, FS_Subset, FS_CardinalityType
<1>6. VelocityTriggered(Cardinality(recent))
  BY <1>1, <1>4, <1>5 DEF VelocityTriggered
<1> QED BY <1>6 DEF recent

\* ... two calls with less time between count as no further apart, ...
LEMMA LargerOfTwo ==
  ASSUME NEW x \in Nat, NEW y \in Nat, x <= y
  PROVE  Max({x, 1}) \in Nat /\ Max({y, 1}) \in Nat /\ Max({x, 1}) <= Max({y, 1})
<1>1. \A z \in Nat : Max({z, 1}) \in {z, 1} /\ z <= Max({z, 1}) /\ 1 <= Max({z, 1})
  <2> SUFFICES ASSUME NEW z \in Nat
               PROVE  Max({z, 1}) \in {z, 1} /\ z <= Max({z, 1}) /\ 1 <= Max({z, 1})
    OBVIOUS
  <2> DEFINE two == {z, 1}
  <2>1. \E m \in two : \A u \in two : m >= u
    OBVIOUS
  <2>2. Max(two) \in two /\ \A u \in two : Max(two) >= u
    BY <2>1, Zenon DEF Max
  <2> QED BY <2>2
<1> QED BY <1>1

\* ... and in less time one gets no further.
LEMMA FasterIsFarther ==
  ASSUME NEW v \in Nat, NEW x \in Nat, NEW y \in Nat, x <= y
  PROVE  v * x \in Nat /\ v * y \in Nat /\ v * x <= v * y
<1>1. PICK d \in Nat : y = x + d
  <2>1. y - x \in Nat
    OBVIOUS
  <2> QED BY <2>1
<1>2. v * (x + d) = v * x + v * d /\ v * x \in Nat /\ v * d \in Nat
  OBVIOUS
<1> QED BY <1>1, <1>2

LEMMA TripTriggers ==
  ASSUME LogOK, OfScenario("impossible_travel", 2), NEW n \in Nat, n = Len(log)
  PROVE  TooFast(PreviousLocation(n), log[n])
<1>1. 2 <= n
  BY DEF OfScenario
<1>2. n - 2 + 1 = n - 1 /\ n - 2 + 2 = n /\ n - 1 # n
      /\ n - 1 \in n - 1 .. n /\ n \in n - 1 .. n
      /\ n \in 1 .. n /\ n - 1 \in 1 .. n - 1 /\ n - 1 \in 1 .. n /\ n - 1 \in Nat
  BY <1>1
<1>3. log[n].at - log[n - 1].at <= Pause /\ log[n].cell \in FarCell(Home)
      /\ log[n - 1].cell = Home
  <2>1. (n - (n - 1)) * Pause = Pause
    BY TrafficAssumption
  <2> QED BY <1>2, <2>1 DEF OfScenario
<1>4. log[n].cell \in Cells /\ Distance[<<Home, log[n].cell>>] > FarKm
  BY <1>3, TrafficAssumption DEF FarCell
<1> DEFINE before == {j \in 1 .. n - 1 : Located(log[j])}
<1>5. n - 1 \in before
  BY <1>2, <1>3, TrafficAssumption DEF Located
<1>6. Max(before) = n - 1
  <2>1. Max(before) \in before /\ \A j \in before : j <= Max(before)
    BY <1>2, <1>5, MaxOfSome
  <2>2. Max(before) \in 1 .. n - 1
    BY <2>1
  <2> HIDE DEF before
  <2> QED BY <1>2, <1>5, <2>1, <2>2
<1>7. PreviousLocation(n) = Location(log[n - 1])
  BY <1>5, <1>6, Zenon DEF PreviousLocation
<1> DEFINE last == Location(log[n - 1])
<1>8. last.cell = Home /\ last.at = log[n - 1].at /\ last # NoLocation
  <2>1. last = [cell |-> log[n - 1].cell, at |-> log[n - 1].at]
    BY DEF Location
  <2>2. log[n - 1].at \in Nat
    BY <1>2, OutcomeTypes
  <2>3. last \in [cell : Cells, at : Nat]
    BY <1>3, <2>1, <2>2, TrafficAssumption
  <2> HIDE DEF last
  <2> QED BY <1>3, <2>1, <2>3, CallsAssumption
<1> HIDE DEF last
<1>9. PICK dt \in Nat : dt = Elapsed(log[n].at, last.at) /\ dt <= Pause
  <2>1. log[n].at \in Nat /\ log[n - 1].at \in Nat /\ log[n - 1].at <= log[n].at
    BY <1>2, OutcomeTypes, InOrder
  <2> QED BY <1>3, <1>8, <2>1 DEF Elapsed
<1>10. /\ Max({dt, 1}) \in Nat /\ Max({Pause, 1}) \in Nat
       /\ Max({dt, 1}) <= Max({Pause, 1})
  <2>1. Pause \in Nat
    BY TrafficAssumption
  <2> QED BY <1>9, <2>1, LargerOfTwo
<1>11. /\ Distance[<<Home, log[n].cell>>] \in Nat /\ FarKm \in Nat
       /\ MaxSpeed \in Nat \ {0} /\ FarKm >= MaxSpeed * Max({Pause, 1})
  BY <1>4, TrafficAssumption, TTLAssumption
<1>12. TravelTriggered(Distance[<<Home, log[n].cell>>], dt)
  <2>1. MaxSpeed * Max({dt, 1}) <= MaxSpeed * Max({Pause, 1})
        /\ MaxSpeed * Max({dt, 1}) \in Nat /\ MaxSpeed * Max({Pause, 1}) \in Nat
    BY <1>10, <1>11, FasterIsFarther
  <2> QED BY <1>4, <1>11, <2>1 DEF TravelTriggered
<1>13. TooFast(last, log[n])
  BY <1>4, <1>8, <1>9, <1>12, Zenon DEF TooFast, Located
<1> QED BY <1>7, <1>13 DEF last


\* Some call of several is the cheapest.
LEMMA Cheapest ==
  ASSUME NEW s, s # {}, NEW f, \A x \in s : f[x] \in Nat
  PROVE  \E x \in s : \A y \in s : f[x] <= f[y]
<1> DEFINE costs == {f[x] : x \in s}
<1>1. costs \in SUBSET Nat /\ costs # {}
  OBVIOUS
<1> HIDE DEF costs
<1>2. PICK c \in costs : \A d \in costs : <<d, c>> \notin OpToRel(<, Nat)
  BY <1>1, NatLessThanWellFounded, WFMin, Zenon
<1>3. ASSUME NEW d \in costs PROVE c <= d
  <2> SUFFICES ASSUME d < c PROVE FALSE
    BY <1>1
  <2>1. d \in Nat /\ c \in Nat
    BY <1>1
  <2>2. <<d, c>> \in OpToRel(<, Nat)
    BY <2>1 DEF OpToRel
  <2> QED BY <1>2, <2>2
<1>4. PICK x \in s : f[x] = c
  BY <1>2 DEF costs
<1>5. \A y \in s : f[x] <= f[y]
  BY <1>3, <1>4 DEF costs
<1> QED BY <1>5

LEMMA PremiumTriggers ==
  ASSUME LogOK, OfScenario("irsf", IrsfCalls), IrsfCalls > 0,
         NEW n \in Nat, n = Len(log)
  PROVE  Premium(log[n]) /\ SpendTriggered(PremiumSpend(n))
<1> DEFINE run == n - IrsfCalls + 1 .. n
           recent == PremiumWithin(n)
           cost == [j \in recent |-> Cost(log[j])]
           rate == Lookup(PremiumNumber).rate
<1>1. /\ IrsfCalls \in Nat /\ SpendWindow \in Nat \ {0} /\ SpendThreshold \in Nat \ {0}
      /\ "irsf" \in Rules /\ Lookup(PremiumNumber).premium
      /\ (IrsfCalls - 1) * Pause < SpendWindow
      /\ \A m \in IrsfMinutes : IrsfCalls * m * rate >= SpendThreshold
  BY TrafficAssumption DEF Rules
<1>2. IrsfCalls <= n /\ \A i \in run : /\ log[i].tariff = Lookup(PremiumNumber)
                                        /\ log[i].minutes \in IrsfMinutes
  BY DEF OfScenario
<1>3. run \subseteq Within(n, SpendWindow) /\ IsFiniteSet(Within(n, SpendWindow))
  BY <1>1, ScenarioInWindow
<1>4. n \in run /\ run \subseteq 1 .. n
  BY <1>1, <1>2
<1>5. \A i \in run : Premium(log[i])
  BY <1>1, <1>2 DEF Premium
<1>6. run \subseteq recent /\ IsFiniteSet(recent) /\ recent \subseteq 1 .. n
  BY <1>3, <1>5, FS_Subset DEF PremiumWithin, Within
<1>7. IsFiniteSet(run) /\ Cardinality(run) = IrsfCalls
  BY <1>1, <1>2, RangeSize
<1>8. \A i \in recent : cost[i] \in Nat
  BY <1>6, OutcomeTypes
<1>9. \A i \in run : log[i].minutes \in IrsfMinutes /\ log[i].minutes \in Nat
  BY <1>2, <1>4, OutcomeTypes, CallsAssumption DEF Outcomes
<1>10. \A i \in run : cost[i] = log[i].minutes * rate
  BY <1>2, <1>6 DEF Cost
<1> HIDE DEF run, recent, cost
<1>11. PICK i \in run : \A j \in run : cost[i] <= cost[j]
  <2>1. run # {} /\ \A x \in run : cost[x] \in Nat
    BY <1>4, <1>6, <1>8
  <2> QED BY <2>1, Cheapest
<1>12. SumFunctionOnSet(cost, run) >= IrsfCalls * cost[i]
  <2>1. \A j \in run : cost[j] \in Nat /\ cost[j] >= cost[i]
    BY <1>6, <1>8, <1>11
  <2>2. cost[i] \in Nat
    BY <2>1
  <2>3. SumFunctionOnSet(cost, run) >= Cardinality(run) * cost[i]
    BY <1>7, <2>1, <2>2, SumAtLeast
  <2> QED BY <1>7, <2>3
<1>13. IrsfCalls * cost[i] >= SpendThreshold
  <2>1. rate \in Nat
    BY LookupType DEF Tariffs
  <2>2. IrsfCalls * log[i].minutes * rate = IrsfCalls * (log[i].minutes * rate)
    <3> DEFINE m == log[i].minutes
    <3>1. m \in Nat
      BY <1>9
    <3> HIDE DEF m, rate
    <3>2. IrsfCalls * m * rate = IrsfCalls * (m * rate)
      BY <1>1, <2>1, <3>1
    <3> QED BY <3>2 DEF m
  <2> QED BY <1>1, <1>9, <1>10, <2>2
<1>14. SumFunctionOnSet(cost, run) <= SumFunctionOnSet(cost, recent)
  <2> DEFINE same == [x \in run |-> x]
  <2>1. same \in [run -> recent] /\ \A x, y \in run : same[x] = same[y] => x = y
    BY <1>6
  <2>2. \A x \in run : cost[x] \in Nat /\ same[x] = x /\ cost[x] <= cost[same[x]]
    BY <1>6, <1>8
  <2> HIDE DEF same
  <2> QED BY <1>6, <1>8, <2>1, <2>2, SumInjection
<1>15. SumFunctionOnSet(cost, recent) = PremiumSpend(n)
  <2>1. DOMAIN cost = recent
    BY DEF cost
  <2> QED BY <2>1, Zenon DEF PremiumSpend, SumFunction, cost, recent
<1>16. /\ SumFunctionOnSet(cost, run) \in Int /\ SumFunctionOnSet(cost, recent) \in Int
       /\ IrsfCalls * cost[i] \in Int
  <2>1. \A j \in recent : cost[j] \in Int
    BY <1>8
  <2>2. \A r \in SUBSET recent : SumFunctionOnSet(cost, r) \in Int
    BY <1>6, <2>1, SumFacts
  <2>3. run \in SUBSET recent /\ recent \in SUBSET recent
    BY <1>6
  <2>4. cost[i] \in Nat
    BY <1>6, <1>8
  <2>5. IrsfCalls * cost[i] \in Int
    BY <1>1, <2>4
  <2> QED BY <2>2, <2>3, <2>5
<1>17. PremiumSpend(n) >= SpendThreshold
  BY <1>1, <1>12, <1>13, <1>14, <1>15, <1>16
<1> QED BY <1>1, <1>4, <1>5, <1>17 DEF SpendTriggered

\* The state after the last call of a scenario.
FinishedTriggers ==
  LogOK =>
    \A rule \in Rules, n \in Nat :
      ScenarioCalls(rule) > 0 /\ OfScenario(rule, ScenarioCalls(rule)) /\ n = Len(log) =>
        rule \in Triggered(n)

LEMMA ScenarioTriggers == FinishedTriggers
<1> SUFFICES ASSUME LogOK, NEW rule \in Rules, NEW n \in Nat, n = Len(log),
                    ScenarioCalls(rule) > 0, OfScenario(rule, ScenarioCalls(rule))
             PROVE  rule \in Triggered(n)
  BY DEF FinishedTriggers
<1>1. n = Len(log)
  OBVIOUS
<1>2. CASE rule = "velocity"
  <2>1. VelocityTriggered(Cardinality(Within(n, VelocityWindow)))
    BY <1>1, <1>2, ScenarioSizes, BurstTriggers
  <2> QED BY <1>1, <1>2, <2>1, Zenon DEF Triggered
<1>3. CASE rule = "impossible_travel"
  <2>1. TooFast(PreviousLocation(n), log[n])
    BY <1>1, <1>3, ScenarioSizes, TripTriggers
  <2> QED BY <1>1, <1>3, <2>1, Zenon DEF Triggered
<1>4. CASE rule = "irsf"
  <2>1. Premium(log[n]) /\ SpendTriggered(PremiumSpend(n))
    BY <1>1, <1>4, ScenarioSizes, PremiumTriggers
  <2> QED BY <1>1, <1>4, <2>1, Zenon DEF Triggered
<1> QED BY <1>2, <1>3, <1>4 DEF Rules


-----------------------------------------------------------------------------
(***************************************************************************)
(* ScenarioFlagged.                                                        *)
(***************************************************************************)

\* What got through of the scenario under way ends the log, ...
UnderWay ==
  injecting # None =>
    /\ injecting \in [rule : Rules, left : Nat \ {0}, whole : BOOLEAN]
    /\ injecting.left <= ScenarioCalls(injecting.rule)
    /\ \A rule \in Rules, k \in Nat :
         /\ injecting.whole /\ rule = injecting.rule
         /\ k + injecting.left = ScenarioCalls(rule)
         => OfScenario(rule, k)

\* ... and the last call of one that all got through triggered its rule.
Finished ==
  injected # None =>
    /\ injected \in [rule : Rules, upto : Nat \ {0}]
    /\ injected.upto <= Len(log)
    /\ \A rule \in Rules, i \in Nat :
         rule = injected.rule /\ i = injected.upto => rule \in Triggered(i)

TrafficInv == MemoryFollowsLog /\ UnderWay /\ Finished

\* One more call of a scenario.
LEMMA ScenarioGrows ==
  ASSUME LogOK, NEW rule \in Rules, NEW k \in Nat, OfScenario(rule, k),
         NEW n, NEW call, Next(n, call), Appended(n, call),
         call.at \in Nat, k > 0 => call.at <= log[n].at + Pause,
         rule = "irsf" => /\ call.tariff = Lookup(PremiumNumber)
                          /\ call.minutes \in IrsfMinutes,
         rule = "impossible_travel" =>
           call.cell \in IF k = 1 THEN FarCell(Home) ELSE {Home}
  PROVE  OfScenario(rule, k + 1)'
<1>1. /\ n \in Nat /\ Len(log) = n /\ Len(log') = n + 1
      /\ \A i \in 1 .. n : log'[i] = log[i]
  BY NewLog
<1>2. /\ log'[n + 1].at = call.at /\ log'[n + 1].cell = call.cell
      /\ log'[n + 1].tariff = call.tariff /\ log'[n + 1].minutes = call.minutes
  BY NewCallInLog
<1>3. /\ k <= n
      /\ \A i \in n - k + 1 .. n :
           /\ log[n].at - log[i].at <= (n - i) * Pause
           /\ rule = "irsf" => /\ log[i].tariff = Lookup(PremiumNumber)
                               /\ log[i].minutes \in IrsfMinutes
           /\ rule = "impossible_travel" =>
                log[i].cell \in IF i = n - k + 2 THEN FarCell(Home) ELSE {Home}
  BY <1>1 DEF OfScenario
<1>4. ASSUME NEW i \in (n + 1) - (k + 1) + 1 .. n + 1
      PROVE  /\ log'[n + 1].at - log'[i].at <= ((n + 1) - i) * Pause
             /\ rule = "irsf" => /\ log'[i].tariff = Lookup(PremiumNumber)
                                 /\ log'[i].minutes \in IrsfMinutes
             /\ rule = "impossible_travel" =>
                  log'[i].cell \in IF i = (n + 1) - (k + 1) + 2
                                     THEN FarCell(Home) ELSE {Home}
  <2>1. CASE i = n + 1
    <3>1. i = (n + 1) - (k + 1) + 2 <=> k = 1
      BY <1>1, <2>1
    <3>2. ((n + 1) - i) * Pause = 0 /\ call.at - call.at = 0
      BY <1>1, <2>1, TrafficAssumption
    <3> QED BY <1>2, <2>1, <3>1, <3>2
  <2>2. CASE i # n + 1
    <3>1. i \in n - k + 1 .. n /\ i \in 1 .. n /\ k > 0
      BY <1>1, <1>3, <2>2
    <3>2. (n + 1) - (k + 1) + 2 = n - k + 2
      BY <1>1
    <3>3. ((n + 1) - i) * Pause = (n - i) * Pause + Pause
          /\ (n - i) * Pause \in Nat
      <4>1. n - i \in Nat /\ (n + 1) - i = (n - i) + 1
        BY <1>1, <3>1
      <4> QED BY <4>1, PausesGrow
    <3>4. log[i].at \in Nat /\ log[n].at \in Nat
      BY <1>1, <3>1, OutcomeTypes
    <3>5. log[n].at - log[i].at <= (n - i) * Pause /\ call.at <= log[n].at + Pause
      BY <1>3, <3>1
    <3>6. call.at - log[i].at <= (n - i) * Pause + Pause
      <4> DEFINE before == (n - i) * Pause
      <4>1. before \in Nat /\ log[n].at - log[i].at <= before
        BY <3>3, <3>5
      <4> HIDE DEF before
      <4>2. call.at - log[i].at <= before + Pause
        BY <3>4, <3>5, <4>1, TrafficAssumption
      <4> QED BY <4>2 DEF before
    <3> QED BY <1>1, <1>2, <1>3, <3>1, <3>2, <3>3, <3>6
  <2> QED BY <2>1, <2>2
<1>5. k + 1 <= n + 1
  BY <1>1, <1>3
<1> QED BY <1>1, <1>4, <1>5 DEF OfScenario

\* What is not a call leaves the log's scenarios as they are, too.
LEMMA SameLog ==
  ASSUME UNCHANGED playVars
  PROVE  /\ Len(log') = Len(log)
         /\ \A rule, k : OfScenario(rule, k)' = OfScenario(rule, k)
         /\ \A i : Triggered(i)' = Triggered(i)
<1>1. log' = log
  BY DEF playVars
<1>2. \A rule, k : OfScenario(rule, k)' = OfScenario(rule, k)
  BY <1>1, Zenon DEF OfScenario
<1> QED BY <1>1, <1>2, SameWindows

LEMMA NoCallStep ==
  ASSUME UnderWay, Finished, UNCHANGED playVars
  PROVE  /\ UNCHANGED injecting => UnderWay'
         /\ UNCHANGED injected => Finished'
<1>1. ASSUME UNCHANGED injecting PROVE UnderWay'
  BY <1>1, SameLog, Zenon DEF UnderWay
<1>2. ASSUME UNCHANGED injected PROVE Finished'
  BY <1>2, SameLog, Zenon DEF Finished
<1> QED BY <1>1, <1>2

\* What was finished before a call stays so.
LEMMA CallKeepsFinished ==
  ASSUME LogOK, Finished, UNCHANGED injected,
         NEW n, NEW call, Next(n, call), Appended(n, call)
  PROVE  Finished'
<1>1. /\ n \in Nat /\ Len(log) = n /\ Len(log') = n + 1
  BY NewLog
<1> SUFFICES ASSUME injected # None
             PROVE  /\ injected \in [rule : Rules, upto : Nat \ {0}]
                    /\ injected.upto <= Len(log')
                    /\ \A rule \in Rules, i \in Nat :
                         rule = injected.rule /\ i = injected.upto =>
                           rule \in Triggered(i)'
  BY DEF Finished
<1>2. /\ injected \in [rule : Rules, upto : Nat \ {0}] /\ injected.upto <= n
      /\ \A rule \in Rules, i \in Nat :
           rule = injected.rule /\ i = injected.upto => rule \in Triggered(i)
  BY <1>1 DEF Finished
<1>3. ASSUME NEW rule \in Rules, NEW i \in Nat, rule = injected.rule, i = injected.upto
      PROVE  rule \in Triggered(i)'
  <2>1. i \in 1 .. n
    BY <1>1, <1>2, <1>3
  <2> QED BY <1>2, <1>3, <2>1, OldTriggered
<1> QED BY <1>1, <1>2, <1>3

LEMMA InjectStep ==
  ASSUME TrafficInv, NEW rule \in Rules, Inject(rule)
  PROVE  UnderWay' /\ Finished'
<1>1. UNCHANGED playVars /\ UNCHANGED injected
  BY DEF Inject
<1>2. Finished'
  BY <1>1, NoCallStep DEF TrafficInv
<1>3. injecting' = [rule |-> rule, left |-> ScenarioCalls(rule), whole |-> TRUE]
      /\ ScenarioCalls(rule) \in Nat \ {0}
  BY ScenarioSizes DEF Inject
<1>4. \A r \in Rules, k \in Nat :
        r = rule /\ k + ScenarioCalls(rule) = ScenarioCalls(r) => OfScenario(r, k)'
  <2> SUFFICES OfScenario(rule, 0)'
    BY <1>3
  <2>1. OfScenario(rule, 0)
    BY DEF OfScenario, TrafficInv, MemoryFollowsLog, LogOK
  <2> QED BY <1>1, <2>1, SameLog
<1>5. UnderWay'
  BY <1>3, <1>4 DEF UnderWay
<1> QED BY <1>2, <1>5

\* The next call of a scenario gets through.
LEMMA EmitStep ==
  ASSUME TrafficInv, NEW gap \in Gaps \cup (0 .. Pause), NEW lag \in Lags, EmitScenario(gap, lag)
  PROVE  UnderWay' /\ Finished'
<1>1. LogOK /\ UnderWay /\ Finished /\ MemoryFollowsLog
  BY DEF TrafficInv, MemoryFollowsLog
<1>2. PICK rule \in Rules, left \in Nat \ {0}, whole \in BOOLEAN :
        /\ rule = injecting.rule /\ left = injecting.left /\ whole = injecting.whole
        /\ injecting = [rule |-> rule, left |-> left, whole |-> whole]
        /\ left <= ScenarioCalls(rule)
  BY <1>1 DEF EmitScenario, UnderWay
<1>3. PICK k \in Nat : k + left = ScenarioCalls(rule)
  <2>1. ScenarioCalls(rule) - left \in Nat
    BY <1>2, ScenarioSizes
  <2> QED BY <1>2, <2>1, ScenarioSizes
<1>4. whole => OfScenario(rule, k)
  BY <1>1, <1>2, <1>3 DEF UnderWay, EmitScenario
<1>5. PICK cell \in Cells, minutes \in Minutes :
        /\ cell \in IF rule = "impossible_travel" /\ left = 1
                      THEN FarCell(Home) ELSE {Home}
        /\ rule = "irsf" => minutes \in IrsfMinutes
        /\ ScenarioCall(gap, lag, cell, minutes)
  BY <1>2, ScenarioStep
<1> DEFINE callee == IF rule = "irsf" THEN PremiumNumber ELSE DomesticNumber
           call == NewCall(callee, cell, minutes, gap, lag)
<1>6. PICK n \in Nat : n = Len(log)
  BY <1>1 DEF LogOK
<1>7. Next(n, call) /\ Appended(n, call)
  <2>1. Call(callee, cell, minutes, gap, lag)
    BY <1>2, <1>5 DEF ScenarioCall
  <2>2. gap \in Nat
    BY ScenarioStep
  <2> HIDE DEF callee
  <2> QED BY <1>1, <1>6, <2>1, <2>2, NextIsTyped
<1>8. /\ call.at \in Nat /\ (k > 0 /\ n > 0 => call.at <= log[n].at + Pause)
      /\ rule = "irsf" => call.tariff = Lookup(PremiumNumber)
                         /\ call.minutes \in IrsfMinutes
      /\ call.cell = cell
  <2>1. (k > 0 => gap <= Pause) /\ gap \in Nat /\ Pause \in Nat
    <3>1. gap \in Nat /\ Pause \in Nat
      BY ScenarioStep, TrafficAssumption
    <3>2. injecting.left < ScenarioCalls(injecting.rule) => gap <= Pause
      BY Zenon DEF EmitScenario
    <3>3. ScenarioCalls(rule) \in Nat
      BY ScenarioSizes
    <3>4. k > 0 => left < ScenarioCalls(rule)
      BY <1>3, <3>3
    <3> QED BY <1>2, <3>1, <3>2, <3>4
  <2>2. n > 0 => LastStart = log[n].at /\ log[n].at \in Nat
    <3>1. n > 0 => log # <<>> /\ n \in 1 .. n
      BY <1>6
    <3> QED BY <1>1, <1>6, <3>1, OutcomeTypes DEF LastStart, Last
  <2>3. LastStart \in Nat /\ call.at = LastStart + gap
    <3>1. n = 0 => LastStart = 0
      <4>1. log \in Seq(Outcomes)
        BY <1>1 DEF LogOK
      <4>2. n = 0 => log = <<>>
        BY <1>6, <4>1, EmptySeq
      <4> QED BY <4>2 DEF LastStart
    <3> QED BY <1>6, <2>2, <3>1 DEF NewCall
  <2>4. call.at \in Nat /\ (k > 0 /\ n > 0 => call.at <= log[n].at + Pause)
    BY <2>1, <2>2, <2>3
  <2> QED BY <1>5, <2>4 DEF NewCall
<1>9. rule = "impossible_travel" => call.cell \in IF k = 1 THEN FarCell(Home) ELSE {Home}
  BY <1>3, <1>5, <1>8, ScenarioSizes
<1>10. Advance(whole, n + 1)
  BY <1>2, <1>6 DEF EmitScenario
<1>11. Len(log') = n + 1
  BY <1>1, <1>6, <1>7, NewLog
<1> HIDE DEF call
<1>12. whole => OfScenario(rule, k + 1)'
  <2>1. whole /\ k > 0 => n > 0
    BY <1>4, <1>6 DEF OfScenario
  <2> QED BY <1>1, <1>4, <1>7, <1>8, <1>9, <2>1, ScenarioGrows
<1>13. CASE left > 1
  <2>1. UNCHANGED injected
        /\ injecting' = [rule |-> rule, left |-> left - 1, whole |-> whole]
    BY <1>2, <1>10, <1>13 DEF Advance
  <2>2. Finished'
    BY <1>1, <1>7, <2>1, CallKeepsFinished
  <2>3. left - 1 \in Nat \ {0} /\ left - 1 <= ScenarioCalls(rule)
        /\ \A m \in Nat : m + (left - 1) = ScenarioCalls(rule) => m = k + 1
    BY <1>2, <1>3, <1>13, ScenarioSizes
  <2>4. UnderWay'
    BY <1>12, <2>1, <2>3 DEF UnderWay
  <2> QED BY <2>2, <2>4
<1>14. CASE ~ (left > 1)
  <2>1. injecting' = None
        /\ injected' = IF whole THEN [rule |-> rule, upto |-> n + 1] ELSE injected
    BY <1>2, <1>10, <1>14 DEF Advance
  <2>2. UnderWay'
    BY <2>1 DEF UnderWay, None
  <2>3. ASSUME ~ whole PROVE Finished'
    BY <1>1, <1>7, <2>1, <2>3, CallKeepsFinished
  <2>4. ASSUME whole PROVE Finished'
    <3>1. ScenarioCalls(rule) = k + 1
      BY <1>2, <1>3, <1>14
    <3>2. OfScenario(rule, ScenarioCalls(rule))'
      BY <1>12, <2>4, <3>1
    <3>3. FinishedTriggers'
      BY ScenarioTriggers, PTL
    <3>4. LogOK'
      BY <1>1, <1>7, LogStep
    <3>5. rule \in Triggered(n + 1)'
      BY <1>3, <1>11, <3>1, <3>2, <3>3, <3>4 DEF FinishedTriggers
    <3>6. injected' = [rule |-> rule, upto |-> n + 1]
      BY <2>1, <2>4
    <3> QED BY <1>11, <3>5, <3>6 DEF Finished
  <2> QED BY <2>2, <2>3, <2>4
<1> QED BY <1>13, <1>14


LEMMA LoseStep ==
  ASSUME TrafficInv, LoseScenarioCall
  PROVE  UnderWay' /\ Finished'
<1>1. /\ UNCHANGED playVars /\ UnderWay /\ Finished
      /\ injecting # None /\ Advance(FALSE, 0)
  BY DEF LoseScenarioCall, TrafficInv
<1>2. UNCHANGED injected
  BY <1>1 DEF Advance
<1>3. Finished'
  BY <1>1, <1>2, NoCallStep
<1>4. UnderWay'
  <2>1. CASE injecting.left > 1
    <3>1. injecting' = [injecting EXCEPT !.left = @ - 1, !.whole = FALSE]
      BY <1>1, <2>1 DEF Advance
    <3>2. PICK rule \in Rules, left \in Nat \ {0}, whole \in BOOLEAN :
            /\ injecting = [rule |-> rule, left |-> left, whole |-> whole]
            /\ left <= ScenarioCalls(rule)
      BY <1>1 DEF UnderWay
    <3>3. injecting' = [rule |-> rule, left |-> left - 1, whole |-> FALSE]
      BY <3>1, <3>2
    <3>4. /\ left - 1 \in Nat \ {0} /\ left - 1 <= ScenarioCalls(rule)
      BY <2>1, <3>2, ScenarioSizes
    <3> QED BY <3>3, <3>4 DEF UnderWay
  <2>2. CASE ~ (injecting.left > 1)
    BY <1>1, <2>2 DEF Advance, UnderWay, None
  <2> QED BY <2>1, <2>2
<1> QED BY <1>3, <1>4

LEMMA BackgroundStep ==
  ASSUME TrafficInv, NEW callee \in Callees, NEW cell \in Cells \cup {UnknownCell},
         NEW minutes \in Minutes, NEW gap \in Gaps, NEW lag \in Lags,
         Background(callee, cell, minutes, gap, lag)
  PROVE  UnderWay' /\ Finished'
<1>1. /\ LogOK /\ Finished /\ UNCHANGED injected
      /\ injecting = None /\ UNCHANGED injecting
      /\ Call(callee, cell, minutes, gap, lag) /\ gap \in Nat
  BY CallsAssumption DEF Background, TrafficInv, MemoryFollowsLog
<1>2. UnderWay'
  BY <1>1 DEF UnderWay, None
<1>3. Finished'
  BY <1>1, NextIsTyped, CallKeepsFinished
<1> QED BY <1>2, <1>3

LEMMA TrafficStep ==
  ASSUME TrafficInv, [TrafficNext]_trafficVars
  PROVE  TrafficInv'
<1>1. MemoryFollowsLog'
  BY MemoryStep DEF TrafficInv
<1>2. UnderWay' /\ Finished'
  <2>1. CASE TrafficReset
    BY <2>1 DEF TrafficReset, UnderWay, Finished, None
  <2>2. CASE UNCHANGED trafficVars
    BY <2>2, NoCallStep DEF trafficVars, TrafficInv
  <2> QED BY <2>1, <2>2, InjectStep, EmitStep, LoseStep, BackgroundStep DEF TrafficNext
<1> QED BY <1>1, <1>2 DEF TrafficInv

LEMMA TrafficInvHolds == TrafficSpec => []TrafficInv
<1>1. TrafficInit => TrafficInv
  BY MemoryInit DEF TrafficInit, TrafficInv, UnderWay, Finished
<1>2. TrafficInv /\ [TrafficNext]_trafficVars => TrafficInv'
  BY TrafficStep
<1> QED BY <1>1, <1>2, PTL DEF TrafficSpec

LEMMA LargestScenario ==
  ASSUME NEW rule \in Rules
  PROVE  /\ Max({BurstSize, IrsfCalls, 2}) \in Nat
         /\ ScenarioCalls(rule) <= Max({BurstSize, IrsfCalls, 2})
<1> DEFINE sizes == {BurstSize, IrsfCalls, 2}
<1>1. BurstSize \in Nat /\ IrsfCalls \in Nat
  BY TrafficAssumption
<1>2. \E m \in sizes : \A x \in sizes : m >= x
  BY <1>1
<1>3. Max(sizes) \in sizes /\ \A x \in sizes : Max(sizes) >= x
  BY <1>2, Zenon DEF Max
<1>4. ScenarioCalls(rule) \in sizes
  BY ScenarioSizes DEF Rules
<1> QED BY <1>1, <1>3, <1>4

\* TrafficTypeOK: a scenario has calls left as long as it is under way, and ended with
\* a call of the log.
THEOREM TrafficTypeSafety == TrafficSpec => []TrafficTypeOK
<1>1. ASSUME TrafficInv PROVE TrafficTypeOK
  <2>1. PlayTypeOK
    BY <1>1, PlayTyped DEF TrafficInv
  <2>2. ASSUME injecting # None
        PROVE  /\ injecting.rule \in Rules
               /\ injecting.left \in 1 .. Max({BurstSize, IrsfCalls, 2})
               /\ injecting.whole \in BOOLEAN
    <3>1. /\ injecting.rule \in Rules /\ injecting.whole \in BOOLEAN
          /\ injecting.left \in Nat \ {0}
          /\ injecting.left <= ScenarioCalls(injecting.rule)
      BY <1>1, <2>2 DEF TrafficInv, UnderWay
    <3> QED BY <3>1, LargestScenario, ScenarioSizes
  <2>3. ASSUME injected # None
        PROVE  injected.rule \in Rules /\ injected.upto \in 1 .. Len(log)
    <3>1. Len(log) \in Nat
      BY <1>1 DEF TrafficInv, MemoryFollowsLog, LogOK
    <3> QED BY <1>1, <2>3, <3>1 DEF TrafficInv, Finished
  <2> QED BY <2>1, <2>2, <2>3 DEF TrafficTypeOK
<1>2. TrafficInv => TrafficTypeOK
  BY <1>1
<1> QED BY <1>2, TrafficInvHolds, PTL

\* ScenarioFlagged: a scenario that got through, no two of its calls more than Pause
\* apart, is flagged by its last call, or was less than a cooldown before, as long as
\* the service lags no more than a window.
THEOREM ScenarioSafety == TrafficSpec => []ScenarioFlagged
<1>1. ASSUME TrafficInv PROVE ScenarioFlagged
  <2> SUFFICES ASSUME injected # None,
                      NEW rule, rule = injected.rule, NEW u, u = injected.upto
               PROVE  /\ \E i \in 1 .. u :
                           rule \in log[i].scored /\ log[u].at - log[i].at < Cooldown
                      /\ \E i \in 1 .. u :
                           /\ rule \in log[i].emitted
                           /\ Now(log[u]) - Now(log[i]) < Cooldown
    BY DEF ScenarioFlagged
  <2>1. LogOK /\ Finished
    BY <1>1 DEF TrafficInv, MemoryFollowsLog
  <2>2. PICK n \in Nat : n = Len(log)
    BY <2>1 DEF LogOK
  <2>3. rule \in Rules /\ u \in 1 .. n /\ u \in Nat /\ u \in 1 .. u /\ rule \in Triggered(u)
    BY <2>1, <2>2 DEF Finished
  <2>4. Cooldown \in Nat \ {0}
    BY TTLAssumption
  <2>5. /\ log[u].scored = DueByStart(u) /\ log[u].emitted = Due(u)
        /\ \A j \in 1 .. u : /\ log[j].at \in Nat /\ Now(log[j]) \in Nat
    BY <2>1, <2>2, <2>3, OutcomeTypes, InOrder DEF LogOK, Calls
  <2>6. \E i \in 1 .. u : rule \in log[i].scored /\ log[u].at - log[i].at < Cooldown
    <3>1. CASE rule \in log[u].scored
      BY <2>3, <2>4, <2>5, <3>1
    <3>2. CASE rule \notin DueByStart(u)
      <4>1. PICK j \in 1 .. u - 1 :
              rule \in log[j].scored /\ ~ (log[u].at - log[j].at >= Cooldown)
        BY <2>3, <3>2 DEF DueByStart
      <4>2. j \in 1 .. u
        BY <2>3, <4>1
      <4> QED BY <2>3, <2>4, <2>5, <4>1, <4>2
    <3> QED BY <2>5, <3>1, <3>2
  <2>7. \E i \in 1 .. u : rule \in log[i].emitted /\ Now(log[u]) - Now(log[i]) < Cooldown
    <3>1. CASE rule \in log[u].emitted
      BY <2>3, <2>4, <2>5, <3>1
    <3>2. CASE rule \notin Due(u)
      <4>1. PICK j \in 1 .. u - 1 :
              rule \in log[j].emitted /\ ~ (Now(log[u]) - Now(log[j]) >= Cooldown)
        BY <2>3, <3>2 DEF Due
      <4>2. j \in 1 .. u
        BY <2>3, <4>1
      <4> QED BY <2>3, <2>4, <2>5, <4>1, <4>2
    <3> QED BY <2>5, <3>1, <3>2
  <2> QED BY <2>6, <2>7
<1>2. TrafficInv => ScenarioFlagged
  BY <1>1
<1> QED BY <1>2, TrafficInvHolds, PTL


=============================================================================
