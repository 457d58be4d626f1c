-------------------------- MODULE PlaygroundProofs --------------------------
(***************************************************************************)
(* Proofs about Playground: one more call, whatever it is, keeps the memory *)
(* of both sides in step with the log, and so their alerts.                *)
(***************************************************************************)
EXTENDS Playground, TariffProofs

-----------------------------------------------------------------------------
(***************************************************************************)
(* The call that is next, and the log with it.                             *)
(***************************************************************************)

CallTypeOK(call) ==
  /\ call.tariff \in Tariffs /\ call.cell \in Cells \cup {UnknownCell}
  /\ call.minutes \in Minutes /\ call.at \in Nat /\ call.lag \in Lags

\* call comes after the n calls of the log.
Next(n, call) ==
  /\ n = Len(log) /\ n < MaxCalls
  /\ CallTypeOK(call)
  /\ \A i \in 1 .. n : log[i].at <= call.at /\ Now(log[i]) <= Now(call)

Appended(n, call) ==
  /\ Score(n + 1, call)
  /\ Handle(n + 1, call)
  /\ log' = Append(log, Outcome(call, EngineAlerts(n + 1, call),
                                      ServiceAlerts(n + 1, call)))

LEMMA OutcomeTypes ==
  ASSUME LogOK, NEW i \in 1 .. Len(log)
  PROVE  /\ i \in Calls /\ log[i] \in Outcomes
         /\ log[i].at \in Nat /\ log[i].lag \in Nat /\ log[i].lag \in Lags
         /\ Now(log[i]) = log[i].at + log[i].lag /\ Now(log[i]) \in Nat
         /\ Cost(log[i]) \in Nat /\ Premium(log[i]) \in BOOLEAN
<1>1. i \in Calls /\ log[i] \in Outcomes
  BY DEF LogOK, Calls
<1>2. log[i].minutes \in Nat /\ log[i].tariff.rate \in Nat
      /\ log[i].tariff.premium \in BOOLEAN
  BY <1>1, CallsAssumption DEF Outcomes, Tariffs
<1>3. Cost(log[i]) \in Nat
  BY <1>2 DEF Cost
<1>4. log[i].lag \in Lags /\ log[i].at \in Nat
  BY <1>1 DEF Outcomes
<1> QED BY <1>1, <1>2, <1>3, <1>4, TTLAssumption DEF Now, Premium

LEMMA CallTypes ==
  ASSUME NEW call, CallTypeOK(call)
  PROVE  /\ call.at \in Nat /\ call.lag \in Nat /\ call.lag \in Lags
         /\ Now(call) = call.at + call.lag /\ Now(call) \in Nat
         /\ Cost(call) \in Nat /\ Premium(call) \in BOOLEAN
<1>1. call.minutes \in Nat /\ call.tariff.rate \in Nat
      /\ call.tariff.premium \in BOOLEAN
  BY CallsAssumption DEF CallTypeOK, Tariffs
<1>2. Cost(call) \in Nat
  BY <1>1 DEF Cost
<1> QED BY <1>1, <1>2, TTLAssumption DEF Now, Premium, CallTypeOK

\* The log is ordered.
LEMMA InOrder ==
  ASSUME LogOK, NEW i \in 1 .. Len(log), NEW j \in 1 .. i
  PROVE  /\ j \in 1 .. Len(log)
         /\ log[j].at <= log[i].at /\ Now(log[j]) <= Now(log[i])
BY DEF LogOK, Calls

LEMMA NextIsTyped ==
  ASSUME LogOK, NEW callee, NEW cell \in Cells \cup {UnknownCell},
         NEW minutes \in Minutes, NEW gap \in Nat, NEW lag \in Lags,
         Call(callee, cell, minutes, gap, lag)
  PROVE  LET call == NewCall(callee, cell, minutes, gap, lag)
         IN  Next(Len(log), call) /\ Appended(Len(log), call)
<1> DEFINE call == NewCall(callee, cell, minutes, gap, lag)
<1>1. log \in Seq(Outcomes) /\ Len(log) \in Nat
  BY DEF LogOK
<1>2. LastStart \in Nat /\ \A i \in 1 .. Len(log) : log[i].at <= LastStart
  <2>1. CASE log = <<>>
    BY <2>1 DEF LastStart
  <2>2. CASE log # <<>>
    <3>1. Len(log) \in 1 .. Len(log)
      BY <1>1, <2>2
    <3>2. LastStart = log[Len(log)].at
      BY <2>2 DEF LastStart, Last
    <3> QED BY <3>1, <3>2, InOrder, OutcomeTypes
  <2> QED BY <2>1, <2>2
<1>3. CallTypeOK(call) /\ call.at = LastStart + gap
  BY <1>2, LookupType DEF CallTypeOK, NewCall
<1>4. ASSUME NEW i \in 1 .. Len(log)
      PROVE  log[i].at <= call.at /\ Now(log[i]) <= Now(call)
  <2>1. log[i].at \in Nat
    BY OutcomeTypes
  <2>2. log # <<>> /\ Len(log) \in 1 .. Len(log)
    BY <1>1
  <2>3. Now(log[Len(log)]) <= Now(call)
    BY <2>2 DEF Call, Last
  <2>4. Now(log[i]) <= Now(log[Len(log)])
    BY <2>2, InOrder
  <2>5. Now(log[i]) \in Nat /\ Now(log[Len(log)]) \in Nat /\ Now(call) \in Nat
    <3> HIDE DEF call
    <3> QED BY <1>3, <2>2, OutcomeTypes, CallTypes
  <2> HIDE DEF call
  <2> QED BY <1>2, <1>3, <2>1, <2>3, <2>4, <2>5
<1>5. Len(log) < MaxCalls /\ Appended(Len(log), call)
  BY Zenon DEF Call, Appended
<1> HIDE DEF call
<1>6. Next(Len(log), call)
  BY <1>3, <1>4, <1>5 DEF Next
<1> QED BY <1>5, <1>6 DEF call

-----------------------------------------------------------------------------
(***************************************************************************)
(* The log with one more call.                                             *)
(***************************************************************************)

LEMMA NewLog ==
  ASSUME LogOK, NEW n, NEW call, Next(n, call), Appended(n, call)
  PROVE  /\ n \in Nat /\ Len(log) = n /\ Len(log') = n + 1
         /\ log' \in Seq(Outcomes)
         /\ \A i \in 1 .. n : log'[i] = log[i] /\ i # n + 1
         /\ log'[n + 1] = Outcome(call, EngineAlerts(n + 1, call),
                                        ServiceAlerts(n + 1, call))
<1> DEFINE out == Outcome(call, EngineAlerts(n + 1, call), ServiceAlerts(n + 1, call))
<1>1. log \in Seq(Outcomes) /\ n = Len(log)
  BY DEF LogOK, Next
<1>2. EngineAlerts(n + 1, call) \subseteq Rules
  BY DEF EngineAlerts, EngineVerdicts
<1>3. ServiceAlerts(n + 1, call) \subseteq Rules
  BY DEF ServiceAlerts
<1>4. out \in Outcomes
  BY <1>2, <1>3 DEF Outcome, Outcomes, Next, CallTypeOK
<1>5. log' = Append(log, out)
  BY DEF Appended
<1> HIDE DEF out
<1>6. /\ Len(log') = Len(log) + 1 /\ log' \in Seq(Outcomes)
      /\ \A i \in 1 .. Len(log) : log'[i] = log[i]
      /\ log'[Len(log) + 1] = out
  BY <1>1, <1>4, <1>5
<1> QED BY <1>1, <1>6 DEF out

\* The new call is as it was made; what was before it is as it was.
LEMMA NewCallInLog ==
  ASSUME LogOK, NEW n, NEW call, Next(n, call), Appended(n, call)
  PROVE  LET c == log'[n + 1]
         IN  /\ c.at = call.at /\ c.lag = call.lag /\ c.cell = call.cell
             /\ c.minutes = call.minutes /\ c.tariff = call.tariff
             /\ Cost(c) = Cost(call) /\ Premium(c) = Premium(call)
             /\ Located(c) = Located(call) /\ Location(c) = Location(call)
             /\ Now(c) = Now(call)
             /\ c.scored = EngineAlerts(n + 1, call)
             /\ c.emitted = ServiceAlerts(n + 1, call)
<1>1. PICK c : c = log'[n + 1]
  OBVIOUS
<1>2. /\ c.at = call.at /\ c.lag = call.lag /\ c.cell = call.cell
      /\ c.minutes = call.minutes /\ c.tariff = call.tariff
      /\ c.scored = EngineAlerts(n + 1, call) /\ c.emitted = ServiceAlerts(n + 1, call)
  <2>1. c = Outcome(call, EngineAlerts(n + 1, call), ServiceAlerts(n + 1, call))
    BY <1>1, NewLog
  <2> QED BY <2>1 DEF Outcome
<1>3. /\ Cost(c) = Cost(call) /\ Premium(c) = Premium(call)
      /\ Located(c) = Located(call) /\ Location(c) = Location(call)
      /\ Now(c) = Now(call)
  BY <1>2, Zenon DEF Cost, Premium, Located, Location, Now
<1> QED BY <1>1, <1>2, <1>3, Zenon

LEMMA OldWindows ==
  ASSUME LogOK, NEW n, NEW call, Next(n, call), Appended(n, call),
         NEW i \in 1 .. n
  PROVE  /\ \A window : Within(i, window)' = Within(i, window)
         /\ PremiumWithin(i)' = PremiumWithin(i)
         /\ PremiumSpend(i)' = PremiumSpend(i)
<1>1. n \in Nat /\ \A j \in 1 .. i : log'[j] = log[j]
  BY NewLog
<1>2. ASSUME NEW window PROVE Within(i, window)' = Within(i, window)
  BY <1>1 DEF Within
<1>3. PremiumWithin(i)' = PremiumWithin(i)
  BY <1>1 DEF PremiumWithin, Within
<1>4. \A j \in PremiumWithin(i) : Cost(log[j])' = Cost(log[j])
  BY <1>1 DEF PremiumWithin, Within, Cost
<1>5. PremiumSpend(i)' = PremiumSpend(i)
  <2>1. [j \in PremiumWithin(i) |-> Cost(log[j])]'
          = [j \in PremiumWithin(i) |-> Cost(log[j])]
    BY <1>3, <1>4
  <2> QED BY <2>1, Zenon DEF PremiumSpend
<1> QED BY <1>2, <1>3, <1>5

LEMMA NewWindow ==
  ASSUME LogOK, NEW n, NEW call, Next(n, call), Appended(n, call),
         NEW window \in Nat
  PROVE  \A j : j \in Within(n + 1, window)' <=>
           \/ j = n + 1 /\ window > 0
           \/ j \in 1 .. n /\ call.at - log[j].at < window
<1>1. /\ n \in Nat /\ call.at \in Nat /\ log'[n + 1].at = call.at
      /\ \A j \in 1 .. n : log'[j] = log[j] /\ j # n + 1
  BY NewLog, NewCallInLog, CallTypes DEF Next
<1>2. ASSUME NEW j
      PROVE  j \in Within(n + 1, window)' <=>
               j \in 1 .. n + 1 /\ call.at - log'[j].at < window
  BY <1>1 DEF Within
<1>3. \A j : j \in 1 .. n + 1 <=> j = n + 1 \/ j \in 1 .. n
  BY <1>1
<1> QED BY <1>1, <1>2, <1>3


-----------------------------------------------------------------------------
(***************************************************************************)
(* The windows: what has left one never comes back.                        *)
(***************************************************************************)

LEMMA WindowShrinks ==
  ASSUME LogOK, NEW n, NEW call, Next(n, call), n \in Nat, n = Len(log),
         NEW p \in 1 .. n, NEW j \in 1 .. p, NEW window \in Nat,
         call.at - log[j].at < window
  PROVE  j \in Within(p, window)
<1>1. /\ j \in 1 .. n /\ log[j].at \in Nat /\ log[p].at \in Nat /\ call.at \in Nat
      /\ log[p].at <= call.at
  BY OutcomeTypes, CallTypes DEF Next
<1>2. log[p].at - log[j].at < window
  BY <1>1
<1> QED BY <1>2 DEF Within

\* Twice the window is long enough for a key, for the lag is at most one.
LEMMA ExpiredIsOld ==
  ASSUME LogOK, NEW n, NEW call, Next(n, call), n \in Nat, n = Len(log),
         NEW p \in 1 .. n, NEW window \in {VelocityWindow, SpendWindow},
         ~ (WindowUntil(log[p], window) > Now(call)),
         NEW j \in 1 .. p
  PROVE  ~ (call.at - log[j].at < window)
<1>1. /\ log[j].at \in Nat /\ log[j].at <= log[p].at
      /\ log[p].at \in Nat /\ log[p].lag \in Nat /\ Now(log[p]) = log[p].at + log[p].lag
      /\ call.at \in Nat /\ call.lag \in Nat /\ Now(call) = call.at + call.lag
  BY OutcomeTypes, CallTypes, InOrder DEF Next
<1>2. window \in Nat /\ call.lag <= window
  BY CallTypes, RulesAssumption, TTLAssumption DEF Next
<1>3. Now(log[p]) + 2 * window <= Now(call)
  BY <1>1, <1>2 DEF WindowUntil
<1>4. log[p].at + log[p].lag + 2 * window <= call.at + call.lag
  BY <1>1, <1>3
<1>5. ASSUME NEW x \in Nat, NEW y \in Nat, NEW k \in Nat, NEW u \in Nat, NEW v \in Nat,
             NEW w \in Nat, x <= y, v <= w, y + k + 2 * w <= u + v
      PROVE  ~ (u - x < w)
  BY <1>5
<1> QED BY <1>1, <1>2, <1>4, <1>5

Entry(M, A, j) == [member |-> M[j], score |-> A[j]]

Entries(M, A, s) == {Entry(M, A, j) : j \in s}

\* ZADD and ZREMRANGEBYSCORE on the entries s of a list.
LEMMA SlideEntries ==
  ASSUME NEW n \in Nat, NEW A, \A j \in 1 .. n + 1 : A[j] \in Nat,
         NEW M, \A j, k \in 1 .. n + 1 : M[j] = M[k] => j = k,
         NEW s \in SUBSET (1 .. n), NEW window \in Nat,
         NEW t, \A j : j \in t <=> \/ j = n + 1 /\ window > 0
                                   \/ j \in s /\ A[n + 1] - A[j] < window
  PROVE  Slide(Entries(M, A, s), M[n + 1], A[n + 1], window)
           = Entries(M, A, t)
<1> DEFINE z == {Entry(M, A, j) : j \in s}
           slid == Slide(Entries(M, A, s), M[n + 1], A[n + 1], window)
<1>0. /\ n + 1 \in 1 .. n + 1 /\ s \subseteq 1 .. n + 1 /\ n + 1 \notin s
      /\ A[n + 1] \in Nat
  OBVIOUS
<1>1. ASSUME NEW e
      PROVE  e \in slid <=>
               /\ e = Entry(M, A, n + 1) \/ (e \in z /\ e.member # M[n + 1])
               /\ e.score < 0 \/ e.score > A[n + 1] - window
  <2>1. Entries(M, A, s) = z
    BY DEF Entries
  <2> HIDE DEF z
  <2> QED BY <2>1 DEF Slide, ZAdd, ZRemRangeByScore, Entry
<1>2. \A j : Entry(M, A, j).member = M[j] /\ Entry(M, A, j).score = A[j]
  BY DEF Entry
<1>3. ASSUME NEW j \in s
      PROVE  Entry(M, A, j) \in slid <=> A[n + 1] - A[j] < window
  <2>1. Entry(M, A, j) \in z /\ M[j] # M[n + 1] /\ A[j] \in Nat
    BY <1>0
  <2>2. Entry(M, A, j) # Entry(M, A, n + 1)
    BY <1>2, <2>1
  <2> HIDE DEF slid, z
  <2> QED BY <1>0, <1>1, <1>2, <2>1, <2>2
<1>4. Entry(M, A, n + 1) \in slid <=> window > 0
  <2> DEFINE e == Entry(M, A, n + 1)
  <2>1. e.member = M[n + 1] /\ e.score = A[n + 1]
    BY <1>2
  <2>2. e \in slid <=> e.score < 0 \/ e.score > A[n + 1] - window
    <3> HIDE DEF slid, z
    <3>1. e = Entry(M, A, n + 1)
      OBVIOUS
    <3> HIDE DEF e
    <3> QED BY <1>1, <3>1
  <2> HIDE DEF e, slid, z
  <2>3. e \in slid <=> window > 0
    BY <1>0, <2>1, <2>2
  <2> QED BY <2>3 DEF e
<1>5. \A e \in slid : \E j \in s \cup {n + 1} : e = Entry(M, A, j)
  <2>1. \A e \in z : \E j \in s : e = Entry(M, A, j)
    OBVIOUS
  <2> HIDE DEF slid, z
  <2> QED BY <1>1, <2>1
<1> HIDE DEF slid
<1>6. slid = {Entry(M, A, j) : j \in t}
  BY <1>3, <1>4, <1>5
<1> QED BY <1>6 DEF slid, Entries

LEMMA FiniteRange ==
  ASSUME NEW n \in Nat, NEW s, s \subseteq 1 .. n + 1
  PROVE  IsFiniteSet(s)
<1>1. IsFiniteSet(1 .. n + 1)
  BY FS_Interval
<1> QED BY <1>1, FS_Subset

\* Entries are as many as the calls they stand for, and sum up to the same.
LEMMA EntriesCounted ==
  ASSUME NEW s, IsFiniteSet(s), NEW A,
         NEW M, \A j, k \in s : M[j] = M[k] => j = k
  PROVE  /\ [j \in s |-> Entry(M, A, j)] \in Bijection(s, Entries(M, A, s))
         /\ IsFiniteSet(Entries(M, A, s))
         /\ Cardinality(Entries(M, A, s)) = Cardinality(s)
<1> DEFINE h == [j \in s |-> Entry(M, A, j)]
<1>1. \A j, k \in s : h[j] = h[k] => j = k
  BY DEF Entry
<1>2. h \in [s -> Entries(M, A, s)] /\ \A e \in Entries(M, A, s) : \E j \in s : h[j] = e
  BY DEF Entries
<1>3. h \in Bijection(s, Entries(M, A, s))
  BY <1>1, <1>2 DEF Bijection, Injection, Surjection, IsInjective
<1>4. ExistsBijection(s, Entries(M, A, s))
  BY <1>3 DEF ExistsBijection
<1> HIDE DEF h
<1>5. IsFiniteSet(Entries(M, A, s)) /\ Cardinality(Entries(M, A, s)) = Cardinality(s)
  BY <1>4, FS_Bijection
<1> QED BY <1>3, <1>5 DEF h

LEMMA EntriesSummed ==
  ASSUME NEW s, IsFiniteSet(s), NEW A,
         NEW M, \A j, k \in s : M[j] = M[k] => j = k,
         NEW f \in [s -> Nat], \A j \in s : M[j].cost = f[j]
  PROVE  SpendIn(Entries(M, A, s)) = SumFunction(f)
<1> DEFINE z == Entries(M, A, s)
           g == [e \in z |-> e.member.cost]
           h == [j \in s |-> Entry(M, A, j)]
<1>1. h \in Bijection(s, z) /\ IsFiniteSet(z)
  BY EntriesCounted
<1>2. \A j \in s : h[j] \in z /\ h[j].member = M[j]
  BY DEF Entry, Entries
<1>3. \A e \in z : \E j \in s : e = h[j]
  BY DEF Entries
<1> HIDE DEF z, h
<1>4. \A j \in s : f[j] = g[h[j]]
  BY <1>2
<1>5. g \in [z -> Nat]
  BY <1>2, <1>3
<1> HIDE DEF g
<1>6. SumFunction(f) = SumFunction(g)
  BY <1>1, <1>4, <1>5, SumRenamed
<1> QED BY <1>6, Zenon DEF SpendIn, g, z

\* A key's value, when it is read, or what is left of it when it is gone, makes the
\* same window with the new call.
LEMMA ReadWindow ==
  ASSUME LogOK, NEW n, NEW call, Next(n, call), Appended(n, call),
         NEW p \in 0 .. n, NEW window \in {VelocityWindow, SpendWindow},
         NEW recent, recent \subseteq Within(p, window), NEW M,
         \A j, k \in 1 .. n + 1 : M[j] = M[k] => j = k,
         NEW A, \A j \in 1 .. n + 1 : A[j] = log'[j].at,
         NEW next, \A j : j \in next <=>
                     \/ j = n + 1 /\ window > 0
                     \/ j \in recent /\ call.at - log[j].at < window,
         NEW key, key = Key(Entries(M, A, recent),
                            IF p = 0 THEN 0 ELSE WindowUntil(log[p], window))
  PROVE  Slide(Get(key, {}, call), M[n + 1], call.at, window)
           = Entries(M, A, next)
<1>1. /\ n \in Nat /\ n = Len(log) /\ window \in Nat
      /\ \A j \in 1 .. n : log'[j] = log[j] /\ log[j].at \in Nat
      /\ log'[n + 1].at = call.at /\ call.at \in Nat
  BY NewLog, NewCallInLog, OutcomeTypes, CallTypes, RulesAssumption DEF Next
<1>2. /\ A[n + 1] = call.at /\ \A j \in 1 .. n + 1 : A[j] \in Nat
      /\ \A j \in 1 .. n : A[j] = log[j].at
  BY <1>1
<1>3. recent \in SUBSET (1 .. n)
  BY <1>1 DEF Within
<1>6. n \in Nat /\ window \in Nat
  BY <1>1
<1>4. CASE key.until > Now(call)
  <2>1. Get(key, {}, call) = Entries(M, A, recent)
    BY <1>4 DEF Get, Key
  <2>2. \A j : j \in next <=> \/ j = n + 1 /\ window > 0
                              \/ j \in recent /\ A[n + 1] - A[j] < window
    BY <1>2, <1>3
  <2>3. Slide(Entries(M, A, recent), M[n + 1], A[n + 1], window)
           = Entries(M, A, next)
    BY <1>2, <1>3, <1>6, <2>2, SlideEntries
  <2> QED BY <1>2, <2>1, <2>3
<1>5. CASE ~ (key.until > Now(call))
  <2>1. Get(key, {}, call) = Entries(M, A, {})
    BY <1>5 DEF Get, Key, Entries
  <2>2. \A j \in recent : ~ (call.at - log[j].at < window)
    <3>1. CASE p = 0
      BY <3>1 DEF Within
    <3>2. CASE p # 0
      <4>1. ~ (WindowUntil(log[p], window) > Now(call)) /\ p \in 1 .. n
        BY <1>1, <1>5, <3>2 DEF Key
      <4>2. \A j \in recent : j \in 1 .. p
        BY DEF Within
      <4> QED BY <1>1, <4>1, <4>2, ExpiredIsOld
    <3> QED BY <3>1, <3>2
  <2>3. \A j : j \in next <=> \/ j = n + 1 /\ window > 0
                              \/ j \in {} /\ A[n + 1] - A[j] < window
    BY <2>2
  <2>4. Slide(Entries(M, A, {}), M[n + 1], A[n + 1], window)
           = Entries(M, A, next)
    <3>1. {} \in SUBSET (1 .. n)
      OBVIOUS
    <3> QED BY <1>2, <1>6, <2>3, <3>1, SlideEntries
  <2> QED BY <1>2, <2>1, <2>4
<1> QED BY <1>4, <1>5


-----------------------------------------------------------------------------
(***************************************************************************)
(* The calls of the velocity window, on both sides.                        *)
(***************************************************************************)

LEMMA EngineVelocity ==
  ASSUME LogOK, VelocityFromLog, NEW n, NEW call, Next(n, call), Appended(n, call)
  PROVE  VelocityWindowWith(n + 1, call)
           = [j \in Within(n + 1, VelocityWindow)' |-> log'[j].at]
<1> DEFINE new == Within(n + 1, VelocityWindow)'
           old == Within(n, VelocityWindow)
           w == Put(velWin, n + 1, call.at)
<1>1. /\ n \in Nat /\ n = Len(log) /\ VelocityWindow \in Nat
      /\ \A j \in 1 .. n : log'[j] = log[j] /\ j # n + 1 /\ log[j].at \in Nat
      /\ log'[n + 1].at = call.at /\ call.at \in Nat
  BY NewLog, NewCallInLog, OutcomeTypes, CallTypes, RulesAssumption DEF Next
<1>2. \A j : j \in new <=>
        \/ j = n + 1 /\ VelocityWindow > 0
        \/ j \in 1 .. n /\ call.at - log[j].at < VelocityWindow
  BY <1>1, NewWindow
<1>3. velWin = [j \in old |-> log[j].at] /\ old \subseteq 1 .. n
  BY <1>1 DEF VelocityFromLog, Within
<1>4. \A j \in 1 .. n : call.at - log[j].at < VelocityWindow => j \in old
  <2> SUFFICES ASSUME NEW j \in 1 .. n, call.at - log[j].at < VelocityWindow
               PROVE  j \in old
    OBVIOUS
  <2>1. n \in 1 .. n
    BY <1>1
  <2> QED BY <1>1, <2>1, WindowShrinks
<1> HIDE DEF new, old
<1>5. /\ DOMAIN w = old \cup {n + 1} /\ w[n + 1] = call.at
      /\ \A j \in old : w[j] = log[j].at
  BY <1>1, <1>3 DEF Put
<1> HIDE DEF w
<1>6. {j \in DOMAIN w : w[j] > call.at - VelocityWindow} = new
  <2>1. \A j \in new : j \in old \cup {n + 1}
    BY <1>2, <1>4
  <2>2. n + 1 \in new <=> call.at > call.at - VelocityWindow
    BY <1>1, <1>2
  <2>3. \A j \in old : j \in new <=> w[j] > call.at - VelocityWindow
    BY <1>1, <1>2, <1>3, <1>5
  <2>4. \A j \in DOMAIN w : j \in new <=> w[j] > call.at - VelocityWindow
    BY <1>5, <2>2, <2>3
  <2> QED BY <1>5, <2>1, <2>4
<1>7. \A j \in new : w[j] = log'[j].at
  BY <1>1, <1>2, <1>4, <1>5
<1>8. VelocityWindowWith(n + 1, call) = [j \in new |-> w[j]]
  BY <1>6, Zenon DEF VelocityWindowWith, Restrict, w
<1> QED BY <1>7, <1>8 DEF new

LEMMA ServiceVelocity ==
  ASSUME LogOK, VelocityFromLog, NEW n, NEW call, Next(n, call), Appended(n, call)
  PROVE  /\ VelocityKey(n + 1, call) = CountEntries(Within(n + 1, VelocityWindow))'
         /\ Cardinality(VelocityKey(n + 1, call))
              = Cardinality(Within(n + 1, VelocityWindow)')
<1> DEFINE new == Within(n + 1, VelocityWindow)'
           old == Within(n, VelocityWindow)
           M == [j \in 1 .. n + 1 |-> j]
           A == [j \in 1 .. n + 1 |-> log'[j].at]
<1>1. /\ n \in Nat /\ n = Len(log) /\ VelocityWindow \in Nat
      /\ \A j \in 1 .. n : log'[j] = log[j]
  BY NewLog, RulesAssumption DEF Next
<1>2. \A j : j \in new <=>
        \/ j = n + 1 /\ VelocityWindow > 0
        \/ j \in 1 .. n /\ call.at - log[j].at < VelocityWindow
  BY <1>1, NewWindow
<1>3. old \subseteq 1 .. n
  BY <1>1 DEF Within
<1>4. \A j \in 1 .. n : call.at - log[j].at < VelocityWindow => j \in old
  <2> SUFFICES ASSUME NEW j \in 1 .. n, call.at - log[j].at < VelocityWindow
               PROVE  j \in old
    OBVIOUS
  <2>1. n \in 1 .. n
    BY <1>1
  <2> QED BY <1>1, <2>1, WindowShrinks
<1>5. \A j : j \in new <=>
        \/ j = n + 1 /\ VelocityWindow > 0
        \/ j \in old /\ call.at - log[j].at < VelocityWindow
  BY <1>2, <1>3, <1>4
<1>6. /\ \A j, k \in 1 .. n + 1 : M[j] = M[k] => j = k
      /\ \A j \in 1 .. n + 1 : A[j] = log'[j].at
      /\ M[n + 1] = n + 1
  BY <1>1
<1>7. CountEntries(old) = Entries(M, A, old)
  <2>1. \A j \in old : M[j] = j /\ A[j] = log[j].at
    BY <1>1, <1>3
  <2> HIDE DEF M, A, old
  <2> QED BY <2>1 DEF CountEntries, Entries, Entry
<1>8. CountEntries(Within(n + 1, VelocityWindow))' = Entries(M, A, new)
  <2>1. new \subseteq 1 .. n + 1
    BY <1>1, <1>2
  <2> QED BY <2>1 DEF CountEntries, Entries, Entry
<1> HIDE DEF M, A, new
<1>9. redis.velocity = Key(Entries(M, A, old),
                           IF n = 0 THEN 0 ELSE WindowUntil(log[n], VelocityWindow))
  BY <1>1, <1>7, Zenon DEF VelocityFromLog
<1>10. n \in 0 .. n /\ VelocityWindow \in {VelocityWindow, SpendWindow}
  BY <1>1
<1>11. old \subseteq Within(n, VelocityWindow)
  OBVIOUS
<1> HIDE DEF old
<1>12. Slide(Get(redis.velocity, {}, call), M[n + 1], call.at, VelocityWindow)
         = Entries(M, A, new)
  BY <1>5, <1>6, <1>9, <1>10, <1>11, ReadWindow
<1>13. Cardinality(Entries(M, A, new)) = Cardinality(new)
  <2>1. new \subseteq 1 .. n + 1
    BY <1>1, <1>2
  <2>2. IsFiniteSet(new)
    BY <1>1, <2>1, FiniteRange
  <2>3. \A j, k \in new : M[j] = M[k] => j = k
    BY <1>6, <2>1
  <2> QED BY <2>2, <2>3, EntriesCounted
<1>14. VelocityKey(n + 1, call) = Entries(M, A, new)
  BY <1>6, <1>12, Zenon DEF VelocityKey
<1> QED BY <1>8, <1>13, <1>14, Zenon DEF new


-----------------------------------------------------------------------------
(***************************************************************************)
(* Likewise the spend window, which only premium calls move.               *)
(***************************************************************************)

LEMMA NewPremiumWindow ==
  ASSUME LogOK, NEW n, NEW call, Next(n, call), Appended(n, call),
         NEW p \in 0 .. n, SpendSince(p), Premium(call)
  PROVE  \A j : j \in PremiumWithin(n + 1)' <=>
           \/ j = n + 1 /\ SpendWindow > 0
           \/ j \in PremiumWithin(p) /\ call.at - log[j].at < SpendWindow
<1>1. /\ n \in Nat /\ n = Len(log) /\ SpendWindow \in Nat
      /\ \A j \in 1 .. n : log'[j] = log[j] /\ j # n + 1
      /\ Premium(log'[n + 1]) = TRUE
  BY NewLog, NewCallInLog, RulesAssumption DEF Next
<1>2. \A j : j \in Within(n + 1, SpendWindow)' <=>
        \/ j = n + 1 /\ SpendWindow > 0
        \/ j \in 1 .. n /\ call.at - log[j].at < SpendWindow
  BY <1>1, NewWindow
<1>3. \A j : j \in PremiumWithin(n + 1)' <=>
        j \in Within(n + 1, SpendWindow)' /\ Premium(log'[j])
  BY DEF PremiumWithin
<1>4. ASSUME NEW j \in 1 .. n, Premium(log[j]), call.at - log[j].at < SpendWindow
      PROVE  j \in PremiumWithin(p)
  <2>1. p \in 1 .. n /\ j \in 1 .. p
    BY <1>1, <1>4 DEF SpendSince
  <2>2. j \in Within(p, SpendWindow)
    BY <1>1, <1>4, <2>1, WindowShrinks
  <2> QED BY <1>4, <2>2 DEF PremiumWithin
<1>5. \A j \in PremiumWithin(p) : j \in 1 .. n /\ Premium(log[j])
  BY <1>1 DEF PremiumWithin, Within
<1>6. \A j \in 1 .. n : Premium(log'[j]) <=> Premium(log[j])
  BY <1>1
<1> QED BY <1>1, <1>2, <1>3, <1>4, <1>5, <1>6

LEMMA EngineSpend ==
  ASSUME LogOK, NEW n, NEW call, Next(n, call), Appended(n, call),
         NEW p \in 0 .. n, SpendSince(p), Premium(call)
  PROVE  SpendWindowWith(n + 1, call)
           = [j \in PremiumWithin(n + 1)' |->
                [at |-> log'[j].at, cost |-> Cost(log'[j])]]
<1> DEFINE new == PremiumWithin(n + 1)'
           old == PremiumWithin(p)
           entry == [at |-> call.at, cost |-> Cost(call)]
           w == Put(spendWin, n + 1, entry)
<1>1. /\ n \in Nat /\ n = Len(log) /\ SpendWindow \in Nat
      /\ \A j \in 1 .. n : log'[j] = log[j] /\ j # n + 1 /\ log[j].at \in Nat
      /\ log'[n + 1].at = call.at /\ call.at \in Nat
      /\ Cost(log'[n + 1]) = Cost(call)
  BY NewLog, NewCallInLog, OutcomeTypes, CallTypes, RulesAssumption DEF Next
<1>2. \A j : j \in new <=>
        \/ j = n + 1 /\ SpendWindow > 0
        \/ j \in old /\ call.at - log[j].at < SpendWindow
  BY NewPremiumWindow
<1>3. /\ spendWin = [j \in old |-> [at |-> log[j].at, cost |-> Cost(log[j])]]
      /\ old \subseteq 1 .. n
  BY <1>1 DEF SpendSince, PremiumWithin, Within
<1> HIDE DEF new, old, entry
<1>4. /\ DOMAIN w = old \cup {n + 1} /\ w[n + 1] = entry
      /\ \A j \in old : w[j] = [at |-> log[j].at, cost |-> Cost(log[j])]
  BY <1>1, <1>3 DEF Put
<1> HIDE DEF w
<1>5. w[n + 1].at = call.at /\ \A j \in old : w[j].at = log[j].at
  BY <1>4 DEF entry
<1>6. {j \in DOMAIN w : w[j].at > call.at - SpendWindow} = new
  <2>1. \A j \in new : j \in old \cup {n + 1}
    BY <1>2
  <2>2. n + 1 \in new <=> call.at > call.at - SpendWindow
    BY <1>1, <1>2, <1>3
  <2>3. \A j \in old : j \in new <=> w[j].at > call.at - SpendWindow
    BY <1>1, <1>2, <1>3, <1>5
  <2>4. \A j \in DOMAIN w : j \in new <=> w[j].at > call.at - SpendWindow
    BY <1>4, <1>5, <2>2, <2>3
  <2> QED BY <1>4, <2>1, <2>4
<1>7. \A j \in new : w[j] = [at |-> log'[j].at, cost |-> Cost(log'[j])]
  <2>1. \A j \in old : log'[j] = log[j]
    BY <1>1, <1>3
  <2>2. w[n + 1] = [at |-> log'[n + 1].at, cost |-> Cost(log'[n + 1])]
    BY <1>1, <1>4 DEF entry
  <2> QED BY <1>2, <1>4, <2>1, <2>2
<1>8. SpendWindowWith(n + 1, call) = [j \in new |-> w[j]]
  BY <1>6, Zenon DEF SpendWindowWith, Restrict, w, entry
<1> QED BY <1>7, <1>8 DEF new

LEMMA ServiceSpend ==
  ASSUME LogOK, NEW n, NEW call, Next(n, call), Appended(n, call),
         NEW p \in 0 .. n, SpendSince(p), Premium(call)
  PROVE  /\ SpendKey(n + 1, call) = SpendEntries(PremiumWithin(n + 1))'
         /\ SpendIn(SpendKey(n + 1, call)) = PremiumSpend(n + 1)'
<1> DEFINE new == PremiumWithin(n + 1)'
           old == PremiumWithin(p)
           M == [j \in 1 .. n + 1 |-> [id |-> j, cost |-> Cost(log'[j])]]
           A == [j \in 1 .. n + 1 |-> log'[j].at]
<1>1. /\ n \in Nat /\ n = Len(log) /\ SpendWindow \in Nat
      /\ \A j \in 1 .. n : log'[j] = log[j]
      /\ Cost(log'[n + 1]) = Cost(call)
  BY NewLog, NewCallInLog, RulesAssumption DEF Next
<1>2. \A j : j \in new <=>
        \/ j = n + 1 /\ SpendWindow > 0
        \/ j \in old /\ call.at - log[j].at < SpendWindow
  BY NewPremiumWindow
<1>3. old \subseteq 1 .. n /\ old \subseteq Within(p, SpendWindow)
  BY <1>1 DEF PremiumWithin, Within
<1>13. new \subseteq 1 .. n + 1
  BY <1>1, <1>2, <1>3
<1>4. /\ \A j, k \in 1 .. n + 1 : M[j] = M[k] => j = k
      /\ \A j \in 1 .. n + 1 : A[j] = log'[j].at
  BY <1>1
<1>5. M[n + 1] = [id |-> n + 1, cost |-> Cost(call)]
  BY <1>1
<1>6. SpendEntries(old) = Entries(M, A, old)
  <2>1. \A j \in old : M[j] = [id |-> j, cost |-> Cost(log[j])] /\ A[j] = log[j].at
    BY <1>1, <1>3
  <2> HIDE DEF M, A, old
  <2> QED BY <2>1 DEF SpendEntries, Entries, Entry
<1>7. SpendEntries(PremiumWithin(n + 1))' = Entries(M, A, new)
  <2>1. new \subseteq 1 .. n + 1
    BY <1>13
  <2>2. \A j \in new : M[j] = [id |-> j, cost |-> Cost(log'[j])] /\ A[j] = log'[j].at
    BY <2>1
  <2> HIDE DEF M, A
  <2> QED BY <2>2 DEF SpendEntries, Entries, Entry
<1> HIDE DEF M, A, new, old
<1>8. redis.spend = Key(Entries(M, A, old),
                        IF p = 0 THEN 0 ELSE WindowUntil(log[p], SpendWindow))
  BY <1>6, Zenon DEF SpendSince, old
<1>9. Slide(Get(redis.spend, {}, call), M[n + 1], call.at, SpendWindow)
        = Entries(M, A, new)
  <2>1. SpendWindow \in {VelocityWindow, SpendWindow}
    OBVIOUS
  <2>2. PICK key : key = redis.spend
    OBVIOUS
  <2>3. key = Key(Entries(M, A, old),
                  IF p = 0 THEN 0 ELSE WindowUntil(log[p], SpendWindow))
    BY <1>8, <2>2, Zenon
  <2>4. old \subseteq Within(p, SpendWindow)
    BY <1>3
  <2>5. Slide(Get(key, {}, call), M[n + 1], call.at, SpendWindow) = Entries(M, A, new)
    BY <1>2, <1>4, <2>1, <2>3, <2>4, ReadWindow
  <2> QED BY <2>2, <2>5, Zenon
<1>10. SpendKey(n + 1, call) = Entries(M, A, new)
  BY <1>5, <1>9, Zenon DEF SpendKey
<1> DEFINE f == [j \in new |-> Cost(log'[j])]
<1>11. SpendIn(Entries(M, A, new)) = SumFunction(f)
  <2>1. new \subseteq 1 .. n + 1
    BY <1>13
  <2>2. IsFiniteSet(new)
    BY <1>1, <2>1, FiniteRange
  <2>3. \A j, k \in new : M[j] = M[k] => j = k
    BY <1>4, <2>1
  <2>4. \A j \in new : M[j].cost = f[j]
    BY <2>1 DEF M
  <2>5. f \in [new -> Nat]
    <3>1. \A j \in 1 .. n + 1 : Cost(log'[j]) \in Nat
      BY <1>1, OutcomeTypes, CallTypes DEF Next
    <3> QED BY <2>1, <3>1
  <2> HIDE DEF f
  <2> QED BY <2>2, <2>3, <2>4, <2>5, EntriesSummed
<1>12. PremiumSpend(n + 1)' = SumFunction(f)
  BY Zenon DEF PremiumSpend, new
<1> QED BY <1>7, <1>10, <1>11, <1>12, Zenon DEF new


-----------------------------------------------------------------------------
(***************************************************************************)
(* The last location: when its key is gone there has been time to get      *)
(* anywhere.                                                               *)
(***************************************************************************)

LEMMA LaterIsFurther ==
  ASSUME NEW a \in Nat, NEW b \in Nat, NEW k \in Nat, a <= b
  PROVE  k * a <= k * b
<1>1. PICK d \in Nat : b = a + d
  <2>1. b - a \in Nat /\ b = a + (b - a)
    OBVIOUS
  <2> QED BY <2>1
<1>2. k * (a + d) = k * a + k * d /\ k * a \in Nat /\ k * d \in Nat
  OBVIOUS
<1> QED BY <1>1, <1>2

LEMMA AtLeastOne ==
  ASSUME NEW x \in Nat
  PROVE  Max({x, 1}) = IF x > 1 THEN x ELSE 1
BY DEF Max

LEMMA OldLocations ==
  ASSUME LogOK, NEW n, NEW call, Next(n, call), Appended(n, call),
         NEW i \in 1 .. n + 1
  PROVE  /\ PreviousLocation(i)' = IF \E j \in 1 .. i - 1 : Located(log[j])
                                     THEN Location(log[Max({j \in 1 .. i - 1 : Located(log[j])})])
                                     ELSE NoLocation
         /\ PreviousLocation(i)' = PreviousLocation(i)
<1> DEFINE before == {j \in 1 .. i - 1 : Located(log[j])}
<1>1. n \in Nat /\ \A j \in 1 .. i - 1 : log'[j] = log[j]
  BY NewLog
<1>2. before' = before
  <2>1. \A j \in 1 .. i - 1 : Located(log'[j]) <=> Located(log[j])
    BY <1>1
  <2> QED BY <2>1
<1>3. before # {} => Max(before) \in before
  <2>1. i - 1 \in Nat
    BY <1>1
  <2> QED BY <2>1, MaxOfSome
<1> DEFINE m == Max(before)
<1>4. before # {} => Location(log'[m]) = Location(log[m])
  <2> HIDE DEF m
  <2>1. before # {} => m \in 1 .. i - 1
    BY <1>3 DEF m
  <2> QED BY <1>1, <2>1
<1>5. PreviousLocation(i)' = IF before' = {} THEN NoLocation
                                            ELSE Location(log'[Max(before')])
  BY Zenon DEF PreviousLocation
<1>6. PreviousLocation(i) = IF before = {} THEN NoLocation
                                          ELSE Location(log[Max(before)])
  BY Zenon DEF PreviousLocation
<1>7. before = {} <=> ~ \E j \in 1 .. i - 1 : Located(log[j])
  OBVIOUS
<1> QED BY <1>2, <1>4, <1>5, <1>6, <1>7, Zenon

LEMMA LastLocation ==
  ASSUME LogOK, NEW n, NEW call, Next(n, call), Appended(n, call),
         NEW l \in 0 .. n, LocationSince(l)
  PROVE  PreviousLocation(n + 1)' = lastLoc
<1> DEFINE before == {j \in 1 .. n : Located(log[j])}
<1>1. n \in Nat /\ n = Len(log) /\ n + 1 \in 1 .. n + 1 /\ (n + 1) - 1 = n
  BY NewLog
<1>2. PreviousLocation(n + 1)' = IF \E j \in 1 .. n : Located(log[j])
                                   THEN Location(log[Max(before)]) ELSE NoLocation
  <2>1. PreviousLocation(n + 1)'
          = IF \E j \in 1 .. (n + 1) - 1 : Located(log[j])
              THEN Location(log[Max({j \in 1 .. (n + 1) - 1 : Located(log[j])})])
              ELSE NoLocation
    BY <1>1, OldLocations
  <2> QED BY <1>1, <2>1, Zenon
<1>3. CASE l = 0
  <2>1. \A j \in 1 .. n : ~ Located(log[j])
    BY <1>1, <1>3 DEF LocationSince
  <2> QED BY <1>2, <1>3, <2>1 DEF LocationSince
<1>4. CASE l # 0
  <2>1. l \in before /\ \A j \in before : j <= l
    BY <1>1, <1>4 DEF LocationSince
  <2>2. Max(before) \in before /\ \A j \in before : j <= Max(before)
    BY <1>1, <2>1, MaxOfSome
  <2>3. Max(before) = l
    BY <2>1, <2>2
  <2> QED BY <1>2, <1>4, <2>1, <2>3, Zenon DEF LocationSince
<1> QED BY <1>3, <1>4

LEMMA ForgottenIsFarAgo ==
  ASSUME LogOK, NEW n, NEW call, Next(n, call), Appended(n, call),
         NEW l \in 0 .. n, LocationSince(l)
  PROVE  TooFast(Get(redis.lastloc, NoLocation, call), call) <=> TooFast(lastLoc, call)
<1>1. n \in Nat /\ n = Len(log)
  BY NewLog
<1>2. redis.lastloc.value = lastLoc
  BY DEF LocationSince, Key
<1>3. CASE l = 0
  <2>1. lastLoc = NoLocation
    BY <1>3 DEF LocationSince
  <2> QED BY <1>2, <2>1, Zenon DEF Get
<1>4. CASE l # 0 /\ redis.lastloc.until > Now(call)
  BY <1>2, <1>4, Zenon DEF Get
<1>5. CASE l # 0 /\ ~ (redis.lastloc.until > Now(call))
  <2>1. ~ TooFast(Get(redis.lastloc, NoLocation, call), call)
    BY <1>5, Zenon DEF Get, TooFast
  <2>2. ASSUME Located(call) PROVE ~ TooFast(lastLoc, call)
    <3> DEFINE last == log[l]
               dt == Elapsed(call.at, last.at)
               km == Distance[<<last.cell, call.cell>>]
    <3>1. /\ l \in 1 .. n /\ Located(last) /\ lastLoc = Location(last)
          /\ redis.lastloc.until = Now(last) + LastLocTTL
      BY <1>1, <1>5 DEF LocationSince, Key
    <3>2. /\ last.at \in Nat /\ last.lag \in Nat /\ Now(last) = last.at + last.lag
          /\ call.at \in Nat /\ call.lag \in Nat /\ Now(call) = call.at + call.lag
          /\ last.at <= call.at
          /\ call.lag \in Lags /\ call.lag <= LastLocTTL /\ LastLocTTL \in Nat
          /\ MaxSpeed \in Nat
      BY <1>1, <3>1, OutcomeTypes, CallTypes, TTLAssumption, RulesAssumption DEF Next
    <3>3. km \in Nat /\ km <= MaxSpeed * (LastLocTTL - call.lag)
      BY <2>2, <3>1, <3>2, TTLAssumption DEF Located
    <3> HIDE DEF last
    <3>4. dt = call.at - last.at /\ dt \in Nat
      BY <3>2 DEF Elapsed
    <3> HIDE DEF dt, km
    <3>5. last.at + last.lag + LastLocTTL <= call.at + call.lag
      BY <1>5, <3>1, <3>2
    <3>6. LastLocTTL - call.lag \in Nat /\ LastLocTTL - call.lag <= dt
      BY <3>2, <3>4, <3>5
    <3> DEFINE m == IF dt > 1 THEN dt ELSE 1
    <3>7. m \in Nat /\ LastLocTTL - call.lag <= m /\ Max({dt, 1}) = m
      BY <3>4, <3>6, AtLeastOne
    <3> HIDE DEF m
    <3>8. MaxSpeed * (LastLocTTL - call.lag) <= MaxSpeed * m
      BY <3>2, <3>6, <3>7, LaterIsFurther
    <3>9. ~ (km > MaxSpeed * m)
      <4>1. MaxSpeed * m \in Nat /\ MaxSpeed * (LastLocTTL - call.lag) \in Nat
        BY <3>2, <3>6, <3>7
      <4> QED BY <3>3, <3>8, <4>1
    <3>10. ~ TravelTriggered(km, dt)
      BY <3>7, <3>9, Zenon DEF TravelTriggered
    <3>11. lastLoc.cell = last.cell /\ lastLoc.at = last.at
      BY <3>1 DEF Location
    <3> QED BY <3>10, <3>11, Zenon DEF TooFast, km, dt
  <2> QED BY <2>1, <2>2 DEF TooFast
<1> QED BY <1>3, <1>4, <1>5


-----------------------------------------------------------------------------
(***************************************************************************)
(* The verdicts on the new call, and the alerts.                           *)
(***************************************************************************)

LEMMA NewTriggered ==
  ASSUME LogOK, NEW n, NEW call, Next(n, call), Appended(n, call)
  PROVE  \A r : r \in Triggered(n + 1)' <=>
           /\ r \in Rules
           /\ \/ r = "velocity"
                   /\ VelocityTriggered(Cardinality(Within(n + 1, VelocityWindow)'))
              \/ r = "impossible_travel" /\ TooFast(PreviousLocation(n + 1)', call)
              \/ r = "irsf" /\ Premium(call) /\ SpendTriggered(PremiumSpend(n + 1)')
<1> DEFINE c == log'[n + 1]
<1>1. /\ Premium(c) = Premium(call)
      /\ Located(c) = Located(call) /\ c.at = call.at /\ c.cell = call.cell
  BY NewCallInLog
<1>2. ASSUME NEW last PROVE TooFast(last, c) = TooFast(last, call)
  <2> HIDE DEF c
  <2> QED BY <1>1, Zenon DEF TooFast
<1>3. Triggered(n + 1)' =
        {r \in Rules :
           \/ r = "velocity"
                /\ VelocityTriggered(Cardinality(Within(n + 1, VelocityWindow)'))
           \/ r = "impossible_travel" /\ TooFast(PreviousLocation(n + 1)', c)
           \/ r = "irsf" /\ Premium(c) /\ SpendTriggered(PremiumSpend(n + 1)')}
  BY Zenon DEF Triggered, VelocityTriggered, SpendTriggered, TooFast, TravelTriggered,
               Located, Premium
<1> HIDE DEF c
<1> QED BY <1>1, <1>2, <1>3

LEMMA EngineTriggered ==
  ASSUME LogOK, VelocityFromLog, SpendFromLog, LocationFromLog,
         NEW n, NEW call, Next(n, call), Appended(n, call)
  PROVE  EngineVerdicts(VelocityWindowWith(n + 1, call), SpendWindowWith(n + 1, call),
                        call) = Triggered(n + 1)'
<1> DEFINE vel == VelocityWindowWith(n + 1, call)
           spend == SpendWindowWith(n + 1, call)
<1>1. n = Len(log) /\ n \in Nat
  BY NewLog
<1>2. Cardinality(DOMAIN vel) = Cardinality(Within(n + 1, VelocityWindow)')
  <2>1. DOMAIN vel = Within(n + 1, VelocityWindow)'
    BY EngineVelocity
  <2> QED BY <2>1, Zenon
<1>3. ASSUME Premium(call)
      PROVE  SumFunction([i \in DOMAIN spend |-> spend[i].cost]) = PremiumSpend(n + 1)'
  <2>1. PICK p \in 0 .. n : SpendSince(p)
    BY <1>1, Zenon DEF SpendFromLog
  <2>2. spend = [j \in PremiumWithin(n + 1)' |->
                   [at |-> log'[j].at, cost |-> Cost(log'[j])]]
    BY <1>3, <2>1, EngineSpend
  <2> HIDE DEF spend
  <2>3. [i \in DOMAIN spend |-> spend[i].cost]
          = [j \in PremiumWithin(n + 1)' |-> Cost(log'[j])]
    BY <2>2
  <2> QED BY <2>3, Zenon DEF PremiumSpend, Cost
<1>4. PreviousLocation(n + 1)' = lastLoc
  <2>1. PICK l \in 0 .. n : LocationSince(l)
    BY <1>1, Zenon DEF LocationFromLog
  <2> QED BY <2>1, LastLocation
<1> HIDE DEF vel, spend
<1>5. \A r : r \in EngineVerdicts(vel, spend, call) <=> r \in Triggered(n + 1)'
  <2>1. ASSUME NEW r
        PROVE  r \in EngineVerdicts(vel, spend, call) <=>
                 /\ r \in Rules
                 /\ \/ r = "velocity" /\ VelocityTriggered(Cardinality(DOMAIN vel))
                    \/ r = "impossible_travel" /\ TooFast(lastLoc, call)
                    \/ /\ r = "irsf" /\ Premium(call)
                       /\ SpendTriggered(SumFunction([i \in DOMAIN spend |-> spend[i].cost]))
    BY Zenon DEF EngineVerdicts
  <2>2. VelocityTriggered(Cardinality(DOMAIN vel))
          <=> VelocityTriggered(Cardinality(Within(n + 1, VelocityWindow)'))
    BY <1>2, Zenon
  <2>3. Premium(call) =>
          (SpendTriggered(SumFunction([i \in DOMAIN spend |-> spend[i].cost]))
             <=> SpendTriggered(PremiumSpend(n + 1)'))
    BY <1>3, Zenon
  <2>4. TooFast(lastLoc, call) <=> TooFast(PreviousLocation(n + 1)', call)
    BY <1>4, Zenon
  <2> SUFFICES ASSUME NEW r
               PROVE  r \in EngineVerdicts(vel, spend, call) <=> r \in Triggered(n + 1)'
    OBVIOUS
  <2>5. r \in Triggered(n + 1)' <=>
           /\ r \in Rules
           /\ \/ r = "velocity"
                   /\ VelocityTriggered(Cardinality(Within(n + 1, VelocityWindow)'))
              \/ r = "impossible_travel" /\ TooFast(PreviousLocation(n + 1)', call)
              \/ r = "irsf" /\ Premium(call) /\ SpendTriggered(PremiumSpend(n + 1)')
    BY NewTriggered, Zenon
  <2> QED BY <2>1, <2>2, <2>3, <2>4, <2>5, Zenon
<1>6. /\ EngineVerdicts(vel, spend, call) \subseteq Rules
      /\ Triggered(n + 1)' \subseteq Rules
  BY Zenon DEF EngineVerdicts, Triggered
<1> QED BY <1>5, <1>6, Zenon DEF vel, spend

LEMMA ServiceTriggered ==
  ASSUME LogOK, VelocityFromLog, SpendFromLog, LocationFromLog,
         NEW n, NEW call, Next(n, call), Appended(n, call)
  PROVE  ServiceAlerts(n + 1, call)
           = {r \in Triggered(n + 1)' : redis.alerted[r] <= Now(call)}
<1>1. n = Len(log) /\ n \in Nat
  BY NewLog
<1>2. Cardinality(VelocityKey(n + 1, call)) = Cardinality(Within(n + 1, VelocityWindow)')
  BY ServiceVelocity
<1>3. ASSUME Premium(call)
      PROVE  SpendIn(SpendKey(n + 1, call)) = PremiumSpend(n + 1)'
  <2>1. PICK p \in 0 .. n : SpendSince(p)
    BY <1>1, Zenon DEF SpendFromLog
  <2> QED BY <1>3, <2>1, ServiceSpend
<1>4. TooFast(Get(redis.lastloc, NoLocation, call), call)
        <=> TooFast(PreviousLocation(n + 1)', call)
  <2>1. PICK l \in 0 .. n : LocationSince(l)
    BY <1>1, Zenon DEF LocationFromLog
  <2>2. PreviousLocation(n + 1)' = lastLoc
    BY <2>1, LastLocation
  <2> QED BY <2>1, <2>2, ForgottenIsFarAgo
<1>5. ASSUME NEW r
      PROVE  r \in ServiceAlerts(n + 1, call) <=>
               /\ r \in Rules
               /\ \/ r = "velocity"
                       /\ VelocityTriggered(Cardinality(VelocityKey(n + 1, call)))
                  \/ r = "impossible_travel"
                       /\ TooFast(Get(redis.lastloc, NoLocation, call), call)
                  \/ /\ r = "irsf" /\ Premium(call)
                     /\ SpendTriggered(SpendIn(SpendKey(n + 1, call)))
               /\ redis.alerted[r] <= Now(call)
  BY Zenon DEF ServiceAlerts
<1>6. ASSUME NEW r
      PROVE  r \in ServiceAlerts(n + 1, call) <=>
               r \in Triggered(n + 1)' /\ redis.alerted[r] <= Now(call)
  <2>1. VelocityTriggered(Cardinality(VelocityKey(n + 1, call)))
          <=> VelocityTriggered(Cardinality(Within(n + 1, VelocityWindow)'))
    BY <1>2, Zenon
  <2>2. Premium(call) =>
          (SpendTriggered(SpendIn(SpendKey(n + 1, call)))
             <=> SpendTriggered(PremiumSpend(n + 1)'))
    BY <1>3, Zenon
  <2>3. r \in Triggered(n + 1)' <=>
           /\ r \in Rules
           /\ \/ r = "velocity"
                   /\ VelocityTriggered(Cardinality(Within(n + 1, VelocityWindow)'))
              \/ r = "impossible_travel" /\ TooFast(PreviousLocation(n + 1)', call)
              \/ r = "irsf" /\ Premium(call) /\ SpendTriggered(PremiumSpend(n + 1)')
    BY NewTriggered, Zenon
  <2> QED BY <1>4, <1>5, <2>1, <2>2, <2>3, Zenon
<1> QED BY <1>6, Zenon

\* The engine's cooldown runs from its last alert: those before are older still.
LEMMA EngineIsDue ==
  ASSUME LogOK, VelocityFromLog, SpendFromLog, LocationFromLog, CooldownFromLog,
         NEW n, NEW call, Next(n, call), Appended(n, call)
  PROVE  EngineAlerts(n + 1, call) = DueByStart(n + 1)'
<1>1. /\ n \in Nat /\ n = Len(log) /\ log'[n + 1].at = call.at
      /\ \A j \in 1 .. n : log'[j] = log[j]
      /\ call.at \in Nat /\ Cooldown \in Nat
  BY NewLog, NewCallInLog, CallTypes, TTLAssumption DEF Next
<1>2. Triggered(n + 1)' \subseteq Rules
  BY Zenon DEF Triggered
<1>3. ASSUME NEW r \in Rules
      PROVE  EngineSuppresses(r, call) <=>
               \E j \in 1 .. n : r \in log[j].scored /\ call.at - log[j].at < Cooldown
  <2>1. PICK i \in 0 .. n :
          /\ \A j \in i + 1 .. n : r \notin log[j].scored
          /\ r \in DOMAIN alerted <=> i > 0
          /\ i > 0 => r \in log[i].scored /\ alerted[r] = log[i].at
    BY <1>1, Zenon DEF CooldownFromLog
  <2>2. CASE i = 0
    <3>1. \A j \in 1 .. n : r \notin log[j].scored
      BY <2>1, <2>2
    <3> QED BY <2>1, <2>2, <3>1 DEF EngineSuppresses
  <2>3. CASE i # 0
    <3>1. i \in 1 .. n /\ r \in log[i].scored /\ r \in DOMAIN alerted
          /\ alerted[r] = log[i].at
      BY <1>1, <2>1, <2>3
    <3>2. EngineSuppresses(r, call) <=> call.at - log[i].at < Cooldown
      BY <3>1 DEF EngineSuppresses
    <3>3. ASSUME NEW j \in 1 .. n, r \in log[j].scored
          PROVE  log[j].at <= log[i].at /\ log[j].at \in Nat /\ log[i].at \in Nat
      <4>1. j \in 1 .. i
        BY <1>1, <2>1, <3>1, <3>3
      <4> QED BY <1>1, <3>1, <4>1, InOrder, OutcomeTypes
    <3> QED BY <1>1, <3>1, <3>2, <3>3
  <2> QED BY <2>2, <2>3
<1>4. ASSUME NEW r
      PROVE  r \in EngineAlerts(n + 1, call)
               <=> r \in Triggered(n + 1)' /\ ~ EngineSuppresses(r, call)
  BY EngineTriggered, Zenon DEF EngineAlerts
<1>5. ASSUME NEW r
      PROVE  r \in DueByStart(n + 1)'
               <=> /\ r \in Triggered(n + 1)'
                   /\ \A j \in 1 .. n : r \in log[j].scored =>
                        call.at - log[j].at >= Cooldown
  <2>1. r \in DueByStart(n + 1)'
          <=> /\ r \in Triggered(n + 1)'
              /\ \A j \in 1 .. (n + 1) - 1 : r \in log'[j].scored =>
                   log'[n + 1].at - log'[j].at >= Cooldown
    BY Zenon DEF DueByStart
  <2>2. (n + 1) - 1 = n
    BY <1>1
  <2> QED BY <1>1, <2>1, <2>2
<1>6. ASSUME NEW r \in Triggered(n + 1)'
      PROVE  ~ EngineSuppresses(r, call)
               <=> \A j \in 1 .. n : r \in log[j].scored =>
                     call.at - log[j].at >= Cooldown
  <2>1. \A j \in 1 .. n : call.at - log[j].at < Cooldown
                            <=> ~ (call.at - log[j].at >= Cooldown)
    BY <1>1, OutcomeTypes
  <2> QED BY <1>2, <1>3, <2>1, Zenon
<1> QED BY <1>2, <1>4, <1>5, <1>6

\* So does the service's flag.
LEMMA ServiceIsDue ==
  ASSUME LogOK, VelocityFromLog, SpendFromLog, LocationFromLog, FlagFromLog,
         NEW n, NEW call, Next(n, call), Appended(n, call)
  PROVE  ServiceAlerts(n + 1, call) = Due(n + 1)'
<1>1. /\ n \in Nat /\ n = Len(log) /\ Now(log'[n + 1]) = Now(call)
      /\ \A j \in 1 .. n : log'[j] = log[j]
      /\ Now(call) \in Nat /\ Cooldown \in Nat
  BY NewLog, NewCallInLog, CallTypes, TTLAssumption DEF Next
<1>2. Triggered(n + 1)' \subseteq Rules
  BY Zenon DEF Triggered
<1>3. ASSUME NEW r \in Rules
      PROVE  redis.alerted[r] <= Now(call) <=>
               \A j \in 1 .. n : r \in log[j].emitted =>
                 Now(call) - Now(log[j]) >= Cooldown
  <2>1. PICK i \in 0 .. n :
          /\ \A j \in i + 1 .. n : r \notin log[j].emitted
          /\ i > 0 => r \in log[i].emitted
          /\ redis.alerted[r] = IF i = 0 THEN 0 ELSE FlagUntil(log[i])
    BY <1>1, Zenon DEF FlagFromLog
  <2>2. CASE i = 0
    <3>1. \A j \in 1 .. n : r \notin log[j].emitted
      BY <2>1, <2>2
    <3> QED BY <1>1, <2>1, <2>2, <3>1
  <2>3. CASE i # 0
    <3>1. i \in 1 .. n /\ r \in log[i].emitted
          /\ redis.alerted[r] = Now(log[i]) + Cooldown
      BY <1>1, <2>1, <2>3 DEF FlagUntil
    <3>2. ASSUME NEW j \in 1 .. n, r \in log[j].emitted
          PROVE  Now(log[j]) <= Now(log[i]) /\ Now(log[j]) \in Nat /\ Now(log[i]) \in Nat
      <4>1. j \in 1 .. i
        BY <1>1, <2>1, <3>1, <3>2
      <4> QED BY <1>1, <3>1, <4>1, InOrder, OutcomeTypes
    <3> QED BY <1>1, <3>1, <3>2
  <2> QED BY <2>2, <2>3
<1>4. ASSUME NEW r
      PROVE  r \in Due(n + 1)'
               <=> /\ r \in Triggered(n + 1)'
                   /\ \A j \in 1 .. n : r \in log[j].emitted =>
                        Now(call) - Now(log[j]) >= Cooldown
  <2>1. r \in Due(n + 1)'
          <=> /\ r \in Triggered(n + 1)'
              /\ \A j \in 1 .. (n + 1) - 1 : r \in log'[j].emitted =>
                   Now(log'[n + 1]) - Now(log'[j]) >= Cooldown
    BY Zenon DEF Due, Now
  <2>2. (n + 1) - 1 = n
    BY <1>1
  <2> QED BY <1>1, <2>1, <2>2
<1> QED BY <1>2, <1>3, <1>4, ServiceTriggered


-----------------------------------------------------------------------------
(***************************************************************************)
(* The invariant holds of the log with the new call.                       *)
(***************************************************************************)

LEMMA OldTriggered ==
  ASSUME LogOK, NEW n, NEW call, Next(n, call), Appended(n, call),
         NEW i \in 1 .. n
  PROVE  Triggered(i)' = Triggered(i)
<1>1. n \in Nat /\ i \in 1 .. n + 1 /\ log'[i] = log[i]
  BY NewLog
<1>2. /\ Within(i, VelocityWindow)' = Within(i, VelocityWindow)
      /\ PremiumSpend(i)' = PremiumSpend(i)
      /\ PreviousLocation(i)' = PreviousLocation(i)
  BY <1>1, OldWindows, OldLocations
<1>3. Triggered(i)' =
        {r \in Rules :
           \/ r = "velocity"
                /\ VelocityTriggered(Cardinality(Within(i, VelocityWindow)'))
           \/ r = "impossible_travel" /\ TooFast(PreviousLocation(i)', log'[i])
           \/ r = "irsf" /\ Premium(log'[i]) /\ SpendTriggered(PremiumSpend(i)')}
  BY Zenon DEF Triggered, VelocityTriggered, SpendTriggered, TooFast, TravelTriggered,
               Located, Premium
<1> QED BY <1>1, <1>2, <1>3, Zenon DEF Triggered

LEMMA OldDue ==
  ASSUME LogOK, NEW n, NEW call, Next(n, call), Appended(n, call),
         NEW i \in 1 .. n
  PROVE  /\ DueByStart(i)' = DueByStart(i)
         /\ Due(i)' = Due(i)
<1>1. /\ n \in Nat /\ i \in 1 .. n + 1 /\ log'[i] = log[i]
      /\ \A j \in 1 .. i - 1 : log'[j] = log[j]
  BY NewLog
<1>2. Triggered(i)' = Triggered(i)
  BY OldTriggered
<1>3. DueByStart(i)' = DueByStart(i)
  <2>1. DueByStart(i)' =
          {r \in Triggered(i)' : \A j \in 1 .. i - 1 :
             r \in log'[j].scored => log'[i].at - log'[j].at >= Cooldown}
    BY Zenon DEF DueByStart
  <2> QED BY <1>1, <1>2, <2>1 DEF DueByStart
<1>4. Due(i)' = Due(i)
  <2>1. Due(i)' =
          {r \in Triggered(i)' : \A j \in 1 .. i - 1 :
             r \in log'[j].emitted => Now(log'[i]) - Now(log'[j]) >= Cooldown}
    BY Zenon DEF Due, Now
  <2> QED BY <1>1, <1>2, <2>1 DEF Due
<1> QED BY <1>3, <1>4

LEMMA LogStep ==
  ASSUME MemoryFollowsLog, NEW n, NEW call, Next(n, call), Appended(n, call)
  PROVE  LogOK' /\ (Len(log) <= MaxCalls)'
<1> USE DEF MemoryFollowsLog
<1>1. /\ n \in Nat /\ Len(log) = n /\ Len(log') = n + 1 /\ log' \in Seq(Outcomes)
      /\ DOMAIN log' = 1 .. n + 1 /\ DOMAIN log = 1 .. n
      /\ \A i \in 1 .. n : log'[i] = log[i]
  BY NewLog DEF LogOK
<1>2. /\ log'[n + 1].scored = DueByStart(n + 1)' /\ log'[n + 1].emitted = Due(n + 1)'
      /\ log'[n + 1].at = call.at /\ Now(log'[n + 1]) = Now(call)
  BY NewCallInLog, EngineIsDue, ServiceIsDue
<1>3. /\ \A i \in 1 .. n : log[i].at <= call.at /\ Now(log[i]) <= Now(call)
      /\ call.at \in Nat /\ Now(call) \in Nat /\ n < MaxCalls
  BY CallTypes DEF Next
<1>4. ASSUME NEW i \in 1 .. n + 1
      PROVE  /\ log'[i].scored = DueByStart(i)' /\ log'[i].emitted = Due(i)'
             /\ \A j \in 1 .. i : log'[j].at <= log'[i].at /\ Now(log'[j]) <= Now(log'[i])
  <2>1. CASE i \in 1 .. n
    <3>1. log[i].scored = DueByStart(i) /\ log[i].emitted = Due(i)
      BY <1>1, <2>1 DEF LogOK, Calls
    <3>2. \A j \in 1 .. i : j \in 1 .. n /\ log[j].at <= log[i].at
                              /\ Now(log[j]) <= Now(log[i])
      BY <1>1, <2>1, InOrder
    <3>3. DueByStart(i)' = DueByStart(i) /\ Due(i)' = Due(i)
      BY <2>1, OldDue
    <3> QED BY <1>1, <2>1, <3>1, <3>2, <3>3
  <2>2. CASE i = n + 1
    <3>1. \A j \in 1 .. i : j \in 1 .. n \/ j = n + 1
      BY <1>1, <2>2
    <3> QED BY <1>1, <1>2, <1>3, <2>2, <3>1
  <2> QED BY <1>1, <2>1, <2>2
<1>5. LogOK'
  <2>1. \A i \in Calls' : i \in 1 .. n + 1
    BY <1>1 DEF Calls
  <2>2. LogOK' <=> /\ log' \in Seq(Outcomes)
                   /\ \A i \in Calls' :
                        /\ log'[i].scored = DueByStart(i)' /\ log'[i].emitted = Due(i)'
                        /\ \A j \in 1 .. i : log'[j].at <= log'[i].at
                                               /\ Now(log'[j]) <= Now(log'[i])
    BY Zenon DEF LogOK, Outcomes, Tariffs, Rules, Now
  <2> QED BY <1>1, <1>4, <2>1, <2>2
<1>6. Len(log') <= MaxCalls
  BY <1>1, <1>3, CallsAssumption
<1> QED BY <1>5, <1>6

LEMMA VelocityStep ==
  ASSUME MemoryFollowsLog, NEW n, NEW call, Next(n, call), Appended(n, call)
  PROVE  VelocityFromLog'
<1> USE DEF MemoryFollowsLog
<1>1. n \in Nat /\ Len(log') = n + 1 /\ Now(log'[n + 1]) = Now(call)
  BY NewLog, NewCallInLog
<1>2. /\ velWin' = VelocityWindowWith(n + 1, call)
      /\ redis'.velocity = Key(VelocityKey(n + 1, call), WindowUntil(call, VelocityWindow))
  BY DEF Appended, Score, Handle
<1>3. WindowUntil(call, VelocityWindow) = WindowUntil(log'[n + 1], VelocityWindow)
  BY <1>1, Zenon DEF WindowUntil
<1>4. velWin' = [j \in Within(n + 1, VelocityWindow)' |-> log'[j].at]
  BY <1>2, EngineVelocity
<1>5. redis'.velocity = Key(CountEntries(Within(n + 1, VelocityWindow))',
                            WindowUntil(log'[n + 1], VelocityWindow))
  BY <1>2, <1>3, ServiceVelocity
<1>6. n + 1 # 0
  BY <1>1
<1> QED BY <1>1, <1>4, <1>5, <1>6, Zenon
        DEF VelocityFromLog, Within, CountEntries, Key, WindowUntil, Now

LEMMA SpendStep ==
  ASSUME MemoryFollowsLog, NEW n, NEW call, Next(n, call), Appended(n, call)
  PROVE  SpendFromLog'
<1> USE DEF MemoryFollowsLog
<1>1. /\ n \in Nat /\ Len(log) = n /\ Len(log') = n + 1
      /\ Now(log'[n + 1]) = Now(call) /\ Premium(log'[n + 1]) = Premium(call)
      /\ \A i \in 1 .. n : log'[i] = log[i]
  BY NewLog, NewCallInLog
<1>2. PICK p \in 0 .. n : SpendSince(p)
  BY <1>1, Zenon DEF SpendFromLog
<1>3. CASE Premium(call)
  <2>1. /\ spendWin' = SpendWindowWith(n + 1, call)
        /\ redis'.spend = Key(SpendKey(n + 1, call), WindowUntil(call, SpendWindow))
    BY <1>3 DEF Appended, Score, Handle
  <2>2. spendWin' = [j \in PremiumWithin(n + 1)' |->
                       [at |-> log'[j].at, cost |-> Cost(log'[j])]]
    BY <1>2, <1>3, <2>1, EngineSpend
  <2>3. WindowUntil(call, SpendWindow) = WindowUntil(log'[n + 1], SpendWindow)
    BY <1>1, Zenon DEF WindowUntil
  <2>4. redis'.spend = Key(SpendEntries(PremiumWithin(n + 1))',
                           WindowUntil(log'[n + 1], SpendWindow))
    BY <1>2, <1>3, <2>1, <2>3, ServiceSpend
  <2>5. n + 1 # 0 /\ n + 1 \in 0 .. n + 1 /\ \A j : j \notin (n + 1) + 1 .. n + 1
    BY <1>1
  <2>6. Premium(log'[n + 1])
    BY <1>1, <1>3
  <2>7. SpendSince(n + 1)'
    BY <1>1, <2>2, <2>4, <2>5, <2>6, Zenon
    DEF SpendSince, PremiumWithin, Within, SpendEntries, Key, WindowUntil, Now, Premium,
        Cost
  <2> QED BY <1>1, <2>5, <2>7, Zenon DEF SpendFromLog
<1>4. CASE ~ Premium(call)
  <2>1. spendWin' = spendWin /\ redis'.spend = redis.spend
    BY <1>4 DEF Appended, Score, Handle, SpendWindowWith
  <2>2. PremiumWithin(p)' = PremiumWithin(p) /\ PremiumWithin(p) \subseteq 1 .. n
    <3>1. CASE p = 0
      BY <3>1 DEF PremiumWithin, Within
    <3>2. CASE p # 0
      <4>1. p \in 1 .. n
        BY <1>1, <3>2
      <4>2. PremiumWithin(p)' = PremiumWithin(p)
        BY <4>1, OldWindows
      <4> QED BY <1>1, <4>1, <4>2 DEF PremiumWithin, Within
    <3> QED BY <3>1, <3>2
  <2>3. \A j \in PremiumWithin(p) : log'[j] = log[j]
    BY <1>1, <2>2
  <2>4. p > 0 => p \in 1 .. n /\ log'[p] = log[p]
    BY <1>1
  <2>5. \A j \in p + 1 .. n + 1 : j = n + 1 \/ (j \in p + 1 .. n /\ log'[j] = log[j])
    BY <1>1
  <2>6. spendWin' = [j \in PremiumWithin(p)' |->
                       [at |-> log'[j].at, cost |-> Cost(log'[j])]]
    BY <2>1, <2>2, <2>3, <1>2 DEF SpendSince
  <2>7. SpendEntries(PremiumWithin(p))' = SpendEntries(PremiumWithin(p))
    <3>1. SpendEntries(PremiumWithin(p))'
            = {[member |-> [id |-> j, cost |-> Cost(log'[j])], score |-> log'[j].at] :
                 j \in PremiumWithin(p)'}
      BY Zenon DEF SpendEntries, Cost
    <3> QED BY <2>2, <2>3, <3>1 DEF SpendEntries
  <2>8. redis'.spend = Key(SpendEntries(PremiumWithin(p))',
                           IF p = 0 THEN 0 ELSE WindowUntil(log'[p], SpendWindow))
    <3>1. p = 0 \/ p > 0
      BY <1>1
    <3>2. redis.spend = Key(SpendEntries(PremiumWithin(p)),
                            IF p = 0 THEN 0 ELSE WindowUntil(log[p], SpendWindow))
      BY <1>2, Zenon DEF SpendSince
    <3> QED BY <2>1, <2>4, <2>7, <3>1, <3>2, Zenon
  <2>9. p > 0 => Premium(log'[p])
    BY <1>2, <2>4 DEF SpendSince
  <2>10. \A j \in p + 1 .. n + 1 : ~ Premium(log'[j])
    BY <1>1, <1>2, <1>4, <2>5 DEF SpendSince
  <2>11. SpendSince(p)'
    BY <1>1, <2>6, <2>8, <2>9, <2>10, Zenon
    DEF SpendSince, PremiumWithin, Within, SpendEntries, Key, WindowUntil, Now, Premium,
        Cost
  <2>12. p \in 0 .. n + 1
    BY <1>1
  <2> QED BY <1>1, <2>11, <2>12, Zenon DEF SpendFromLog
<1> QED BY <1>3, <1>4


LEMMA LocationStep ==
  ASSUME MemoryFollowsLog, NEW n, NEW call, Next(n, call), Appended(n, call)
  PROVE  LocationFromLog'
<1> USE DEF MemoryFollowsLog
<1>1. /\ n \in Nat /\ Len(log) = n /\ Len(log') = n + 1
      /\ Now(log'[n + 1]) = Now(call) /\ Located(log'[n + 1]) = Located(call)
      /\ Location(log'[n + 1]) = Location(call)
      /\ \A i \in 1 .. n : log'[i] = log[i]
  BY NewLog, NewCallInLog
<1>2. PICK l \in 0 .. n : LocationSince(l)
  BY <1>1, Zenon DEF LocationFromLog
<1>3. ASSUME NEW k \in 0 .. n + 1,
             k > 0 => Located(log'[k]), \A j \in k + 1 .. n + 1 : ~ Located(log'[j]),
             lastLoc' = IF k = 0 THEN NoLocation ELSE Location(log'[k]),
             redis'.lastloc = Key(lastLoc', IF k = 0 THEN 0
                                            ELSE Now(log'[k]) + LastLocTTL)
      PROVE  LocationFromLog'
  <2>1. LocationSince(k)'
    BY <1>1, <1>3, Zenon DEF LocationSince, Located, Location, Key, Now
  <2> QED BY <1>1, <2>1, Zenon DEF LocationFromLog
<1>4. CASE Located(call)
  <2>1. /\ lastLoc' = Location(call)
        /\ redis'.lastloc = Key(Location(call), Now(call) + LastLocTTL)
    BY <1>4 DEF Appended, Score, Handle
  <2>2. n + 1 # 0 /\ n + 1 \in 0 .. n + 1 /\ \A j : j \notin (n + 1) + 1 .. n + 1
    BY <1>1
  <2>3. Located(log'[n + 1])
    BY <1>1, <1>4
  <2>4. lastLoc' = IF n + 1 = 0 THEN NoLocation ELSE Location(log'[n + 1])
    BY <1>1, <2>1, <2>2
  <2>5. redis'.lastloc = Key(lastLoc', IF n + 1 = 0 THEN 0
                                       ELSE Now(log'[n + 1]) + LastLocTTL)
    BY <1>1, <2>1, <2>2, <2>4
  <2> QED BY <1>3, <2>2, <2>3, <2>4, <2>5
<1>5. CASE ~ Located(call)
  <2>1. lastLoc' = lastLoc /\ redis'.lastloc = redis.lastloc
    BY <1>5 DEF Appended, Score, Handle
  <2>2. l > 0 => l \in 1 .. n /\ log'[l] = log[l]
    BY <1>1
  <2>3. \A j \in l + 1 .. n + 1 : j = n + 1 \/ (j \in l + 1 .. n /\ log'[j] = log[j])
    BY <1>1
  <2>4. /\ l > 0 => Located(log'[l])
        /\ \A j \in l + 1 .. n + 1 : ~ Located(log'[j])
    BY <1>1, <1>2, <1>5, <2>2, <2>3 DEF LocationSince
  <2>5. l = 0 \/ l > 0
    BY <1>1
  <2>6. /\ lastLoc' = IF l = 0 THEN NoLocation ELSE Location(log'[l])
        /\ redis'.lastloc = Key(lastLoc', IF l = 0 THEN 0
                                          ELSE Now(log'[l]) + LastLocTTL)
    BY <1>2, <2>1, <2>2, <2>5, Zenon DEF LocationSince
  <2>7. l \in 0 .. n + 1
    BY <1>1
  <2> QED BY <1>3, <2>4, <2>6, <2>7
<1> QED BY <1>4, <1>5

LEMMA CooldownStep ==
  ASSUME MemoryFollowsLog, NEW n, NEW call, Next(n, call), Appended(n, call)
  PROVE  CooldownFromLog'
<1> USE DEF MemoryFollowsLog
<1> DEFINE new == EngineAlerts(n + 1, call)
<1>1. /\ n \in Nat /\ Len(log) = n /\ Len(log') = n + 1
      /\ log'[n + 1].scored = new /\ log'[n + 1].at = call.at
      /\ \A i \in 1 .. n : log'[i] = log[i]
  BY NewLog, NewCallInLog
<1>2. alerted' = [r \in new \cup DOMAIN alerted |->
                    IF r \in new THEN call.at ELSE alerted[r]]
  BY DEF Appended, Score
<1>3. new \subseteq Rules
  BY DEF EngineAlerts, EngineVerdicts
<1> HIDE DEF new
<1>4. DOMAIN alerted' \subseteq Rules
  BY <1>2, <1>3 DEF CooldownFromLog
<1>5. ASSUME NEW r \in Rules
      PROVE  \E i \in 0 .. n + 1 :
               /\ \A j \in i + 1 .. n + 1 : r \notin log'[j].scored
               /\ r \in DOMAIN alerted' <=> i > 0
               /\ i > 0 => r \in log'[i].scored /\ alerted'[r] = log'[i].at
  <2>1. CASE r \in new
    <3>1. n + 1 > 0 /\ n + 1 \in 0 .. n + 1 /\ \A j : j \notin (n + 1) + 1 .. n + 1
      BY <1>1
    <3>2. r \in DOMAIN alerted' /\ alerted'[r] = call.at
      BY <1>2, <2>1
    <3> QED BY <1>1, <2>1, <3>1, <3>2
  <2>2. CASE r \notin new
    <3>1. PICK i \in 0 .. n :
            /\ \A j \in i + 1 .. n : r \notin log[j].scored
            /\ r \in DOMAIN alerted <=> i > 0
            /\ i > 0 => r \in log[i].scored /\ alerted[r] = log[i].at
      BY <1>1, Zenon DEF CooldownFromLog
    <3>2. i > 0 => i \in 1 .. n /\ log'[i] = log[i]
      BY <1>1
    <3>3. \A j \in i + 1 .. n + 1 : j = n + 1 \/ (j \in i + 1 .. n /\ log'[j] = log[j])
      BY <1>1
    <3>4. /\ r \in DOMAIN alerted' <=> r \in DOMAIN alerted
          /\ r \in DOMAIN alerted => alerted'[r] = alerted[r]
      BY <1>2, <2>2
    <3>5. \A j \in i + 1 .. n + 1 : r \notin log'[j].scored
      BY <1>1, <2>2, <3>1, <3>3
    <3>6. i \in 0 .. n + 1
      BY <1>1
    <3> QED BY <3>1, <3>2, <3>4, <3>5, <3>6
  <2> QED BY <2>1, <2>2
<1> QED BY <1>1, <1>4, <1>5, Zenon DEF CooldownFromLog, Rules

LEMMA FlagStep ==
  ASSUME MemoryFollowsLog, NEW n, NEW call, Next(n, call), Appended(n, call)
  PROVE  FlagFromLog'
<1> USE DEF MemoryFollowsLog
<1> DEFINE new == ServiceAlerts(n + 1, call)
<1>1. /\ n \in Nat /\ Len(log) = n /\ Len(log') = n + 1
      /\ log'[n + 1].emitted = new /\ FlagUntil(log'[n + 1]) = FlagUntil(call)
      /\ \A i \in 1 .. n : log'[i] = log[i]
  BY NewLog, NewCallInLog DEF FlagUntil
<1>2. redis'.alerted = [r \in Rules |-> IF r \in new THEN FlagUntil(call)
                                                   ELSE redis.alerted[r]]
  BY DEF Appended, Handle
<1> HIDE DEF new
<1>3. ASSUME NEW r \in Rules
      PROVE  \E i \in 0 .. n + 1 :
               /\ \A j \in i + 1 .. n + 1 : r \notin log'[j].emitted
               /\ i > 0 => r \in log'[i].emitted
               /\ redis'.alerted[r] = IF i = 0 THEN 0 ELSE FlagUntil(log'[i])
  <2>1. CASE r \in new
    <3>1. /\ n + 1 > 0 /\ n + 1 # 0 /\ n + 1 \in 0 .. n + 1
          /\ \A j : j \notin (n + 1) + 1 .. n + 1
      BY <1>1
    <3>2. redis'.alerted[r] = FlagUntil(log'[n + 1])
      BY <1>1, <1>2, <2>1
    <3> QED BY <1>1, <2>1, <3>1, <3>2
  <2>2. CASE r \notin new
    <3>1. PICK i \in 0 .. n :
            /\ \A j \in i + 1 .. n : r \notin log[j].emitted
            /\ i > 0 => r \in log[i].emitted
            /\ redis.alerted[r] = IF i = 0 THEN 0 ELSE FlagUntil(log[i])
      BY <1>1, Zenon DEF FlagFromLog
    <3>2. i > 0 => i \in 1 .. n /\ log'[i] = log[i]
      BY <1>1
    <3>3. \A j \in i + 1 .. n + 1 : j = n + 1 \/ (j \in i + 1 .. n /\ log'[j] = log[j])
      BY <1>1
    <3>4. redis'.alerted[r] = redis.alerted[r]
      BY <1>2, <2>2
    <3>5. \A j \in i + 1 .. n + 1 : r \notin log'[j].emitted
      BY <1>1, <2>2, <3>1, <3>3
    <3>6. i \in 0 .. n + 1 /\ (i = 0 \/ i > 0)
      BY <1>1
    <3> QED BY <3>1, <3>2, <3>4, <3>5, <3>6
  <2> QED BY <2>1, <2>2
<1> QED BY <1>1, <1>3, Zenon DEF FlagFromLog, Rules, FlagUntil, Now

-----------------------------------------------------------------------------
(***************************************************************************)
(* Any step of Playground keeps the invariant.                             *)
(***************************************************************************)

LEMMA CallStep ==
  ASSUME MemoryFollowsLog, NEW callee, NEW cell \in Cells \cup {UnknownCell},
         NEW minutes \in Minutes, NEW gap \in Nat, NEW lag \in Lags,
         Call(callee, cell, minutes, gap, lag)
  PROVE  MemoryFollowsLog'
<1>1. PICK n, call : Next(n, call) /\ Appended(n, call)
  BY NextIsTyped DEF MemoryFollowsLog
<1>2. /\ (Len(log) <= MaxCalls)' /\ LogOK' /\ VelocityFromLog' /\ SpendFromLog'
      /\ LocationFromLog' /\ CooldownFromLog' /\ FlagFromLog'
  BY <1>1, LogStep, VelocityStep, SpendStep, LocationStep, CooldownStep, FlagStep
<1> QED BY <1>2 DEF MemoryFollowsLog

LEMMA MemoryInit ==
  ASSUME PlayInit
  PROVE  MemoryFollowsLog
<1> USE DEF PlayInit
<1>1. Len(log) = 0 /\ log \in Seq(Outcomes) /\ DOMAIN log = {}
  OBVIOUS
<1>2. LogOK /\ Len(log) <= MaxCalls
  BY <1>1, CallsAssumption DEF LogOK, Calls
<1> DEFINE none == Within(0, VelocityWindow)
<1>9. none = {} /\ PremiumWithin(0) = {}
  BY DEF Within, PremiumWithin
<1>10. /\ velWin = [j \in {} |-> log[j].at]
       /\ spendWin = [j \in {} |-> [at |-> log[j].at, cost |-> Cost(log[j])]]
       /\ redis.velocity = Key({}, 0) /\ redis.spend = Key({}, 0)
  BY DEF EmptyMap, EmptyRedis
<1>11. CountEntries({}) = {} /\ SpendEntries({}) = {}
  BY DEF CountEntries, SpendEntries
<1>3. VelocityFromLog
  <2> HIDE DEF PlayInit
  <2>1. PICK n : n = Len(log) /\ n = 0
    BY <1>1
  <2>2. Within(n, VelocityWindow) = {}
    BY <1>9, <2>1, Zenon
  <2>3. /\ velWin = [j \in Within(n, VelocityWindow) |-> log[j].at]
        /\ redis.velocity = Key(CountEntries(Within(n, VelocityWindow)), 0)
    BY <1>10, <1>11, <2>2, Zenon
  <2> QED BY <2>1, <2>3 DEF VelocityFromLog
<1>4. 0 \in 0 .. Len(log)
  BY <1>1
<1>5. SpendSince(0)
  <2>1. ~ (0 > 0) /\ \A j : j \notin 0 + 1 .. Len(log)
    BY <1>1
  <2> QED BY <1>9, <1>10, <1>11, <2>1, Zenon DEF SpendSince
<1>6. LocationSince(0)
  BY <1>1 DEF LocationSince, EmptyRedis, Key
<1>7. CooldownFromLog
  BY <1>1 DEF CooldownFromLog, EmptyMap
<1>8. FlagFromLog
  BY <1>1 DEF FlagFromLog, EmptyRedis
<1> QED BY <1>2, <1>3, <1>4, <1>5, <1>6, <1>7, <1>8
        DEF MemoryFollowsLog, SpendFromLog, LocationFromLog

LEMMA ResetStep ==
  Reset => MemoryFollowsLog'
<1>1. PlayInit => MemoryFollowsLog
  BY MemoryInit
<1>2. Reset => PlayInit'
  BY DEF Reset, PlayInit, EmptyMap, EmptyRedis, Key, Rules
<1> QED BY <1>1, <1>2, PTL


-----------------------------------------------------------------------------
(***************************************************************************)
(* What follows from the invariant.                                        *)
(***************************************************************************)

LEMMA AlertsDue ==
  ASSUME MemoryFollowsLog
  PROVE  AlertsAreDue
BY DEF MemoryFollowsLog, LogOK, AlertsAreDue

\* With one lag for all calls the two cooldowns run alike: call by call, the alerts
\* before were the same, so these are.
LEMMA AlertsSame ==
  ASSUME MemoryFollowsLog
  PROVE  SameAlerts
<1> SUFFICES ASSUME \A i, j \in Calls : log[i].lag = log[j].lag
             PROVE  \A i \in Calls : log[i].scored = log[i].emitted
  BY DEF SameAlerts
<1> USE DEF MemoryFollowsLog
<1> DEFINE Same(k) == \A i \in 1 .. k : i \in Calls => log[i].scored = log[i].emitted
           N == {k \in Nat : Same(k)}
<1>1. /\ Len(log) \in Nat /\ Calls = 1 .. Len(log)
      /\ \A i \in Calls : log[i].scored = DueByStart(i) /\ log[i].emitted = Due(i)
  BY DEF LogOK, Calls
<1>2. ASSUME NEW i \in Calls, NEW j \in 1 .. i - 1
      PROVE  /\ j \in Calls
             /\ log[i].at - log[j].at = Now(log[i]) - Now(log[j])
  <2>1. j \in Calls
    BY <1>1
  <2>2. /\ Now(log[i]) = log[i].at + log[i].lag /\ Now(log[j]) = log[j].at + log[j].lag
        /\ log[i].at \in Nat /\ log[j].at \in Nat
        /\ log[i].lag \in Nat /\ log[j].lag \in Nat
    BY <1>1, <2>1, OutcomeTypes
  <2>3. log[i].lag = log[j].lag
    BY <2>1
  <2> QED BY <2>1, <2>2, <2>3
<1>3. 0 \in N
  OBVIOUS
<1>4. ASSUME NEW k \in N PROVE k + 1 \in N
  <2>1. ASSUME k + 1 \in Calls
        PROVE  log[k + 1].scored = log[k + 1].emitted
    <3> DEFINE i == k + 1
    <3>1. i - 1 = k /\ i \in Calls
      BY <2>1
    <3>2. \A j \in 1 .. i - 1 : log[j].scored = log[j].emitted
      BY <1>2, <3>1
    <3> HIDE DEF i
    <3>3. DueByStart(i) = Due(i)
      BY <1>2, <3>1, <3>2 DEF DueByStart, Due
    <3> QED BY <1>1, <3>1, <3>3 DEF i
  <2>2. \A i \in 1 .. k + 1 : i \in 1 .. k \/ i = k + 1
    OBVIOUS
  <2> QED BY <2>1, <2>2
<1>5. Len(log) \in N
  <2> HIDE DEF N
  <2>1. N \subseteq Nat
    BY DEF N
  <2> QED BY <1>1, <1>3, <1>4, <2>1, FromZeroOn
<1> QED BY <1>1, <1>5

LEMMA PlayTyped ==
  ASSUME MemoryFollowsLog
  PROVE  PlayTypeOK
<1> USE DEF MemoryFollowsLog
<1>1. PICK n \in Nat : n = Len(log)
  BY DEF LogOK
<1>2. Calls = 1 .. n
  BY <1>1 DEF LogOK, Calls
<1>3. n > 0 => n \in 1 .. n /\ LastStart = log[n].at
  <2>1. n > 0 => log # <<>>
    BY <1>1
  <2> QED BY <1>1, <2>1 DEF LastStart, Last
<1>4. ASSUME NEW i \in DOMAIN velWin
      PROVE  i \in Calls /\ velWin[i] \in LastStart - VelocityWindow + 1 .. LastStart
  <2>1. i \in Within(n, VelocityWindow) /\ velWin[i] = log[i].at
    BY <1>1 DEF VelocityFromLog
  <2>2. i \in 1 .. n /\ log[n].at - log[i].at < VelocityWindow
    BY <2>1 DEF Within
  <2>3. log[i].at <= log[n].at /\ log[i].at \in Nat /\ log[n].at \in Nat
    BY <1>1, <1>3, <2>2, InOrder, OutcomeTypes
  <2>4. LastStart = log[n].at
    BY <1>1, <1>3, <2>2
  <2>5. VelocityWindow \in Nat
    BY RulesAssumption
  <2> QED BY <1>2, <2>1, <2>2, <2>3, <2>4, <2>5
<1>5. ASSUME NEW i \in DOMAIN spendWin
      PROVE  i \in Calls /\ Premium(log[i])
  <2>1. PICK p \in 0 .. n : SpendSince(p)
    BY <1>1, Zenon DEF SpendFromLog
  <2>2. i \in PremiumWithin(p)
    BY <2>1 DEF SpendSince
  <2> QED BY <1>1, <1>2, <2>2 DEF PremiumWithin, Within
<1>6. lastLoc = NoLocation \/ \E i \in Calls : lastLoc = Location(log[i])
  <2>1. PICK l \in 0 .. n : LocationSince(l)
    BY <1>1, Zenon DEF LocationFromLog
  <2>2. l = 0 \/ l \in Calls
    BY <1>1, <1>2
  <2> QED BY <2>1, <2>2 DEF LocationSince
<1>7. ASSUME NEW r \in DOMAIN alerted
      PROVE  r \in Rules /\ alerted[r] \in 0 .. LastStart
  <2>1. r \in Rules
    BY DEF CooldownFromLog
  <2>2. PICK i \in 0 .. n : i > 0 /\ alerted[r] = log[i].at
    BY <1>1, <2>1 DEF CooldownFromLog
  <2>3. i \in 1 .. n
    BY <1>1, <2>2
  <2>4. log[i].at <= log[n].at /\ log[i].at \in Nat /\ log[n].at \in Nat
    BY <1>1, <1>3, <2>3, InOrder, OutcomeTypes
  <2> QED BY <1>1, <1>3, <2>1, <2>2, <2>3, <2>4
<1> QED BY <1>4, <1>5, <1>6, <1>7 DEF PlayTypeOK


=============================================================================
