------------------------------ MODULE Traffic ------------------------------
(***************************************************************************)
(* The calls Playground scores, as the demo produces them:                 *)
(* services/generator/main.go calls for its subscribers and injects a      *)
(* scenario for one of them from time to time.  A scenario is written in   *)
(* one pass of the select loop, so no other of its calls comes between.    *)
(* A record that cannot be written is lost.  Here is one subscriber, to    *)
(* whom the page's users may give calls as well.                           *)
(***************************************************************************)
EXTENDS Playground

CONSTANTS
  Home,          \* the subscriber's home cell
  FarKm,         \* how far an impossible trip goes, 2000 km
  BurstSize,     \* BURST_SIZE
  IrsfCalls,     \* IRSF_CALLS
  IrsfMinutes,   \* how long the calls of that scenario last, 5 to 15 minutes
  Pause,         \* the longest time between the starts of a scenario's calls
  DomesticNumber, PremiumNumber

\* The defaults: no rule is off, bursts reach the threshold, premium calls are
\* premium and last long enough, and from any cell of the catalog New York or Sydney
\* is far enough away.  A call of a scenario starts when the one before is written:
\* nothing in the code bounds that time, but for a burst or a run of premium calls to
\* be in one window, and for a trip to be impossible, it must not take too long.
ASSUME TrafficAssumption ==
  /\ Home \in Cells
  /\ {BurstSize, IrsfCalls, FarKm, Pause} \subseteq Nat
  /\ {VelocityWindow, VelocityThreshold, MaxSpeed,
      SpendWindow, SpendThreshold} \subseteq Nat \ {0}
  /\ BurstSize >= VelocityThreshold
  /\ (BurstSize - 1) * Pause < VelocityWindow
  /\ (IrsfCalls - 1) * Pause < SpendWindow
  /\ FarKm >= MaxSpeed * Max({Pause, 1})
  /\ \E c \in Cells : Distance[<<Home, c>>] > FarKm
  /\ Lookup(PremiumNumber).premium
  /\ IrsfMinutes \subseteq Minutes
  /\ \A m \in IrsfMinutes :
       IrsfCalls * m * Lookup(PremiumNumber).rate >= SpendThreshold

VARIABLES
  injecting,     \* the scenario under way: its rule, the calls left; or None
  injected       \* history: the last scenario finished, and its last call; or None

trafficVars == <<playVars, injecting, injected>>

None == [rule |-> "none"]

TrafficInit == PlayInit /\ injecting = None /\ injected = None

TrafficTypeOK ==
  /\ PlayTypeOK
  /\ injecting = None \/ /\ injecting.rule \in Rules
                         /\ injecting.left \in 1 .. Max({BurstSize, IrsfCalls, 2})
                         /\ injecting.whole \in BOOLEAN
  /\ injected = None \/ /\ injected.rule \in Rules
                        /\ injected.upto \in 1 .. Len(log)

-----------------------------------------------------------------------------
\* Deviation: the comparison with FarKm is the wrong way round.
FarCellNear(cell) == {c \in Cells : Distance[<<cell, c>>] <= FarKm}

\* farCellFrom: any cell further away than FarKm; home itself when there is none.
FarCell(cell) ==
  LET far == {c \in Cells : Distance[<<cell, c>>] > FarKm}
  IN  IF far = {} THEN {cell} ELSE far

ScenarioCalls(rule) ==
  CASE rule = "velocity" -> BurstSize
    [] rule = "impossible_travel" -> 2
    [] rule = "irsf" -> IrsfCalls

\* A tick of one of the three injection timers picks the subscriber.
Inject(rule) ==
  /\ injecting = None
  /\ ScenarioCalls(rule) > 0
  /\ Len(log) + ScenarioCalls(rule) <= MaxCalls
  /\ injecting' = [rule |-> rule, left |-> ScenarioCalls(rule), whole |-> TRUE]
  /\ UNCHANGED <<playVars, injected>>

\* The next call of the scenario is written, or not.
Advance(whole, upto) ==
  IF injecting.left > 1
    THEN /\ injecting' = [injecting EXCEPT !.left = @ - 1, !.whole = whole]
         /\ UNCHANGED injected
    ELSE /\ injecting' = None
         /\ injected' = IF whole THEN [rule |-> injecting.rule, upto |-> upto]
                                 ELSE injected

\* emit: a call starts when the one before has been written.
EmitScenario(gap, lag) ==
  /\ injecting # None
  /\ injecting.left < ScenarioCalls(injecting.rule) => gap <= Pause
  /\ \E cell \in IF injecting.rule = "impossible_travel" /\ injecting.left = 1
                   THEN FarCell(Home) ELSE {Home},
        minutes \in IF injecting.rule = "irsf" THEN IrsfMinutes ELSE Minutes :
       Call(IF injecting.rule = "irsf" THEN PremiumNumber ELSE DomesticNumber,
            cell, minutes, gap, lag)
  /\ Advance(injecting.whole, Len(log) + 1)

\* WriteMessages fails: the record is logged as lost, and the loop goes on.
LoseScenarioCall ==
  /\ injecting # None
  /\ Advance(FALSE, 0)
  /\ UNCHANGED playVars

\* normalTick, and what the page sends.
Background(callee, cell, minutes, gap, lag) ==
  /\ injecting = None
  /\ Call(callee, cell, minutes, gap, lag)
  /\ UNCHANGED <<injecting, injected>>

TrafficReset == Reset /\ injecting' = None /\ injected' = None

TrafficNext ==
  \/ \E callee \in Callees, cell \in Cells \cup {UnknownCell},
        minutes \in Minutes, gap \in Gaps, lag \in Lags :
       Background(callee, cell, minutes, gap, lag)
  \/ \E rule \in Rules : Inject(rule)
  \/ \E gap \in Gaps \cup (0 .. Pause), lag \in Lags : EmitScenario(gap, lag)
  \/ LoseScenarioCall
  \/ TrafficReset

TrafficSpec == TrafficInit /\ [][TrafficNext]_trafficVars

-----------------------------------------------------------------------------
\* README, "injects each scenario on a timer, so a fresh run flags all three": when
\* all calls of a scenario got through, its rule was flagged for the subscriber by
\* its last call, or less than a cooldown before, whatever was called earlier and
\* although the service's lag varies.  Its calls are at most Pause apart, and the
\* service lags no more than a window (TTLAssumption).
ScenarioFlagged ==
  injected # None =>
    LET rule == injected.rule
        final == log[injected.upto]
    IN  /\ \E i \in 1 .. injected.upto :
             rule \in log[i].scored /\ final.at - log[i].at < Cooldown
        /\ \E i \in 1 .. injected.upto :
             rule \in log[i].emitted /\ Now(final) - Now(log[i]) < Cooldown

=============================================================================
