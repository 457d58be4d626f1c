------------------------------ MODULE AlertSink ------------------------------
(***************************************************************************)
(* The read-api on ONE partition of cdr.fraud.alert (services/read-api):   *)
(* consumeAlerts stores every alert in Postgres, retrying until it is in,  *)
(* and commits its offset; recentAlerts is what GET /alerts answers from.  *)
(*                                                                         *)
(* The fraud service may publish one alert several times (a retry, a       *)
(* redelivery, two replicas): such copies agree in record_id and rule, the *)
(* primary key, and differ in detected_at.                                 *)
(***************************************************************************)
EXTENDS KafkaGroup

CONSTANTS
  AlertId,       \* [offset -> <<record_id, rule>>]
  DetectedAt,    \* [offset -> detected_at]
  Unparseable,   \* offsets whose value UnmarshalAlert rejects
  Limit          \* rows GET /alerts asks for

AlertIds == {AlertId[o] : o \in Offsets}

ASSUME AlertsAssumption ==
  /\ DOMAIN AlertId = Offsets
  /\ Unparseable \subseteq Offsets
  /\ DetectedAt \in [Offsets -> Nat]
  /\ Limit \in Nat

VARIABLES
  cancelled,     \* replicas whose signal context is done
  pc,            \* [Consumers -> where consumeAlerts stands]
  table,         \* rows of fraud_alerts
  handled        \* history: offsets consumeAlerts is done with

sinkVars == <<groupVars, inhand, cancelled, pc, table, handled>>

Locations == {"fetch", "store", "backoff", "commit", "down"}
Idle == {"fetch", "down"}

Row(o) == [id |-> AlertId[o], detected_at |-> DetectedAt[o]]
StoredIds == {r.id : r \in table}

\* PRIMARY KEY (record_id, rule): an alert is in the table once.
PrimaryKey == \A q, r \in table : q.id = r.id => q = r

SinkTypeOK ==
  /\ GroupTypeOK
  /\ cancelled \subseteq Consumers
  /\ pc \in [Consumers -> Locations]
  /\ table \subseteq {Row(o) : o \in Offsets}
  /\ PrimaryKey
  /\ handled \subseteq Offsets

SinkInit ==
  /\ GroupInit
  /\ cancelled = {}
  /\ pc = [c \in Consumers |-> "fetch"]
  /\ table = {}
  /\ handled = {}

-----------------------------------------------------------------------------
At(c, l) == pc[c] = l
Goto(c, l) == pc' = [pc EXCEPT ![c] = l]

\* consumeAlerts returns, and its deferred reader.Close leaves the group; main
\* is shutting down as well.
Return(c) ==
  /\ LeaveGroup(c)
  /\ LetGo(c)
  /\ cancelled' = cancelled \ {c}
  /\ Goto(c, "down")

\* FetchMessage, then UnmarshalAlert: a value that is no alert is not stored, and
\* its offset committed at once.
Fetch(c) ==
  /\ At(c, "fetch")
  /\ HandOut(c)
  /\ IF position[c] \in Unparseable
       THEN /\ Goto(c, "commit")
            /\ handled' = handled \cup {position[c]}
       ELSE /\ Goto(c, "store")
            /\ UNCHANGED handled
  /\ UNCHANGED <<cancelled, table>>

\* Deviation: ON CONFLICT DO UPDATE.
InsertUpdates(o) ==
  table' = {r \in table : r.id # AlertId[o]} \cup {Row(o)}

\* Deviation: INSERT with no key to conflict with.
InsertAnyway(o) == table' = table \cup {Row(o)}

\* INSERT ... ON CONFLICT (record_id, rule) DO NOTHING.
Insert(o) ==
  table' = IF AlertId[o] \in StoredIds THEN table ELSE table \cup {Row(o)}

\* storeAlert returns nil.
StoreAlert(c) ==
  /\ At(c, "store")
  /\ Insert(inhand[c])
  /\ handled' = handled \cup {inhand[c]}
  /\ Goto(c, "commit")
  /\ UNCHANGED <<groupVars, inhand, cancelled>>

\* Deviation: the alert is given up after an error.
AfterStoreErrorGivesUp(c) ==
  /\ handled' = handled \cup {inhand[c]}
  /\ Goto(c, "commit")
  /\ UNCHANGED <<groupVars, inhand, cancelled>>

\* return when the context is done, otherwise wait a second.
AfterStoreError(c) ==
  /\ IF c \in cancelled
       THEN Return(c)
       ELSE Goto(c, "backoff") /\ UNCHANGED <<groupVars, inhand, cancelled>>
  /\ UNCHANGED handled

\* storeAlert returns an error, the row inserted or not.
StoreError(c) ==
  /\ At(c, "store")
  /\ Insert(inhand[c]) \/ UNCHANGED table
  /\ AfterStoreError(c)

\* time.After(time.Second) fires: store again, without end.
Retry(c) ==
  /\ At(c, "backoff")
  /\ Goto(c, "store")
  /\ UNCHANGED <<groupVars, inhand, cancelled, table, handled>>

\* FetchMessage fails, or the backoff's select wakes, with the context done.
Stop(c) ==
  /\ pc[c] \in {"fetch", "backoff"}
  /\ c \in cancelled
  /\ Return(c)
  /\ UNCHANGED <<table, handled>>

\* CommitMessages; an error is at most logged.
Commit(c) ==
  /\ At(c, "commit")
  /\ CommitMessages(c)
  /\ LetGo(c)
  /\ Goto(c, "fetch")
  /\ UNCHANGED <<cancelled, table, handled>>

\* SIGTERM.
Cancel(c) ==
  /\ pc[c] # "down"
  /\ c \notin cancelled
  /\ cancelled' = cancelled \cup {c}
  /\ UNCHANGED <<groupVars, inhand, pc, table, handled>>

\* The process dies, or main returns while consumeAlerts still runs.
Crash(c) ==
  /\ pc[c] # "down"
  /\ Return(c)
  /\ UNCHANGED <<table, handled>>

\* The process is started again, and connectDB, the schema and EnsureTopics
\* succeed; when one of them fails main returns: a stuttering step.
Restart(c) ==
  /\ At(c, "down")
  /\ Goto(c, "fetch")
  /\ UNCHANGED <<groupVars, inhand, cancelled, table, handled>>

Assign(c) ==
  /\ pc[c] # "down"
  /\ TakeOver(c)
  /\ UNCHANGED <<cancelled, pc, table, handled>>

DropBuffer(c) ==
  /\ DropReader(c)
  /\ UNCHANGED <<cancelled, pc, table, handled>>

-----------------------------------------------------------------------------
SinkStep(c) ==
  \/ Fetch(c)
  \/ StoreAlert(c)
  \/ StoreError(c)
  \/ Retry(c)
  \/ Commit(c)
  \/ Stop(c)

SinkNext ==
  \E c \in Consumers :
    \/ SinkStep(c)
    \/ Cancel(c)
    \/ Crash(c)
    \/ Restart(c)
    \/ Assign(c)
    \/ DropBuffer(c)

SinkSpec == SinkInit /\ [][SinkNext]_sinkVars

\* A replica that is up takes its next step, one that is down is restarted, and
\* a partition nobody owns is assigned.  That a store succeeds is not assumed.
SinkFairness ==
  /\ \A c \in Consumers :
       /\ WF_sinkVars(SinkStep(c))
       /\ WF_sinkVars(Restart(c))
  /\ WF_sinkVars(owner = NoOne /\ \E c \in Consumers : Assign(c))

SinkFairSpec == SinkSpec /\ SinkFairness

-----------------------------------------------------------------------------
(***************************************************************************)
(* Properties.                                                             *)
(***************************************************************************)

\* main.go, "retry store until success", then commit: an offset the group will not
\* see again belongs to an alert that is in the table, whatever crashes,
\* rebalances and commits of a former owner do.
StoredBeforeCommit ==
  \A o \in Offsets \ Unparseable : o < committed => AlertId[o] \in StoredIds

\* The parts of its inductive invariant, as in CdrConsumer.
HandFull ==
  \A c \in Consumers : inhand[c] = NoRecord <=> pc[c] \in Idle

HandledIsStored ==
  \A o \in handled \ Unparseable : AlertId[o] \in StoredIds

HandledBehindHand ==
  \A c \in Consumers, o \in Offsets :
    inhand[c] # NoRecord /\ o < inhand[c] => o \in handled

HandledBehindPosition ==
  \A c \in Consumers, o \in Offsets :
    o < position[c] => o \in handled \/ o = inhand[c]

HandledBeforeCommit ==
  \A c \in Consumers : pc[c] = "commit" => inhand[c] \in handled

CommitCoversHandled ==
  \A o \in Offsets : o < committed => o \in handled

SinkInv ==
  /\ HandFull
  /\ HandledIsStored
  /\ HandledBehindHand
  /\ HandledBehindPosition
  /\ HandledBeforeCommit
  /\ CommitCoversHandled

\* The sink delivers at least once and, unlike the fraud service, sets nothing
\* aside.
Abstract ==
  INSTANCE Delivery WITH RecordId <- AlertId, applied <- StoredIds,
                         processed <- handled, aside <- {}
SinkImplementsDelivery == Abstract!Spec

\* GET /alerts: the newest rows, at most Limit of them (of rows detected at the
\* same moment, whichever come first).
RecentAlerts ==
  {r \in table : Cardinality({q \in table : q.detected_at > r.detected_at}) < Limit}

\* q can push r out of that list: it is newer, and a row the table has, or gets for
\* an alert it does not know yet.
PushesOut(q, r) ==
  /\ q.detected_at > r.detected_at
  /\ q \in table \/ q.id \notin StoredIds

\* main.go, "consumes into Postgres (idempotently)": an alert leaves the list of
\* GET /alerts only for Limit newer alerts; no copy of an alert, redelivered or
\* published again by a retry and detected later, moves it or pushes others out.
ListedStays ==
  [][\A r \in RecentAlerts \ RecentAlerts' :
       Cardinality({q \in table' : PushesOut(q, r)}) >= Limit]_sinkVars

\* Every alert is stored in the end, if in the end the replicas are left alone and
\* Postgres answers; until then the first one that cannot be stored holds up all
\* later ones.
Trouble ==
  \/ \E c \in Consumers : Cancel(c) \/ Crash(c) \/ StoreError(c)
  \/ owner # NoOne /\ \E c \in Consumers : Assign(c)

AllStored ==
  <>[][~Trouble]_sinkVars =>
    \A o \in Offsets \ Unparseable : <>(AlertId[o] \in StoredIds)

=============================================================================
