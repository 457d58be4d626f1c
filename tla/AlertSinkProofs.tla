--------------------------- MODULE AlertSinkProofs ---------------------------
(***************************************************************************)
(* Proofs about AlertSink, for any number of replicas, any partition of    *)
(* alerts and any Limit: its types and the invariant SinkInv, that it      *)
(* implements Delivery, and that a listed alert stays listed.              *)
(***************************************************************************)
EXTENDS AlertSink, FiniteSetTheorems, TLAPS

-----------------------------------------------------------------------------
\* An offset and the one after it lie in the partition.
LEMMA OffsetFacts ==
  /\ NoRecord \notin Offsets
  /\ 0 \in 0 .. LogEnd
  /\ \A o \in Offsets : o \in 0 .. LogEnd /\ o + 1 \in 0 .. LogEnd
BY PartitionAssumption DEF Offsets

\* A replica whose loop is not idle has a record in hand.
LEMMA InHand ==
  ASSUME SinkTypeOK, SinkInv, NEW c \in Consumers, pc[c] \notin Idle
  PROVE  inhand[c] \in Offsets
BY DEF SinkTypeOK, GroupTypeOK, SinkInv, HandFull

\* An insert adds the alert's row, or finds one with its key: either way the key
\* is in the table, and no row is lost.
LEMMA InsertStores ==
  ASSUME NEW o \in Offsets, Insert(o)
  PROVE  /\ table \subseteq table'
         /\ table' \subseteq table \cup {Row(o)}
         /\ \A q \in table' : q \in table \/ q.id \notin StoredIds
         /\ StoredIds' = StoredIds \cup {AlertId[o]}
         /\ PrimaryKey => PrimaryKey'
<1>1. CASE AlertId[o] \in StoredIds
  BY <1>1 DEF Insert, StoredIds, PrimaryKey
<1>2. CASE AlertId[o] \notin StoredIds
  <2>1. table' = table \cup {Row(o)} /\ Row(o).id = AlertId[o]
    BY <1>2 DEF Insert, Row
  <2> QED
    BY <2>1, <1>2 DEF StoredIds, PrimaryKey
<1> QED
  BY <1>1, <1>2

\* The key is one of the table alone.
LEMMA KeyKept ==
  ASSUME PrimaryKey, UNCHANGED table
  PROVE  PrimaryKey'
BY DEF PrimaryKey

\* Every step keeps the types.
LEMMA SinkTypeStep ==
  ASSUME SinkTypeOK, SinkInv, SinkNext
  PROVE  SinkTypeOK'
<1> USE OffsetFacts, KeyKept DEF SinkTypeOK, GroupTypeOK, Locations
<1>1. PICK c \in Consumers :
        SinkStep(c) \/ Cancel(c) \/ Crash(c) \/ Restart(c) \/ Assign(c)
          \/ DropBuffer(c)
  BY DEF SinkNext
<1>2. pc[c] \notin Idle => inhand[c] \in Offsets
  BY InHand
<1>3. CASE Fetch(c)
  <2>1. position[c] \in Offsets /\ position[c] + 1 \in 0 .. LogEnd
    BY <1>3, PartitionAssumption DEF Fetch, HandOut, Offsets
  <2> QED
    BY <2>1, <1>3 DEF Fetch, HandOut, Goto
<1>4. CASE StoreAlert(c)
  BY <1>2, <1>4, InsertStores DEF StoreAlert, At, Idle, Goto, groupVars
<1>5. CASE StoreError(c)
  <2>1. table' \subseteq {Row(o) : o \in Offsets} /\ PrimaryKey'
    BY <1>2, <1>5, InsertStores DEF StoreError, At, Idle
  <2> QED
    BY <2>1, <1>5
    DEF StoreError, AfterStoreError, Return, LeaveGroup, LetGo, Goto, groupVars
<1>6. CASE Retry(c)
  BY <1>6 DEF Retry, Goto, groupVars
<1>7. CASE Commit(c)
  BY <1>2, <1>7
  DEF Commit, CommitMessages, CommitOffset, LetGo, Goto, At, Idle
<1>8. CASE Stop(c) \/ Crash(c)
  BY <1>8 DEF Stop, Crash, Return, LeaveGroup, LetGo, Goto
<1>9. CASE Cancel(c) \/ Restart(c)
  BY <1>9 DEF Cancel, Restart, Goto, groupVars
<1>10. CASE Assign(c)
  BY <1>10 DEF Assign, TakeOver, ResumeOffset
<1>11. CASE DropBuffer(c)
  BY <1>11 DEF DropBuffer, DropReader
<1> QED
  BY <1>1, <1>3, <1>4, <1>5, <1>6, <1>7, <1>8, <1>9, <1>10, <1>11 DEF SinkStep

\* The table and the history only grow: what is stored or handled stays so, and a
\* new row is that of an alert the table did not know.
LEMMA SinkGrows ==
  ASSUME SinkTypeOK, SinkInv, SinkNext
  PROVE  /\ table \subseteq table' /\ handled \subseteq handled'
         /\ \A q \in table' : q \in table \/ q.id \notin StoredIds
<1>1. PICK c \in Consumers :
        SinkStep(c) \/ Cancel(c) \/ Crash(c) \/ Restart(c) \/ Assign(c)
          \/ DropBuffer(c)
  BY DEF SinkNext
<1>2. CASE StoreAlert(c) \/ StoreError(c)
  BY <1>2, InHand, InsertStores
  DEF StoreAlert, StoreError, AfterStoreError, At, Idle
<1>3. CASE Fetch(c) \/ Retry(c) \/ Commit(c) \/ Stop(c)
  BY <1>3 DEF Fetch, Retry, Commit, Stop
<1> QED
  BY <1>1, <1>2, <1>3
  DEF SinkStep, Cancel, Crash, Restart, Assign, DropBuffer

\* A handled alert is stored: by its own insert, or by a copy's.
LEMMA HandledStep ==
  ASSUME SinkTypeOK, SinkInv, SinkNext
  PROVE  HandledIsStored'
<1> USE DEF SinkInv
<1>1. PICK c \in Consumers :
        SinkStep(c) \/ Cancel(c) \/ Crash(c) \/ Restart(c) \/ Assign(c)
          \/ DropBuffer(c)
  BY DEF SinkNext
<1>2. StoredIds \subseteq StoredIds'
  BY SinkGrows DEF StoredIds
<1>3. CASE StoreAlert(c)
  BY <1>3, InHand, InsertStores DEF StoreAlert, At, Idle, HandledIsStored
<1>4. CASE Fetch(c)
  BY <1>4, <1>2 DEF Fetch, HandledIsStored
<1>5. CASE UNCHANGED handled
  BY <1>5, <1>2 DEF HandledIsStored
<1> QED
  BY <1>1, <1>3, <1>4, <1>5
  DEF SinkStep, StoreError, AfterStoreError, Retry, Commit, Stop, Cancel, Crash,
      Restart, Assign, DropBuffer

\* Every step keeps the clauses about replicas and the committed offset.
LEMMA OrderStep ==
  ASSUME SinkTypeOK, SinkInv, SinkNext
  PROVE  /\ HandFull' /\ HandledBehindHand' /\ HandledBehindPosition'
         /\ HandledBeforeCommit' /\ CommitCoversHandled'
<1> USE OffsetFacts, SinkGrows, PartitionAssumption
    DEF SinkTypeOK, GroupTypeOK, SinkInv, Idle
<1>1. PICK c \in Consumers :
        SinkStep(c) \/ Cancel(c) \/ Crash(c) \/ Restart(c) \/ Assign(c)
          \/ DropBuffer(c)
  BY DEF SinkNext
<1>2. CASE Fetch(c)
  <2> USE <1>2 DEF Fetch, HandOut, At, Goto
  <2>1. position[c] \in Offsets /\ inhand[c] = NoRecord
    BY DEF Offsets, HandFull
  <2>2. HandFull' /\ CommitCoversHandled'
    BY <2>1 DEF HandFull, CommitCoversHandled
  <2>3. HandledBehindHand'
    BY <2>1 DEF HandledBehindHand, HandledBehindPosition
  <2>4. HandledBehindPosition'
    BY <2>1 DEF HandledBehindPosition, Offsets
  <2>5. HandledBeforeCommit'
    BY <2>1 DEF HandledBeforeCommit
  <2> QED
    BY <2>2, <2>3, <2>4, <2>5
<1>3. ASSUME NEW m \in {"store", "backoff", "commit"},
             pc[c] \notin Idle, Goto(c, m), UNCHANGED <<groupVars, inhand>>,
             m = "commit" => inhand[c] \in handled'
      PROVE  /\ HandFull' /\ HandledBehindHand' /\ HandledBehindPosition'
             /\ HandledBeforeCommit' /\ CommitCoversHandled'
  <2> USE <1>3 DEF Goto, groupVars
  <2>1. HandFull' /\ HandledBeforeCommit'
    BY DEF HandFull, HandledBeforeCommit
  <2>2. HandledBehindHand' /\ HandledBehindPosition' /\ CommitCoversHandled'
    BY DEF HandledBehindHand, HandledBehindPosition, CommitCoversHandled
  <2> QED
    BY <2>1, <2>2
<1>4. ASSUME Return(c)
      PROVE  /\ HandFull' /\ HandledBehindHand' /\ HandledBehindPosition'
             /\ HandledBeforeCommit' /\ CommitCoversHandled'
  <2> USE <1>4 DEF Return, LeaveGroup, LetGo, Goto
  <2>1. HandFull' /\ HandledBeforeCommit'
    BY DEF HandFull, HandledBeforeCommit
  <2>2. HandledBehindHand' /\ CommitCoversHandled'
    BY DEF HandledBehindHand, CommitCoversHandled
  <2>3. HandledBehindPosition'
    BY DEF HandledBehindPosition, Offsets
  <2> QED
    BY <2>1, <2>2, <2>3
<1>5. CASE StoreAlert(c)
  BY <1>3, <1>5 DEF StoreAlert, At
<1>6. CASE StoreError(c)
  BY <1>3, <1>4, <1>6 DEF StoreError, AfterStoreError, At
<1>7. CASE Retry(c)
  BY <1>3, <1>7 DEF Retry, At
<1>8. CASE Stop(c) \/ Crash(c)
  BY <1>4, <1>8 DEF Stop, Crash
<1>9. CASE Commit(c)
  <2> USE <1>9 DEF Commit, CommitMessages, LetGo, Goto, At
  <2>1. inhand[c] \in Offsets /\ inhand[c] \in handled
    BY InHand DEF HandledBeforeCommit
  <2>2. HandFull' /\ HandledBeforeCommit'
    BY DEF HandFull, HandledBeforeCommit
  <2>3. HandledBehindHand'
    BY DEF HandledBehindHand
  <2>4. HandledBehindPosition'
    BY <2>1 DEF HandledBehindPosition
  <2>5. \A o \in Offsets : o < inhand[c] + 1 => o \in handled
    BY <2>1 DEF HandledBehindHand, Offsets
  <2>6. CommitCoversHandled'
    BY <2>5 DEF CommitCoversHandled, CommitOffset
  <2> QED
    BY <2>2, <2>3, <2>4, <2>6
<1>10. CASE Cancel(c) \/ Restart(c) \/ Assign(c) \/ DropBuffer(c)
  <2> USE <1>10
      DEF Cancel, Restart, Assign, TakeOver, ResumeOffset, DropBuffer,
          DropReader, At, Goto, groupVars
  <2>1. HandFull' /\ HandledBeforeCommit'
    BY DEF HandFull, HandledBeforeCommit
  <2>2. HandledBehindHand' /\ CommitCoversHandled'
    BY DEF HandledBehindHand, CommitCoversHandled
  <2>3. HandledBehindPosition'
    BY DEF HandledBehindPosition, CommitCoversHandled, Offsets
  <2> QED
    BY <2>1, <2>2, <2>3
<1> QED
  BY <1>1, <1>2, <1>5, <1>6, <1>7, <1>8, <1>9, <1>10 DEF SinkStep

-----------------------------------------------------------------------------
(***************************************************************************)
(* The theorems.                                                           *)
(***************************************************************************)

\* The sink's types and SinkInv hold in every state: what it has passed over, on
\* any replica and in Kafka, is handled, and what it has handled is stored.
THEOREM SinkInvariance == SinkSpec => [](SinkTypeOK /\ SinkInv)
<1>1. SinkInit => SinkTypeOK /\ SinkInv
  BY OffsetFacts, PartitionAssumption
  DEF SinkInit, GroupInit, SinkTypeOK, GroupTypeOK, SinkInv, HandFull,
      HandledIsStored, HandledBehindHand, HandledBehindPosition,
      HandledBeforeCommit, CommitCoversHandled, Locations, Idle, Offsets,
      PrimaryKey
<1>2. SinkTypeOK /\ SinkInv /\ [SinkNext]_sinkVars => (SinkTypeOK /\ SinkInv)'
  <2> SUFFICES ASSUME SinkTypeOK, SinkInv, [SinkNext]_sinkVars
               PROVE  SinkTypeOK' /\ SinkInv'
    OBVIOUS
  <2>1. CASE SinkNext
    BY <2>1, SinkTypeStep, HandledStep, OrderStep DEF SinkInv
  <2>2. CASE UNCHANGED sinkVars
    BY <2>2
    DEF sinkVars, groupVars, SinkTypeOK, GroupTypeOK, SinkInv, HandFull, PrimaryKey,
        HandledIsStored, HandledBehindHand, HandledBehindPosition,
        HandledBeforeCommit, CommitCoversHandled, StoredIds
  <2> QED
    BY <2>1, <2>2
<1> QED
  BY <1>1, <1>2, PTL DEF SinkSpec

\* The sink's state has its types: the table holds one row per alert at most.
THEOREM SinkTypeCorrect == SinkSpec => []SinkTypeOK
BY SinkInvariance, PTL

\* No alert's offset is committed before the alert is in the table.
THEOREM StoreSafety == SinkSpec => []StoredBeforeCommit
<1>1. SinkInv => StoredBeforeCommit
  BY DEF SinkInv, CommitCoversHandled, HandledIsStored, StoredBeforeCommit
<1> QED
  BY <1>1, SinkInvariance, PTL

\* One step of the sink is one step of Delivery, or none.
LEMMA SinkDeliveryStep ==
  ASSUME SinkTypeOK, SinkInv, SinkNext
  PROVE  [Abstract!Next]_(Abstract!deliveryVars)
<1> USE DEF Abstract!Next, Abstract!deliveryVars
<1>1. PICK c \in Consumers :
        SinkStep(c) \/ Cancel(c) \/ Crash(c) \/ Restart(c) \/ Assign(c)
          \/ DropBuffer(c)
  BY DEF SinkNext
<1>2. CASE Fetch(c)
  <2>1. position[c] \in 0 .. LogEnd - 1
    BY <1>2, PartitionAssumption
    DEF Fetch, HandOut, SinkTypeOK, GroupTypeOK
  <2>2. StoredIds' = StoredIds /\ committed' = committed
    BY <1>2 DEF Fetch, HandOut, StoredIds
  <2>3. CASE position[c] \in Unparseable
    <3>1. Abstract!Complete(position[c])
      BY <1>2, <2>2, <2>3 DEF Fetch, Abstract!Complete
    <3> QED
      BY <2>1, <3>1
  <2>4. CASE position[c] \notin Unparseable
    BY <1>2, <2>2, <2>4 DEF Fetch
  <2> QED
    BY <2>3, <2>4
<1>3. CASE StoreAlert(c)
  <2>1. inhand[c] \in Offsets
    BY <1>3, InHand DEF StoreAlert, At, Idle
  <2>2. Abstract!Complete(inhand[c])
    BY <1>3, <2>1, InsertStores DEF StoreAlert, groupVars, Abstract!Complete
  <2> QED
    BY <2>1, <2>2 DEF Offsets
<1>4. CASE StoreError(c)
  <2>1. inhand[c] \in Offsets
    BY <1>4, InHand DEF StoreError, At, Idle
  <2>2. UNCHANGED <<committed, handled>>
    BY <1>4 DEF StoreError, AfterStoreError, Return, LeaveGroup, groupVars
  <2>3. StoredIds' \in {StoredIds, StoredIds \cup {AlertId[inhand[c]]}}
    BY <1>4, <2>1, InsertStores DEF StoreError, StoredIds
  <2>4. UNCHANGED Abstract!deliveryVars \/ Abstract!Apply(AlertId[inhand[c]])
    BY <2>2, <2>3 DEF Abstract!Apply
  <2> QED
    BY <2>1, <2>4 DEF Offsets
<1>5. CASE Commit(c)
  <2>1. inhand[c] \in Offsets /\ inhand[c] \in handled
    BY <1>5, InHand DEF Commit, At, Idle, SinkInv, HandledBeforeCommit
  <2>2. 0 .. (inhand[c] + 1) - 1 \subseteq handled
    BY <2>1, PartitionAssumption, OffsetFacts
    DEF SinkInv, HandledBehindHand, Offsets
  <2>3. inhand[c] + 1 \in 0 .. LogEnd
    BY <2>1, OffsetFacts
  <2>4. UNCHANGED <<table, handled>> /\ StoredIds' = StoredIds
    BY <1>5 DEF Commit, StoredIds
  <2>5. UNCHANGED Abstract!deliveryVars \/ Abstract!CommitUpTo(inhand[c] + 1)
    BY <1>5, <2>2, <2>4
    DEF Commit, CommitMessages, CommitOffset, Abstract!CommitUpTo
  <2> QED
    BY <2>3, <2>5
<1>6. CASE UNCHANGED <<committed, table, handled>>
  BY <1>6 DEF StoredIds
<1> QED
  BY <1>1, <1>2, <1>3, <1>4, <1>5, <1>6
  DEF SinkStep, Retry, Stop, Cancel, Crash, Restart, Assign, DropBuffer, Return,
      LeaveGroup, TakeOver, DropReader, groupVars

\* The replicas of group "read-api" deliver every alert to the table at least once.
THEOREM SinkRefinement == SinkSpec => SinkImplementsDelivery
<1>1. SinkInit => Abstract!Init
  BY DEF SinkInit, GroupInit, StoredIds, Abstract!Init
<1>2. SinkTypeOK /\ SinkInv /\ [SinkNext]_sinkVars
        => [Abstract!Next]_(Abstract!deliveryVars)
  <2>1. UNCHANGED sinkVars => UNCHANGED Abstract!deliveryVars
    BY DEF sinkVars, groupVars, StoredIds, Abstract!deliveryVars
  <2> QED
    BY <2>1, SinkDeliveryStep
<1> QED
  BY <1>1, <1>2, SinkInvariance, PTL
  DEF SinkSpec, SinkImplementsDelivery, Abstract!Spec

\* An alert GET /alerts lists is only ever pushed out by newer ones: no insert
\* removes or changes a row, and none adds one for an alert that has one.
THEOREM ListStability == SinkSpec => ListedStays
<1>1. SinkTypeOK /\ SinkInv /\ SinkTypeOK' /\ [SinkNext]_sinkVars =>
        \A r \in RecentAlerts \ RecentAlerts' :
          Cardinality({q \in table' : PushesOut(q, r)}) >= Limit
  <2> SUFFICES ASSUME SinkTypeOK, SinkInv, SinkTypeOK', [SinkNext]_sinkVars,
                      NEW r \in RecentAlerts \ RecentAlerts'
               PROVE  Cardinality({q \in table' : PushesOut(q, r)}) >= Limit
    OBVIOUS
  <2> DEFINE newer == {q \in table' : q.detected_at > r.detected_at}
  <2>1. IsFiniteSet(Offsets)
    BY PartitionAssumption, FS_Interval DEF Offsets
  <2>2. IsFiniteSet({Row(o) : o \in Offsets})
    <3> DEFINE rowOf == [o \in Offsets |-> Row(o)]
    <3>1. rowOf \in Surjection(Offsets, {Row(o) : o \in Offsets})
      BY DEF Surjection
    <3> QED
      BY <2>1, <3>1, FS_Surjection
  <2>3. newer \subseteq {Row(o) : o \in Offsets}
    BY DEF SinkTypeOK
  <2>4. Cardinality(newer) \in Nat
    BY <2>2, <2>3, FS_Subset, FS_CardinalityType
  <2>5. /\ table \subseteq table'
        /\ \A q \in table' : q \in table \/ q.id \notin StoredIds
    BY SinkGrows DEF sinkVars
  <2>6. ~ (Cardinality(newer) < Limit)
    BY <2>5 DEF RecentAlerts
  <2>7. newer = {q \in table' : PushesOut(q, r)}
    BY <2>5 DEF PushesOut
  <2>8. Cardinality(newer) >= Limit
    BY <2>4, <2>6, AlertsAssumption
  <2> HIDE DEF newer
  <2> QED
    BY <2>7, <2>8, Zenon
<1>2. SinkTypeOK /\ SinkInv /\ SinkTypeOK' /\ [SinkNext]_sinkVars =>
        [\A r \in RecentAlerts \ RecentAlerts' :
           Cardinality({q \in table' : PushesOut(q, r)}) >= Limit]_sinkVars
  BY <1>1
<1> QED
  BY <1>2, SinkInvariance, PTL DEF SinkSpec, ListedStays

=============================================================================
