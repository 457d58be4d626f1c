-------------------------- MODULE CdrConsumerProofs --------------------------
(***************************************************************************)
(* Proofs about CdrConsumer, for any number of replicas, any partition and *)
(* any number of attempts: its type invariant, the invariant LoopInv with  *)
(* the properties it contains, and that it implements Delivery.            *)
(***************************************************************************)
EXTENDS CdrConsumer, TLAPS

-----------------------------------------------------------------------------
\* Offsets and the values the loop starts from have the types TypeOK gives them.
LEMMA ConstantFacts ==
  /\ NoRecord \notin Offsets
  /\ 0 \in 0 .. LogEnd
  /\ 1 \in 1 .. MaxAttempts
  /\ \A o \in Offsets : o \in 0 .. LogEnd /\ o + 1 \in 0 .. LogEnd
  /\ \A o \in Offsets : RecordId[o] \in RecordIds
BY PartitionAssumption, AttemptsAssumption DEF Offsets, RecordIds

\* A replica that gives up a record, or goes into backoff, keeps its types.
LEMMA FailKeepsTypes ==
  ASSUME TypeOK, NEW c \in Consumers, inhand[c] \in Offsets, Fail(c)
  PROVE  /\ pc' \in [Consumers -> Locations]
         /\ inhand' \in [Consumers -> Offsets \cup {NoRecord}]
         /\ attempt' \in [Consumers -> 1 .. MaxAttempts]
         /\ left' \subseteq Offsets
BY ConstantFacts
DEF TypeOK, Fail, GiveUp, Release, Goto, Locations, GroupTypeOK, LetGo

\* Every step of the loop and of the group keeps TypeOK; HandFull says when there
\* is a record in hand to speak of.
LEMMA TypeStep ==
  ASSUME TypeOK, HandFull, Next
  PROVE  TypeOK'
<1> USE ConstantFacts DEF TypeOK, GroupTypeOK
<1>1. ASSUME NEW c \in Consumers, pc[c] \notin Idle
      PROVE  inhand[c] \in Offsets /\ Record(c) \in RecordIds
  BY <1>1 DEF HandFull, Record
<1>2. ASSUME NEW c \in Consumers, LoopStep(c)
      PROVE  TypeOK'
  <2>1. CASE Fetch(c)
    <3>1. position[c] \in Offsets /\ position[c] + 1 \in 0 .. LogEnd
      BY <2>1, PartitionAssumption DEF Fetch, Offsets, HandOut
    <3> QED
      BY <3>1, <2>1 DEF Fetch, Goto, historyVars, Locations, HandOut
  <2>2. CASE HandleUnparseable(c)
    BY <1>1, <2>2 DEF HandleUnparseable, At, Goto, Idle, groupVars, Locations
  <2>3. CASE HandleSeen(c)
    BY <1>1, <2>3 DEF HandleSeen, At, Goto, Idle, groupVars, Locations
  <2>4. CASE HandleNew(c)
    BY <2>4 DEF HandleNew, Goto, groupVars, historyVars, Locations
  <2>5. CASE HandleError(c)
    BY <1>1, <2>5, FailKeepsTypes DEF HandleError, At, Idle, groupVars
  <2>6. CASE MarkSeen(c)
    BY <1>1, <2>6 DEF MarkSeen, At, Goto, Idle, groupVars, Locations
  <2>7. CASE MarkSeenError(c)
    BY <1>1, <2>7, FailKeepsTypes DEF MarkSeenError, At, Idle, groupVars
  <2>8. CASE Retry(c)
    <3>1. attempt[c] < MaxAttempts => attempt[c] + 1 \in 1 .. MaxAttempts
      BY AttemptsAssumption
    <3> QED
      BY <3>1, <2>8
      DEF Retry, MoreAttempts, NextAttempt, Goto, groupVars, historyVars, Locations
  <2>9. CASE BackoffCancelled(c)
    BY <1>1, <2>9
    DEF BackoffCancelled, GiveUp, Release, Goto, At, Idle, groupVars,
        Locations, LetGo
  <2>10. CASE DeadLetter(c)
    BY <1>1, <2>10
    DEF DeadLetter, At, Goto, Idle, groupVars, historyVars, Locations
  <2>11. CASE DeadLetterError(c)
    BY <1>1, <2>11
    DEF DeadLetterError, GiveUp, Release, Goto, At, Idle, groupVars, Locations,
        LetGo
  <2>12. CASE Commit(c)
    BY <1>1, <2>12
    DEF Commit, CommitOffset, Release, Goto, At, Idle, historyVars, Locations,
        CommitMessages, LetGo
  <2>13. CASE Stop(c)
    BY <2>13 DEF Stop, LeaveGroup, Goto, historyVars, Locations
  <2> QED
    BY <1>2, <2>1, <2>2, <2>3, <2>4, <2>5, <2>6, <2>7, <2>8, <2>9, <2>10,
       <2>11, <2>12, <2>13
    DEF LoopStep
<1>3. ASSUME NEW c \in Consumers, ChecksStep(c)
      PROVE  TypeOK'
  <2>1. CASE ChecksDone(c)
    BY <1>1, <2>1 DEF ChecksDone, At, Goto, Idle, groupVars, Locations
  <2>2. CASE ChecksError(c)
    BY <1>1, <2>2, FailKeepsTypes DEF ChecksError, At, Idle, groupVars
  <2> QED
    BY <1>3, <2>1, <2>2 DEF ChecksStep
<1>4. ASSUME NEW c \in Consumers,
             Cancel(c) \/ Crash(c) \/ Restart(c) \/ Assign(c) \/ DropBuffer(c)
      PROVE  TypeOK'
  <2>1. CASE Cancel(c)
    BY <2>1 DEF Cancel, groupVars, historyVars
  <2>2. CASE Crash(c)
    BY <2>2 DEF Crash, LeaveGroup, historyVars, Locations, Goto, LetGo
  <2>3. CASE Restart(c)
    BY <2>3 DEF Restart, Goto, groupVars, historyVars, Locations
  <2>4. CASE Assign(c)
    BY <2>4 DEF Assign, ResumeOffset, loopVars, historyVars, TakeOver
  <2>5. CASE DropBuffer(c)
    BY <2>5 DEF DropBuffer, loopVars, historyVars, DropReader
  <2> QED
    BY <1>4, <2>1, <2>2, <2>3, <2>4, <2>5
<1>5. ASSUME NEW r \in RecordIds, SeenExpire(r)
      PROVE  TypeOK'
  BY <1>5 DEF SeenExpire, groupVars, loopVars, historyVars
<1> QED
  BY <1>2, <1>3, <1>4, <1>5 DEF Next, GroupStep

-----------------------------------------------------------------------------
(***************************************************************************)
(* LoopInv.  It splits into what concerns one replica (the five clauses    *)
(* about pc, inhand and position) and what concerns the stores.  Settled,  *)
(* applied and the dead-letter topic only grow, so a clause about another  *)
(* replica survives every step.                                            *)
(***************************************************************************)

\* Nothing that is settled or applied ever stops being so: the outcomes grow.
LEMMA OutcomesGrow ==
  ASSUME TypeOK, HandFull, Next
  PROVE  /\ Settled \subseteq Settled'
         /\ applied \subseteq applied'
<1> USE DEF Settled, Fail, GiveUp, groupVars, loopVars, historyVars
<1>1. ASSUME NEW c \in Consumers, LoopStep(c)
      PROVE  Settled \subseteq Settled' /\ applied \subseteq applied'
  BY <1>1
  DEF LoopStep, Fetch, HandleUnparseable, HandleSeen, HandleNew, HandleError,
      MarkSeen, MarkSeenError, Retry, BackoffCancelled, DeadLetter,
      DeadLetterError, Commit, Stop, HandOut, CommitMessages
<1>2. ASSUME NEW c \in Consumers, ChecksStep(c)
      PROVE  Settled \subseteq Settled' /\ applied \subseteq applied'
  BY <1>2 DEF ChecksStep, ChecksDone, ChecksError
<1>3. CASE GroupStep
  BY <1>3
  DEF GroupStep, Cancel, Crash, Restart, Assign, DropBuffer, SeenExpire, Goto,
      LetGo, TakeOver, DropReader
<1> QED
  BY <1>1, <1>2, <1>3 DEF Next

\* A replica that is at `l`, an inner location, goes to `m` with its record; the
\* reader does not move.  The clauses of LoopInv about replicas then hold after
\* the step if the new location's own clause does.
LEMMA KeepRecord ==
  ASSUME TypeOK, LoopInv, Next, NEW c \in Consumers,
         pc[c] \notin Idle, NEW m \in Locations \ Idle, Goto(c, m),
         UNCHANGED <<inhand, position>>,
         m = "commit" => inhand[c] \in Settled',
         m = "mark" => Record(c) \in applied'
  PROVE  /\ HandFull' /\ SettledBehindHand' /\ SettledBehindPosition'
         /\ SettledBeforeCommit' /\ AppliedBeforeMark'
<1> USE DEF TypeOK, LoopInv, GroupTypeOK
<1>0. Settled \subseteq Settled' /\ applied \subseteq applied'
  BY OutcomesGrow
<1>1. HandFull'
  BY DEF HandFull, Goto, Idle, Locations
<1>2. SettledBehindHand' /\ SettledBehindPosition'
  BY <1>0 DEF SettledBehindHand, SettledBehindPosition
<1>3. SettledBeforeCommit'
  BY <1>0 DEF SettledBeforeCommit, Goto
<1>4. AppliedBeforeMark'
  BY <1>0 DEF AppliedBeforeMark, Goto, Record
<1> QED
  BY <1>1, <1>2, <1>3, <1>4

\* A replica that lets a settled record go is back at FetchMessage.
LEMMA ReleaseRecord ==
  ASSUME TypeOK, LoopInv, Next, NEW c \in Consumers,
         pc[c] \notin Idle, Release(c), UNCHANGED position,
         inhand[c] \in Settled'
  PROVE  /\ HandFull' /\ SettledBehindHand' /\ SettledBehindPosition'
         /\ SettledBeforeCommit' /\ AppliedBeforeMark'
<1> USE ConstantFacts DEF TypeOK, LoopInv, Release, Goto, GroupTypeOK, LetGo
<1>0. Settled \subseteq Settled' /\ applied \subseteq applied'
  BY OutcomesGrow
<1>1. HandFull'
  BY DEF HandFull, Idle
<1>2. SettledBehindHand'
  BY <1>0 DEF SettledBehindHand
<1>3. SettledBehindPosition'
  BY <1>0 DEF SettledBehindPosition
<1>4. SettledBeforeCommit'
  BY <1>0 DEF SettledBeforeCommit
<1>5. AppliedBeforeMark'
  BY <1>0 DEF AppliedBeforeMark, Record
<1> QED
  BY <1>1, <1>2, <1>3, <1>4, <1>5

\* An error path keeps the record for the backoff, or leaves it behind settled.
LEMMA FailKeepsReplicas ==
  ASSUME TypeOK, LoopInv, Next, NEW c \in Consumers,
         pc[c] \notin Idle, Fail(c), UNCHANGED position
  PROVE  /\ HandFull' /\ SettledBehindHand' /\ SettledBehindPosition'
         /\ SettledBeforeCommit' /\ AppliedBeforeMark'
<1>1. CASE c \in cancelled /\ GiveUp(c)
  <2>1. inhand[c] \in Settled'
    BY <1>1 DEF GiveUp, Settled
  <2> QED
    BY <1>1, <2>1, ReleaseRecord DEF GiveUp
<1>2. CASE Goto(c, "backoff") /\ UNCHANGED inhand
  BY <1>2, KeepRecord DEF Locations, Idle
<1> QED
  BY <1>1, <1>2 DEF Fail

\* Every step keeps the clauses about replicas.
LEMMA ReplicaClauses ==
  ASSUME TypeOK, LoopInv, Next
  PROVE  /\ HandFull' /\ SettledBehindHand' /\ SettledBehindPosition'
         /\ SettledBeforeCommit' /\ AppliedBeforeMark'
<1> DEFINE Goal == /\ HandFull' /\ SettledBehindHand' /\ SettledBehindPosition'
                   /\ SettledBeforeCommit' /\ AppliedBeforeMark'
<1> USE DEF LoopInv
<1>0. Settled \subseteq Settled' /\ applied \subseteq applied'
  BY OutcomesGrow
<1>1. ASSUME NEW c \in Consumers, LoopStep(c)
      PROVE  Goal
  <2>1. CASE Fetch(c)
    <3> USE <2>1, <1>0, ConstantFacts
        DEF TypeOK, Fetch, At, Goto, GroupTypeOK, HandOut
    <3>1. position[c] \in Offsets /\ inhand[c] = NoRecord
      BY PartitionAssumption DEF Offsets, HandFull, Idle
    <3>2. HandFull'
      BY <3>1 DEF HandFull, Idle
    <3>3. SettledBehindHand'
      BY <3>1 DEF SettledBehindHand, SettledBehindPosition
    <3>4. SettledBehindPosition'
      BY <3>1, PartitionAssumption DEF SettledBehindPosition, Offsets
    <3>5. SettledBeforeCommit' /\ AppliedBeforeMark'
      BY DEF SettledBeforeCommit, AppliedBeforeMark, Record
    <3> QED
      BY <3>2, <3>3, <3>4, <3>5
  <2>2. CASE HandleUnparseable(c)
    BY <2>2, KeepRecord
    DEF HandleUnparseable, At, groupVars, Locations, Idle, Settled
  <2>3. CASE HandleSeen(c)
    BY <2>3, KeepRecord DEF HandleSeen, At, groupVars, Locations, Idle, Settled
  <2>4. CASE HandleNew(c)
    BY <2>4, KeepRecord DEF HandleNew, At, groupVars, Locations, Idle
  <2>5. CASE HandleError(c)
    BY <2>5, FailKeepsReplicas DEF HandleError, At, groupVars, Idle
  <2>6. CASE MarkSeen(c)
    BY <2>6, KeepRecord DEF MarkSeen, At, groupVars, Locations, Idle, Settled
  <2>7. CASE MarkSeenError(c)
    BY <2>7, FailKeepsReplicas DEF MarkSeenError, At, groupVars, Idle
  <2>8. CASE Retry(c)
    BY <2>8, KeepRecord DEF Retry, At, groupVars, Locations, Idle
  <2>9. CASE BackoffCancelled(c)
    BY <2>9, ReleaseRecord
    DEF BackoffCancelled, GiveUp, At, groupVars, Idle, Settled
  <2>10. CASE DeadLetter(c)
    BY <2>10, KeepRecord DEF DeadLetter, At, groupVars, Locations, Idle, Settled
  <2>11. CASE DeadLetterError(c)
    BY <2>11, ReleaseRecord
    DEF DeadLetterError, GiveUp, At, groupVars, Idle, Settled
  <2>12. CASE Commit(c)
    BY <2>12, <1>0, ReleaseRecord
    DEF Commit, At, Idle, SettledBeforeCommit, CommitMessages
  <2>13. CASE Stop(c)
    <3> USE <2>13, <1>0 DEF TypeOK, Stop, LeaveGroup, At, Goto, GroupTypeOK
    <3>1. HandFull' /\ SettledBehindHand'
      BY DEF HandFull, SettledBehindHand, Idle
    <3>2. SettledBehindPosition'
      BY PartitionAssumption DEF SettledBehindPosition, Offsets
    <3>3. SettledBeforeCommit' /\ AppliedBeforeMark'
      BY DEF SettledBeforeCommit, AppliedBeforeMark, Record
    <3> QED
      BY <3>1, <3>2, <3>3
  <2> QED
    BY <1>1, <2>1, <2>2, <2>3, <2>4, <2>5, <2>6, <2>7, <2>8, <2>9, <2>10,
       <2>11, <2>12, <2>13
    DEF LoopStep
<1>2. ASSUME NEW c \in Consumers, ChecksStep(c)
      PROVE  Goal
  <2>1. CASE ChecksDone(c)
    BY <2>1, KeepRecord DEF ChecksDone, At, groupVars, Locations, Idle
  <2>2. CASE ChecksError(c)
    BY <2>2, FailKeepsReplicas DEF ChecksError, At, groupVars, Idle
  <2> QED
    BY <1>2, <2>1, <2>2 DEF ChecksStep
<1>3. ASSUME NEW c \in Consumers,
             Cancel(c) \/ Crash(c) \/ Restart(c) \/ Assign(c) \/ DropBuffer(c)
      PROVE  Goal
  <2> USE <1>0, PartitionAssumption
      DEF TypeOK, HandFull, SettledBehindHand, SettledBehindPosition,
          SettledBeforeCommit, AppliedBeforeMark, Record, Idle, Offsets,
          GroupTypeOK
  <2>1. CASE Cancel(c)
    BY <2>1 DEF Cancel, groupVars
  <2>2. CASE Crash(c)
    BY <2>2 DEF Crash, LeaveGroup, Goto, LetGo
  <2>3. CASE Restart(c)
    BY <2>3 DEF Restart, At, Goto, groupVars
  <2>4. CASE Assign(c)
    BY <2>4 DEF Assign, ResumeOffset, loopVars, CommitCoversSettled, TakeOver
  <2>5. CASE DropBuffer(c)
    BY <2>5 DEF DropBuffer, loopVars, DropReader
  <2> QED
    BY <1>3, <2>1, <2>2, <2>3, <2>4, <2>5
<1>4. ASSUME NEW r \in RecordIds, SeenExpire(r)
      PROVE  Goal
  BY <1>4, <1>0
  DEF SeenExpire, groupVars, loopVars, HandFull, SettledBehindHand,
      SettledBehindPosition, SettledBeforeCommit, AppliedBeforeMark, Record
<1> QED
  BY <1>1, <1>2, <1>3, <1>4 DEF Next, GroupStep

\* Every step keeps the clauses about the stores: the committed offset, the
\* "seen:" keys and the records reported as processed.
LEMMA StoreClauses ==
  ASSUME TypeOK, LoopInv, Next
  PROVE  CommitCoversSettled' /\ SeenIsApplied' /\ ProcessedIsApplied'
<1> USE DEF LoopInv
<1>0. Settled \subseteq Settled' /\ applied \subseteq applied'
  BY OutcomesGrow
<1>1. CommitCoversSettled'
  <2>1. CASE UNCHANGED committed
    BY <2>1, <1>0 DEF CommitCoversSettled
  <2>2. ASSUME NEW c \in Consumers, Commit(c)
        PROVE  CommitCoversSettled'
    <3>1. inhand[c] \in Offsets /\ inhand[c] \in Settled
      BY <2>2, ConstantFacts
      DEF TypeOK, Commit, At, HandFull, SettledBeforeCommit, Idle, GroupTypeOK,
          CommitMessages
    <3>2. \A o \in Offsets : o < inhand[c] + 1 => o \in Settled
      BY <3>1, PartitionAssumption, ConstantFacts DEF SettledBehindHand, Offsets
    <3> QED
      BY <2>2, <3>2, <1>0
      DEF Commit, CommitOffset, CommitCoversSettled, CommitMessages
  <2> QED
    BY <2>1, <2>2
    DEF Next, LoopStep, ChecksStep, GroupStep, Fetch, HandleUnparseable,
        HandleSeen, HandleNew, HandleError, MarkSeen, MarkSeenError, Retry,
        BackoffCancelled, DeadLetter, DeadLetterError, Stop, ChecksDone,
        ChecksError, Cancel, Crash, Restart, Assign, DropBuffer, SeenExpire,
        LeaveGroup, groupVars, HandOut, Goto, LetGo, TakeOver, DropReader
<1>2. SeenIsApplied'
  <2>1. CASE seen' \subseteq seen
    BY <2>1, <1>0 DEF SeenIsApplied
  <2>2. ASSUME NEW c \in Consumers, MarkSeen(c) \/ MarkSeenError(c)
        PROVE  SeenIsApplied'
    BY <2>2, <1>0
    DEF MarkSeen, MarkSeenError, At, AppliedBeforeMark, SeenIsApplied
  <2> QED
    BY <2>1, <2>2
    DEF Next, LoopStep, ChecksStep, GroupStep, Fetch, HandleUnparseable,
        HandleSeen, HandleNew, HandleError, Retry, BackoffCancelled,
        DeadLetter, DeadLetterError, Commit, Stop, ChecksDone, ChecksError,
        Cancel, Crash, Restart, Assign, DropBuffer, SeenExpire, HandOut,
        CommitMessages, Goto, LetGo, TakeOver, DropReader
<1>3. ProcessedIsApplied'
  <2>1. CASE UNCHANGED processed
    BY <2>1, <1>0 DEF ProcessedIsApplied
  <2>2. ASSUME NEW c \in Consumers,
               HandleUnparseable(c) \/ HandleSeen(c) \/ MarkSeen(c)
        PROVE  ProcessedIsApplied'
    <3>1. inhand[c] \in Unparseable \/ Record(c) \in applied
      BY <2>2
      DEF HandleUnparseable, HandleSeen, MarkSeen, At, AppliedBeforeMark,
          SeenIsApplied
    <3> QED
      BY <2>2, <3>1, <1>0
      DEF HandleUnparseable, HandleSeen, MarkSeen, ProcessedIsApplied, Record
  <2> QED
    BY <2>1, <2>2
    DEF Next, LoopStep, ChecksStep, GroupStep, Fetch, HandleNew, HandleError,
        MarkSeenError, Retry, BackoffCancelled, DeadLetter, DeadLetterError,
        Commit, Stop, ChecksDone, ChecksError, Cancel, Crash, Restart, Assign,
        DropBuffer, SeenExpire, historyVars, HandOut, CommitMessages, Goto,
        LetGo, TakeOver, DropReader
<1> QED
  BY <1>1, <1>2, <1>3

-----------------------------------------------------------------------------
(***************************************************************************)
(* The theorems.                                                           *)
(***************************************************************************)

\* The invariant holds before anything is fetched.
LEMMA InvInit ==
  ASSUME ConsumerInit
  PROVE  TypeOK /\ LoopInv
<1> USE ConstantFacts DEF ConsumerInit, GroupInit
<1>1. TypeOK
  BY PartitionAssumption DEF TypeOK, Locations, Offsets, GroupTypeOK
<1>2. HandFull /\ SettledBehindHand /\ SettledBeforeCommit /\ AppliedBeforeMark
  BY DEF HandFull, SettledBehindHand, SettledBeforeCommit, AppliedBeforeMark, Idle
<1>3. SettledBehindPosition /\ CommitCoversSettled
  BY PartitionAssumption DEF SettledBehindPosition, CommitCoversSettled, Offsets
<1>4. SeenIsApplied /\ ProcessedIsApplied
  BY DEF SeenIsApplied, ProcessedIsApplied
<1> QED
  BY <1>1, <1>2, <1>3, <1>4 DEF LoopInv

\* The invariant is about the variables, so stuttering keeps it.
LEMMA InvStutter ==
  ASSUME TypeOK, LoopInv, UNCHANGED consumerVars
  PROVE  TypeOK' /\ LoopInv'
BY
DEF TypeOK, LoopInv, HandFull, SettledBehindHand, SettledBehindPosition,
    SettledBeforeCommit, AppliedBeforeMark, CommitCoversSettled, SeenIsApplied,
    ProcessedIsApplied, Settled, Record, consumerVars, groupVars, loopVars,
    historyVars, GroupTypeOK

\* The consume loop's types and LoopInv hold in every state, for every number of
\* replicas, length of the partition and value of MAX_ATTEMPTS.
THEOREM LoopInvariance == Spec => [](TypeOK /\ LoopInv)
<1>1. ConsumerInit => TypeOK /\ LoopInv
  BY InvInit
<1>2. TypeOK /\ LoopInv /\ [Next]_consumerVars => (TypeOK /\ LoopInv)'
  <2> SUFFICES ASSUME TypeOK, LoopInv, [Next]_consumerVars
               PROVE  TypeOK' /\ LoopInv'
    OBVIOUS
  <2>1. CASE Next
    <3>1. TypeOK'
      BY <2>1, TypeStep DEF LoopInv
    <3>2. LoopInv'
      BY <2>1, ReplicaClauses, StoreClauses DEF LoopInv
    <3> QED
      BY <3>1, <3>2
  <2>2. CASE UNCHANGED consumerVars
    BY <2>2, InvStutter
  <2> QED
    BY <2>1, <2>2
<1> QED
  BY <1>1, <1>2, PTL DEF Spec

\* The loop's state has its types: no replica works past the end of the log, or on
\* an attempt runWithRetry does not grant.
THEOREM TypeCorrect == Spec => []TypeOK
BY LoopInvariance, PTL

\* Manual commit covers only settled records, whatever crashes, rebalances and
\* commits of a former owner do.
THEOREM CommitSafety == Spec => []CommitCoversSettled
<1>1. LoopInv => CommitCoversSettled
  BY DEF LoopInv
<1> QED
  BY <1>1, LoopInvariance, PTL

\* A "seen:" key never stands for a record the checks have not completed on.
THEOREM SeenSafety == Spec => []SeenIsApplied
<1>1. LoopInv => SeenIsApplied
  BY DEF LoopInv
<1> QED
  BY <1>1, LoopInvariance, PTL

\* A record counted as processed went through the three checks.
THEOREM ProcessedSafety == Spec => []ProcessedIsApplied
<1>1. LoopInv => ProcessedIsApplied
  BY DEF LoopInv
<1> QED
  BY <1>1, LoopInvariance, PTL

-----------------------------------------------------------------------------
(***************************************************************************)
(* CdrConsumer implements Delivery.                                        *)
(***************************************************************************)

\* One step of the loop is one step of Delivery, or none.
LEMMA DeliveryStep ==
  ASSUME TypeOK, LoopInv, Next
  PROVE  [Abstract!Next]_(Abstract!deliveryVars)
<1> USE DEF LoopInv, Abstract!Next, Abstract!deliveryVars
<1>1. ASSUME NEW c \in Consumers, pc[c] \notin Idle
      PROVE  inhand[c] \in 0 .. LogEnd - 1
  BY <1>1 DEF TypeOK, HandFull, Offsets, GroupTypeOK
<1>2. ASSUME NEW c \in Consumers, LoopStep(c)
      PROVE  [Abstract!Next]_(Abstract!deliveryVars)
  <2>1. CASE Fetch(c)
    BY <2>1 DEF Fetch, historyVars, HandOut
  <2>2. CASE HandleUnparseable(c)
    <3>1. Abstract!Complete(inhand[c])
      BY <2>2 DEF HandleUnparseable, groupVars, Abstract!Complete
    <3> QED
      BY <2>2, <1>1, <3>1 DEF HandleUnparseable, At, Idle
  <2>3. CASE HandleSeen(c)
    <3>1. Abstract!Complete(inhand[c])
      BY <2>3
      DEF HandleSeen, groupVars, SeenIsApplied, Record, Abstract!Complete
    <3> QED
      BY <2>3, <1>1, <3>1 DEF HandleSeen, At, Idle
  <2>4. CASE HandleNew(c)
    BY <2>4 DEF HandleNew, groupVars, historyVars
  <2>5. CASE HandleError(c) \/ MarkSeenError(c)
    <3>1. UNCHANGED left \/ left' = left \cup {inhand[c]}
      BY <2>5 DEF HandleError, MarkSeenError, Fail, GiveUp
    <3>2. UNCHANGED Abstract!deliveryVars \/ Abstract!SetAside(inhand[c])
      BY <2>5, <3>1
      DEF HandleError, MarkSeenError, groupVars, Abstract!SetAside
    <3> QED
      BY <2>5, <1>1, <3>2 DEF HandleError, MarkSeenError, At, Idle
  <2>6. CASE MarkSeen(c)
    <3>1. Abstract!Complete(inhand[c])
      BY <2>6
      DEF MarkSeen, At, groupVars, AppliedBeforeMark, Record, Abstract!Complete
    <3> QED
      BY <2>6, <1>1, <3>1 DEF MarkSeen, At, Idle
  <2>7. CASE Retry(c)
    BY <2>7 DEF Retry, groupVars, historyVars
  <2>8. CASE BackoffCancelled(c) \/ DeadLetter(c) \/ DeadLetterError(c)
    <3>1. Abstract!SetAside(inhand[c])
      BY <2>8
      DEF BackoffCancelled, DeadLetter, DeadLetterError, GiveUp, groupVars,
          historyVars, Abstract!SetAside
    <3> QED
      BY <2>8, <1>1, <3>1
      DEF BackoffCancelled, DeadLetter, DeadLetterError, At, Idle
  <2>9. CASE Commit(c)
    <3>1. inhand[c] \in Offsets /\ inhand[c] \in Settled
      BY <2>9, <1>1
      DEF Commit, At, SettledBeforeCommit, Idle, Offsets, CommitMessages
    <3>2. 0 .. (inhand[c] + 1) - 1 \subseteq Settled
      BY <3>1, PartitionAssumption, ConstantFacts DEF SettledBehindHand, Offsets
    <3>3. inhand[c] + 1 \in 0 .. LogEnd
      BY <3>1, ConstantFacts
    <3>4. UNCHANGED Abstract!deliveryVars \/ Abstract!CommitUpTo(inhand[c] + 1)
      BY <2>9, <3>2
      DEF Commit, CommitOffset, historyVars, Settled, Abstract!CommitUpTo,
          CommitMessages
    <3> QED
      BY <3>3, <3>4
  <2>10. CASE Stop(c)
    BY <2>10 DEF Stop, LeaveGroup, historyVars
  <2> QED
    BY <1>2, <2>1, <2>2, <2>3, <2>4, <2>5, <2>6, <2>7, <2>8, <2>9, <2>10
    DEF LoopStep
<1>3. ASSUME NEW c \in Consumers, ChecksStep(c)
      PROVE  [Abstract!Next]_(Abstract!deliveryVars)
  <2>1. CASE ChecksDone(c)
    <3>1. Abstract!Apply(RecordId[inhand[c]])
      BY <2>1 DEF ChecksDone, groupVars, Record, Abstract!Apply
    <3> QED
      BY <2>1, <1>1, <3>1 DEF ChecksDone, At, Idle
  <2>2. CASE ChecksError(c)
    <3>1. UNCHANGED left \/ left' = left \cup {inhand[c]}
      BY <2>2 DEF ChecksError, Fail, GiveUp
    <3>2. UNCHANGED Abstract!deliveryVars \/ Abstract!SetAside(inhand[c])
      BY <2>2, <3>1 DEF ChecksError, groupVars, Abstract!SetAside
    <3> QED
      BY <2>2, <1>1, <3>2 DEF ChecksError, At, Idle
  <2> QED
    BY <1>3, <2>1, <2>2 DEF ChecksStep
<1>4. CASE GroupStep
  BY <1>4
  DEF GroupStep, Cancel, Crash, Restart, Assign, DropBuffer, SeenExpire,
      LeaveGroup, groupVars, loopVars, historyVars, Goto, LetGo, TakeOver,
      DropReader
<1> QED
  BY <1>2, <1>3, <1>4 DEF Next

\* The replicas of group "fraud" together deliver a partition at least once, as
\* Delivery states it.
THEOREM Refinement == Spec => ImplementsDelivery
<1>1. ConsumerInit => Abstract!Init
  BY DEF ConsumerInit, Abstract!Init, GroupInit
<1>2. TypeOK /\ LoopInv /\ [Next]_consumerVars
        => [Abstract!Next]_(Abstract!deliveryVars)
  <2>1. UNCHANGED consumerVars => UNCHANGED Abstract!deliveryVars
    BY DEF consumerVars, groupVars, historyVars, Abstract!deliveryVars
  <2> QED
    BY <2>1, DeliveryStep
<1> QED
  BY <1>1, <1>2, LoopInvariance, PTL DEF Spec, ImplementsDelivery, Abstract!Spec

=============================================================================
