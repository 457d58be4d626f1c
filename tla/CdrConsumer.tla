---------------------------- MODULE CdrConsumer ----------------------------
(***************************************************************************)
(* The fraud service's consume loop on ONE partition of cdr.raw:           *)
(*   services/fraud/main.go   main's for-loop, processor.handle            *)
(*   services/fraud/dlq.go    runWithRetry, deadLetter                     *)
(*   services/fraud/window.go seen, markSeen                               *)
(* run by the replicas of consumer group "fraud".                          *)
(*                                                                         *)
(* One step is one call that leaves the process (Kafka, Redis), so a       *)
(* replica can crash, be cancelled (SIGTERM) or lose the partition between *)
(* any two of them, and a call may fail with or without having taken       *)
(* effect.  The three rule checks are one step here, as they are behind    *)
(* runWithRetry's `handle` parameter; FraudService expands them.           *)
(* KafkaGroup is the partition and the readers of its replicas.            *)
(***************************************************************************)
EXTENDS KafkaGroup

CONSTANTS
  RecordId,      \* [offset -> record_id]: a producer's retry repeats an id
  Unparseable,   \* offsets whose value UnmarshalCDR rejects
  MaxAttempts    \* MAX_ATTEMPTS, at least 1 (main raises anything less)

RecordIds == {RecordId[o] : o \in Offsets}

ASSUME LogAssumption ==
  /\ DOMAIN RecordId = Offsets
  /\ Unparseable \subseteq Offsets
ASSUME AttemptsAssumption == MaxAttempts \in Nat \ {0}

VARIABLES
  cancelled,     \* replicas whose signal context is done
  pc,            \* [Consumers -> where the replica's loop stands]
  attempt,       \* [Consumers -> attempt of runWithRetry]
  seen,          \* record_ids with a live "seen:" key in Redis
  dlq,           \* offsets published on cdr.dlq
  applied,       \* history: record_ids on which all three checks completed
  processed,     \* history: offsets for which handle returned nil
  left           \* history: offsets for which runWithRetry returned false

loopVars == <<cancelled, pc, inhand, attempt>>
historyVars == <<applied, processed, left>>
consumerVars == <<groupVars, loopVars, seen, dlq, historyVars>>

Locations == {"fetch", "handle", "checks", "mark", "backoff", "dead_letter",
              "commit", "down"}

Idle == {"fetch", "down"}

TypeOK ==
  /\ GroupTypeOK
  /\ cancelled \subseteq Consumers
  /\ pc \in [Consumers -> Locations]
  /\ attempt \in [Consumers -> 1 .. MaxAttempts]
  /\ seen \subseteq RecordIds
  /\ dlq \subseteq Offsets
  /\ applied \subseteq RecordIds
  /\ processed \subseteq Offsets
  /\ left \subseteq Offsets

ConsumerInit ==
  /\ GroupInit
  /\ cancelled = {}
  /\ pc = [c \in Consumers |-> "fetch"]
  /\ attempt = [c \in Consumers |-> 1]
  /\ seen = {}
  /\ dlq = {}
  /\ applied = {}
  /\ processed = {}
  /\ left = {}

-----------------------------------------------------------------------------
(***************************************************************************)
(* Small operators the actions share.                                      *)
(*                                                                         *)
(* A definition under "Deviation", here and in the other modules, is no    *)
(* part of a specification: it is a mistake the code could plausibly hold  *)
(* instead of the definition that follows it, kept to show which property  *)
(* would notice.                                                           *)
(***************************************************************************)
At(c, l) == pc[c] = l
Goto(c, l) == pc' = [pc EXCEPT ![c] = l]
Record(c) == RecordId[inhand[c]]

\* Offsets the loop is finished with, whichever way.
Settled == processed \cup dlq \cup left

\* Deviation: the attempts are not counted.
NextAttemptStuck(k) == k

\* The next round of runWithRetry's for-loop.
NextAttempt(k) == k + 1

\* Deviation: one attempt more than MAX_ATTEMPTS.
MoreAttemptsByOne(k) == k <= MaxAttempts

\* The condition of that loop, for another round.
MoreAttempts(k) == k < MaxAttempts

\* Control is back at FetchMessage with nothing in hand (`attempt` is local to
\* runWithRetry, which starts it at 1).
Release(c) ==
  /\ Goto(c, "fetch")
  /\ LetGo(c)
  /\ attempt' = [attempt EXCEPT ![c] = 1]

\* runWithRetry returns false: main `continue`s without committing.
GiveUp(c) ==
  /\ left' = left \cup {inhand[c]}
  /\ Release(c)

\* Deviation: handle goes on to markSeen after an error.
FailIgnored(c) ==
  /\ Goto(c, "mark")
  /\ UNCHANGED <<inhand, attempt, left>>

\* handle returned an error: stop at once when the context is done, otherwise
\* wait out the backoff.
Fail(c) ==
  \/ /\ c \in cancelled
     /\ GiveUp(c)
  \/ /\ c \notin cancelled
     /\ Goto(c, "backoff")
     /\ UNCHANGED <<inhand, attempt, left>>

-----------------------------------------------------------------------------
(***************************************************************************)
(* The consume loop of one replica.                                        *)
(***************************************************************************)

\* reader.FetchMessage hands out the next record.  A failed fetch with a live
\* context only goes round the loop: a stuttering step.
Fetch(c) ==
  /\ At(c, "fetch")
  /\ HandOut(c)
  /\ Goto(c, "handle")
  /\ UNCHANGED <<cancelled, attempt, seen, dlq, historyVars>>

\* handle: UnmarshalCDR fails, the record is skipped and nil returned.
HandleUnparseable(c) ==
  /\ At(c, "handle")
  /\ inhand[c] \in Unparseable
  /\ processed' = processed \cup {inhand[c]}
  /\ Goto(c, "commit")
  /\ UNCHANGED <<groupVars, cancelled, inhand, attempt, seen, dlq, applied, left>>

\* handle: the record_id was processed before, nil returned.
HandleSeen(c) ==
  /\ At(c, "handle")
  /\ inhand[c] \notin Unparseable
  /\ Record(c) \in seen
  /\ processed' = processed \cup {inhand[c]}
  /\ Goto(c, "commit")
  /\ UNCHANGED <<groupVars, cancelled, inhand, attempt, seen, dlq, applied, left>>

\* handle: a record_id not seen, or no longer: the checks begin.
HandleNew(c) ==
  /\ At(c, "handle")
  /\ inhand[c] \notin Unparseable
  /\ Record(c) \notin seen
  /\ Goto(c, "checks")
  /\ UNCHANGED <<groupVars, cancelled, inhand, attempt, seen, dlq, historyVars>>

\* handle: the EXISTS on "seen:" fails.
HandleError(c) ==
  /\ At(c, "handle")
  /\ inhand[c] \notin Unparseable
  /\ Fail(c)
  /\ UNCHANGED <<groupVars, cancelled, seen, dlq, applied, processed>>

\* The three checks all returned nil.
ChecksDone(c) ==
  /\ At(c, "checks")
  /\ applied' = applied \cup {Record(c)}
  /\ Goto(c, "mark")
  /\ UNCHANGED <<groupVars, cancelled, inhand, attempt, seen, dlq, processed, left>>

\* One of them returned an error; those before it have taken effect.
ChecksError(c) ==
  /\ At(c, "checks")
  /\ Fail(c)
  /\ UNCHANGED <<groupVars, cancelled, seen, dlq, applied, processed>>

\* markSeen sets the key and handle returns nil.
MarkSeen(c) ==
  /\ At(c, "mark")
  /\ seen' = seen \cup {Record(c)}
  /\ processed' = processed \cup {inhand[c]}
  /\ Goto(c, "commit")
  /\ UNCHANGED <<groupVars, cancelled, inhand, attempt, dlq, applied, left>>

\* markSeen fails, with or without the key set.
MarkSeenError(c) ==
  /\ At(c, "mark")
  /\ seen' \in {seen, seen \cup {Record(c)}}
  /\ Fail(c)
  /\ UNCHANGED <<groupVars, cancelled, dlq, applied, processed>>

\* time.After(retryBackoff) fires: the next attempt, or the end of the loop.
Retry(c) ==
  /\ At(c, "backoff")
  /\ IF MoreAttempts(attempt[c])
       THEN /\ attempt' = [attempt EXCEPT ![c] = NextAttempt(@)]
            /\ Goto(c, "handle")
       ELSE /\ Goto(c, "dead_letter")
            /\ UNCHANGED attempt
  /\ UNCHANGED <<groupVars, cancelled, inhand, seen, dlq, historyVars>>

\* ctx.Done() wins the select of the backoff.
BackoffCancelled(c) ==
  /\ At(c, "backoff")
  /\ c \in cancelled
  /\ GiveUp(c)
  /\ UNCHANGED <<groupVars, cancelled, seen, dlq, applied, processed>>

\* deadLetter publishes the record and runWithRetry returns true.
DeadLetter(c) ==
  /\ At(c, "dead_letter")
  /\ dlq' = dlq \cup {inhand[c]}
  /\ Goto(c, "commit")
  /\ UNCHANGED <<groupVars, cancelled, inhand, attempt, seen, historyVars>>

\* Deviation: runWithRetry returns true although the write failed.
DeadLetterErrorIgnored(c) ==
  /\ At(c, "dead_letter")
  /\ Goto(c, "commit")
  /\ UNCHANGED <<groupVars, cancelled, inhand, attempt, seen, dlq, historyVars>>

\* The dead-letter write reports an error, published or not: runWithRetry
\* returns false.
DeadLetterError(c) ==
  /\ At(c, "dead_letter")
  /\ dlq' \in {dlq, dlq \cup {inhand[c]}}
  /\ GiveUp(c)
  /\ UNCHANGED <<groupVars, cancelled, seen, applied, processed>>

\* The error of CommitMessages is only logged: the loop goes on either way.
Commit(c) ==
  /\ At(c, "commit")
  /\ CommitMessages(c)
  /\ Release(c)
  /\ UNCHANGED <<cancelled, seen, dlq, historyVars>>

-----------------------------------------------------------------------------
(***************************************************************************)
(* Shutdown, crash, restart, rebalance, expiry.                            *)
(***************************************************************************)

\* SIGTERM: the signal context is done.
Cancel(c) ==
  /\ pc[c] # "down"
  /\ c \notin cancelled
  /\ cancelled' = cancelled \cup {c}
  /\ UNCHANGED <<groupVars, pc, inhand, attempt, seen, dlq, historyVars>>

\* FetchMessage returns an error with the context done: main returns, and its
\* deferred reader.Close leaves the group.
Stop(c) ==
  /\ At(c, "fetch")
  /\ c \in cancelled
  /\ LeaveGroup(c)
  /\ cancelled' = cancelled \ {c}
  /\ Goto(c, "down")
  /\ UNCHANGED <<inhand, attempt, seen, dlq, historyVars>>

\* The process dies wherever it stands; Redis and Kafka keep what they have.
Crash(c) ==
  /\ pc[c] # "down"
  /\ LeaveGroup(c)
  /\ cancelled' = cancelled \ {c}
  /\ Goto(c, "down")
  /\ LetGo(c)
  /\ attempt' = [attempt EXCEPT ![c] = 1]
  /\ UNCHANGED <<seen, dlq, historyVars>>

\* The deployment starts the replica again.
Restart(c) ==
  /\ At(c, "down")
  /\ Goto(c, "fetch")
  /\ UNCHANGED <<groupVars, cancelled, inhand, attempt, seen, dlq, historyVars>>

\* The group coordinator gives c the partition, whatever c is doing.
Assign(c) ==
  /\ pc[c] # "down"
  /\ TakeOver(c)
  /\ UNCHANGED <<cancelled, pc, attempt, seen, dlq, historyVars>>

\* The reader of a former owner drops what it had buffered.
DropBuffer(c) ==
  /\ DropReader(c)
  /\ UNCHANGED <<cancelled, pc, attempt, seen, dlq, historyVars>>

\* The TTL of a "seen:" key (3 * WindowSeconds, wall clock) runs out.
SeenExpire(r) ==
  /\ r \in seen
  /\ seen' = seen \ {r}
  /\ UNCHANGED <<groupVars, loopVars, dlq, historyVars>>

-----------------------------------------------------------------------------
\* Steps that do not depend on what handle does with a new record.
LoopStep(c) ==
  \/ Fetch(c)
  \/ HandleUnparseable(c)
  \/ HandleSeen(c)
  \/ HandleNew(c)
  \/ HandleError(c)
  \/ MarkSeen(c)
  \/ MarkSeenError(c)
  \/ Retry(c)
  \/ BackoffCancelled(c)
  \/ DeadLetter(c)
  \/ DeadLetterError(c)
  \/ Commit(c)
  \/ Stop(c)

ChecksStep(c) == ChecksDone(c) \/ ChecksError(c)

GroupStep ==
  \/ \E c \in Consumers :
       Cancel(c) \/ Crash(c) \/ Restart(c) \/ Assign(c) \/ DropBuffer(c)
  \/ \E r \in RecordIds : SeenExpire(r)

Next ==
  \/ \E c \in Consumers : LoopStep(c) \/ ChecksStep(c)
  \/ GroupStep

Spec == ConsumerInit /\ [][Next]_consumerVars

-----------------------------------------------------------------------------
(***************************************************************************)
(* Properties.                                                             *)
(***************************************************************************)

\* main commits manually, "only after processing": whatever crashes, rebalances
\* and stale commits do, the committed offset never covers a record that no
\* replica has processed, dead-lettered or knowingly left behind.
CommitCoversSettled ==
  \A o \in Offsets : o < committed => o \in Settled

\* handle marks a record_id seen after the three checks, never before: a
\* redelivery that is skipped (HandleSeen) skips nothing that was not done.
SeenIsApplied == seen \subseteq applied

\* A record the service reports as processed went through the checks, under
\* this offset or under another one that carries the same record_id.
ProcessedIsApplied ==
  \A o \in processed \ Unparseable : RecordId[o] \in applied

\* The parts of the inductive invariant behind the three properties above.

\* A record is in hand exactly between FetchMessage and the end of its round.
HandFull ==
  \A c \in Consumers : inhand[c] = NoRecord <=> pc[c] \in Idle

\* A replica holds a record only when all earlier ones are settled: the reader
\* hands out offsets in order, and resumes behind settled ones.
SettledBehindHand ==
  \A c \in Consumers, o \in Offsets :
    inhand[c] # NoRecord /\ o < inhand[c] => o \in Settled

SettledBehindPosition ==
  \A c \in Consumers, o \in Offsets :
    o < position[c] => o \in Settled \/ o = inhand[c]

\* A replica about to commit a record has settled it, and one about to mark it
\* seen has run the checks on it.
SettledBeforeCommit ==
  \A c \in Consumers : pc[c] = "commit" => inhand[c] \in Settled

AppliedBeforeMark ==
  \A c \in Consumers : pc[c] = "mark" => Record(c) \in applied

\* What the loop keeps true at every step, of every replica at once: each clause
\* needs the others after a rebalance, when two replicas work on one partition.
LoopInv ==
  /\ HandFull
  /\ SettledBehindHand
  /\ SettledBehindPosition
  /\ SettledBeforeCommit
  /\ AppliedBeforeMark
  /\ CommitCoversSettled
  /\ SeenIsApplied
  /\ ProcessedIsApplied

\* The loop implements at-least-once delivery as Delivery states it.
Abstract == INSTANCE Delivery WITH aside <- dlq \cup left
ImplementsDelivery == Abstract!Spec

\* What only the outside world does, and may stop doing.
Disruption ==
  \/ \E c \in Consumers : Cancel(c) \/ Crash(c)
  \/ owner # NoOne /\ \E c \in Consumers : Assign(c)

\* runWithRetry, "one poison message cannot block the partition forever": once
\* the replicas are left alone every record is settled, even if every call to
\* Redis and every dead-letter write fails.
NeverBlocked ==
  <>[][~Disruption]_consumerVars =>
    \A o \in Offsets : <>(o \in Settled)

\* dlq.go, "leaving the offset uncommitted for redelivery rather than silently
\* dropping the record": a committed offset covers only records processed or
\* dead-lettered.  The code does NOT guarantee it: see the README.
NoRecordDropped ==
  \A o \in Offsets : o < committed => o \in processed \cup dlq

\* README, "if it can never be processed it is routed to a dead-letter topic":
\* a committed offset covers an unparseable record only once it is on cdr.dlq.
\* The code does NOT do this: see the README.
PoisonDeadLettered ==
  \A o \in Unparseable : o < committed => o \in dlq

=============================================================================
