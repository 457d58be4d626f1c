----------------------------- MODULE KafkaGroup -----------------------------
(***************************************************************************)
(* One partition of a topic, and the consumer group that reads it with     *)
(* manual commits: what internal/stream's NewReader returns, as the fraud  *)
(* service and the read-api use it.                                        *)
(*                                                                         *)
(* kafka-go and the broker are external, modelled from how their callers   *)
(* use them: a reader starts from the committed offset when the partition  *)
(* is assigned to it and hands out consecutive offsets; nothing stops the  *)
(* record in hand, or the ones the reader has already buffered, when the   *)
(* group moves the partition elsewhere.                                    *)
(***************************************************************************)
EXTENDS Naturals, FiniteSets

CONSTANTS
  Consumers,     \* the replicas of the service
  LogEnd,        \* number of records in the partition: offsets 0 .. LogEnd - 1
  NoOne,         \* no replica owns the partition
  NoRecord       \* a replica has no record in hand

Offsets == 0 .. LogEnd - 1

ASSUME ConsumersAssumption == NoOne \notin Consumers
ASSUME PartitionAssumption == LogEnd \in Nat /\ NoRecord \notin Nat

VARIABLES
  committed,     \* the group's committed offset, kept by Kafka
  owner,         \* the replica the group assigned the partition to, or NoOne
  reading,       \* replicas whose reader still hands out this partition's records
  position,      \* [Consumers -> offset the reader hands out next]
  inhand         \* [Consumers -> offset being processed, or NoRecord]

groupVars == <<committed, owner, reading, position>>

GroupTypeOK ==
  /\ committed \in 0 .. LogEnd
  /\ owner \in Consumers \cup {NoOne}
  /\ reading \subseteq Consumers
  /\ position \in [Consumers -> 0 .. LogEnd]
  /\ inhand \in [Consumers -> Offsets \cup {NoRecord}]

GroupInit ==
  /\ committed = 0
  /\ owner = NoOne
  /\ reading = {}
  /\ position = [c \in Consumers |-> 0]
  /\ inhand = [c \in Consumers |-> NoRecord]

-----------------------------------------------------------------------------
\* reader.FetchMessage hands out the next record.
HandOut(c) ==
  /\ c \in reading
  /\ position[c] < LogEnd
  /\ inhand' = [inhand EXCEPT ![c] = position[c]]
  /\ position' = [position EXCEPT ![c] = @ + 1]
  /\ UNCHANGED <<committed, owner, reading>>

\* The caller is done with its record, one way or another.
LetGo(c) == inhand' = [inhand EXCEPT ![c] = NoRecord]

\* CommitMessages(ctx, m) commits m.Offset + 1, which covers every earlier
\* offset of the partition.
CommitOffset(o) == o + 1

\* CommitMessages, with or without effect.  Neither the callers nor the reader
\* check that the partition is still this replica's, so the offset may also
\* move back.
CommitMessages(c) ==
  /\ committed' \in {committed, CommitOffset(inhand[c])}
  /\ UNCHANGED <<owner, reading, position>>

\* The offset the broker resumes the group at.
ResumeOffset == committed

\* A rebalance gives the partition to c (again, or for the first time): its
\* reader starts at the committed offset.  The former owner is not interrupted.
TakeOver(c) ==
  /\ owner' = c
  /\ reading' = reading \cup {c}
  /\ position' = [position EXCEPT ![c] = ResumeOffset]
  /\ UNCHANGED <<committed, inhand>>

\* The reader of a former owner notices and drops what it had buffered.
DropReader(c) ==
  /\ c \in reading
  /\ owner # c
  /\ reading' = reading \ {c}
  /\ position' = [position EXCEPT ![c] = 0]
  /\ UNCHANGED <<committed, owner, inhand>>

\* The replica leaves the group, and its reader is gone.
LeaveGroup(c) ==
  /\ owner' = IF owner = c THEN NoOne ELSE owner
  /\ reading' = reading \ {c}
  /\ position' = [position EXCEPT ![c] = 0]
  /\ UNCHANGED committed

=============================================================================
