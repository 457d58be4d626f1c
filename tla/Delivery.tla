------------------------------ MODULE Delivery ------------------------------
(***************************************************************************)
(* What a service that reads ONE partition with manual commits promises,   *)
(* with no consumer, retry, store or crash in sight.                       *)
(*                                                                         *)
(* A record is processed only with its effect in place, unless it cannot   *)
(* be parsed; otherwise it is set aside.  The committed offset, from which *)
(* the partition is redelivered, only ever covers records of those two     *)
(* kinds.  It may move BACK: delivery is at least once.                    *)
(*                                                                         *)
(* CdrConsumer implements this specification (the effect: the fraud rules  *)
(* ran; aside: routed to cdr.dlq, or left behind when that write fails),   *)
(* and so does AlertSink (the effect: the alert is stored), which sets     *)
(* nothing aside.                                                          *)
(***************************************************************************)
EXTENDS Naturals

CONSTANTS
  LogEnd,        \* number of records in the partition
  RecordId,      \* [offset -> record_id]
  Unparseable    \* offsets whose value is not a CDR

VARIABLES
  applied,       \* record_ids whose effect is in place
  processed,     \* offsets the service is done with
  aside,         \* offsets it gave up on
  committed      \* offset the next delivery starts from

deliveryVars == <<applied, processed, aside, committed>>

Init ==
  /\ applied = {}
  /\ processed = {}
  /\ aside = {}
  /\ committed = 0

Apply(r) ==
  /\ applied' = applied \cup {r}
  /\ UNCHANGED <<processed, aside, committed>>

\* The effect may have come before, by this record or by a copy, or comes now.
Complete(o) ==
  /\ \/ o \in Unparseable /\ UNCHANGED applied
     \/ applied' = applied \cup {RecordId[o]}
  /\ processed' = processed \cup {o}
  /\ UNCHANGED <<aside, committed>>

SetAside(o) ==
  /\ aside' = aside \cup {o}
  /\ UNCHANGED <<applied, processed, committed>>

CommitUpTo(k) ==
  /\ 0 .. k - 1 \subseteq processed \cup aside
  /\ committed' = k
  /\ UNCHANGED <<applied, processed, aside>>

Next ==
  \/ \E o \in 0 .. LogEnd - 1 :
       Apply(RecordId[o]) \/ Complete(o) \/ SetAside(o)
  \/ \E k \in 0 .. LogEnd : CommitUpTo(k)

Spec == Init /\ [][Next]_deliveryVars

=============================================================================
