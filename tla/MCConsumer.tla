----------------------------- MODULE MCConsumer -----------------------------
(***************************************************************************)
(* CdrConsumer on a small partition, for TLC.  Record 1 is not a CDR, and  *)
(* the last record repeats the record_id of the first, as a producer's     *)
(* retry does.                                                             *)
(***************************************************************************)
EXTENDS CdrConsumer, TLC

CONSTANTS c1, c2

MCRecordId == [o \in 0 .. LogEnd - 1 |-> IF o = LogEnd - 1 THEN 0 ELSE o]
MCUnparseable == {1}

Symmetry == Permutations({c1, c2})

\* No replica is told to stop: a record left behind is left by a dead-letter
\* write that failed.
NoShutdown == cancelled' = {}

=============================================================================
