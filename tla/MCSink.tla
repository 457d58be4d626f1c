------------------------------- MODULE MCSink -------------------------------
(***************************************************************************)
(* AlertSink on a partition of four records, for TLC.  The last one is a   *)
(* copy of the first, detected later; the third is no alert.  With a list  *)
(* of one, the second pushes the first out, and its copy may not return it.*)
(***************************************************************************)
EXTENDS AlertSink, TLC

CONSTANTS c1, c2

MCAlertId == [o \in 0 .. LogEnd - 1 |-> IF o = LogEnd - 1 THEN 0 ELSE o]
MCDetectedAt == [o \in 0 .. LogEnd - 1 |-> o]
MCUnparseable == {2}

=============================================================================
