---------------------------- MODULE MCPlayground ----------------------------
(***************************************************************************)
(* Traffic for TLC: two cells five kilometres apart at a speed limit of    *)
(* two a second; a domestic number, which the scenarios call, and two      *)
(* premium ones, one of which begins like the domestic one.                *)
(***************************************************************************)
EXTENDS Traffic

CONSTANTS a, b

Domestic == <<9, 0, 1>>
ShortPremium == <<9, 0, 0, 1>>
Satellite == <<8, 8, 2, 1>>
MCCallees == {ShortPremium}
MCDistance == [p \in Cells \X Cells |-> IF p[1] = p[2] THEN 0 ELSE 5]

\* Nothing reads how long a call to a number that is not premium lasts: let it be one
\* minute.  Nor does it matter when the first call starts.
SomeDurationAndStart ==
  log' # <<>> =>
    /\ ~Premium(Last(log')) => Last(log').minutes = 1
    /\ log = <<>> => LastStart' = 1

\* Every number of at most four of these digits.
MCNumbers == UNION {[1 .. n -> {0, 1, 2, 4, 8, 9}] : n \in 0 .. 4}

=============================================================================
