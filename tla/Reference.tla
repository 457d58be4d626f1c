------------------------------ MODULE Reference ------------------------------
(***************************************************************************)
(* Reference data: subscriber-service, which answers GetCell and GetTariff *)
(* from the catalogs it is built with (services/subscriber/main.go), and   *)
(* the refCache one fraud replica keeps of its answers                     *)
(* (services/fraud/cache.go, getCellGeo and getTariff in main.go).  The    *)
(* replica works on one record at a time, so it has one lookup at a time.  *)
(*                                                                         *)
(* An answer is the version of the catalog it was read from.  Time is a    *)
(* clock of the replica that may move at any point of a lookup.            *)
(***************************************************************************)
EXTENDS Naturals

CONSTANTS
  Keys,          \* the cell ids and destinations that are looked up
  Versions,      \* 0 .. the last catalog subscriber-service is deployed with
  Catalog,       \* [Versions -> the keys it resolves]
  TTL,           \* REFERENCE_CACHE_TTL_SEC
  MaxTime,       \* where the clock stops
  Nothing

ASSUME ReferenceAssumption ==
  /\ Versions \subseteq Nat /\ 0 \in Versions
  /\ TTL \in Nat
  /\ MaxTime \in Nat
  /\ Catalog \in [Versions -> SUBSET Keys]
  /\ Nothing \notin Nat
  /\ Nothing \notin [val : Nat, at : Nat]
  /\ Nothing \notin [key : Keys, now : Nat, val : Nat \cup {Nothing}]

VARIABLES
  subscriber,    \* subscriber-service answers
  version,       \* the catalog it is built with
  clock,
  cache,         \* [Keys -> the cached value and its time, or Nothing]
  lookup,        \* the lookup under way, or Nothing
  result,        \* what the last lookup returned; its val is Nothing for an error
  retired,       \* history: [Versions -> when it was last replaced, or Nothing]
  loaded         \* history: [Keys -> `now` of the last successful load, or Nothing]

serverVars == <<subscriber, version, retired>>
cacheVars == <<cache, lookup, result, loaded>>
referenceVars == <<serverVars, clock, cacheVars>>

Times == 0 .. MaxTime
Entry == [val : Versions, at : Times]
Lookup == [key : Keys, now : Times, val : Versions \cup {Nothing}]

ReferenceTypeOK ==
  /\ subscriber \in BOOLEAN
  /\ version \in Versions
  /\ clock \in Times
  /\ cache \in [Keys -> Entry \cup {Nothing}]
  /\ lookup \in Lookup \cup {Nothing}
  /\ result \in Lookup \cup {Nothing}
  /\ retired \in [Versions -> Times \cup {Nothing}]
  /\ loaded \in [Keys -> Times \cup {Nothing}]

ReferenceInit ==
  /\ subscriber \in BOOLEAN
  /\ version = 0
  /\ clock = 0
  /\ cache = [k \in Keys |-> Nothing]
  /\ lookup = Nothing
  /\ result = Nothing
  /\ retired = [v \in Versions |-> Nothing]
  /\ loaded = [k \in Keys |-> Nothing]

-----------------------------------------------------------------------------
(***************************************************************************)
(* refCache.get.                                                           *)
(***************************************************************************)

\* Deviation: an entry of exactly the TTL's age is used.
FreshAtEdge(e) == e # Nothing /\ clock - e.at <= TTL

\* Deviation: an entry is used for a unit of time less.
FreshTooShort(e) == e # Nothing /\ clock - e.at + 1 < TTL

Fresh(e) == e # Nothing /\ clock - e.at < TTL

\* A fresh entry is returned at once.
Hit(k) ==
  /\ lookup = Nothing
  /\ Fresh(cache[k])
  /\ result' = [key |-> k, now |-> clock, val |-> cache[k].val]
  /\ UNCHANGED <<serverVars, clock, cache, lookup, loaded>>

\* Otherwise load is called, `now` being the time before the call.
Miss(k) ==
  /\ lookup = Nothing
  /\ ~ Fresh(cache[k])
  /\ lookup' = [key |-> k, now |-> clock, val |-> Nothing]
  /\ UNCHANGED <<serverVars, clock, cache, result, loaded>>

Calling == lookup # Nothing /\ lookup.val = Nothing

\* The call's error is returned and nothing is cached.
ReturnError ==
  /\ result' = lookup
  /\ lookup' = Nothing
  /\ UNCHANGED <<cache, loaded>>

\* Deviation: the entry is stamped with the time the answer came in.
StampAfter(l) == [val |-> l.val, at |-> clock]

Stamp(l) == [val |-> l.val, at |-> l.now]

\* The answer is stored and returned.
Store ==
  /\ lookup # Nothing /\ lookup.val # Nothing
  /\ cache' = [cache EXCEPT ![lookup.key] = Stamp(lookup)]
  /\ result' = lookup
  /\ loaded' = [loaded EXCEPT ![lookup.key] = lookup.now]
  /\ lookup' = Nothing
  /\ UNCHANGED <<serverVars, clock>>

-----------------------------------------------------------------------------
(***************************************************************************)
(* GetCell and GetTariff.                                                  *)
(***************************************************************************)

\* The catalog has the key; of a destination it always has.
Answer ==
  /\ Calling
  /\ subscriber
  /\ lookup.key \in Catalog[version]
  /\ lookup' = [lookup EXCEPT !.val = version]
  /\ UNCHANGED <<serverVars, clock, cache, result, loaded>>

\* codes.NotFound.
NotFound ==
  /\ Calling
  /\ subscriber
  /\ lookup.key \notin Catalog[version]
  /\ ReturnError
  /\ UNCHANGED <<serverVars, clock>>

\* The service is unavailable, or grpcTimeout ends the call.
CallFails ==
  /\ Calling
  /\ ReturnError
  /\ UNCHANGED <<serverVars, clock>>

-----------------------------------------------------------------------------
SubscriberStop ==
  /\ subscriber
  /\ subscriber' = FALSE
  /\ UNCHANGED <<version, retired, clock, cacheVars>>

\* The service comes back, as it was or built with a later catalog.
SubscriberStart ==
  /\ ~ subscriber
  /\ subscriber' = TRUE
  /\ version' \in {v \in Versions : v >= version}
  /\ retired' = IF version' = version THEN retired
                                      ELSE [retired EXCEPT ![version] = clock]
  /\ UNCHANGED <<clock, cacheVars>>

Tick ==
  /\ clock < MaxTime
  /\ clock' = clock + 1
  /\ UNCHANGED <<serverVars, cacheVars>>

\* The replica's process is gone, and its cache with it.
CacheRestart ==
  /\ cache' = [k \in Keys |-> Nothing]
  /\ lookup' = Nothing
  /\ result' = Nothing
  /\ loaded' = [k \in Keys |-> Nothing]
  /\ UNCHANGED <<serverVars, clock>>

LookupStep ==
  \/ \E k \in Keys : Hit(k) \/ Miss(k)
  \/ Answer \/ NotFound \/ CallFails \/ Store

SubscriberStep == SubscriberStop \/ SubscriberStart

ReferenceNext == LookupStep \/ SubscriberStep \/ Tick \/ CacheRestart

ReferenceSpec == ReferenceInit /\ [][ReferenceNext]_referenceVars

-----------------------------------------------------------------------------
(***************************************************************************)
(* Properties.                                                             *)
(***************************************************************************)

\* v was still the service's catalog at time t.
Live(v, t) == retired[v] = Nothing \/ retired[v] >= t

\* refCache, "a short TTL ... while still refreshing occasionally": what a lookup
\* returns was the service's answer less than a TTL before the lookup began, or
\* after that, however long the call that loaded it took.
ServedIsRecent ==
  result # Nothing /\ result.val # Nothing =>
    \/ Live(result.val, result.now)
    \/ result.now < retired[result.val] + TTL

\* refCache, "surviving a brief enrichment outage on already-cached keys": a lookup
\* fails only if this process has not loaded the key within the TTL before it.
FailsOnlyUncached ==
  result # Nothing /\ result.val = Nothing =>
    \/ loaded[result.key] = Nothing
    \/ result.now >= loaded[result.key] + TTL

\* The parts of their inductive invariant.

\* An entry is stamped no later than its value was read, and not in the future.
CacheIsLive ==
  \A k \in Keys :
    IF cache[k] = Nothing
      THEN loaded[k] = Nothing
      ELSE /\ loaded[k] = cache[k].at
           /\ cache[k].at <= clock
           /\ Live(cache[k].val, cache[k].at)

\* So is the answer of the lookup under way, which is one the cache could not give.
LookupIsLive ==
  lookup # Nothing =>
    /\ lookup.now <= clock
    /\ lookup.val # Nothing => Live(lookup.val, lookup.now)
    /\ \/ loaded[lookup.key] = Nothing
       \/ lookup.now >= loaded[lookup.key] + TTL

\* The catalog now served, and later ones, were never replaced.
NotYetRetired == \A v \in Versions : v >= version => retired[v] = Nothing

ReferenceInv ==
  /\ CacheIsLive
  /\ LookupIsLive
  /\ NotYetRetired
  /\ result # Nothing => result.now <= clock
  /\ ServedIsRecent
  /\ FailsOnlyUncached

=============================================================================
