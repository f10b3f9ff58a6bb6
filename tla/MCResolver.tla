----------------------------- MODULE MCResolver -----------------------------
(***************************************************************************)
(* Small instances for TLC of what answers a query past the pipeline: the  *)
(* cache and the pool of upstreams. They share no state; which one runs is *)
(* chosen at the start. Both never stop.                                   *)
(***************************************************************************)
EXTENDS DnsCache, UpstreamPool

CONSTANTS
  k1, k2, q1, q2, first, second,   \* keys, queries, upstreams
  MaxAsking                        \* bound: exchanges under way at once

VARIABLE service

resolverVars == <<vars, poolVars, service>>

MCKeys == {k1, k2}
MCQueries == {q1, q2}

MCPrimaries == {<<first, second>>, <<second>>}
MCFallbacks == {<<>>, <<first>>}
MCGroups == {<<first>>, <<second>>}

\* Neither keys nor queries are told apart, and only safety is checked.
Symmetry == Permutations(MCKeys) \cup Permutations(MCQueries)

\* Two queries are followed together in the pool's caches only; one goes on to
\* ask upstreams when the other is idle.
AloneBeyondCaches ==
  \A p, q \in MCQueries :
    p # q /\ forwarding[p].pc \notin {"idle", "lookup", "build"} => forwarding[q].pc = "idle"

\* Those of one race, or one that its query has left beside the next query's.
FewExchanges == Cardinality(asking) <= MaxAsking

\* The component that does not run starts in one of its states only.
ResolverInit ==
  /\ service \in {"cache", "pool"}
  /\ Init /\ (service # "cache" => ~optimistic)
  /\ PoolInit
  /\ service # "pool" => fallback = <<>> /\ Len(primary) = 1 /\ mode = "parallel"

CacheRuns ==
  /\ service = "cache" /\ Next
  /\ UNCHANGED <<poolVars, service>>

PoolRuns ==
  /\ service = "pool" /\ PoolNext
  /\ UNCHANGED <<vars, service>>

ResolverNext == CacheRuns \/ PoolRuns

ResolverSpec == ResolverInit /\ [][ResolverNext]_resolverVars
=============================================================================
