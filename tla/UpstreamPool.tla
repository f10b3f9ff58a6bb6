----------------------------- MODULE UpstreamPool -----------------------------
(***************************************************************************)
(* The upstream pool of the DNS server (webgui/internal/upstream/pool.go), *)
(* how forward (dnsserver/upstream_query.go) and the reload of             *)
(* upstreams.json (webgui/setup.go, api/upstreams.go) use it.  A query     *)
(* asks the upstreams of its client, of the route of its domain, the       *)
(* primary and the fallback ones, in this order, one after the other or in *)
(* parallel; failures open the circuit of an upstream for a while;         *)
(* resolvers are cached for routes and clients and built anew when the     *)
(* bootstrap servers that resolve their names are replaced.                *)
(*                                                                         *)
(* A resolver is its upstream and the version of the bootstrap servers it  *)
(* was built with.  Each access to p.mu or to an atomic is a step, except  *)
(* that a list is filtered for health in one.                              *)
(***************************************************************************)
EXTENDS Integers, Sequences, FiniteSets, SequencesExt

CONSTANTS
  Upstreams,
  Primaries,        \* lists operators may save
  Fallbacks,        \* lists of the settings
  Groups,           \* lists of clients with upstreams of their own
  Routed,           \* upstreams of routes
  Modes,            \* of "strict", "load_balance", "parallel"
  Probed,           \* upstreams the health data knows
  PoolQueries,      \* goroutines that forward a query
  Handlers,         \* API requests that save upstreams
  Threshold,        \* circuitFailureThreshold
  MaxGroups,        \* maxResolverGroups
  MaxUpsets         \* bound: replacements of upstreams.json or of the settings, and
                    \* failed exchanges, together

Lists == Primaries \cup Fallbacks \cup Groups

ASSUME PoolAssumption ==
  /\ \A l \in Lists : l \in Seq(Upstreams)
  /\ "free" \notin Handlers
  /\ Routed \subseteq Upstreams /\ Probed \subseteq Upstreams
  /\ <<>> \notin Primaries \cup Groups
  /\ Modes \subseteq {"strict", "load_balance", "parallel"}
  /\ {Threshold, MaxGroups} \subseteq Nat \ {0} /\ MaxUpsets \in Nat

VARIABLES
  \* the configuration
  file,             \* upstreams.json: the list, and the version of the bootstrap servers
  reloadMu,         \* who holds it, or "free"
  handler,          \* of each reloader: what it does next, and what it has read
  upsets,           \* what MaxUpsets bounds
  \* the pool
  mode, boot, primary, fallback,
  routes, groups,   \* caches of resolvers
  \* of each upstream
  streak,           \* consecutiveFailures, up to the threshold
  open,             \* circuitUntil is in the future
  forwarding,       \* the queries
  asking            \* exchanges under way, also those whose query has left

fileVars   == <<file, reloadMu, handler>>
listVars == <<mode, boot, primary, fallback>>
statVars   == <<streak, open>>

poolVars == <<fileVars, listVars, routes, groups, statVars, forwarding, asking, upsets>>

Reloaders == Handlers \cup {"poller"}

Resolvers == [up : Upstreams, boot : 0 .. MaxUpsets]

\* newResolver
Resolver(u) == [up |-> u, boot |-> boot]

\* buildResolvers
Build(list) == [i \in DOMAIN list |-> Resolver(list[i])]

Rebuild(list, b) == [i \in DOMAIN list |-> [up |-> list[i].up, boot |-> b]]

-----------------------------------------------------------------------------
(***************************************************************************)
(* The configuration: handlers save upstreams.json and reload it, a poller *)
(* reloads it when it differs from what the pool uses.                     *)
(***************************************************************************)

ConfigFrame == UNCHANGED <<statVars, forwarding, asking>>

\* Another thing goes wrong or changes.
Upset == upsets < MaxUpsets /\ upsets' = upsets + 1

\* What a reloader knows that does not reload.
NotReloading == [pc |-> "idle", read |-> [list |-> <<>>, boot |-> 0, version |-> 0]]

UpsOf(list) == [i \in DOMAIN list |-> list[i].up]

Save(h) ==
  /\ handler[h].pc = "idle" /\ Upset
  /\ \E l \in Primaries, b \in {file.boot, file.version + 1} :
       file' = [list |-> l, boot |-> b, version |-> file.version + 1]
  /\ handler' = [handler EXCEPT ![h].pc = "reload"]
  /\ ConfigFrame
  /\ UNCHANGED <<reloadMu, listVars, routes, groups>>

\* The poller reads the file before it locks to compare; a reload because of an
\* older file than the present one changes nothing and is left out.
Poll ==
  /\ handler["poller"].pc = "idle"
  /\ reloadMu = "free"
  /\ file.list # UpsOf(primary) \/ file.boot # boot
  /\ handler' = [handler EXCEPT !["poller"].pc = "reload"]
  /\ ConfigFrame
  /\ UNCHANGED <<file, reloadMu, upsets, listVars, routes, groups>>

\* Mutant: the file is read before the lock is taken.
ReadsBeforeLock(h) == TRUE

MayRead(h) == reloadMu = "free"

\* reload: the lock is taken, then the file is read.
ReloadReads(h) ==
  /\ handler[h].pc = "reload"
  /\ MayRead(h)
  /\ reloadMu' = IF reloadMu = "free" THEN h ELSE reloadMu
  /\ handler' = [handler EXCEPT ![h] = [pc |-> "boot", read |-> file]]
  /\ ConfigFrame
  /\ UNCHANGED <<file, upsets, listVars, routes, groups>>

\* Mutant: resolvers of routes and clients survive new bootstrap servers.
CachesKept == UNCHANGED <<routes, groups>>

CachesEmptied == routes' = <<>> /\ groups' = <<>>

\* SetBootstrapServers, when they have changed.
ReloadBoot(h) ==
  LET b == handler[h].read.boot IN
  /\ handler[h].pc = "boot"
  /\ IF b = boot THEN UNCHANGED <<listVars, routes, groups>>
     ELSE /\ boot' = b
          /\ primary' = Rebuild(primary, b) /\ fallback' = Rebuild(fallback, b)
          /\ CachesEmptied
          /\ UNCHANGED mode
  /\ handler' = [handler EXCEPT ![h].pc = "primary"]
  /\ ConfigFrame
  /\ UNCHANGED <<file, reloadMu, upsets>>

\* SetPrimarySpecs
ReloadPrimary(h) ==
  /\ handler[h].pc = "primary"
  /\ primary' = Build(handler[h].read.list)
  /\ reloadMu' = "free"
  /\ handler' = [handler EXCEPT ![h] = NotReloading]
  /\ ConfigFrame
  /\ UNCHANGED <<file, upsets, mode, boot, fallback, routes, groups>>

\* SetRuntimeSettings
SetRuntimeSettings ==
  /\ Upset
  /\ mode' \in Modes
  /\ \E l \in Fallbacks : fallback' = Build(l)
  /\ routes' = <<>> /\ groups' = <<>>
  /\ ConfigFrame
  /\ UNCHANGED <<file, reloadMu, handler, boot, primary>>

ClearRouteCache ==
  /\ routes # <<>>
  /\ routes' = <<>>
  /\ ConfigFrame
  /\ UNCHANGED <<fileVars, upsets, listVars, groups>>

-----------------------------------------------------------------------------
(***************************************************************************)
(* Queries.                                                                *)
(***************************************************************************)

PoolIdle ==
  [pc |-> "idle", stage |-> "none", want |-> <<>>, list |-> <<>>, spare |-> <<>>, owed |-> FALSE]

QueryFrame == UNCHANGED <<fileVars, listVars, statVars, upsets>>

Put(q, r) == forwarding' = [forwarding EXCEPT ![q] = r]

Finished(st) == [PoolIdle EXCEPT !.pc = st]

\* What forward does after its client's upstreams: the route of the domain, if
\* there is one, or the pool.
FromRoute ==
  {[PoolIdle EXCEPT !.pc = "lookup", !.stage = "route", !.want = <<u>>] : u \in Routed}
    \cup {[PoolIdle EXCEPT !.pc = "exchange"]}

\* forward
Begin(q) ==
  /\ forwarding[q].pc = "idle"
  /\ \E r \in FromRoute
              \cup {[PoolIdle EXCEPT !.pc = "lookup", !.stage = "group", !.want = l] : l \in Groups} :
       Put(q, r)
  /\ QueryFrame
  /\ UNCHANGED <<routes, groups, asking>>

Cached(q) == IF forwarding[q].stage = "group" THEN groups ELSE routes

Key(q) == IF forwarding[q].stage = "group" THEN forwarding[q].want ELSE forwarding[q].want[1]

\* A route has one resolver and no mode.
Found(q) ==
  Put(q, [forwarding[q] EXCEPT !.list = forwarding[q].want, !.want = <<>>,
                          !.pc = IF forwarding[q].stage = "group" THEN "mode" ELSE "try"])

\* The caches are looked up under the read lock.
Lookup(q) ==
  /\ forwarding[q].pc = "lookup"
  /\ IF Key(q) \in DOMAIN Cached(q) THEN Found(q) ELSE Put(q, [forwarding[q] EXCEPT !.pc = "build"])
  /\ QueryFrame
  /\ UNCHANGED <<routes, groups, asking>>

Builds(q) == Build(forwarding[q].want)

\* The sets of keys of which one makes room for a new group.
Evicted == IF Cardinality(DOMAIN groups) >= MaxGroups THEN {{k} : k \in DOMAIN groups} ELSE {{}}

\* A cache with one more list of resolvers.
With(cache, k, list) == [x \in DOMAIN cache \cup {k} |-> IF x = k THEN list ELSE cache[x]]

\* groupResolvers and routeResolver under the lock: another query may have been
\* faster.
BuildCached(q) ==
  /\ forwarding[q].pc = "build"
  /\ Found(q)
  /\ \/ Key(q) \in DOMAIN Cached(q) /\ UNCHANGED <<routes, groups>>
     \/ /\ Key(q) \notin DOMAIN Cached(q) /\ forwarding[q].stage = "route"
        /\ routes' = With(routes, Key(q), Builds(q))
        /\ UNCHANGED groups
     \/ /\ Key(q) \notin DOMAIN Cached(q) /\ forwarding[q].stage = "group"
        /\ \E gone \in Evicted :
             groups' = With([k \in DOMAIN groups \ gone |-> groups[k]], Key(q), Builds(q))
        /\ UNCHANGED routes
  /\ QueryFrame
  /\ UNCHANGED asking

\* Mutant: nothing is left when all are unhealthy.
HealthyOnly(list, ill) == SelectSeq(list, LAMBDA u : ~open[u] /\ u \notin ill)

\* healthy; the health data calls some upstreams ill.
Healthy(list, ill) ==
  LET good == SelectSeq(list, LAMBDA u : ~open[u] /\ u \notin ill)
  IN  IF good = <<>> THEN list ELSE good

\* Exchange copies both lists.
Exchange(q) ==
  /\ forwarding[q].pc = "exchange"
  /\ \E ill \in SUBSET Probed :
       Put(q, [forwarding[q] EXCEPT !.pc = "mode", !.stage = "primary",
                               !.list = Healthy(UpsOf(primary), ill), !.spare = UpsOf(fallback),
                               !.owed = primary \o fallback # <<>>])
  /\ QueryFrame
  /\ UNCHANGED <<routes, groups, asking>>

\* What follows when the upstreams of a stage gave no answer.
Fallen(r) ==
  CASE r.stage = "group" -> FromRoute
    [] r.stage = "route" -> {[PoolIdle EXCEPT !.pc = "exchange"]}
    [] r.stage = "primary" /\ r.spare # <<>> ->
         {[r EXCEPT !.pc = "mode", !.stage = "fallback", !.list = Healthy(r.spare, ill), !.spare = <<>>]
            : ill \in SUBSET Probed}
    [] OTHER -> {[Finished("failed") EXCEPT !.owed = r.owed]}

Falls(q) == \E s \in Fallen(forwarding[q]) : Put(q, s)

\* forward accepts the answer or not: one of the pool is the last.
AnswerFound(q) ==
  \/ Put(q, Finished("answered"))
  \/ forwarding[q].stage \in {"group", "route"} /\ Falls(q)
  \/ forwarding[q].stage \notin {"group", "route"} /\ Put(q, Finished("failed"))

Worker(q, u) == [q |-> q, stage |-> forwarding[q].stage, up |-> u, st |-> "asking"]

\* The orders in which exchangeByMode asks one upstream after the other.
Orders(list) == IF mode = "load_balance" THEN SetToSeqs(ToSet(list)) ELSE {list}

\* exchangeByMode
ReadMode(q) ==
  LET r == forwarding[q] IN
  /\ r.pc = "mode"
  /\ \/ r.list = <<>> /\ Falls(q) /\ UNCHANGED asking
     \/ /\ r.list # <<>> /\ mode = "parallel"
        /\ asking' = asking \cup {Worker(q, u) : u \in ToSet(r.list)}
        /\ Put(q, [r EXCEPT !.pc = "race", !.list = <<>>, !.owed = FALSE])
     \/ /\ r.list # <<>> /\ mode # "parallel"
        /\ \E l \in Orders(r.list) : Put(q, [r EXCEPT !.pc = "try", !.list = l])
        /\ UNCHANGED asking
  /\ QueryFrame
  /\ UNCHANGED <<routes, groups>>

\* exchangeStrict asks the next one,
Try(q) ==
  /\ forwarding[q].pc = "try"
  /\ asking' = asking \cup {Worker(q, Head(forwarding[q].list))}
  /\ Put(q, [forwarding[q] EXCEPT !.pc = "await", !.list = Tail(@), !.owed = FALSE])
  /\ QueryFrame
  /\ UNCHANGED <<routes, groups>>

\* The exchanges whose outcome the query waits for.
Mine(q) == {w \in asking : w.q = q /\ w.stage = forwarding[q].stage}

\* and goes on when it has failed.
Await(q) ==
  /\ forwarding[q].pc = "await"
  /\ \E w \in Mine(q) :
       /\ asking' = asking \ {w}
       /\ \/ w.st = "answered" /\ AnswerFound(q)
          \/ w.st = "failed" /\ forwarding[q].list # <<>> /\ Put(q, [forwarding[q] EXCEPT !.pc = "try"])
          \/ w.st = "failed" /\ forwarding[q].list = <<>> /\ Falls(q)
  /\ QueryFrame
  /\ UNCHANGED <<routes, groups>>

\* exchangeParallel: one has answered, all have failed, or the time is over.
\* Goroutines that are left go on.
Race(q) ==
  /\ forwarding[q].pc = "race"
  /\ \/ (\E w \in Mine(q) : w.st = "answered") /\ AnswerFound(q)
     \/ (\A w \in Mine(q) : w.st # "answered") /\ Falls(q)
  /\ asking' = {w \in asking : w \in Mine(q) => w.st \notin {"answered", "failed"}}
  /\ QueryFrame
  /\ UNCHANGED <<routes, groups>>

\* The same goroutine is the next query, so that what the last one left must have
\* ended for it to be told apart.
QueryEnds(q) ==
  /\ forwarding[q].pc \in {"answered", "failed"}
  /\ \A w \in asking : w.q # q
  /\ Put(q, PoolIdle)
  /\ QueryFrame
  /\ UNCHANGED <<routes, groups, asking>>

-----------------------------------------------------------------------------
(***************************************************************************)
(* exchangeContext: the outcome of an exchange, counted in two accesses.   *)
(* One that is cancelled because another won the race may fail for that    *)
(* reason, and counts as failed.                                           *)
(***************************************************************************)

WorkerFrame == UNCHANGED <<fileVars, listVars, routes, groups, forwarding>>

Becomes(w, st) == asking' = (asking \ {w}) \cup {[w EXCEPT !.st = st]}

\* An outcome goes to the query, if it still waits.
Returns(w, st) == IF w \in Mine(w.q) THEN Becomes(w, st) ELSE asking' = asking \ {w}

\* Failures beyond the threshold make no difference.
Fail(w) ==
  /\ w.st = "asking" /\ Upset
  /\ streak' = [streak EXCEPT ![w.up] = IF @ < Threshold THEN @ + 1 ELSE @]
  /\ IF streak[w.up] + 1 >= Threshold THEN Becomes(w, "opening") ELSE Returns(w, "failed")
  /\ WorkerFrame
  /\ UNCHANGED open

OpenCircuit(w) ==
  /\ w.st = "opening"
  /\ open' = [open EXCEPT ![w.up] = TRUE]
  /\ Returns(w, "failed")
  /\ WorkerFrame
  /\ UNCHANGED <<streak, upsets>>

Succeed(w) ==
  /\ w.st = "asking"
  /\ streak' = [streak EXCEPT ![w.up] = 0]
  /\ Becomes(w, "closing")
  /\ WorkerFrame
  /\ UNCHANGED <<open, upsets>>

CloseCircuit(w) ==
  /\ w.st = "closing"
  /\ open' = [open EXCEPT ![w.up] = FALSE]
  /\ Returns(w, "answered")
  /\ WorkerFrame
  /\ UNCHANGED <<streak, upsets>>

\* circuitCooldown is over.
Cooldown(u) ==
  /\ open[u]
  /\ open' = [open EXCEPT ![u] = FALSE]
  /\ WorkerFrame
  /\ UNCHANGED <<streak, asking, upsets>>

-----------------------------------------------------------------------------
PoolInit ==
  /\ \E l \in Primaries : file = [list |-> l, boot |-> 0, version |-> 0]
  /\ reloadMu = "free"
  /\ handler = [h \in Reloaders |-> NotReloading]
  /\ upsets = 0
  /\ mode \in Modes /\ boot = 0
  /\ primary = [i \in DOMAIN file.list |-> [up |-> file.list[i], boot |-> 0]]
  /\ \E l \in Fallbacks : fallback = [i \in DOMAIN l |-> [up |-> l[i], boot |-> 0]]
  /\ routes = <<>> /\ groups = <<>>
  /\ streak = [u \in Upstreams |-> 0] /\ open = [u \in Upstreams |-> FALSE]
  /\ forwarding = [q \in PoolQueries |-> PoolIdle] /\ asking = {}

Reload(h) == ReloadReads(h) \/ ReloadBoot(h) \/ ReloadPrimary(h)

Forward(q) ==
  \/ Lookup(q) \/ BuildCached(q) \/ Exchange(q) \/ ReadMode(q) \/ Try(q) \/ Await(q) \/ Race(q)
  \/ QueryEnds(q)

PoolNext ==
  \/ \E h \in Handlers : Save(h)
  \/ Poll
  \/ \E h \in Reloaders : Reload(h)
  \/ SetRuntimeSettings \/ ClearRouteCache
  \/ \E q \in PoolQueries : Begin(q) \/ Forward(q)
  \/ \E w \in asking : Fail(w) \/ OpenCircuit(w) \/ Succeed(w) \/ CloseCircuit(w)
  \/ \E u \in Upstreams : Cooldown(u)

PoolSpec == PoolInit /\ [][PoolNext]_poolVars
-----------------------------------------------------------------------------
\* The types of the pool's state and the bound of the cache of groups.
PoolTypeOK ==
  /\ file.list \in Primaries /\ file.version \in 0 .. MaxUpsets /\ file.boot \in 0 .. file.version
  /\ reloadMu \in Reloaders \cup {"free"}
  /\ \A h \in Reloaders : handler[h].pc \in {"idle", "reload", "boot", "primary"}
  /\ mode \in Modes /\ boot \in 0 .. MaxUpsets
  /\ primary \in Seq(Resolvers) /\ fallback \in Seq(Resolvers)
  /\ DOMAIN routes \subseteq Routed /\ DOMAIN groups \subseteq Groups
  /\ Cardinality(DOMAIN groups) <= MaxGroups
  /\ streak \in [Upstreams -> 0 .. Threshold] /\ open \in [Upstreams -> BOOLEAN]
  /\ \A q \in PoolQueries :
       /\ forwarding[q].stage \in {"none", "group", "route", "primary", "fallback"}
       /\ forwarding[q].list \in Seq(Upstreams) /\ forwarding[q].spare \in Seq(Upstreams)
  /\ \A w \in asking :
       w.st \in {"asking", "opening", "closing", "answered", "failed"} /\ w.up \in Upstreams

\* Every resolver of the lists and of the caches uses the present bootstrap
\* servers, also one that a query built while they were replaced.
ResolversCurrent ==
  \A l \in {primary, fallback} \cup {routes[k] : k \in DOMAIN routes}
           \cup {groups[k] : k \in DOMAIN groups} :
    \A r \in ToSet(l) : r.boot = boot

\* A query does not fail without having asked an upstream of the pool, if there
\* is one, however many are unhealthy or have an open circuit.
AsksSomeone == \A q \in PoolQueries : forwarding[q].pc = "failed" => ~forwarding[q].owed

\* When nobody reloads, or is about to, the pool uses what was saved last,
\* whatever handlers and the poller read of the file before.
PoolFollowsFile ==
  (\A h \in Reloaders : handler[h].pc = "idle")
    => UpsOf(primary) = file.list /\ boot = file.boot
=============================================================================
