----------------------------- MODULE PoolProofs -----------------------------
(***************************************************************************)
(* Proofs about the upstream pool for every number of upstreams, queries   *)
(* and reloads: its caches never keep a replaced bootstrap server, no      *)
(* query fails without having asked, and the pool ends with the file that  *)
(* was saved last.                                                         *)
(***************************************************************************)
EXTENDS UpstreamPool, SequenceTheorems, TLAPS

-----------------------------------------------------------------------------
(***************************************************************************)
(* Resolvers.  A list is built from the present bootstrap servers under    *)
(* the lock that replaces them, so that ResolversCurrent is inductive.     *)
(***************************************************************************)

Fresh(l, b) == \A i \in DOMAIN l : l[i].boot = b

\* ResolversCurrent, list by list.
ListsFresh ==
  /\ Fresh(primary, boot) /\ Fresh(fallback, boot)
  /\ \A k \in DOMAIN routes : Fresh(routes[k], boot)
  /\ \A k \in DOMAIN groups : Fresh(groups[k], boot)

LEMMA ListsFreshIs == ListsFresh <=> ResolversCurrent
<1>1. ASSUME NEW l, NEW b
      PROVE  Fresh(l, b) <=> \A r \in ToSet(l) : r.boot = b
  BY DEF Fresh, ToSet
<1> DEFINE Held == {primary, fallback} \cup {routes[k] : k \in DOMAIN routes}
                      \cup {groups[k] : k \in DOMAIN groups}
<1>2. ListsFresh <=> \A l \in Held : Fresh(l, boot)
  BY DEF ListsFresh
<1>3. ResolversCurrent <=> \A l \in Held : \A r \in ToSet(l) : r.boot = boot
  BY DEF ResolversCurrent
<1>4. \A l \in Held : Fresh(l, boot) <=> \A r \in ToSet(l) : r.boot = boot
  BY <1>1
<1> HIDE DEF Held
<1> QED  BY <1>2, <1>3, <1>4

LEMMA FreshInit == PoolInit => ListsFresh
<1> SUFFICES ASSUME PoolInit PROVE ListsFresh
  OBVIOUS
<1>1. DOMAIN routes = {} /\ DOMAIN groups = {}
  BY DEF PoolInit
<1>2. Fresh(primary, boot) /\ Fresh(fallback, boot)
  BY DEF PoolInit, Fresh
<1> QED  BY <1>1, <1>2 DEF ListsFresh

\* A list that is built under the lock, and one that is built anew.
LEMMA BuildFresh == \A l : Fresh(Build(l), boot)
  BY DEF Fresh, Build, Resolver

LEMMA RebuildFresh == \A l, b : Fresh(Rebuild(l, b), b)
  BY DEF Fresh, Rebuild

\* A cache stays fresh with one more list of the present servers.
LEMMA WithFresh ==
  ASSUME NEW cache, NEW k, NEW l, Fresh(l, boot), \A x \in DOMAIN cache : Fresh(cache[x], boot)
  PROVE  \A x \in DOMAIN With(cache, k, l) : Fresh(With(cache, k, l)[x], boot)
  BY DEF With

LEMMA FreshBuildCached ==
  ASSUME ListsFresh, NEW q, BuildCached(q)
  PROVE  ListsFresh'
<1>1. UNCHANGED listVars
  BY DEF BuildCached, QueryFrame
<1>2. Fresh(Builds(q), boot)
  BY BuildFresh DEF Builds
<1>3. \A k \in DOMAIN routes' : Fresh(routes'[k], boot)
  <2>1. CASE UNCHANGED routes  BY <2>1 DEF ListsFresh
  <2>2. CASE routes' = With(routes, Key(q), Builds(q))
    BY <2>2, <1>2, WithFresh DEF ListsFresh
  <2> QED  BY <2>1, <2>2 DEF BuildCached
<1>4. \A k \in DOMAIN groups' : Fresh(groups'[k], boot)
  <2>1. CASE UNCHANGED groups  BY <2>1 DEF ListsFresh
  <2>2. CASE \E gone \in Evicted :
               groups' = With([k \in DOMAIN groups \ gone |-> groups[k]], Key(q), Builds(q))
    <3>1. PICK gone \in Evicted :
                 groups' = With([k \in DOMAIN groups \ gone |-> groups[k]], Key(q), Builds(q))
      BY <2>2
    <3> DEFINE left == [k \in DOMAIN groups \ gone |-> groups[k]]
    <3>2. \A k \in DOMAIN left : Fresh(left[k], boot)
      BY DEF ListsFresh
    <3>3. groups' = With(left, Key(q), Builds(q))
      BY <3>1
    <3> HIDE DEF left
    <3> QED  BY <3>2, <3>3, <1>2, WithFresh
  <2> QED  BY <2>1, <2>2 DEF BuildCached
<1> QED  BY <1>1, <1>3, <1>4 DEF ListsFresh, Fresh, listVars

LEMMA FreshBoot ==
  ASSUME ListsFresh, NEW h, ReloadBoot(h)
  PROVE  ListsFresh'
<1> DEFINE b == handler[h].read.boot
<1>1. CASE b = boot
  BY <1>1 DEF ReloadBoot, ListsFresh, Fresh, listVars
<1>2. CASE b # boot
  <2>1. boot' = b /\ primary' = Rebuild(primary, b) /\ fallback' = Rebuild(fallback, b)
    BY <1>2 DEF ReloadBoot
  <2>2. DOMAIN routes' = {} /\ DOMAIN groups' = {}
    BY <1>2 DEF ReloadBoot, CachesEmptied
  <2> HIDE DEF b
  <2>3. Fresh(Rebuild(primary, b), b) /\ Fresh(Rebuild(fallback, b), b)
    BY RebuildFresh
  <2> QED  BY <2>1, <2>2, <2>3 DEF ListsFresh, Fresh
<1> QED  BY <1>1, <1>2

LEMMA FreshSettings ==
  ASSUME ListsFresh, SetRuntimeSettings
  PROVE  ListsFresh'
<1>1. boot' = boot /\ primary' = primary /\ DOMAIN routes' = {} /\ DOMAIN groups' = {}
  BY DEF SetRuntimeSettings
<1>2. Fresh(fallback', boot)
  BY BuildFresh DEF SetRuntimeSettings
<1> QED  BY <1>1, <1>2 DEF ListsFresh, Fresh

LEMMA FreshStep == ListsFresh /\ [PoolNext]_poolVars => ListsFresh'
<1> SUFFICES ASSUME ListsFresh, [PoolNext]_poolVars PROVE ListsFresh'
  OBVIOUS
<1>1. CASE UNCHANGED <<listVars, routes, groups>>
  BY <1>1 DEF ListsFresh, Fresh, listVars
<1>2. ASSUME NEW h, ReloadPrimary(h) PROVE ListsFresh'
  BY <1>2, BuildFresh DEF ReloadPrimary, ListsFresh, Fresh
<1>3. CASE ClearRouteCache
  <2>1. DOMAIN routes' = {} /\ UNCHANGED <<listVars, groups>>
    BY <1>3 DEF ClearRouteCache
  <2> QED  BY <2>1 DEF ListsFresh, Fresh, listVars
<1>4. ASSUME NEW q \in PoolQueries, Begin(q) \/ Forward(q), ~BuildCached(q)
      PROVE  UNCHANGED <<listVars, routes, groups>>
  BY <1>4 DEF Begin, Forward, Lookup, Exchange, ReadMode, Try, Await, Race, QueryEnds, QueryFrame
<1>5. ASSUME NEW h \in Reloaders, Save(h) \/ Poll \/ ReloadReads(h)
      PROVE  UNCHANGED <<listVars, routes, groups>>
  BY <1>5 DEF Save, Poll, ReloadReads
<1>6. ASSUME NEW w, Fail(w) \/ OpenCircuit(w) \/ Succeed(w) \/ CloseCircuit(w) \/ Cooldown(w)
      PROVE  UNCHANGED <<listVars, routes, groups>>
  BY <1>6 DEF Fail, OpenCircuit, Succeed, CloseCircuit, Cooldown, WorkerFrame
<1>7. CASE UNCHANGED poolVars
  BY <1>7, <1>1 DEF poolVars
<1>8. "poller" \in Reloaders /\ Handlers \subseteq Reloaders
  BY DEF Reloaders
<1> QED
  BY <1>1, <1>2, <1>3, <1>4, <1>5, <1>6, <1>7, <1>8, FreshBuildCached, FreshBoot, FreshSettings
     DEF PoolNext, Reload

\* Every resolver of the lists and of the caches uses the present bootstrap
\* servers: SetBootstrapServers rebuilds the lists and empties the caches under
\* the lock under which groupResolvers and routeResolver build and store.
THEOREM CachesStayCurrent == PoolSpec => []ResolversCurrent
<1>1. PoolSpec => []ListsFresh
  BY FreshInit, FreshStep, PTL DEF PoolSpec
<1> QED  BY <1>1, ListsFreshIs, PTL

-----------------------------------------------------------------------------
(***************************************************************************)
(* The shape of the configuration.                                         *)
(***************************************************************************)

Files == [list : Seq(Upstreams), boot : Nat, version : Nat]

Nodes == [up : Upstreams, boot : Nat]

ConfigShape ==
  /\ file \in Files
  /\ boot \in Nat /\ primary \in Seq(Nodes) /\ fallback \in Seq(Nodes)
  /\ handler \in [Reloaders -> [pc : {"idle", "reload", "boot", "primary"}, read : Files]]

LEMMA ListsAreLists == \A l \in Lists : l \in Seq(Upstreams)
  BY PoolAssumption

\* Lists of resolvers that are built, built anew, and the upstreams of one.
LEMMA BuildShape ==
  ASSUME NEW l \in Seq(Upstreams), NEW b \in Nat
  PROVE  [i \in DOMAIN l |-> [up |-> l[i], boot |-> b]] \in Seq(Nodes)
<1>1. Len(l) \in Nat /\ DOMAIN l = 1 .. Len(l) /\ \A i \in 1 .. Len(l) : l[i] \in Upstreams
  BY ElementOfSeq, LenProperties
<1>2. [i \in 1 .. Len(l) |-> [up |-> l[i], boot |-> b]] \in [1 .. Len(l) -> Nodes]
  BY <1>1 DEF Nodes
<1> QED  BY <1>1, <1>2, SeqDef

LEMMA UpsShape ==
  ASSUME NEW l \in Seq(Nodes)
  PROVE  UpsOf(l) \in Seq(Upstreams) /\ (l # <<>> => UpsOf(l) # <<>>)
<1>1. Len(l) \in Nat /\ DOMAIN l = 1 .. Len(l) /\ \A i \in 1 .. Len(l) : l[i] \in Nodes
  BY ElementOfSeq, LenProperties
<1>2. UpsOf(l) \in [1 .. Len(l) -> Upstreams]
  BY <1>1 DEF UpsOf, Nodes
<1>3. UpsOf(l) \in Seq(Upstreams)
  BY <1>1, <1>2, SeqDef
<1>4. ASSUME l # <<>> PROVE UpsOf(l) # <<>>
  <2>1. Len(l) # 0
    BY <1>4, EmptySeq
  <2>2. 1 \in DOMAIN UpsOf(l)
    BY <2>1, <1>1 DEF UpsOf
  <2>3. 1 \notin DOMAIN <<>>
    OBVIOUS
  <2> QED  BY <2>2, <2>3
<1> QED  BY <1>3, <1>4

LEMMA RebuildShape ==
  ASSUME NEW l \in Seq(Nodes), NEW b \in Nat
  PROVE  Rebuild(l, b) \in Seq(Nodes)
<1>1. UpsOf(l) \in Seq(Upstreams) /\ DOMAIN UpsOf(l) = DOMAIN l
  BY UpsShape DEF UpsOf
<1>2. Rebuild(l, b) = [i \in DOMAIN UpsOf(l) |-> [up |-> UpsOf(l)[i], boot |-> b]]
  BY DEF Rebuild, UpsOf
<1> QED  BY <1>1, <1>2, BuildShape

\* Building a list and taking its upstreams gives the list.
LEMMA BuiltFrom ==
  ASSUME NEW l \in Seq(Upstreams)
  PROVE  UpsOf(Build(l)) = l
<1>1. l = [i \in DOMAIN l |-> l[i]]
  BY SeqDef
<1>2. UpsOf(Build(l)) = [i \in DOMAIN l |-> l[i]]
  BY DEF UpsOf, Build, Resolver
<1> QED  BY <1>1, <1>2

LEMMA ShapeInit == PoolInit => ConfigShape
<1> SUFFICES ASSUME PoolInit PROVE ConfigShape
  OBVIOUS
<1>1. PICK l \in Primaries : file = [list |-> l, boot |-> 0, version |-> 0]
  BY DEF PoolInit
<1>2. PICK k \in Fallbacks : fallback = [i \in DOMAIN k |-> [up |-> k[i], boot |-> 0]]
  BY DEF PoolInit
<1>3. l \in Seq(Upstreams) /\ k \in Seq(Upstreams)
  BY ListsAreLists DEF Lists
<1>4. file \in Files /\ file.list = l
  BY <1>1, <1>3 DEF Files
<1>5. primary \in Seq(Nodes) /\ fallback \in Seq(Nodes)
  BY <1>2, <1>3, <1>4, BuildShape DEF PoolInit
<1>6. <<>> \in Seq(Upstreams)
  OBVIOUS
<1>7. NotReloading \in [pc : {"idle", "reload", "boot", "primary"}, read : Files]
  BY <1>6 DEF NotReloading, Files
<1> QED  BY <1>4, <1>5, <1>7 DEF PoolInit, ConfigShape

LEMMA BuildNodes ==
  ASSUME ConfigShape, NEW l \in Seq(Upstreams)
  PROVE  Build(l) \in Seq(Nodes)
  BY BuildShape DEF Build, Resolver, ConfigShape

LEMMA ShapeSave ==
  ASSUME ConfigShape, NEW h \in Handlers, Save(h)
  PROVE  ConfigShape'
<1>1. PICK l \in Primaries, b \in {file.boot, file.version + 1} :
           file' = [list |-> l, boot |-> b, version |-> file.version + 1]
  BY DEF Save
<1>2. l \in Seq(Upstreams) /\ b \in Nat /\ file.version + 1 \in Nat
  BY ListsAreLists DEF Lists, ConfigShape, Files
<1>3. file' \in Files
  BY <1>1, <1>2 DEF Files
<1> QED  BY <1>3 DEF Save, ConfigShape, listVars, Reloaders

LEMMA ShapeReload ==
  ASSUME ConfigShape, NEW h \in Reloaders, Reload(h)
  PROVE  ConfigShape'
<1>0. handler[h].read \in Files
  BY DEF ConfigShape
<1>1. CASE ReloadReads(h)
  BY <1>1 DEF ReloadReads, ConfigShape, listVars
<1>2. CASE ReloadBoot(h)
  <2> DEFINE b == handler[h].read.boot
  <2>1. b \in Nat
    BY <1>0 DEF Files
  <2>2. boot' \in Nat /\ primary' \in Seq(Nodes) /\ fallback' \in Seq(Nodes)
    <3>1. CASE b = boot
      BY <3>1, <1>2 DEF ReloadBoot, listVars, ConfigShape
    <3>2. CASE b # boot
      <4>1. boot' = b /\ primary' = Rebuild(primary, b) /\ fallback' = Rebuild(fallback, b)
        BY <3>2, <1>2 DEF ReloadBoot
      <4> HIDE DEF b
      <4> QED  BY <4>1, <2>1, RebuildShape DEF ConfigShape
    <3> QED  BY <3>1, <3>2
  <2>3. file' = file /\ handler' = [handler EXCEPT ![h].pc = "primary"]
    BY <1>2 DEF ReloadBoot
  <2> QED  BY <2>2, <2>3 DEF ConfigShape
<1>3. CASE ReloadPrimary(h)
  <2>1. Build(handler[h].read.list) \in Seq(Nodes)
    BY <1>0, BuildNodes DEF Files
  <2>2. <<>> \in Seq(Upstreams)
    OBVIOUS
  <2>3. NotReloading \in [pc : {"idle", "reload", "boot", "primary"}, read : Files]
    BY <2>2 DEF NotReloading, Files
  <2> QED  BY <2>1, <2>3, <1>3 DEF ReloadPrimary, ConfigShape
<1> QED  BY <1>1, <1>2, <1>3 DEF Reload

LEMMA ShapeSettings ==
  ASSUME ConfigShape, SetRuntimeSettings
  PROVE  ConfigShape'
<1>1. PICK l \in Fallbacks : fallback' = Build(l)
  BY DEF SetRuntimeSettings
<1>2. fallback' \in Seq(Nodes)
  BY <1>1, ListsAreLists, BuildNodes DEF Lists
<1> QED  BY <1>2 DEF SetRuntimeSettings, ConfigShape

\* What leaves the configuration alone.
Elsewhere ==
  \/ ClearRouteCache
  \/ \E q \in PoolQueries : Begin(q) \/ Forward(q)
  \/ \E w \in asking : Fail(w) \/ OpenCircuit(w) \/ Succeed(w) \/ CloseCircuit(w)
  \/ \E u \in Upstreams : Cooldown(u)
  \/ UNCHANGED poolVars

LEMMA ElsewhereKeeps == Elsewhere => UNCHANGED <<fileVars, listVars>>
<1>1. ASSUME NEW q, Begin(q) \/ Forward(q) PROVE UNCHANGED <<fileVars, listVars>>
  BY <1>1 DEF Begin, Forward, Lookup, BuildCached, Exchange, ReadMode, Try, Await, Race, QueryEnds,
              QueryFrame
<1>2. ASSUME NEW w, Fail(w) \/ OpenCircuit(w) \/ Succeed(w) \/ CloseCircuit(w) \/ Cooldown(w)
      PROVE  UNCHANGED <<fileVars, listVars>>
  BY <1>2 DEF Fail, OpenCircuit, Succeed, CloseCircuit, Cooldown, WorkerFrame
<1>3. ClearRouteCache \/ UNCHANGED poolVars => UNCHANGED <<fileVars, listVars>>
  BY DEF ClearRouteCache, poolVars
<1> QED  BY <1>1, <1>2, <1>3 DEF Elsewhere

\* A step is one of the configuration or elsewhere.
LEMMA Steps ==
  [PoolNext]_poolVars =>
    \/ \E h \in Handlers : Save(h)
    \/ Poll
    \/ \E h \in Reloaders : Reload(h)
    \/ SetRuntimeSettings
    \/ Elsewhere
  BY DEF PoolNext, Elsewhere

LEMMA ShapeStep == ConfigShape /\ [PoolNext]_poolVars => ConfigShape'
<1> SUFFICES ASSUME ConfigShape, [PoolNext]_poolVars PROVE ConfigShape'
  OBVIOUS
<1>1. CASE Poll
  BY <1>1 DEF Poll, ConfigShape, listVars, Reloaders
<1>2. CASE Elsewhere
  BY <1>2, ElsewhereKeeps DEF ConfigShape, fileVars, listVars
<1> QED  BY <1>1, <1>2, Steps, ShapeSave, ShapeReload, ShapeSettings

-----------------------------------------------------------------------------
(***************************************************************************)
(* The reload of upstreams.json.                                           *)
(***************************************************************************)

Amid(h) == handler[h].pc \in {"boot", "primary"}

Awaited == \E h \in Reloaders : handler[h].pc = "reload"

\* The one that reloads holds the lock.
OneReloads == \A h \in Reloaders : Amid(h) <=> reloadMu = h

\* It has read the present file, or another reload is to follow.
ReadsLast == \A h \in Reloaders : Amid(h) => handler[h].read = file \/ Awaited

\* When it is about to replace the list, it has replaced the bootstrap servers.
BootFirst == \A h \in Reloaders : handler[h].pc = "primary" => boot = handler[h].read.boot

ReloadInv == ConfigShape /\ OneReloads /\ ReadsLast /\ BootFirst /\ PoolFollowsFile

LEMMA ReloadInit == PoolInit => ReloadInv
<1> SUFFICES ASSUME PoolInit PROVE ReloadInv
  OBVIOUS
<1>1. ConfigShape
  BY ShapeInit
<1>2. \A h \in Reloaders : handler[h].pc = "idle"
  BY DEF PoolInit, NotReloading
<1>3. \A h \in Reloaders : reloadMu # h
  BY PoolAssumption DEF PoolInit, Reloaders
<1>4. file.list \in Seq(Upstreams) /\ boot = file.boot /\ primary = Build(file.list)
  BY <1>1 DEF ConfigShape, Files, PoolInit, Build, Resolver
<1> QED
  BY <1>1, <1>2, <1>3, <1>4, BuiltFrom
     DEF ReloadInv, OneReloads, ReadsLast, BootFirst, PoolFollowsFile, Amid

LEMMA ReloadSave ==
  ASSUME ReloadInv, NEW h \in Handlers, Save(h)
  PROVE  ReloadInv'
<1>1. ConfigShape'
  BY ShapeSave DEF ReloadInv
<1>2. /\ h \in Reloaders /\ handler[h].pc = "idle"
      /\ handler' = [handler EXCEPT ![h].pc = "reload"]
      /\ UNCHANGED <<reloadMu, listVars>>
  BY DEF Save, Reloaders
<1>3. /\ handler'[h].pc = "reload"
      /\ \A g \in Reloaders \ {h} : handler'[g] = handler[g]
  BY <1>2 DEF ReloadInv, ConfigShape
<1> QED
  BY <1>1, <1>2, <1>3
     DEF ReloadInv, OneReloads, ReadsLast, BootFirst, PoolFollowsFile, Amid, Awaited, listVars

LEMMA ReloadPoll ==
  ASSUME ReloadInv, Poll
  PROVE  ReloadInv'
<1> DEFINE h == "poller"
<1>1. ConfigShape'
  BY ShapeStep DEF ReloadInv, PoolNext
<1>2. /\ h \in Reloaders /\ handler[h].pc = "idle"
      /\ handler' = [handler EXCEPT ![h].pc = "reload"]
      /\ UNCHANGED <<file, reloadMu, listVars>>
  BY DEF Poll, Reloaders
<1>3. /\ handler'[h].pc = "reload"
      /\ \A g \in Reloaders \ {h} : handler'[g] = handler[g]
  BY <1>2 DEF ReloadInv, ConfigShape
<1> HIDE DEF h
<1> QED
  BY <1>1, <1>2, <1>3
     DEF ReloadInv, OneReloads, ReadsLast, BootFirst, PoolFollowsFile, Amid, Awaited, listVars

LEMMA ReloadReload ==
  ASSUME ReloadInv, NEW h \in Reloaders, Reload(h)
  PROVE  ReloadInv'
<1>1. ConfigShape'
  BY ShapeReload DEF ReloadInv
<1>2. "free" \notin Reloaders
  BY PoolAssumption DEF Reloaders
<1>3. CASE ReloadReads(h)
  <2>1. /\ handler[h].pc = "reload" /\ reloadMu = "free" /\ reloadMu' = h
        /\ UNCHANGED <<file, listVars>>
        /\ handler' = [handler EXCEPT ![h] = [pc |-> "boot", read |-> file]]
    BY <1>3 DEF ReloadReads, MayRead
  <2>2. /\ handler'[h].pc = "boot" /\ handler'[h].read = file
        /\ \A g \in Reloaders \ {h} : handler'[g] = handler[g]
    BY <2>1 DEF ReloadInv, ConfigShape
  <2>3. \A g \in Reloaders : ~Amid(g)
    BY <2>1, <1>2 DEF ReloadInv, OneReloads
  <2> QED
    BY <1>1, <2>1, <2>2, <2>3
       DEF ReloadInv, OneReloads, ReadsLast, BootFirst, PoolFollowsFile, Amid
<1>4. CASE ReloadBoot(h)
  <2>1. /\ handler[h].pc = "boot" /\ UNCHANGED <<file, reloadMu>>
        /\ boot' = handler[h].read.boot
        /\ handler' = [handler EXCEPT ![h].pc = "primary"]
    BY <1>4 DEF ReloadBoot, listVars
  <2>2. /\ handler'[h].pc = "primary" /\ handler'[h].read = handler[h].read
        /\ \A g \in Reloaders \ {h} : handler'[g] = handler[g]
    BY <2>1 DEF ReloadInv, ConfigShape
  <2>3. \A g \in Reloaders \ {h} : ~Amid(g)
    BY <2>1 DEF ReloadInv, OneReloads, Amid
  <2>4. Awaited => Awaited'
    BY <2>1, <2>2 DEF Awaited
  <2> QED
    BY <1>1, <2>1, <2>2, <2>3, <2>4
       DEF ReloadInv, OneReloads, ReadsLast, BootFirst, PoolFollowsFile, Amid
<1>5. CASE ReloadPrimary(h)
  <2>1. /\ handler[h].pc = "primary" /\ reloadMu' = "free" /\ UNCHANGED <<file, boot>>
        /\ primary' = Build(handler[h].read.list)
        /\ handler' = [handler EXCEPT ![h] = NotReloading]
    BY <1>5 DEF ReloadPrimary
  <2>2. /\ handler'[h].pc = "idle"
        /\ \A g \in Reloaders \ {h} : handler'[g] = handler[g]
    BY <2>1 DEF ReloadInv, ConfigShape, NotReloading
  <2>3. \A g \in Reloaders \ {h} : ~Amid(g)
    BY <2>1 DEF ReloadInv, OneReloads, Amid
  <2>4. \A g \in Reloaders : ~Amid(g)'
    BY <2>2, <2>3 DEF Amid
  <2>5. boot = handler[h].read.boot /\ (handler[h].read = file \/ Awaited)
    BY <2>1 DEF ReloadInv, BootFirst, ReadsLast, Amid
  <2>6. CASE handler[h].read = file
    <3>1. UpsOf(primary') = file.list
      BY <2>1, <2>6, BuiltFrom DEF ReloadInv, ConfigShape, Files
    <3> QED
      BY <1>1, <1>2, <2>1, <2>4, <2>5, <2>6, <3>1
         DEF ReloadInv, OneReloads, ReadsLast, BootFirst, PoolFollowsFile, Amid
  <2>7. CASE Awaited
    <3>1. PICK g \in Reloaders : handler[g].pc = "reload"
      BY <2>7 DEF Awaited
    <3>2. handler'[g].pc = "reload"
      BY <3>1, <2>1, <2>2
    <3> QED
      BY <1>1, <1>2, <2>1, <2>4, <3>2
         DEF ReloadInv, OneReloads, ReadsLast, BootFirst, PoolFollowsFile, Amid
  <2> QED  BY <2>5, <2>6, <2>7
<1> QED  BY <1>3, <1>4, <1>5 DEF Reload

LEMMA ReloadStep == ReloadInv /\ [PoolNext]_poolVars => ReloadInv'
<1> SUFFICES ASSUME ReloadInv, [PoolNext]_poolVars PROVE ReloadInv'
  OBVIOUS
<1>1. ConfigShape'
  BY ShapeStep DEF ReloadInv
<1>2. ASSUME UNCHANGED <<file, reloadMu, handler, boot, primary>> PROVE ReloadInv'
  BY <1>1, <1>2
     DEF ReloadInv, OneReloads, ReadsLast, BootFirst, PoolFollowsFile, Amid, Awaited
<1>3. Elsewhere => UNCHANGED <<file, reloadMu, handler, boot, primary>>
  BY ElsewhereKeeps DEF fileVars, listVars
<1>4. SetRuntimeSettings => UNCHANGED <<file, reloadMu, handler, boot, primary>>
  BY DEF SetRuntimeSettings
<1> QED  BY <1>2, <1>3, <1>4, Steps, ReloadSave, ReloadPoll, ReloadReload

\* When nobody reloads or is about to, the pool uses the list and the bootstrap
\* servers of the file saved last: reload reads the file under the lock, so that
\* who finishes last has read what was saved last.
THEOREM PoolEndsWithFile == PoolSpec => []PoolFollowsFile
<1>1. PoolSpec => []ReloadInv
  BY ReloadInit, ReloadStep, PTL DEF PoolSpec
<1> QED  BY <1>1, PTL DEF ReloadInv
-----------------------------------------------------------------------------
(***************************************************************************)
(* Queries.  One that owes an upstream of the pool a question is about to  *)
(* ask one, has a list that is not empty, or has the fallback list left.   *)
(***************************************************************************)

HasSpare(r) == r.stage = "primary" /\ r.spare # <<>>

Pays(r) ==
  /\ DOMAIN r = DOMAIN PoolIdle
  /\ r.owed => \/ r.pc = "try"
               \/ r.pc = "mode" /\ (r.list # <<>> \/ HasSpare(r))

QueriesPay ==
  /\ DOMAIN forwarding = PoolQueries
  /\ \A q \in PoolQueries : Pays(forwarding[q])

LEMMA HealthyLeaves ==
  ASSUME NEW list, list # <<>>, NEW ill
  PROVE  Healthy(list, ill) # <<>>
  BY DEF Healthy

LEMMA PutPays ==
  ASSUME QueriesPay, NEW q \in PoolQueries, NEW r, Pays(r), Put(q, r)
  PROVE  QueriesPay'
<1>1. /\ DOMAIN forwarding' = PoolQueries /\ forwarding'[q] = r
      /\ \A p \in PoolQueries \ {q} : forwarding'[p] = forwarding[p]
  BY DEF QueriesPay, Put
<1>2. \A p \in PoolQueries : Pays(forwarding'[p])
  BY <1>1 DEF QueriesPay
<1> QED  BY <1>1, <1>2 DEF QueriesPay, Pays, HasSpare

LEMMA IdlePays ==
  /\ Pays(PoolIdle)
  /\ \A r \in FromRoute : Pays(r)
  /\ Pays([PoolIdle EXCEPT !.pc = "exchange"])
  /\ \A l : Pays([PoolIdle EXCEPT !.pc = "lookup", !.stage = "group", !.want = l])
  /\ \A st : Pays(Finished(st))
  BY DEF Pays, PoolIdle, FromRoute, Finished

\* What follows when a stage gave no answer and nothing is owed but to the
\* fallback upstreams.
LEMMA FallenPays ==
  ASSUME NEW r, DOMAIN r = DOMAIN PoolIdle, r.owed => HasSpare(r), NEW s \in Fallen(r)
  PROVE  Pays(s)
<1>1. CASE r.stage = "group"
  BY <1>1, IdlePays DEF Fallen
<1>2. CASE r.stage = "route"
  BY <1>2, IdlePays DEF Fallen
<1>3. CASE HasSpare(r)
  <2>1. PICK ill \in SUBSET Probed :
           s = [r EXCEPT !.pc = "mode", !.stage = "fallback", !.list = Healthy(r.spare, ill),
                         !.spare = <<>>]
    BY <1>3 DEF Fallen, HasSpare
  <2>2. Healthy(r.spare, ill) # <<>>
    BY <1>3, HealthyLeaves DEF HasSpare
  <2> DEFINE list == Healthy(r.spare, ill)
  <2> HIDE DEF list
  <2>3. s.pc = "mode" /\ s.list = list /\ DOMAIN s = DOMAIN PoolIdle
    BY <2>1 DEF PoolIdle, list
  <2> QED  BY <2>2, <2>3 DEF Pays, list
<1>4. CASE r.stage \notin {"group", "route"} /\ ~HasSpare(r)
  <2>1. s = [Finished("failed") EXCEPT !.owed = r.owed]
    BY <1>4 DEF Fallen, HasSpare
  <2> QED  BY <2>1, <1>4 DEF Pays, Finished, PoolIdle
<1> QED  BY <1>1, <1>2, <1>3, <1>4

LEMMA FallsPays ==
  ASSUME QueriesPay, NEW q \in PoolQueries, forwarding[q].owed => HasSpare(forwarding[q]), Falls(q)
  PROVE  QueriesPay'
<1>1. PICK s \in Fallen(forwarding[q]) : Put(q, s)
  BY DEF Falls
<1>2. Pays(s)
  BY FallenPays DEF QueriesPay, Pays
<1> QED  BY <1>1, <1>2, PutPays

LEMMA AnsweredPays ==
  ASSUME QueriesPay, NEW q \in PoolQueries, forwarding[q].owed => HasSpare(forwarding[q]), AnswerFound(q)
  PROVE  QueriesPay'
  BY FallsPays, PutPays, IdlePays DEF AnswerFound

LEMMA FoundPays ==
  ASSUME QueriesPay, NEW q \in PoolQueries, forwarding[q].pc \in {"lookup", "build"}, Found(q)
  PROVE  QueriesPay'
<1> DEFINE r == [forwarding[q] EXCEPT !.list = forwarding[q].want, !.want = <<>>,
                   !.pc = IF forwarding[q].stage = "group" THEN "mode" ELSE "try"]
<1>1. Pays(forwarding[q]) /\ ~forwarding[q].owed
  BY DEF QueriesPay, Pays
<1>2. Pays(r)
  BY <1>1 DEF Pays, PoolIdle
<1> QED  BY <1>2, PutPays DEF Found

LEMMA ExchangePays ==
  ASSUME QueriesPay, ConfigShape, NEW q \in PoolQueries, Exchange(q)
  PROVE  QueriesPay'
<1>1. PICK ill \in SUBSET Probed :
         Put(q, [forwarding[q] EXCEPT !.pc = "mode", !.stage = "primary",
                                 !.list = Healthy(UpsOf(primary), ill), !.spare = UpsOf(fallback),
                                 !.owed = primary \o fallback # <<>>])
  BY DEF Exchange
<1> DEFINE list  == Healthy(UpsOf(primary), ill)
           spare == UpsOf(fallback)
           owed  == primary \o fallback # <<>>
           r     == [forwarding[q] EXCEPT !.pc = "mode", !.stage = "primary", !.list = list,
                                     !.spare = spare, !.owed = owed]
<1>2. owed => list # <<>> \/ spare # <<>>
  <2>1. primary = <<>> /\ fallback = <<>> => primary \o fallback = <<>>
    OBVIOUS
  <2>2. primary # <<>> => list # <<>>
    BY UpsShape, HealthyLeaves DEF ConfigShape
  <2>3. fallback # <<>> => spare # <<>>
    BY UpsShape DEF ConfigShape
  <2> QED  BY <2>1, <2>2, <2>3
<1>3. DOMAIN forwarding[q] = DOMAIN PoolIdle
  BY DEF QueriesPay, Pays
<1> HIDE DEF list, spare, owed
<1>4. /\ r.pc = "mode" /\ r.stage = "primary" /\ r.list = list /\ r.spare = spare
      /\ r.owed = owed /\ DOMAIN r = DOMAIN PoolIdle
  BY <1>3 DEF PoolIdle
<1>5. Pays(r)
  BY <1>2, <1>4 DEF Pays, HasSpare
<1> QED  BY <1>1, <1>5, PutPays DEF list, spare, owed

LEMMA ModePays ==
  ASSUME QueriesPay, NEW q \in PoolQueries, ReadMode(q)
  PROVE  QueriesPay'
<1> DEFINE r == forwarding[q]
<1>1. r.pc = "mode" /\ Pays(r)
  BY DEF ReadMode, QueriesPay
<1>2. CASE r.list = <<>> /\ Falls(q)
  BY <1>1, <1>2, FallsPays DEF Pays
<1>3. ASSUME Put(q, [r EXCEPT !.pc = "race", !.list = <<>>, !.owed = FALSE])
      PROVE  QueriesPay'
  BY <1>1, <1>3, PutPays DEF Pays, PoolIdle
<1>4. ASSUME NEW l, Put(q, [r EXCEPT !.pc = "try", !.list = l])
      PROVE  QueriesPay'
  BY <1>1, <1>4, PutPays DEF Pays, PoolIdle
<1> QED  BY <1>2, <1>3, <1>4 DEF ReadMode

LEMMA AskPays ==
  ASSUME QueriesPay, NEW q \in PoolQueries, Try(q) \/ Await(q) \/ Race(q)
  PROVE  QueriesPay'
<1> DEFINE r == forwarding[q]
<1>1. Pays(r)
  BY DEF QueriesPay
<1>2. CASE Try(q)
  BY <1>1, <1>2, PutPays DEF Try, Pays, PoolIdle
<1>3. CASE Await(q)
  <2>1. ~r.owed
    BY <1>1, <1>3 DEF Await, Pays
  <2>2. ASSUME Put(q, [forwarding[q] EXCEPT !.pc = "try"]) PROVE QueriesPay'
    BY <1>1, <2>2, PutPays DEF Pays, PoolIdle
  <2> QED  BY <1>3, <2>1, <2>2, FallsPays, AnsweredPays DEF Await
<1>4. CASE Race(q)
  <2>1. ~r.owed
    BY <1>1, <1>4 DEF Race, Pays
  <2> QED  BY <1>4, <2>1, FallsPays, AnsweredPays DEF Race
<1> QED  BY <1>2, <1>3, <1>4

LEMMA PaysStep == QueriesPay /\ ConfigShape /\ [PoolNext]_poolVars => QueriesPay'
<1> SUFFICES ASSUME QueriesPay, ConfigShape, [PoolNext]_poolVars PROVE QueriesPay'
  OBVIOUS
<1>1. ASSUME UNCHANGED forwarding PROVE QueriesPay'
  BY <1>1 DEF QueriesPay, Pays, HasSpare
<1>2. ASSUME NEW q \in PoolQueries, Begin(q) PROVE QueriesPay'
  BY <1>2, IdlePays, PutPays DEF Begin
<1>3. ASSUME NEW q \in PoolQueries, Lookup(q) PROVE QueriesPay'
  <2>1. ASSUME Put(q, [forwarding[q] EXCEPT !.pc = "build"]) PROVE QueriesPay'
    <3>1. Pays(forwarding[q]) /\ forwarding[q].pc = "lookup"
      BY <1>3 DEF Lookup, QueriesPay
    <3> QED  BY <2>1, <3>1, PutPays DEF Pays, PoolIdle
  <2> QED  BY <1>3, <2>1, FoundPays DEF Lookup
<1>4. ASSUME NEW q \in PoolQueries, BuildCached(q) PROVE QueriesPay'
  BY <1>4, FoundPays DEF BuildCached
<1>5. ASSUME NEW q \in PoolQueries, QueryEnds(q) PROVE QueriesPay'
  BY <1>5, IdlePays, PutPays DEF QueryEnds
<1>6. ASSUME NEW w, Fail(w) \/ OpenCircuit(w) \/ Succeed(w) \/ CloseCircuit(w) \/ Cooldown(w)
      PROVE  UNCHANGED forwarding
  BY <1>6 DEF Fail, OpenCircuit, Succeed, CloseCircuit, Cooldown, WorkerFrame
<1>7. ASSUME NEW h, Save(h) \/ Reload(h) PROVE UNCHANGED forwarding
  BY <1>7 DEF Save, Reload, ReloadReads, ReloadBoot, ReloadPrimary, ConfigFrame
<1>8. Poll \/ SetRuntimeSettings \/ ClearRouteCache \/ UNCHANGED poolVars => UNCHANGED forwarding
  BY DEF Poll, SetRuntimeSettings, ClearRouteCache, ConfigFrame, poolVars
<1> QED
  BY <1>1, <1>2, <1>3, <1>4, <1>5, <1>6, <1>7, <1>8, ExchangePays, ModePays, AskPays
     DEF PoolNext, Forward

\* A query does not fail without having asked an upstream of the pool, if there
\* was one: healthy gives the whole list back when nothing of it is healthy, and
\* Exchange goes on to the fallback upstreams when there are no primary ones.
THEOREM NobodyFailsUnasked == PoolSpec => []AsksSomeone
<1>1. PoolInit => QueriesPay
  BY IdlePays DEF PoolInit, QueriesPay
<1>2. PoolSpec => [](QueriesPay /\ ConfigShape)
  BY <1>1, PaysStep, ShapeInit, ShapeStep, PTL DEF PoolSpec
<1>3. QueriesPay => AsksSomeone
  BY DEF QueriesPay, Pays, AsksSomeone
<1> QED  BY <1>2, <1>3, PTL
=============================================================================
