--------------------------- MODULE ConfigSyncProofs ---------------------------
(***************************************************************************)
(* For every number of requests, edits and faults: a synchronization that  *)
(* was asked for is kept, and an agent runs the revision it reports, with  *)
(* any list of stores and whichever of them fail.                          *)
(***************************************************************************)
EXTENDS ConfigSync, SequenceTheorems, TLAPS

Counters ==
  /\ requested \in Nat /\ honoured \in Nat /\ generation \in Nat
  /\ lastGeneration \in Int /\ answer \in Int

\* What the agent knows is never ahead of the controller, unless the
\* controller has started again.
Behind == ~controllerRestarted => answer <= generation /\ lastGeneration <= generation

IInv == Counters /\ Behind /\ RequestKept

\* Of the sync goroutine only the start of a pass touches the request: it
\* answers whatever has been asked for, so a token can go.
LEMMA PassKeepsRequest ==
  ASSUME IInv,
         UNCHANGED <<requested, generation, controllerRestarted, lastGeneration, answer>>,
         \/ honoured' = requested
         \/ UNCHANGED <<honoured, syncNow>>
  PROVE  IInv'
BY DEF IInv, Counters, Behind, RequestKept

LEMMA NextKeepsIInv == IInv /\ [Next]_vars => IInv'
<1> SUFFICES ASSUME IInv, [Next]_vars PROVE IInv'
  OBVIOUS
<1> USE DEF controllerVars, storeVars, passVars, signalVars
<1>1. CASE Controller
  <2>1. CASE \E s \in Edited, v \in Values : Edit(s, v)
    BY <2>1, PassKeepsRequest DEF Edit
  <2>2. CASE RequestSync
    BY <2>2 DEF RequestSync, IInv, Counters, Behind, RequestKept
  <2>3. CASE ControllerRestarts
    BY <2>3 DEF ControllerRestarts, IInv, Counters, Behind, RequestKept
  <2> QED
    BY <1>1, <2>1, <2>2, <2>3 DEF Controller
<1>2. CASE HeartbeatAnswered
  BY <1>2 DEF HeartbeatAnswered, IInv, Counters, Behind, RequestKept
<1>3. CASE HeartbeatReturns
  BY <1>3 DEF HeartbeatReturns, SignalSync, IInv, Counters, Behind, RequestKept
<1>4. CASE HeartbeatLost
  <2>1. answer' \in Int /\ (~controllerRestarted => answer' <= generation)
    BY <1>4 DEF HeartbeatLost, IInv, Counters
  <2> QED
    BY <1>4, <2>1 DEF HeartbeatLost, IInv, Counters, Behind, RequestKept
<1>5. CASE PassByTicker \/ PassByRequest
  BY <1>5, PassKeepsRequest DEF PassByTicker, PassByRequest, PassBegins, PassFrame
<1>6. CASE Pass
  <2>1. CASE RoutesPulled
    BY <2>1, PassKeepsRequest DEF RoutesPulled, RoutesFrame, PassFrame
  <2>2. CASE ReadStore
    BY <2>2, PassKeepsRequest DEF ReadStore, PassFrame
  <2>3. CASE SnapshotArrives
    BY <2>3, PassKeepsRequest DEF SnapshotArrives, PassFrame
  <2>4. CASE ApplyStore
    BY <2>4, PassKeepsRequest DEF ApplyStore, PassFrame
  <2>5. CASE ApplyEnds
    BY <2>5, PassKeepsRequest DEF ApplyEnds, PassFrame
  <2> QED
    BY <1>6, <2>1, <2>2, <2>3, <2>4, <2>5 DEF Pass
<1>7. CASE PassFails
  <2>1. CASE RoutesNotPulled
    BY <2>1, PassKeepsRequest DEF RoutesNotPulled, RoutesFrame, PassFrame
  <2>2. CASE SnapshotLost
    BY <2>2, PassKeepsRequest DEF SnapshotLost, PassFrame
  <2>3. CASE SavePreviousFails
    BY <2>3, PassKeepsRequest DEF SavePreviousFails, PassFrame
  <2>4. CASE ApplyStoreFails
    BY <2>4, PassKeepsRequest DEF ApplyStoreFails, PassFrame
  <2> QED
    BY <1>7, <2>1, <2>2, <2>3, <2>4 DEF PassFails
<1>8. CASE Reloads
  BY <1>8, PassKeepsRequest DEF Reloads, Reload, RoutesReloadReads, RoutesReloadSets, ReloadFrame
<1>9. CASE AgentRestarts
  BY <1>9 DEF AgentRestarts, IInv, Counters, Behind, RequestKept
<1>10. CASE UNCHANGED vars
  BY <1>10, PassKeepsRequest DEF vars
<1> QED
  BY <1>1, <1>2, <1>3, <1>4, <1>5, <1>6, <1>7, <1>8, <1>9, <1>10 DEF Next, Heartbeat

\* SyncNow and sendHeartbeat forget no synchronization that an operator asks
\* for, as long as the controller runs: until a pass has begun since, there is
\* a token, or the next heartbeat still brings a number the agent has not seen.
THEOREM RequestIsKept == Spec => []RequestKept
<1>1. Init => IInv
  BY DEF Init, IInv, Counters, Behind, RequestKept
<1>2. IInv => RequestKept
  BY DEF IInv
<1> QED
  BY <1>1, <1>2, NextKeepsIInv, PTL DEF Spec

-----------------------------------------------------------------------------
(* Applying and undoing. *)

\* The stores the property is about: routes have an endpoint of their own.
Replicated == Kept \ {"routes"}

Agree(f, g) == \A s \in Replicated : f[s] = g[s]

StoreShape ==
  /\ config \in Snapshots /\ file \in Snapshots /\ live \in Snapshots
  /\ wanted \in Snapshots /\ previous \in Snapshots
  /\ routesRead \in [value : Values] \cup {NoRevision}
  /\ pc \in {"idle", "routes", "fetch", "apply", "rollback"} /\ pos \in Nat \ {0}

\* No store has been replaced since the last application ended.
Untouched == pc \in {"idle", "routes", "fetch"} \/ (pc = "apply" /\ pos = 1)

\* Then disk and DNS server hold the revision that is reported, and while the
\* next one is applied the way back leads to it.
Holds ==
  ~rollbackFailed =>
    /\ Untouched => Agree(live, file) /\ (applied # NoRevision => Agree(file, applied))
    /\ Applying => (applied # NoRevision => Agree(previous, applied))

\* applyConfigStores has replaced the stores before this one, with whatever it
\* found there.
Replaced ==
  Applying => \A i \in 1 .. Len(Stores) : i < pos /\ Stores[i] # "routes" =>
    /\ file[Stores[i]] = Target[Stores[i]]
    /\ Stores[i] \notin Deferred => live[Stores[i]] = Target[Stores[i]]

AppliedInv == StoreShape /\ Holds /\ Replaced

LEMMA StoresListed == Len(Stores) \in Nat /\ \A s \in Kept : \E i \in 1 .. Len(Stores) : s = Stores[i]
BY SyncAssumption, LenProperties

\* Most steps leave the agent's stores and its pass alone.
LEMMA AppliedUntouched ==
  ASSUME AppliedInv, config' \in Snapshots,
         UNCHANGED <<file, live, routesRead, pc, pos, wanted, previous, applied, rollbackFailed>>
  PROVE  AppliedInv'
BY DEF AppliedInv, StoreShape, Holds, Replaced, Untouched, Applying, Agree, Target

LEMMA ControllerKeepsApplied ==
  ASSUME AppliedInv, Controller
  PROVE  AppliedInv'
<1> USE DEF storeVars, passVars
<1>1. CASE \E s \in Edited, v \in Values : Edit(s, v)
  <2>1. config' \in Snapshots
    BY <1>1 DEF Edit, AppliedInv, StoreShape, Snapshots
  <2> QED BY <1>1, <2>1, AppliedUntouched DEF Edit
<1>2. CASE RequestSync \/ ControllerRestarts
  BY <1>2, AppliedUntouched DEF RequestSync, ControllerRestarts, AppliedInv, StoreShape
<1> QED BY <1>1, <1>2 DEF Controller

\* The routes may change at any time, and a store that is read again follows
\* its file.
LEMMA ReloadsKeepApplied ==
  ASSUME AppliedInv, Reloads
  PROVE  AppliedInv'
<1>1. UNCHANGED <<config, file, pc, pos, wanted, previous, applied, rollbackFailed>>
  BY DEF Reloads, Reload, RoutesReloadReads, RoutesReloadSets, ReloadFrame, controllerVars, passVars
<1>2. /\ live' \in Snapshots /\ routesRead' \in [value : Values] \cup {NoRevision}
      /\ \A s \in Replicated : live'[s] = live[s] \/ live'[s] = file[s]
  <2>1. ASSUME NEW s \in Kept, Reload(s)
        PROVE  live' \in Snapshots /\ UNCHANGED routesRead
               /\ \A x \in Kept : live'[x] = live[x] \/ live'[x] = file[x]
    BY <2>1 DEF Reload, AppliedInv, StoreShape, Snapshots
  <2>2. CASE RoutesReloadReads
    <3>1. file["routes"] \in Values
      BY SyncAssumption DEF AppliedInv, StoreShape, Snapshots
    <3> QED BY <2>2, <3>1 DEF RoutesReloadReads, AppliedInv, StoreShape
  <2>3. CASE RoutesReloadSets
    <3>1. routesRead.value \in Values
      BY <2>3 DEF RoutesReloadSets, AppliedInv, StoreShape
    <3> QED BY <2>3, <3>1 DEF RoutesReloadSets, AppliedInv, StoreShape, Snapshots, Replicated
  <2> QED BY <2>1, <2>2, <2>3 DEF Reloads, Replicated, AppliedInv, StoreShape
<1>3. StoreShape'
  BY <1>1, <1>2 DEF AppliedInv, StoreShape
<1>4. Holds'
  <2>1. Agree(live, file) => Agree(live', file)
    BY <1>2 DEF Agree
  <2> QED BY <1>1, <2>1 DEF AppliedInv, Holds, Untouched, Applying, Agree
<1>5. Replaced'
  <2>1. \A i \in 1 .. Len(Stores) : Stores[i] \in Kept
    BY SyncAssumption
  <2>2. UNCHANGED <<Target, Applying>>
    BY <1>1 DEF Target, Applying
  <2> QED BY <1>1, <1>2, <2>1, <2>2 DEF AppliedInv, Replaced, Replicated
<1> QED BY <1>3, <1>4, <1>5 DEF AppliedInv

\* Up to the arrival of the snapshot a pass replaces the routes at most.
LEMMA PassToSnapshot ==
  ASSUME AppliedInv,
         PassByTicker \/ PassByRequest \/ RoutesPulled \/ RoutesNotPulled \/ ReadStore \/ SnapshotLost
  PROVE  AppliedInv'
<1> USE DEF PassFrame, controllerVars
<1>1. /\ UNCHANGED <<config, routesRead, applied, rollbackFailed>>
      /\ pc \in {"idle", "routes", "fetch"} /\ pc' \in {"idle", "routes", "fetch"}
      /\ pos' \in Nat \ {0}
  BY DEF PassByTicker, PassByRequest, PassBegins, RoutesPulled, RoutesNotPulled, RoutesFrame,
         ReadStore, SnapshotLost, Arrived, PassEnds, AppliedInv, StoreShape
<1>2. wanted' \in Snapshots /\ previous' \in Snapshots
  <2>1. Blank \in Snapshots
    BY SyncAssumption DEF Blank, Snapshots
  <2>2. CASE ReadStore
    <3>1. \A s \in Kept : config[s] \in Values
      BY DEF AppliedInv, StoreShape, Snapshots
    <3>2. wanted' \in Snapshots
      BY <2>2, <3>1 DEF ReadStore, AppliedInv, StoreShape, Snapshots
    <3> QED BY <2>2, <3>2 DEF ReadStore, AppliedInv, StoreShape
  <2> QED
    BY <2>1, <2>2 DEF PassByTicker, PassByRequest, PassBegins, RoutesPulled, RoutesNotPulled, RoutesFrame,
           SnapshotLost, PassEnds, AppliedInv, StoreShape
<1>3. /\ file' \in Snapshots /\ live' \in Snapshots
      /\ Agree(file', file) /\ Agree(live', live)
  <2>1. config["routes"] \in Values
    BY SyncAssumption DEF AppliedInv, StoreShape, Snapshots
  <2>2. CASE RoutesPulled
    BY <2>1, <2>2 DEF RoutesPulled, Replace, AppliedInv, StoreShape, Snapshots, Agree, Replicated
  <2>3. CASE RoutesNotPulled
    BY <2>1, <2>3 DEF RoutesNotPulled, ReplaceFails, SyncedAfterRename, AppliedInv, StoreShape, Agree
  <2>4. CASE PassByTicker \/ PassByRequest \/ ReadStore \/ SnapshotLost
    BY <2>4 DEF PassByTicker, PassByRequest, PassBegins, ReadStore, SnapshotLost, AppliedInv,
                StoreShape, Agree
  <2> QED BY <2>2, <2>3, <2>4
<1>4. StoreShape'
  BY <1>1, <1>2, <1>3 DEF AppliedInv, StoreShape
<1>5. Holds'
  BY <1>1, <1>3 DEF AppliedInv, Holds, Untouched, Applying, Agree
<1>6. Replaced'
  BY <1>1 DEF Replaced, Applying
<1> QED BY <1>4, <1>5, <1>6 DEF AppliedInv

LEMMA SnapshotArrivesApplied ==
  ASSUME AppliedInv, SnapshotArrives
  PROVE  AppliedInv'
<1> USE DEF PassFrame, controllerVars
<1>1. UNCHANGED <<config, routesRead, file, live, rollbackFailed>> /\ pc = "fetch"
  BY DEF SnapshotArrives, Arrived
<1>2. Current \in Snapshots
  BY DEF Current, AppliedInv, StoreShape, Snapshots
<1>3. ~rollbackFailed => Agree(Current, file) /\ Agree(live, file)
  BY <1>1 DEF AppliedInv, Holds, Untouched, Agree, Current, Replicated
<1>4. StoreShape'
  <2>1. Blank \in Snapshots
    BY SyncAssumption DEF Blank, Snapshots
  <2> QED BY <1>1, <1>2, <2>1 DEF SnapshotArrives, PassEnds, AppliedInv, StoreShape
<1>5. CASE pc' = "idle" /\ UNCHANGED applied
  BY <1>1, <1>4, <1>5 DEF AppliedInv, Holds, Replaced, Untouched, Applying, Agree
<1>6. CASE pc' = "idle" /\ Current = wanted /\ applied' = wanted
  BY <1>1, <1>3, <1>4, <1>6 DEF AppliedInv, Holds, Replaced, Untouched, Applying, Agree
<1>7. CASE previous' = Current /\ pc' = "apply" /\ pos' = 1 /\ UNCHANGED applied
  <2>1. ~rollbackFailed => (applied # NoRevision => Agree(Current, applied))
    BY <1>1, <1>3 DEF AppliedInv, Holds, Untouched, Agree
  <2>2. Holds'
    BY <1>1, <1>3, <1>7, <2>1 DEF AppliedInv, Holds, Untouched, Applying, Agree
  <2>3. Replaced'
    BY <1>7 DEF Replaced
  <2> QED BY <1>4, <2>2, <2>3 DEF AppliedInv
<1> QED BY <1>5, <1>6, <1>7 DEF SnapshotArrives, PassEnds

\* The next store holds what it is to hold; the ones before it keep it, also
\* were it the same one.
LEMMA ApplyStoreApplied ==
  ASSUME AppliedInv, ApplyStore
  PROVE  AppliedInv'
<1> DEFINE s == Stores[pos]
           v == Target[s]
<1> USE DEF PassFrame, controllerVars
<1>1. /\ UNCHANGED <<config, routesRead, pc, wanted, previous, applied, rollbackFailed>>
      /\ pc \in {"apply", "rollback"} /\ pos' = pos + 1 /\ pos \in 1 .. Len(Stores)
      /\ file' = [file EXCEPT ![s] = v]
      /\ live' = [live EXCEPT ![s] = IF s \in Deferred THEN @ ELSE v]
  BY StoresListed DEF ApplyStore, Applying, Replace, AppliedInv, StoreShape
<1>2. s \in Kept /\ v \in Values /\ file \in [Kept -> Values] /\ live \in [Kept -> Values]
  BY <1>1, SyncAssumption, ElementOfSeq DEF AppliedInv, StoreShape, Snapshots, Target
<1>3. UNCHANGED Target
  BY <1>1 DEF Target
<1> HIDE DEF s, v
<1>4. StoreShape'
  BY <1>1, <1>2 DEF AppliedInv, StoreShape, Snapshots
<1>5. Holds'
  <2>1. ~Untouched'
    BY <1>1, <1>4 DEF Untouched, AppliedInv, StoreShape
  <2> QED BY <1>1, <2>1 DEF AppliedInv, Holds, Applying, Agree
<1>6. Replaced'
  <2> SUFFICES ASSUME NEW i \in 1 .. Len(Stores), i < pos', Stores[i] # "routes"
               PROVE  /\ file'[Stores[i]] = Target[Stores[i]]
                      /\ Stores[i] \notin Deferred => live'[Stores[i]] = Target[Stores[i]]
    BY <1>3 DEF Replaced
  <2>1. Stores[i] \in Kept
    BY SyncAssumption, ElementOfSeq
  <2>2. CASE Stores[i] = s
    BY <1>1, <1>2, <2>2 DEF v
  <2>3. CASE Stores[i] # s
    <3>1. i < pos
      BY <1>1, <2>3 DEF s
    <3>2. /\ file[Stores[i]] = Target[Stores[i]]
          /\ Stores[i] \notin Deferred => live[Stores[i]] = Target[Stores[i]]
      BY <1>1, <3>1 DEF AppliedInv, Replaced, Applying
    <3> QED BY <1>1, <1>2, <2>1, <2>3, <3>2
  <2> QED BY <2>2, <2>3
<1> QED BY <1>4, <1>5, <1>6 DEF AppliedInv

\* A failure leads back to the previous snapshot, or leaves the stores as they
\* are for good.
LEMMA ApplyStoreFailsApplied ==
  ASSUME AppliedInv, ApplyStoreFails
  PROVE  AppliedInv'
<1> DEFINE s == Stores[pos]
           v == Target[s]
<1> USE DEF PassFrame, controllerVars
<1>1. /\ UNCHANGED <<config, routesRead, applied, live>>
      /\ pc \in {"apply", "rollback"} /\ pos' = 1 /\ pos \in 1 .. Len(Stores)
      /\ file' \in {file, [file EXCEPT ![s] = v]}
      /\ \/ pc = "apply" /\ pc' = "rollback" /\ UNCHANGED <<wanted, previous, rollbackFailed>>
         \/ pc' = "idle" /\ rollbackFailed' /\ wanted' = Blank /\ previous' = Blank
  BY StoresListed
  DEF ApplyStoreFails, ReplaceFails, Undo, PassEnds, Applying, AppliedInv, StoreShape
<1>2. s \in Kept /\ v \in Values /\ Blank \in Snapshots
  BY <1>1, SyncAssumption, ElementOfSeq DEF AppliedInv, StoreShape, Snapshots, Target, Blank
<1> HIDE DEF s, v
<1>3. StoreShape'
  BY <1>1, <1>2 DEF AppliedInv, StoreShape, Snapshots
<1>4. Holds'
  BY <1>1 DEF AppliedInv, Holds, Untouched, Applying, Agree
<1>5. Replaced'
  BY <1>1 DEF Replaced, Applying
<1> QED BY <1>3, <1>4, <1>5 DEF AppliedInv

\* When the last store has been replaced, all of them hold the snapshot.
LEMMA ApplyEndsApplied ==
  ASSUME AppliedInv, ApplyEnds
  PROVE  AppliedInv'
<1> USE DEF PassFrame, controllerVars
<1>1. /\ UNCHANGED <<config, routesRead, file>>
      /\ Applying /\ pos > Len(Stores) /\ pc' = "idle"
      /\ live' = [s \in Kept |-> IF s \in Deferred THEN file[s] ELSE live[s]]
      /\ applied' = IF pc = "apply" THEN wanted ELSE applied
      /\ rollbackFailed' = (rollbackFailed /\ pc = "rollback")
      /\ pos' = 1 /\ wanted' = Blank /\ previous' = Blank
  BY DEF ApplyEnds, Record, PassEnds
<1>2. Agree(file, Target) /\ Agree(live', Target)
  <2> SUFFICES ASSUME NEW s \in Replicated
               PROVE  file[s] = Target[s] /\ live'[s] = Target[s]
    BY DEF Agree
  <2>1. PICK i \in 1 .. Len(Stores) : s = Stores[i]
    BY StoresListed DEF Replicated
  <2>2. i < pos
    BY <1>1, StoresListed DEF AppliedInv, StoreShape
  <2> QED BY <1>1, <2>1, <2>2 DEF AppliedInv, Replaced, Replicated
<1>3. StoreShape'
  <2>1. Blank \in Snapshots /\ live' \in Snapshots
    BY <1>1, SyncAssumption DEF Blank, Snapshots, AppliedInv, StoreShape
  <2> QED BY <1>1, <2>1 DEF AppliedInv, StoreShape
<1>4. Holds'
  <2>1. Agree(live', file)
    BY <1>2 DEF Agree
  <2>2. ~rollbackFailed' /\ applied' # NoRevision => Agree(file, applied')
    <3>1. CASE pc = "apply"
      BY <1>1, <1>2, <3>1 DEF Target
    <3>2. CASE pc = "rollback"
      BY <1>1, <1>2, <3>2 DEF Target, AppliedInv, Holds, Agree
    <3> QED BY <1>1, <3>1, <3>2 DEF Applying
  <2> QED BY <1>1, <2>1, <2>2 DEF Holds, Untouched, Applying, Agree
<1>5. Replaced'
  BY <1>1 DEF Replaced, Applying
<1> QED BY <1>3, <1>4, <1>5 DEF AppliedInv

LEMMA NextKeepsApplied == AppliedInv /\ [Next]_vars => AppliedInv'
<1> SUFFICES ASSUME AppliedInv, [Next]_vars PROVE AppliedInv'
  OBVIOUS
<1>1. CASE Heartbeat \/ HeartbeatLost \/ UNCHANGED vars
  <2>1. UNCHANGED <<config, file, live, routesRead, pc, pos, wanted, previous, applied, rollbackFailed>>
    BY <1>1 DEF Heartbeat, HeartbeatAnswered, HeartbeatReturns, HeartbeatLost, vars,
                controllerVars, storeVars, passVars
  <2> QED BY <2>1, AppliedUntouched DEF AppliedInv, StoreShape
<1>2. CASE SavePreviousFails
  <2>1. Blank \in Snapshots
    BY SyncAssumption DEF Blank, Snapshots
  <2> QED
    BY <1>2, <2>1 DEF SavePreviousFails, PassEnds, PassFrame, controllerVars, AppliedInv,
                      StoreShape, Holds, Replaced, Untouched, Applying, Agree
<1>3. CASE AgentRestarts
  <2>1. Blank \in Snapshots
    BY SyncAssumption DEF Blank, Snapshots
  <2> QED
    BY <1>3, <2>1 DEF AgentRestarts, PassEnds, controllerVars, AppliedInv,
                      StoreShape, Holds, Replaced, Untouched, Applying, Agree
<1> QED
  BY <1>1, <1>2, <1>3, ControllerKeepsApplied, ReloadsKeepApplied, PassToSnapshot,
     SnapshotArrivesApplied, ApplyStoreApplied, ApplyStoreFailsApplied, ApplyEndsApplied
  DEF Next, Pass, PassFails

\* The agent runs the revision it reports, on disk and in its DNS server,
\* whenever no pass is under way: after any number of failed writes, roll-backs,
\* reloads and restarts, unless the last failure could not be undone
\* (ApplyConfigSnapshot, applyConfigStores, syncDNSConfig).
THEOREM RunsWhatIsReported == Spec => []RunsAppliedRevision
<1>1. Init => AppliedInv
  <2>1. Blank \in Snapshots
    BY SyncAssumption DEF Blank, Snapshots
  <2> QED BY <2>1 DEF Init, AppliedInv, StoreShape, Holds, Replaced, Untouched, Applying, Agree
<1>2. AppliedInv => RunsAppliedRevision
  BY DEF AppliedInv, Holds, Untouched, Agree, RunsAppliedRevision, Replicated
<1> QED BY <1>1, <1>2, NextKeepsApplied, PTL DEF Spec
=============================================================================
