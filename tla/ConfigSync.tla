------------------------------ MODULE ConfigSync ------------------------------
(***************************************************************************)
(* Replication of the DNS configuration from the controller to an agent    *)
(* (webgui/internal/api/configuration.go, nodes.go; webgui/internal/       *)
(* forwarder/controller_transport.go, lifecycle.go, forwarder.go; the      *)
(* stores it replaces).  One goroutine of the agent pulls the controller's *)
(* routes and its snapshot and applies the snapshot store by store, going  *)
(* back to the previous one when a store fails; heartbeats carry the       *)
(* number of synchronizations an operator has asked for.                   *)
(*                                                                         *)
(* A revision is a hash of the content, so a snapshot stands for its       *)
(* revision.  Handlers of the controller read one store after the other    *)
(* while operators edit them.                                              *)
(***************************************************************************)
EXTENDS Integers, Sequences

CONSTANTS
  Values,           \* of a store
  Seed,             \* what every store holds at first
  Kept,             \* bound: the stores of the snapshot
  Edited,           \* bound: of these, the ones that operators edit
  MaxEdits,         \* bound: edits of the controller's configuration
  MaxRequests,      \* bound: synchronizations that operators ask for
  MaxFaults         \* bound: failing writes of the agent, restarts of either side

\* The stores of a snapshot, in the order in which applyConfigStores
\* replaces them.
Stores ==
  SelectSeq(<<"subscriptions", "rewrites", "clients", "rules", "upstreams", "routes", "settings">>,
            LAMBDA s : s \in Kept)

\* The order in which currentConfigSnapshot reads them.
ReadOrder ==
  SelectSeq(<<"rules", "subscriptions", "rewrites", "clients", "routes", "upstreams", "settings">>,
            LAMBDA s : s \in Kept)

Snapshots == [Kept -> Values]

NoRevision == [none |-> TRUE]

ASSUME SyncAssumption ==
  /\ Seed \in Values /\ Edited \subseteq Kept /\ "routes" \in Kept
  /\ Stores \in Seq(Kept) /\ Kept = {Stores[i] : i \in 1 .. Len(Stores)}
  /\ {MaxEdits, MaxRequests, MaxFaults} \subseteq Nat

\* Stores that reach the DNS server only when the whole snapshot is stored.
Deferred == Kept \cap {"subscriptions", "upstreams"}

\* Stores that fsync their directory after the rename: the write may fail
\* with the new file in place.
SyncedAfterRename == {"rewrites", "clients"}

VARIABLES
  \* the controller
  config,           \* its configuration
  generation,       \* clusterSyncGeneration, counted from the controller's start
  \* the agent's configuration
  file,             \* what is on its disk
  live,             \* what its DNS server uses
  routesRead,       \* routes read from the file by a reload that has not set them yet
  applied,          \* configRevision
  \* the agent's sync goroutine
  pc, pos,          \* where it is, and at which store
  wanted,           \* the controller's snapshot
  previous,         \* the agent's own, taken before applying
  syncNow,          \* token in syncNow
  \* its heartbeats
  lastGeneration,   \* lastSyncGeneration, -1 after a start
  answer,           \* of a heartbeat under way, -1 for none
  \* history
  requested,        \* synchronizations ever asked for
  honoured,         \* of these, answered by a pass that began later
  controllerRestarted,
  rollbackFailed,   \* the last failed application could not be undone
  edits, faults

controllerVars == <<config, generation, requested, edits, controllerRestarted>>
storeVars      == <<file, live, routesRead>>
passVars       == <<pc, pos, wanted, previous, applied, honoured, rollbackFailed>>
signalVars     == <<syncNow, lastGeneration, answer>>

vars == <<controllerVars, storeVars, passVars, signalVars, faults>>

-----------------------------------------------------------------------------
(***************************************************************************)
(* The controller.                                                         *)
(***************************************************************************)

\* A handler of /config replaces one store.
Edit(s, v) ==
  /\ edits < MaxEdits
  /\ v # config[s]
  /\ config' = [config EXCEPT ![s] = v]
  /\ edits' = edits + 1
  /\ UNCHANGED <<generation, requested, controllerRestarted, storeVars, passVars,
                 signalVars, faults>>

\* handleConfigSyncNow
RequestSync ==
  /\ requested < MaxRequests
  /\ requested' = requested + 1
  /\ generation' = generation + 1
  /\ UNCHANGED <<config, edits, controllerRestarted, storeVars, passVars, signalVars,
                 faults>>

\* The stores are on disk, the generations in memory.
ControllerRestarts ==
  /\ faults < MaxFaults
  /\ faults' = faults + 1
  /\ generation' = 0
  /\ controllerRestarted' = TRUE
  /\ UNCHANGED <<config, requested, edits, storeVars, passVars, signalVars>>

-----------------------------------------------------------------------------
(***************************************************************************)
(* Heartbeats.                                                             *)
(***************************************************************************)

\* handleHeartbeat
HeartbeatAnswered ==
  /\ answer = -1
  /\ answer' = generation
  /\ UNCHANGED <<controllerVars, storeVars, passVars, syncNow, lastGeneration, faults>>

\* Mutant: a request that arrives during a pass is not kept.
SignalSyncWhenIdle == syncNow' = (syncNow \/ pc = "idle")

\* SyncNow: requests during a pass are kept as one token.
SignalSync == syncNow' = TRUE

\* sendHeartbeat
HeartbeatReturns ==
  /\ answer # -1
  /\ answer' = -1
  /\ lastGeneration' = answer
  /\ IF answer # lastGeneration THEN SignalSync ELSE UNCHANGED syncNow
  /\ UNCHANGED <<controllerVars, storeVars, passVars, faults>>

HeartbeatLost ==
  /\ answer # -1
  /\ answer' = -1
  /\ UNCHANGED <<controllerVars, storeVars, passVars, syncNow, lastGeneration, faults>>

-----------------------------------------------------------------------------
(***************************************************************************)
(* Stores of the agent.                                                    *)
(***************************************************************************)

\* Replace and its like: written first, then used, unless that is deferred.
Replace(s, v) ==
  /\ file' = [file EXCEPT ![s] = v]
  /\ live' = [live EXCEPT ![s] = IF s \in Deferred THEN @ ELSE v]

\* Nothing is used; the file may be new all the same.
ReplaceFails(s, v) ==
  /\ faults < MaxFaults
  /\ faults' = faults + 1
  /\ file' \in {file} \cup IF s \in SyncedAfterRename
                             THEN {[file EXCEPT ![s] = v]} ELSE {}
  /\ UNCHANGED live

\* currentConfigSnapshot on the agent, where nothing else writes the stores.
Current ==
  [s \in Kept |-> IF s \in {"rewrites", "clients", "routes", "settings"} THEN live[s]
                                                                         ELSE file[s]]

ReloadFrame ==
  UNCHANGED <<controllerVars, passVars, signalVars, faults>>

\* The clients' and the upstreams' files are read again every 30 seconds.
Reload(s) ==
  /\ s \in Kept \cap {"clients", "upstreams"}
  /\ live' = [live EXCEPT ![s] = file[s]]
  /\ ReloadFrame
  /\ UNCHANGED <<file, routesRead>>

\* The routes' file too, but without the lock of SetRoutes: it may be replaced
\* between the read
RoutesReloadReads ==
  /\ routesRead = NoRevision
  /\ routesRead' = [value |-> file["routes"]]
  /\ ReloadFrame
  /\ UNCHANGED <<file, live>>

\* and the use.
RoutesReloadSets ==
  /\ routesRead # NoRevision
  /\ live' = [live EXCEPT !["routes"] = routesRead.value]
  /\ routesRead' = NoRevision
  /\ ReloadFrame
  /\ UNCHANGED file

-----------------------------------------------------------------------------
(***************************************************************************)
(* The sync goroutine.  A pass pulls the routes, then the snapshot; what   *)
(* it pulls besides (aliases, health, MagicDNS) is independent of these.   *)
(***************************************************************************)

PassFrame == UNCHANGED <<controllerVars, routesRead, lastGeneration, answer>>

Blank == [s \in Kept |-> Seed]

\* The goroutine waits again; what the pass has read is garbage.
PassEnds == pc' = "idle" /\ pos' = 1 /\ wanted' = Blank /\ previous' = Blank

PassBegins ==
  /\ pc' = "routes"
  /\ honoured' = requested
  /\ UNCHANGED <<file, live, pos, wanted, previous, applied, rollbackFailed, faults>>
  /\ PassFrame

\* A tick of the routes' ticker,
PassByTicker == pc = "idle" /\ PassBegins /\ UNCHANGED syncNow

\* or a request.
PassByRequest == pc = "idle" /\ syncNow /\ syncNow' = FALSE /\ PassBegins

RoutesFrame ==
  /\ pc = "routes"
  /\ pc' = "fetch"
  /\ pos' = 1
  /\ UNCHANGED <<wanted, previous, applied, syncNow, honoured, rollbackFailed>>
  /\ PassFrame

\* syncDNSRoutes; the step is the controller's, the write on the agent may be
\* later.
RoutesPulled ==
  /\ RoutesFrame
  /\ Replace("routes", config["routes"])
  /\ UNCHANGED faults

RoutesNotPulled ==
  /\ RoutesFrame
  /\ \/ ReplaceFails("routes", config["routes"])
     \/ UNCHANGED <<file, live, faults>>  \* no answer

\* currentConfigSnapshot on the controller reads the next store.
ReadStore ==
  /\ pc = "fetch"
  /\ pos <= Len(ReadOrder)
  /\ wanted' = [wanted EXCEPT ![ReadOrder[pos]] = config[ReadOrder[pos]]]
  /\ pos' = pos + 1
  /\ UNCHANGED <<file, live, pc, previous, applied, syncNow, honoured, rollbackFailed, faults>>
  /\ PassFrame

Arrived == pc = "fetch" /\ pos > Len(ReadOrder)

\* The request or its answer is lost, or the answer is rejected.
SnapshotLost ==
  /\ Arrived
  /\ PassEnds
  /\ UNCHANGED <<file, live, applied, syncNow, honoured, rollbackFailed, faults>>
  /\ PassFrame

\* syncDNSConfig leaves out the revision it has applied last; so does
\* ApplyConfigSnapshot when the stores already hold it, but this one counts as
\* applied.
SnapshotArrives ==
  /\ Arrived
  /\ \/ /\ wanted = applied
        /\ PassEnds
        /\ UNCHANGED applied
     \/ /\ wanted # applied /\ Current = wanted
        /\ PassEnds
        /\ applied' = wanted
     \/ /\ wanted # applied /\ Current # wanted
        /\ previous' = Current
        /\ pc' = "apply" /\ pos' = 1
        /\ UNCHANGED <<applied, wanted>>
  /\ UNCHANGED <<file, live, syncNow, honoured, rollbackFailed, faults>>
  /\ PassFrame

\* The previous snapshot cannot be saved, and nothing else has been changed.
SavePreviousFails ==
  /\ pc = "apply" /\ pos = 1
  /\ faults < MaxFaults
  /\ faults' = faults + 1
  /\ PassEnds
  /\ UNCHANGED <<file, live, applied, syncNow, honoured, rollbackFailed>>
  /\ PassFrame

Applying == pc \in {"apply", "rollback"}

\* The snapshot that applyConfigStores is given.
Target == IF pc = "apply" THEN wanted ELSE previous

\* applyConfigStores replaces the next store.
ApplyStore ==
  /\ Applying
  /\ pos <= Len(Stores)
  /\ Replace(Stores[pos], Target[Stores[pos]])
  /\ pos' = pos + 1
  /\ UNCHANGED <<pc, wanted, previous, applied, syncNow, honoured, rollbackFailed, faults>>
  /\ PassFrame

\* Mutant: the stores stay as they are.
UndoNothing == PassEnds /\ UNCHANGED rollbackFailed

\* The previous snapshot is applied in turn; when that fails too, the stores
\* stay as they are.
Undo ==
  IF pc = "apply"
    THEN pc' = "rollback" /\ pos' = 1 /\ UNCHANGED <<wanted, previous, rollbackFailed>>
    ELSE PassEnds /\ rollbackFailed' = TRUE

ApplyStoreFails ==
  /\ Applying
  /\ pos <= Len(Stores)
  /\ ReplaceFails(Stores[pos], Target[Stores[pos]])
  /\ Undo
  /\ UNCHANGED <<applied, syncNow, honoured>>
  /\ PassFrame

\* Mutant: a rejected revision counts as applied.
RecordAnyway == applied' = wanted

\* syncDNSConfig records the revision when it was applied.
Record == applied' = IF pc = "apply" THEN wanted ELSE applied

\* The end of applyConfigStores activates the deferred stores.
ApplyEnds ==
  /\ Applying
  /\ pos > Len(Stores)
  /\ live' = [s \in Kept |-> IF s \in Deferred THEN file[s] ELSE live[s]]
  /\ Record
  /\ rollbackFailed' = (rollbackFailed /\ pc = "rollback")
  /\ PassEnds
  /\ UNCHANGED <<file, syncNow, honoured, faults>>
  /\ PassFrame

\* The agent starts again at any point, with the stores it finds on its disk.
AgentRestarts ==
  /\ faults < MaxFaults
  /\ faults' = faults + 1
  /\ live' = file
  /\ routesRead' = NoRevision
  /\ applied' = NoRevision
  /\ PassEnds /\ syncNow' = TRUE
  /\ lastGeneration' = -1 /\ answer' = -1
  /\ UNCHANGED <<controllerVars, file, honoured, rollbackFailed>>

-----------------------------------------------------------------------------
\* startSyncLoops begins with a pass, here with a token.
Init ==
  /\ config = Blank /\ generation = 0
  /\ file = config /\ live = config /\ routesRead = NoRevision
  /\ applied = NoRevision /\ pc = "idle" /\ pos = 1
  /\ wanted = Blank /\ previous = Blank
  /\ syncNow = TRUE /\ lastGeneration = -1 /\ answer = -1
  /\ requested = 0 /\ honoured = 0
  /\ controllerRestarted = FALSE /\ rollbackFailed = FALSE
  /\ edits = 0 /\ faults = 0

Controller == (\E s \in Edited, v \in Values : Edit(s, v)) \/ RequestSync \/ ControllerRestarts

Heartbeat == HeartbeatAnswered \/ HeartbeatReturns

\* What moves a pass that has begun on.
Pass == RoutesPulled \/ ReadStore \/ SnapshotArrives \/ ApplyStore \/ ApplyEnds

PassFails == RoutesNotPulled \/ SnapshotLost \/ SavePreviousFails \/ ApplyStoreFails

Reloads == (\E s \in Kept : Reload(s)) \/ RoutesReloadReads \/ RoutesReloadSets

Next ==
  \/ Controller
  \/ Heartbeat \/ HeartbeatLost
  \/ PassByTicker \/ PassByRequest \/ Pass \/ PassFails
  \/ Reloads \/ AgentRestarts

Spec == Init /\ [][Next]_vars

(***************************************************************************)
(* Fairness.  The goroutines run, their tickers fire, and the network does *)
(* not lose every answer of the controller.                                *)
(***************************************************************************)
Fairness ==
  /\ WF_vars(PassByTicker) /\ WF_vars(Pass)
  /\ SF_vars(RoutesPulled) /\ SF_vars(SnapshotArrives)
  /\ WF_vars(RoutesReloadReads) /\ WF_vars(RoutesReloadSets)

FairSpec == Spec /\ Fairness
-----------------------------------------------------------------------------
\* The types of the synchronization's state.
TypeOK ==
  /\ config \in Snapshots /\ file \in Snapshots /\ live \in Snapshots
  /\ wanted \in Snapshots /\ previous \in Snapshots
  /\ applied \in Snapshots \cup {NoRevision}
  /\ routesRead \in [value : Values] \cup {NoRevision}
  /\ pc \in {"idle", "routes", "fetch", "apply", "rollback"}
  /\ pos \in 1 .. Len(Stores) + 1
  /\ syncNow \in BOOLEAN /\ controllerRestarted \in BOOLEAN /\ rollbackFailed \in BOOLEAN
  /\ generation \in 0 .. requested /\ requested \in 0 .. MaxRequests
  /\ lastGeneration \in -1 .. MaxRequests /\ answer \in -1 .. MaxRequests
  /\ honoured \in 0 .. requested
  /\ edits \in 0 .. MaxEdits /\ faults \in 0 .. MaxFaults

\* Between passes the agent runs the revision it reports, on disk and in its
\* DNS server, whatever failed on the way, as long as the last failure could
\* be undone.  The routes have their own endpoint and follow it.
RunsAppliedRevision ==
  pc = "idle" /\ applied # NoRevision /\ ~rollbackFailed
    => \A s \in Kept \ {"routes"} : file[s] = applied[s] /\ live[s] = applied[s]

\* What the comment of ConfigRevision says: the agent reports the revision it
\* applied last.  The code breaks it: after a failed rollback the stores may
\* hold a snapshot that was never activated, and it then counts as applied.
ReportsAppliedRevision ==
  pc = "idle" /\ applied # NoRevision /\ file = applied
    => \A s \in Deferred : live[s] = applied[s]

\* When the controller's configuration stays as it is, the agent's DNS server
\* comes to run it and does not leave it again, after snapshots that were read
\* during an edit, failed applications and restarts; an application that could
\* not be undone is the exception.
ConfigConverges == <>[](live = config \/ rollbackFailed)

\* A synchronization that an operator asked for is not forgotten, also when it
\* was asked for during a heartbeat or a pass: until a pass has begun since,
\* the agent has a token or has yet to learn of it.  The controller must not
\* restart, for it starts to count again.
RequestKept ==
  honoured < requested /\ ~controllerRestarted => syncNow \/ lastGeneration # generation
=============================================================================
