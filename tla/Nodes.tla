-------------------------------- MODULE Nodes --------------------------------
(***************************************************************************)
(* The controller's inventory of nodes: the statuses that heartbeats and   *)
(* ingested batches establish, the index of display names with its         *)
(* warnings, tombstones in memory and in SQLite, and the latencies of      *)
(* upstreams.                                                              *)
(*                                                                         *)
(* nodeStatusMu guards statuses, index and tombstones; healthMu guards the *)
(* latencies, so a handler that changes both takes several steps and meets *)
(* others in between. Time is the order in which nodes were last seen and  *)
(* the set of those beyond NodeOfflineThreshold. What a heartbeat reports  *)
(* is left out, and the number of a node's requests to synchronize, which  *)
(* the handlers of api/nodes.go read and delete last.                      *)
(***************************************************************************)
EXTENDS Naturals, FiniteSets

CONSTANTS
    NodeIds,           \* stable identities
    NodeNames,         \* display names
    NoStatus,          \* in place of a name: the identity has no status
    MaxNodeStatuses,   \* slots of the inventory
    NodeRequests,      \* requests that are handled at the same time
    MaxNodeFaults,     \* bound: statements that report an error
    MaxNodeRestarts    \* bound: restarts of the controller

ASSUME NodesAssumption ==
    /\ NoStatus \notin NodeNames /\ IsFiniteSet(NodeIds)
    /\ MaxNodeStatuses \in Nat \ {0}
    /\ MaxNodeFaults \in Nat /\ MaxNodeRestarts \in Nat

VARIABLES
    nodeStatuses,        \* identity -> name in its status, or NoStatus
    duplicateWarning,    \* identities whose status warns of an equal name
    nodeNameIndex,       \* name -> identities
    seenBefore,          \* pairs: the first was last seen before the second
    offline,             \* identities beyond the threshold
    nodeTombstones,      \* identities that need a restore, in memory
    dbTombstones,        \* the same in the table node_tombstones
    tombstonesDiffer,    \* a statement has failed, so memory and table may differ
    upstreamHealth,      \* identities with latencies
    nodeRequest,         \* what each request is doing
    nodeFaults, nodeRestarts  \* bounded counts

inventoryVars == <<nodeStatuses, duplicateWarning, nodeNameIndex, seenBefore, offline>>
tombstoneVars == <<nodeTombstones, dbTombstones, tombstonesDiffer>>
nodeVars == <<inventoryVars, tombstoneVars, upstreamHealth, nodeRequest, nodeFaults, nodeRestarts>>

NoRequest == [at |-> "none"]
RequestAt(r, place) == nodeRequest[r].at = place
Goes(r, place) == nodeRequest' = [nodeRequest EXCEPT ![r].at = place]
Returns(r) == nodeRequest' = [nodeRequest EXCEPT ![r] = NoRequest]
Starts(r, request) ==
    /\ RequestAt(r, "none")
    /\ nodeRequest' = [nodeRequest EXCEPT ![r] = request]

HaveStatus == {n \in NodeIds : nodeStatuses[n] # NoStatus}

NodesInit ==
    /\ nodeStatuses = [n \in NodeIds |-> NoStatus]
    /\ duplicateWarning = {} /\ nodeNameIndex = [m \in NodeNames |-> {}]
    /\ seenBefore = {} /\ offline = {}
    /\ nodeTombstones = {} /\ dbTombstones = {} /\ tombstonesDiffer = FALSE
    /\ upstreamHealth = {}
    /\ nodeRequest = [r \in NodeRequests |-> NoRequest]
    /\ nodeFaults = 0 /\ nodeRestarts = 0

-----------------------------------------------------------------------------
(* The index of names, under nodeStatusMu: how the identities of a change *)
(* leave or enter their group, and which warnings the changed groups get. *)

Warns(warned, index, names) ==
    {n \in warned : \A m \in names : n \notin index[m]}
        \cup UNION {IF Cardinality(index[m]) > 1 THEN index[m] ELSE {} : m \in names}

(* Those that leave are taken out of the group their status names. *)
Unindex(leave) == [m \in NodeNames |-> {k \in nodeNameIndex[m] : k \notin leave \/ nodeStatuses[k] # m}]

(* Mutant: a node that changes its name stays under the old one. *)
IndexKeepsOld(victim, n, name) == [Unindex(victim) EXCEPT ![name] = @ \cup {n}]

Index(victim, n, name) == [Unindex(victim \cup {n}) EXCEPT ![name] = @ \cup {n}]

(* UpdateNodeStatus accepts the status; victim is who was evicted for it. *)
Install(n, name, victim) ==
    LET groups == {name} \cup {nodeStatuses[k] : k \in (victim \cup {n}) \cap HaveStatus}
        index == Index(victim, n, name)
    IN /\ nodeStatuses' = [k \in NodeIds |-> IF k = n THEN name
                              ELSE IF k \in victim THEN NoStatus ELSE nodeStatuses[k]]
       /\ nodeNameIndex' = index
       /\ duplicateWarning' = Warns(duplicateWarning \ (victim \cup {n}), index, groups)
       /\ offline' = offline \ (victim \cup {n})
       /\ seenBefore' = {p \in seenBefore : {p[1], p[2]} \cap (victim \cup {n}) = {}}
                           \cup {<<k, n>> : k \in HaveStatus \ (victim \cup {n})}

InventoryFull(n) == nodeStatuses[n] = NoStatus /\ Cardinality(HaveStatus) >= MaxNodeStatuses

(* Online nodes are never evicted. *)
Oldest(v) == v \in offline /\ \A k \in offline \ {v} : <<v, k>> \in seenBefore

-----------------------------------------------------------------------------
(* Heartbeats and ingested batches. *)

(* A request of an agent passes the first look at the tombstones; it is    *)
(* answered 410 otherwise. Its status is established a moment later.       *)
Arrives(r, latencies) ==
    \E n \in NodeIds \ nodeTombstones :
        /\ Starts(r, [at |-> "update", id |-> n, latencies |-> latencies])
        /\ UNCHANGED <<inventoryVars, tombstoneVars, upstreamHealth, nodeFaults, nodeRestarts>>

(* Heartbeats and batches of log lines may carry latencies, batches of     *)
(* structured events do not.                                               *)
HandleHeartbeat(r) == \E latencies \in BOOLEAN : Arrives(r, latencies)
HandleIngest(r) == \E latencies \in BOOLEAN : Arrives(r, latencies)
HandleIngestEvents(r) == Arrives(r, FALSE)

Accepts(n) == n \notin nodeTombstones

(* The name is the one the request gives. *)
UpdateNodeStatus(r) ==
    LET n == nodeRequest[r].id
    IN /\ RequestAt(r, "update") /\ Accepts(n)
       /\ \E name \in NodeNames :
            \/ ~ InventoryFull(n) /\ Install(n, name, {})
            \/ InventoryFull(n) /\ \E v \in NodeIds : Oldest(v) /\ Install(n, name, {v})
       /\ IF nodeRequest[r].latencies THEN Goes(r, "health") ELSE Returns(r)
       /\ UNCHANGED <<tombstoneVars, upstreamHealth, nodeFaults, nodeRestarts>>

(* 410 for a tombstone, 503 for an inventory of online nodes. *)
UpdateRefused(r) ==
    LET n == nodeRequest[r].id
    IN /\ RequestAt(r, "update")
       /\ ~ Accepts(n) \/ (InventoryFull(n) /\ \A v \in NodeIds : ~ Oldest(v))
       /\ Returns(r)
       /\ UNCHANGED <<inventoryVars, tombstoneVars, upstreamHealth,
                      nodeFaults, nodeRestarts>>

(* Mutant: the latencies are set without a look at the tombstones. *)
HealthSetsAny(n) == upstreamHealth \cup {n}

HealthSets(n) == IF n \in nodeTombstones THEN upstreamHealth ELSE upstreamHealth \cup {n}

SetUpstreamHealth(r) ==
    /\ RequestAt(r, "health")
    /\ upstreamHealth' = HealthSets(nodeRequest[r].id)
    /\ Returns(r)
    /\ UNCHANGED <<inventoryVars, tombstoneVars, nodeFaults, nodeRestarts>>

-----------------------------------------------------------------------------
(* Operators. *)

(* DELETE of a node that is offline, or with force=true: what was read of  *)
(* its status decides, and is not looked at again.                         *)
DeleteArrives(r) ==
    \E n \in HaveStatus, force \in BOOLEAN :
        /\ n \in offline \/ force
        /\ Starts(r, [at |-> "decommission", id |-> n])
        /\ UNCHANGED <<inventoryVars, tombstoneVars, upstreamHealth,
                       nodeFaults, nodeRestarts>>

(* The table first, then memory, all under nodeStatusMu. *)
DecommissionNode(r) ==
    LET n == nodeRequest[r].id
    IN /\ RequestAt(r, "decommission") /\ n \in HaveStatus
       /\ dbTombstones' = dbTombstones \cup {n}
       /\ nodeTombstones' = nodeTombstones \cup {n}
       /\ nodeStatuses' = [nodeStatuses EXCEPT ![n] = NoStatus]
       /\ nodeNameIndex' = Unindex({n})
       /\ duplicateWarning' = Warns(duplicateWarning \ {n}, Unindex({n}), {nodeStatuses[n]})
       /\ offline' = offline \ {n}
       /\ seenBefore' = {p \in seenBefore : n \notin {p[1], p[2]}}
       /\ Goes(r, "dropHealth")
       /\ UNCHANGED <<tombstonesDiffer, upstreamHealth, nodeFaults, nodeRestarts>>

NoLongerThere(r) ==
    /\ RequestAt(r, "decommission") /\ nodeRequest[r].id \notin HaveStatus
    /\ Returns(r)
    /\ UNCHANGED <<inventoryVars, tombstoneVars, upstreamHealth,
                   nodeFaults, nodeRestarts>>

(* The statement reports an error, whether or not SQLite has executed it. *)
DecommissionFails(r) ==
    /\ RequestAt(r, "decommission") /\ nodeRequest[r].id \in HaveStatus
    /\ nodeFaults < MaxNodeFaults /\ nodeFaults' = nodeFaults + 1
    /\ dbTombstones' \in {dbTombstones, dbTombstones \cup {nodeRequest[r].id}}
    /\ tombstonesDiffer' = TRUE
    /\ Returns(r)
    /\ UNCHANGED <<inventoryVars, nodeTombstones, upstreamHealth, nodeRestarts>>

DropHealth(r) ==
    /\ RequestAt(r, "dropHealth")
    /\ upstreamHealth' = upstreamHealth \ {nodeRequest[r].id}
    /\ Returns(r)
    /\ UNCHANGED <<inventoryVars, tombstoneVars, nodeFaults, nodeRestarts>>

RestoreNode(r) ==
    \E n \in nodeTombstones :
        /\ RequestAt(r, "none")
        /\ \/ /\ dbTombstones' = dbTombstones \ {n} /\ nodeTombstones' = nodeTombstones \ {n}
              /\ UNCHANGED <<tombstonesDiffer, nodeFaults>>
           \/ /\ nodeFaults < MaxNodeFaults /\ nodeFaults' = nodeFaults + 1
              /\ dbTombstones' \in {dbTombstones, dbTombstones \ {n}}
              /\ tombstonesDiffer' = TRUE
              /\ UNCHANGED nodeTombstones
        /\ UNCHANGED <<inventoryVars, upstreamHealth, nodeRequest, nodeRestarts>>

-----------------------------------------------------------------------------
(* NodeOfflineThreshold passes for a node; those seen earlier are offline. *)
NodeTimesOut ==
    \E n \in HaveStatus \ offline :
        /\ \A k \in NodeIds : <<k, n>> \in seenBefore => k \in offline
        /\ offline' = offline \cup {n}
        /\ UNCHANGED <<nodeStatuses, duplicateWarning, nodeNameIndex, seenBefore, tombstoneVars,
                       upstreamHealth, nodeRequest, nodeFaults, nodeRestarts>>

(* The controller crashes or exits at any point and starts again: only the *)
(* table stays. A loading that fails is logged and not repeated.           *)
ControllerRestarts ==
    /\ nodeRestarts < MaxNodeRestarts /\ nodeRestarts' = nodeRestarts + 1
    /\ nodeStatuses' = [n \in NodeIds |-> NoStatus]
    /\ duplicateWarning' = {} /\ nodeNameIndex' = [m \in NodeNames |-> {}]
    /\ seenBefore' = {} /\ offline' = {} /\ upstreamHealth' = {}
    /\ nodeRequest' = [r \in NodeRequests |-> NoRequest]
    /\ \/ /\ nodeTombstones' = dbTombstones /\ tombstonesDiffer' = FALSE
          /\ UNCHANGED nodeFaults
       \/ /\ nodeFaults < MaxNodeFaults /\ nodeFaults' = nodeFaults + 1
          /\ nodeTombstones' \in SUBSET dbTombstones /\ tombstonesDiffer' = TRUE
    /\ UNCHANGED dbTombstones

RequestStep(r) ==
    \/ HandleHeartbeat(r) \/ HandleIngest(r) \/ HandleIngestEvents(r) \/ UpdateNodeStatus(r) \/ UpdateRefused(r)
    \/ SetUpstreamHealth(r) \/ DeleteArrives(r) \/ DecommissionNode(r) \/ NoLongerThere(r) \/ DecommissionFails(r)
    \/ DropHealth(r) \/ RestoreNode(r)

NodesNext == (\E r \in NodeRequests : RequestStep(r)) \/ NodeTimesOut \/ ControllerRestarts

NodesSpec == NodesInit /\ [][NodesNext]_nodeVars

-----------------------------------------------------------------------------
Buried == nodeTombstones \cup (IF tombstonesDiffer THEN {} ELSE dbTombstones)

(* A decommissioned node does not come back by itself, whatever heartbeats *)
(* and batches of it are under way: it has no status, and no latencies     *)
(* once its decommission has removed them.                                 *)
DecommissionHolds ==
    \A n \in Buried :
        /\ nodeStatuses[n] = NoStatus
        /\ n \in upstreamHealth =>
             \E r \in NodeRequests : RequestAt(r, "dropHealth") /\ nodeRequest[r].id = n

(* The index of names holds exactly the identities that have a status, and *)
(* a status warns of an equal name if and only if there is another.        *)
NamesIndexed ==
    /\ \A m \in NodeNames : nodeNameIndex[m] = {n \in NodeIds : nodeStatuses[n] = m}
    /\ duplicateWarning = {n \in HaveStatus : \E k \in HaveStatus \ {n} :
                                                  nodeStatuses[k] = nodeStatuses[n]}
=============================================================================
