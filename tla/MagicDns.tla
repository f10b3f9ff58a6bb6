------------------------------ MODULE MagicDns ------------------------------
(***************************************************************************)
(* Tailscale's devices on their way into DNS: the controller's Syncer      *)
(* lists them with a token it renews, its Store writes the snapshot to a   *)
(* file and publishes it, agents fetch the snapshot and apply it to stores *)
(* of their own, and each store empties the DNS cache when its records     *)
(* change.                                                                 *)
(*                                                                         *)
(* A snapshot is the version of the inventory it was made from, 0 for the  *)
(* empty one. Store.Apply holds writeMu throughout; on either node all of  *)
(* its callers are ordered already, by syncMu and by the one goroutine of  *)
(* the forwarder, so its places belong to the caller.                      *)
(***************************************************************************)
EXTENDS Naturals

CONSTANTS
    MagicSyncers,      \* the ticker and the requests that call Sync
    MaxInventory,      \* bound: changes of the tailnet
    MaxMagicFaults,    \* bound: failed requests and writes
    MaxMagicRestarts   \* bound: crashes or restarts of a node

ASSUME MagicAssumption ==
    MaxInventory \in Nat /\ MaxMagicFaults \in Nat /\ MaxMagicRestarts \in Nat

VARIABLES
    inventory,         \* version of the devices at Tailscale
    token,             \* the client's: "none", "fresh", or "aged" (within the skew)
    revoked,           \* Tailscale does not accept that token
    syncer,            \* what each Sync is doing
    lastError,         \* Status.LastError is set
    controllerFile, controllerRecords, controllerCache, \* written, published, cache emptied for
    agentFile, agentRecords, agentCache,                \* the same on an agent
    agentSync,         \* what the agent's goroutine is doing
    magicFaults, magicRestarts  \* bounded counts

controllerVars == <<controllerFile, controllerRecords, controllerCache>>
agentVars == <<agentFile, agentRecords, agentCache, agentSync>>
tokenVars == <<token, revoked>>
magicVars == <<inventory, tokenVars, syncer, lastError, controllerVars, agentVars,
               magicFaults, magicRestarts>>

Idle == [at |-> "idle", attempt |-> 0, listed |-> 0]
SyncerAt(s, place) == syncer[s].at = place

MagicInit ==
    /\ inventory \in 0 .. 1 /\ token = "none" /\ revoked = FALSE
    /\ syncer = [s \in MagicSyncers |-> Idle] /\ lastError = FALSE
    /\ controllerFile = 0 /\ controllerRecords = 0 /\ controllerCache = 0
    /\ agentFile = 0 /\ agentRecords = 0 /\ agentCache = 0 /\ agentSync = [at |-> "idle", got |-> 0]
    /\ magicFaults = 0 /\ magicRestarts = 0

Fault == magicFaults < MaxMagicFaults /\ magicFaults' = magicFaults + 1

-----------------------------------------------------------------------------
(* The tailnet. *)

DevicesChange ==
    /\ inventory < MaxInventory /\ inventory' = inventory + 1
    /\ UNCHANGED <<tokenVars, syncer, lastError, controllerVars, agentVars, magicFaults, magicRestarts>>

TokenAges ==
    /\ token = "fresh" /\ token' = "aged"
    /\ UNCHANGED <<inventory, revoked, syncer, lastError, controllerVars, agentVars,
                   magicFaults, magicRestarts>>

TokenRevoked ==
    /\ token # "none" /\ revoked' = TRUE /\ Fault
    /\ UNCHANGED <<inventory, token, syncer, lastError, controllerVars, agentVars, magicRestarts>>

-----------------------------------------------------------------------------
(* Sync, under syncMu. *)

(* Mutant: two attempts may overlap. *)
OverlappingTurn(s) == SyncerAt(s, "idle")

Turn(s) == \A other \in MagicSyncers : SyncerAt(other, "idle")

SyncBegins(s) ==
    /\ Turn(s)
    /\ syncer' = [syncer EXCEPT ![s] = [at |-> "token", attempt |-> 1, listed |-> 0]]
    /\ UNCHANGED <<inventory, tokenVars, lastError, controllerVars, agentVars,
                   magicFaults, magicRestarts>>

HaveToken(s) ==
    /\ SyncerAt(s, "token")
    /\ \/ token = "fresh" /\ UNCHANGED tokenVars
       \/ token # "fresh" /\ token' = "fresh" /\ revoked' = FALSE
    /\ syncer' = [syncer EXCEPT ![s].at = "list"]
    /\ UNCHANGED <<inventory, lastError, controllerVars, agentVars, magicFaults, magicRestarts>>

SyncFails(s) ==
    /\ syncer' = [syncer EXCEPT ![s] = Idle] /\ lastError' = TRUE
    /\ UNCHANGED <<inventory, controllerVars, agentVars, magicRestarts>>

(* The token cannot be renewed, or the inventory cannot be read. *)
RequestFails(s) ==
    /\ (SyncerAt(s, "token") /\ token # "fresh") \/ SyncerAt(s, "list")
    /\ Fault /\ SyncFails(s) /\ UNCHANGED tokenVars

Lists(s) ==
    /\ SyncerAt(s, "list") /\ ~ revoked
    /\ syncer' = [syncer EXCEPT ![s].at = "save", ![s].listed = inventory]
    /\ UNCHANGED <<inventory, tokenVars, lastError, controllerVars, agentVars,
                   magicFaults, magicRestarts>>

(* The first 401 drops the token and tries once more. *)
Unauthorized(s) ==
    /\ SyncerAt(s, "list") /\ revoked
    /\ \/ /\ syncer[s].attempt = 1
          /\ token' = "none" /\ revoked' = FALSE
          /\ syncer' = [syncer EXCEPT ![s].at = "token", ![s].attempt = 2]
          /\ UNCHANGED <<inventory, lastError, controllerVars, agentVars, magicRestarts>>
       \/ syncer[s].attempt = 2 /\ SyncFails(s) /\ UNCHANGED tokenVars
    /\ UNCHANGED magicFaults

Saves(s) ==
    /\ SyncerAt(s, "save")
    /\ controllerFile' = syncer[s].listed
    /\ syncer' = [syncer EXCEPT ![s].at = "publish"]
    /\ UNCHANGED <<inventory, tokenVars, lastError, controllerRecords, controllerCache, agentVars,
                   magicFaults, magicRestarts>>

SaveFails(s) ==
    /\ SyncerAt(s, "save") /\ Fault /\ SyncFails(s) /\ UNCHANGED tokenVars

AfterPublish(listed, records) == IF listed # records THEN "clear" ELSE "succeed"

Publishes(s) ==
    /\ SyncerAt(s, "publish")
    /\ controllerRecords' = syncer[s].listed
    /\ syncer' = [syncer EXCEPT ![s].at = AfterPublish(syncer[s].listed, controllerRecords)]
    /\ UNCHANGED <<inventory, tokenVars, lastError, controllerFile, controllerCache, agentVars,
                   magicFaults, magicRestarts>>

Clears(s) ==
    /\ SyncerAt(s, "clear")
    /\ controllerCache' = controllerRecords
    /\ syncer' = [syncer EXCEPT ![s].at = "succeed"]
    /\ UNCHANGED <<inventory, tokenVars, lastError, controllerFile, controllerRecords, agentVars,
                   magicFaults, magicRestarts>>

Succeeds(s) ==
    /\ SyncerAt(s, "succeed")
    /\ lastError' = FALSE /\ syncer' = [syncer EXCEPT ![s] = Idle]
    /\ UNCHANGED <<inventory, tokenVars, controllerVars, agentVars, magicFaults, magicRestarts>>

-----------------------------------------------------------------------------
(* The agent's goroutine: one request at a time, an answer that fails or   *)
(* comes too late is dropped and the next tick asks again.                 *)

AgentFetches ==
    /\ agentSync.at = "idle"
    /\ agentSync' = [at |-> "save", got |-> controllerRecords]
    /\ UNCHANGED <<inventory, tokenVars, syncer, lastError, controllerVars, agentFile, agentRecords,
                   agentCache, magicFaults, magicRestarts>>

AgentFails ==
    /\ agentSync.at = "save" /\ Fault
    /\ agentSync' = [at |-> "idle", got |-> 0]
    /\ UNCHANGED <<inventory, tokenVars, syncer, lastError, controllerVars, agentFile, agentRecords,
                   agentCache, magicRestarts>>

AgentSaves ==
    /\ agentSync.at = "save"
    /\ agentFile' = agentSync.got /\ agentSync' = [agentSync EXCEPT !.at = "publish"]
    /\ UNCHANGED <<inventory, tokenVars, syncer, lastError, controllerVars, agentRecords, agentCache,
                   magicFaults, magicRestarts>>

AgentPublishes ==
    /\ agentSync.at = "publish"
    /\ agentRecords' = agentSync.got
    /\ agentSync' = IF AfterPublish(agentSync.got, agentRecords) = "clear"
                    THEN [agentSync EXCEPT !.at = "clear"] ELSE [at |-> "idle", got |-> 0]
    /\ UNCHANGED <<inventory, tokenVars, syncer, lastError, controllerVars, agentFile, agentCache,
                   magicFaults, magicRestarts>>

AgentClears ==
    /\ agentSync.at = "clear"
    /\ agentCache' = agentRecords /\ agentSync' = [at |-> "idle", got |-> 0]
    /\ UNCHANGED <<inventory, tokenVars, syncer, lastError, controllerVars, agentFile, agentRecords,
                   magicFaults, magicRestarts>>

-----------------------------------------------------------------------------
(* A node ends at any point and starts with what Load reads. *)

MagicControllerRestarts ==
    /\ controllerRecords' = controllerFile /\ controllerCache' = controllerFile
    /\ token' = "none" /\ revoked' = FALSE /\ lastError' = FALSE
    /\ syncer' = [s \in MagicSyncers |-> Idle]
    /\ UNCHANGED <<controllerFile, agentVars>>

MagicAgentRestarts ==
    /\ agentRecords' = agentFile /\ agentCache' = agentFile
    /\ agentSync' = [at |-> "idle", got |-> 0]
    /\ UNCHANGED <<agentFile, tokenVars, syncer, lastError, controllerVars>>

MagicRestarts ==
    /\ magicRestarts < MaxMagicRestarts /\ magicRestarts' = magicRestarts + 1
    /\ MagicControllerRestarts \/ MagicAgentRestarts
    /\ UNCHANGED <<inventory, magicFaults>>

SyncStep(s) ==
    \/ SyncBegins(s) \/ HaveToken(s) \/ RequestFails(s) \/ Lists(s) \/ Unauthorized(s) \/ Saves(s)
    \/ SaveFails(s) \/ Publishes(s) \/ Clears(s) \/ Succeeds(s)

AgentStep == AgentFetches \/ AgentFails \/ AgentSaves \/ AgentPublishes \/ AgentClears

MagicNext ==
    \/ DevicesChange \/ TokenAges \/ TokenRevoked \/ (\E s \in MagicSyncers : SyncStep(s))
    \/ AgentStep \/ MagicRestarts

MagicSpec == MagicInit /\ [][MagicNext]_magicVars

-----------------------------------------------------------------------------
(* The records a node answers with are never replaced by those of an older *)
(* inventory: not by an attempt that listed earlier, an answer that comes  *)
(* late, a failure or a restart, on the controller or on the agent.        *)
RecordsNeverGoBack ==
    [][controllerRecords' >= controllerRecords /\ agentRecords' >= agentRecords]_magicVars
=============================================================================
