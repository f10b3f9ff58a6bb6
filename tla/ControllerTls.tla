---------------------------- MODULE ControllerTls ----------------------------
(***************************************************************************)
(* Trust between agents and their controller: the controller's certificate *)
(* authority, which is created once and kept in a file, the server         *)
(* certificate it signs and rotates in memory, the agents' pin of the      *)
(* first authority they see, and the migration of both files from the      *)
(* legacy directory.                                                       *)
(*                                                                         *)
(* Several processes may share a state directory, as when a new container  *)
(* starts before the old one is gone. writeNewFile links a complete file   *)
(* under its name and fails when the name exists, so a file appears in one *)
(* step. An authority is a number; a process that ends may start again.    *)
(***************************************************************************)
EXTENDS Naturals, FiniteSets

CONSTANTS
    Controllers, Agents,   \* processes that share a directory
    Foreign,               \* authority of another machine under the controller's address
    LeafDays,              \* days a server certificate is valid
    RotationLead,          \* it is replaced when no more days are left
    MaxAuthorities,        \* bound: authorities that are created
    MaxTlsExits            \* bound: ends of a process

ASSUME TlsAssumption ==
    /\ MaxAuthorities \in Nat /\ MaxTlsExits \in Nat
    /\ Foreign \notin 0 .. MaxAuthorities + 1
    /\ RotationLead \in Nat \ {0} /\ LeafDays \in Nat /\ LeafDays > RotationLead

(* No file, and no authority. *)
Missing == 0

VARIABLES
    caFile, pinFile,         \* the files of the state directories
    legacyCa, legacyPin,     \* the files of the legacy directories
    authorities,             \* authorities that exist so far
    controller,              \* place of a controller and the authority it holds
    leaf,                    \* days left of its certificate, and failed rotations in a row
    agent,                   \* place of an agent, its pin, and the authority it is shown
    accepted,                \* authorities that agents have accepted
    tlsExits                 \* bounded count

tlsFiles == <<caFile, pinFile, legacyCa, legacyPin>>
tlsVars == <<tlsFiles, authorities, controller, leaf, agent, accepted, tlsExits>>

Down == [at |-> "down", ca |-> Missing]
AgentDown == [at |-> "down", pin |-> Missing, shown |-> Missing]

TlsInit ==
    /\ caFile = Missing /\ pinFile = Missing
    /\ legacyCa \in 0 .. 1 /\ authorities = legacyCa
    /\ legacyPin \in {Missing, legacyCa}
    /\ controller = [p \in Controllers |-> Down] /\ leaf = [p \in Controllers |-> [left |-> 0, failed |-> 0]]
    /\ agent = [a \in Agents |-> AgentDown]
    /\ accepted = {} /\ tlsExits = 0

(* Mutant: the file is renamed to its name instead of linked. *)
FileIsRenamed(file, content) == content

(* writeNewFile; the file that exists always wins. *)
FileAfter(file, content) == IF file = Missing THEN content ELSE file

-----------------------------------------------------------------------------
(* The controller: MigrateLegacyState, loadOrCreateCA, rotateIfNeeded. *)

ControllerStarts(p) ==
    /\ controller[p].at = "down"
    /\ controller' = [controller EXCEPT ![p].at =
                         IF legacyCa # Missing /\ caFile = Missing THEN "migrate" ELSE "load"]
    /\ UNCHANGED <<tlsFiles, authorities, leaf, agent, accepted, tlsExits>>

MigrateCa(p) ==
    /\ controller[p].at = "migrate"
    /\ caFile' = FileAfter(caFile, legacyCa)
    /\ controller' = [controller EXCEPT ![p].at = "load"]
    /\ UNCHANGED <<pinFile, legacyCa, legacyPin, authorities, leaf, agent, accepted, tlsExits>>

Serves(p, ca) ==
    /\ controller' = [controller EXCEPT ![p] = [at |-> "serving", ca |-> ca]]
    /\ leaf' = [leaf EXCEPT ![p] = [left |-> LeafDays, failed |-> 0]]

LoadCa(p) ==
    /\ controller[p].at = "load" /\ caFile # Missing
    /\ Serves(p, caFile)
    /\ UNCHANGED <<tlsFiles, authorities, agent, accepted, tlsExits>>

CreateCa(p) ==
    /\ controller[p].at = "load" /\ caFile = Missing
    /\ authorities < MaxAuthorities /\ authorities' = authorities + 1
    /\ controller' = [controller EXCEPT ![p] = [at |-> "write", ca |-> authorities + 1]]
    /\ UNCHANGED <<tlsFiles, leaf, agent, accepted, tlsExits>>

(* ErrExist: another process was faster, and its authority is used. *)
WriteCa(p) ==
    /\ controller[p].at = "write"
    /\ caFile' = FileAfter(caFile, controller[p].ca)
    /\ Serves(p, caFile')
    /\ UNCHANGED <<pinFile, legacyCa, legacyPin, authorities, agent, accepted, tlsExits>>

Rotates(left) == left <= RotationLead

(* A day passes, and Run looks at the certificate; a rotation may fail and *)
(* is tried again a day later.                                             *)
DayPasses(p) ==
    LET left == leaf[p].left - 1
    IN /\ controller[p].at = "serving" /\ leaf[p].left > 0
       /\ IF Rotates(left)
          THEN leaf' \in {[leaf EXCEPT ![p] = [left |-> LeafDays, failed |-> 0]],
                          [leaf EXCEPT ![p] = [left |-> left, failed |-> leaf[p].failed + 1]]}
          ELSE leaf' = [leaf EXCEPT ![p].left = left]
       /\ UNCHANGED <<tlsFiles, authorities, controller, agent, accepted, tlsExits>>

-----------------------------------------------------------------------------
(* The agent: MigrateLegacyState, NewTOFUTransport, verifyConnection. *)

AgentStarts(a) ==
    /\ agent[a].at = "down"
    /\ agent' = [agent EXCEPT ![a].at =
                    IF legacyPin # Missing /\ pinFile = Missing THEN "migrate" ELSE "load"]
    /\ UNCHANGED <<tlsFiles, authorities, controller, leaf, accepted, tlsExits>>

MigratePin(a) ==
    /\ agent[a].at = "migrate"
    /\ pinFile' = FileAfter(pinFile, legacyPin)
    /\ agent' = [agent EXCEPT ![a].at = "load"]
    /\ UNCHANGED <<caFile, legacyCa, legacyPin, authorities, controller, leaf, accepted, tlsExits>>

(* A missing file leaves hasPin false. *)
LoadPin(a) ==
    /\ agent[a].at = "load"
    /\ agent' = [agent EXCEPT ![a] = [at |-> "ready", pin |-> pinFile, shown |-> Missing]]
    /\ UNCHANGED <<tlsFiles, authorities, controller, leaf, accepted, tlsExits>>

Presented == {controller[p].ca : p \in {q \in Controllers : controller[q].at = "serving"}} \cup {Foreign}

(* A connection whose chain is valid, by itself: v.mu is held until it is  *)
(* accepted or refused.                                                    *)
VerifyConnection(a) ==
    \E ca \in Presented :
        /\ agent[a].at = "ready"
        /\ \/ /\ agent[a].pin = ca
              /\ accepted' = accepted \cup {ca} /\ UNCHANGED agent
           \/ /\ agent[a].pin = Missing
              /\ agent' = [agent EXCEPT ![a].at = "persist", ![a].shown = ca]
              /\ UNCHANGED accepted
        /\ UNCHANGED <<tlsFiles, authorities, controller, leaf, tlsExits>>

(* persistPin: the file is written, or the one that exists is compared. *)
PersistPin(a) ==
    LET ca == agent[a].shown
    IN /\ agent[a].at = "persist"
       /\ pinFile' = FileAfter(pinFile, ca)
       /\ IF pinFile' = ca
          THEN /\ agent' = [agent EXCEPT ![a] = [at |-> "ready", pin |-> ca, shown |-> Missing]]
               /\ accepted' = accepted \cup {ca}
          ELSE /\ agent' = [agent EXCEPT ![a] = [at |-> "ready", pin |-> Missing, shown |-> Missing]]
               /\ UNCHANGED accepted
       /\ UNCHANGED <<caFile, legacyCa, legacyPin, authorities, controller, leaf, tlsExits>>

-----------------------------------------------------------------------------
(* A process ends at any point, an error while it starts included. *)
TlsExit ==
    /\ tlsExits < MaxTlsExits /\ tlsExits' = tlsExits + 1
    /\ \/ \E p \in Controllers : /\ controller[p].at # "down"
                                 /\ controller' = [controller EXCEPT ![p] = Down] /\ UNCHANGED agent
       \/ \E a \in Agents : /\ agent[a].at # "down"
                            /\ agent' = [agent EXCEPT ![a] = AgentDown] /\ UNCHANGED controller
    /\ UNCHANGED <<tlsFiles, authorities, leaf, accepted>>

ControllerStep(p) ==
    \/ ControllerStarts(p) \/ MigrateCa(p) \/ LoadCa(p) \/ CreateCa(p) \/ WriteCa(p) \/ DayPasses(p)

AgentTlsStep(a) ==
    \/ AgentStarts(a) \/ MigratePin(a) \/ LoadPin(a) \/ VerifyConnection(a) \/ PersistPin(a)

TlsNext ==
    \/ \E p \in Controllers : ControllerStep(p)
    \/ \E a \in Agents : AgentTlsStep(a)
    \/ TlsExit

TlsSpec == TlsInit /\ [][TlsNext]_tlsVars

-----------------------------------------------------------------------------
(* All processes that share a directory serve under one authority, the one *)
(* in the file; all agents that share a pin file hold and have ever        *)
(* accepted only the authority in that file.                               *)
OneAuthority ==
    /\ \A p \in Controllers : controller[p].at = "serving" => controller[p].ca = caFile
    /\ \A a \in Agents : agent[a].pin \in {Missing, pinFile}
    /\ accepted \subseteq {pinFile} \ {Missing}
=============================================================================
