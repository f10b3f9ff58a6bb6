---------------------------- MODULE ClusterProofs ----------------------------
(***************************************************************************)
(* What holds of the small components around the queries of a cluster for  *)
(* every number of processes, nodes, names, requests and addresses: one    *)
(* authority for all who share its file, a decommissioned node that stays  *)
(* away and an exact index of names, records that never become older,      *)
(* logins that only their own failures delay, sessions that end for good,  *)
(* limits that forget nobody to whom it makes a difference, streams that   *)
(* give each event at most once, in order, and miss none they could have   *)
(* had, and answers that follow the rewrites, and the rules, that stand.   *)
(* Each component has an inductive invariant of its own.                   *)
(***************************************************************************)
EXTENDS Nodes, MagicDns, ControllerTls, WebSessions, ClientLimits, EventStream, DnsPipeline,
        CommonLemmas

-----------------------------------------------------------------------------
(* ControllerTls.                                                          *)

Authority == Nat \cup {Foreign}
Places == {"down", "migrate", "load", "write", "serving", "ready", "persist"}

TlsTypes ==
  /\ caFile \in Authority /\ pinFile \in Authority /\ authorities \in Nat
  /\ controller \in [Controllers -> [at : Places, ca : Authority]]
  /\ agent \in [Agents -> [at : Places, pin : Authority, shown : Authority]]
  /\ legacyCa \in Authority /\ legacyPin \in Authority

\* Who serves holds the authority in the file, so that there is one; who is
\* about to write it holds one.
Serving ==
  \A p \in Controllers :
    /\ controller[p].at = "write" => controller[p].ca # Missing
    /\ controller[p].at = "serving" => controller[p].ca = caFile /\ caFile # Missing

\* An agent that persists a pin has been shown an authority and has no pin.
Pinned ==
  /\ \A a \in Agents :
       /\ agent[a].pin \in {Missing, pinFile}
       /\ agent[a].at = "persist" => agent[a].shown # Missing /\ agent[a].pin = Missing
  /\ accepted \subseteq {pinFile} \ {Missing}

TlsInv == TlsTypes /\ Serving /\ Pinned

\* What a connection presents is an authority.
LEMMA PresentedType ==
  ASSUME TlsInv
  PROVE  \A ca \in Presented : ca # Missing /\ ca \in Authority
BY TlsAssumption DEF TlsInv, TlsTypes, Serving, Presented, Authority, Places, Missing

LEMMA TlsInitInv == TlsInit => TlsInv
BY DEF TlsInit, TlsInv, TlsTypes, Serving, Pinned, Authority, Places, Missing, Down, AgentDown

\* A step of a controller touches no agent, and leaves a file that exists.
LEMMA ControllerKeeps ==
  ASSUME TlsInv, NEW p \in Controllers, ControllerStep(p)
  PROVE  TlsInv'
<1> USE DEF TlsInv, TlsTypes, Authority, Places, Missing, tlsFiles, Pinned
<1>1. CASE ControllerStarts(p)  BY <1>1 DEF ControllerStarts, Serving
<1>2. CASE MigrateCa(p)  BY <1>2 DEF MigrateCa, FileAfter, Serving
<1>3. CASE LoadCa(p)  BY <1>3 DEF LoadCa, Serves, Serving
<1>4. CASE CreateCa(p)  BY <1>4 DEF CreateCa, Serving
<1>5. CASE WriteCa(p)  BY <1>5 DEF WriteCa, Serves, FileAfter, Serving
<1>6. CASE DayPasses(p)  BY <1>6 DEF DayPasses, Serving
<1> QED  BY <1>1, <1>2, <1>3, <1>4, <1>5, <1>6 DEF ControllerStep

\* A step of an agent touches no controller, and leaves a pin that exists.
LEMMA AgentKeeps ==
  ASSUME TlsInv, NEW a \in Agents, AgentTlsStep(a)
  PROVE  TlsInv'
<1> USE DEF TlsInv, TlsTypes, Authority, Places, Missing, tlsFiles, Serving
<1>1. CASE AgentStarts(a)  BY <1>1 DEF AgentStarts, Pinned
<1>2. CASE MigratePin(a)  BY <1>2 DEF MigratePin, FileAfter, Pinned
<1>3. CASE LoadPin(a)  BY <1>3 DEF LoadPin, Pinned
<1>4. CASE VerifyConnection(a)  BY <1>4, PresentedType DEF VerifyConnection, Pinned
<1>5. CASE PersistPin(a)
  <2> DEFINE ca == agent[a].shown
             pin == IF pinFile' = ca THEN ca ELSE Missing
  <2>1. ca \in Authority /\ ca # Missing /\ agent[a].pin = Missing
    BY <1>5 DEF PersistPin, Pinned
  <2>2. pinFile' = (IF pinFile = Missing THEN ca ELSE pinFile)
    BY <1>5 DEF PersistPin, FileAfter
  <2>3. agent' = [agent EXCEPT ![a] = [at |-> "ready", pin |-> pin, shown |-> Missing]]
    BY <1>5 DEF PersistPin
  <2>4. pin \in {Missing, pinFile'} /\ pin \in Authority
    BY <2>1
  <2>5. TlsTypes' /\ Serving'
    BY <1>5, <2>1, <2>2, <2>3, <2>4 DEF PersistPin, Places
  <2>6. \A x \in Agents : agent'[x].pin \in {Missing, pinFile'}
    BY <2>2, <2>3, <2>4 DEF Pinned
  <2>7. \A x \in Agents : agent'[x].at = "persist" => agent'[x].shown # Missing /\ agent'[x].pin = Missing
    BY <2>3 DEF Pinned
  <2>8. accepted' \subseteq {pinFile'} \ {Missing}
    <3>1. accepted' \subseteq accepted \cup (IF pinFile' = ca THEN {ca} ELSE {})
      BY <1>5 DEF PersistPin
    <3>2. accepted # {} => pinFile' = pinFile
      BY <2>2 DEF Pinned
    <3> QED  BY <2>1, <3>1, <3>2 DEF Pinned
  <2> QED  BY <2>5, <2>6, <2>7, <2>8 DEF Pinned
<1> QED  BY <1>1, <1>2, <1>3, <1>4, <1>5 DEF AgentTlsStep

LEMMA TlsNextInv == TlsInv /\ [TlsNext]_tlsVars => TlsInv'
<1> SUFFICES ASSUME TlsInv, [TlsNext]_tlsVars PROVE TlsInv'
  OBVIOUS
<1>1. CASE \E p \in Controllers : ControllerStep(p)  BY <1>1, ControllerKeeps
<1>2. CASE \E a \in Agents : AgentTlsStep(a)  BY <1>2, AgentKeeps
<1>3. CASE TlsExit
  BY <1>3 DEF TlsExit, Down, AgentDown, tlsFiles, TlsInv, TlsTypes, Serving, Pinned, Authority, Places, Missing
<1>4. CASE UNCHANGED tlsVars
  BY <1>4 DEF tlsVars, tlsFiles, TlsInv, TlsTypes, Serving, Pinned
<1> QED  BY <1>1, <1>2, <1>3, <1>4 DEF TlsNext

(* Whatever processes start, end and meet in whatever order: all that      *)
(* share a directory serve under the authority in its file, and agents     *)
(* accept no other than the one they have pinned (writeNewFile links a     *)
(* complete file, and the file that exists wins).                          *)
THEOREM AuthorityIsOne == TlsSpec => []OneAuthority
<1>1. TlsInv => OneAuthority
  BY DEF TlsInv, Serving, Pinned, OneAuthority
<1> QED  BY <1>1, TlsInitInv, TlsNextInv, PTL DEF TlsSpec
-----------------------------------------------------------------------------
(* WebSessions.                                                            *)

LoginPlaces == {"idle", "compare", "reset", "refused"}

FailureTypes ==
  /\ login \in [LoginAddresses -> LoginPlaces]
  /\ sinceFailure \in [LoginAddresses -> Nat]
  /\ DOMAIN tracked \subseteq LoginAddresses
  /\ \A a \in DOMAIN tracked : tracked[a] \in [count : Nat, quiet : Nat]

\* What is remembered of an address is not younger than its last failure.
Remembered == \A a \in DOMAIN tracked : sinceFailure[a] <= tracked[a].quiet

LoginInv == FailureTypes /\ Remembered /\ OnlyFailuresWait

LEMMA BackoffBounded ==
  ASSUME NEW count \in Nat
  PROVE  Backoff(count) \in Nat /\ Backoff(count) <= BackoffCap
BY SessionAssumption DEF Backoff

\* Only an address that failed a short time ago has to wait.
LEMMA WaitsForItself ==
  ASSUME LoginInv, NEW a \in LoginAddresses, MustWait(a)
  PROVE  sinceFailure[a] < BackoffCap
<1>1. /\ a \in DOMAIN tracked /\ sinceFailure[a] <= tracked[a].quiet
      /\ tracked[a].quiet \in Nat /\ tracked[a].count \in Nat /\ sinceFailure[a] \in Nat
  BY DEF LoginInv, FailureTypes, Remembered, MustWait
<1>2. CASE Exhausted
  BY <1>1, <1>2, SessionAssumption DEF MustWait
<1>3. CASE ~ Exhausted
  BY <1>1, <1>3, BackoffBounded, SessionAssumption DEF MustWait
<1> QED  BY <1>2, <1>3

LEMMA LoginInitInv == WebInit => LoginInv
BY SessionAssumption DEF WebInit, LoginInv, FailureTypes, Remembered, OnlyFailuresWait, LoginPlaces, LongAgo

\* The steps that leave the failures alone.
LEMMA LoginElsewhere == LoginInv /\ UNCHANGED <<failureVars, login>> => LoginInv'
BY DEF LoginInv, FailureTypes, Remembered, OnlyFailuresWait, failureVars

\* Forgetting a failure makes nobody wait, and neither does moving on.
LEMMA LoginForgets ==
  ASSUME LoginInv, UNCHANGED sinceFailure,
         DOMAIN tracked' \subseteq DOMAIN tracked,
         \A a \in DOMAIN tracked' : tracked'[a] = tracked[a],
         login' \in [LoginAddresses -> LoginPlaces],
         \A a \in LoginAddresses : login'[a] = "refused" => sinceFailure[a] < BackoffCap
  PROVE  LoginInv'
BY DEF LoginInv, FailureTypes, Remembered, OnlyFailuresWait

LEMMA BeginKeeps ==
  ASSUME LoginInv, NEW a \in LoginAddresses, LoginBegins(a)
  PROVE  LoginInv'
<1>1. DOMAIN tracked' \subseteq DOMAIN tracked /\ \A x \in DOMAIN tracked' : tracked'[x] = tracked[x]
  BY DEF LoginBegins, Without
<1>2. login' \in [LoginAddresses -> LoginPlaces]
  BY DEF LoginBegins, LoginMoves, LoginInv, FailureTypes, LoginPlaces
<1>3. \A x \in LoginAddresses : login'[x] = "refused" => sinceFailure[x] < BackoffCap
  <2>1. CASE MustWait(a)
    BY <2>1, WaitsForItself DEF LoginBegins, LoginMoves, LoginInv, FailureTypes, OnlyFailuresWait
  <2>2. CASE ~ MustWait(a)
    BY <2>2 DEF LoginBegins, LoginMoves, LoginInv, FailureTypes, OnlyFailuresWait
  <2> QED  BY <2>1, <2>2
<1> QED  BY <1>1, <1>2, <1>3, LoginForgets DEF LoginBegins

\* The address that fails is not one that waits.
LEMMA FailureKeeps ==
  ASSUME LoginInv, NEW a \in LoginAddresses, PasswordFails(a)
  PROVE  LoginInv'
<1> USE DEF LoginInv, FailureTypes
<1>1. login' = [login EXCEPT ![a] = "idle"] /\ sinceFailure' = [sinceFailure EXCEPT ![a] = 0]
  BY DEF PasswordFails, LoginMoves
<1>2. PICK out \in SUBSET DOMAIN tracked :
        tracked' = [x \in (DOMAIN tracked \ out) \cup {a} |->
                      IF x # a THEN tracked[x]
                      ELSE [count |-> IF a \in DOMAIN tracked THEN tracked[a].count + 1 ELSE 1, quiet |-> 0]]
  BY DEF PasswordFails
<1>3. DOMAIN tracked' = (DOMAIN tracked \ out) \cup {a} /\ tracked'[a].quiet = 0
      /\ tracked'[a] \in [count : Nat, quiet : Nat]
      /\ \A x \in DOMAIN tracked' \ {a} : x \in DOMAIN tracked /\ tracked'[x] = tracked[x]
  BY <1>2
<1>4. FailureTypes'  BY <1>1, <1>3 DEF LoginPlaces
<1>5. Remembered'  BY <1>1, <1>3 DEF Remembered
<1>6. OnlyFailuresWait'  BY <1>1 DEF OnlyFailuresWait
<1> QED  BY <1>4, <1>5, <1>6

\* Time does not pass while somebody is refused.
LEMMA TickKeeps == LoginInv /\ SessionTick => LoginInv'
<1> SUFFICES ASSUME LoginInv, SessionTick PROVE LoginInv'
  OBVIOUS
<1> USE DEF LoginInv, FailureTypes
<1>1. \A x, y \in Nat : Grown(x, LongAgo) \in Nat /\ (x <= y => Grown(x, LongAgo) <= Grown(y, LongAgo))
  BY SessionAssumption DEF Grown, LongAgo
<1>2. DOMAIN tracked' = DOMAIN tracked
      /\ \A x \in DOMAIN tracked : /\ tracked'[x] \in [count : Nat, quiet : Nat]
                                   /\ tracked'[x].quiet = Grown(tracked[x].quiet, LongAgo)
  BY <1>1 DEF SessionTick
<1>3. \A x \in LoginAddresses : sinceFailure'[x] = Grown(sinceFailure[x], LongAgo)
  BY DEF SessionTick
<1>4. FailureTypes'  BY <1>1, <1>2 DEF SessionTick
<1>5. Remembered'  BY <1>1, <1>2, <1>3 DEF Remembered
<1>6. OnlyFailuresWait'  BY DEF OnlyFailuresWait, SessionTick
<1> QED  BY <1>4, <1>5, <1>6

LEMMA LoginNextInv == LoginInv /\ [WebNext]_webVars => LoginInv'
<1> SUFFICES ASSUME LoginInv, [WebNext]_webVars PROVE LoginInv'
  OBVIOUS
<1> USE DEF failureVars
<1>1. CASE \E t \in 1 .. issued : Request(t) \/ Logout(t) \/ LogoutAll(t)
  BY <1>1, LoginElsewhere DEF Request, Logout, LogoutAll
<1>2. CASE \E s \in EventStreams : \/ \E t \in 1 .. issued : StreamOpens(s, t)
                                 \/ StreamSubscribes(s) \/ StreamReadsPage(s) \/ StreamReplays(s)
                                 \/ EventComes(s) \/ StreamChecks(s) \/ StreamWrites(s) \/ StreamCloses(s)
  BY <1>2, LoginElsewhere
     DEF StreamOpens, StreamSubscribes, StreamReadsPage, StreamReplays,
         EventComes, StreamChecks, StreamWrites, StreamCloses
<1>3. ASSUME NEW a \in LoginAddresses, LoginBegins(a) PROVE LoginInv'
  BY <1>3, BeginKeeps
<1>4. ASSUME NEW a \in LoginAddresses, PasswordFits(a) PROVE LoginInv'
  BY <1>4 DEF PasswordFits, LoginMoves, LoginInv, FailureTypes, LoginPlaces, Remembered, OnlyFailuresWait
<1>5. ASSUME NEW a \in LoginAddresses, LoginResets(a) PROVE LoginInv'
  BY <1>5, LoginForgets
     DEF LoginResets, Without, LoginMoves, LoginInv, FailureTypes, LoginPlaces, OnlyFailuresWait
<1>6. ASSUME NEW a \in LoginAddresses, PasswordFails(a) PROVE LoginInv'
  BY <1>6, FailureKeeps
<1>7. ASSUME NEW a \in LoginAddresses, LoginRefused(a) PROVE LoginInv'
  BY <1>7 DEF LoginRefused, LoginMoves, LoginInv, FailureTypes, LoginPlaces, Remembered, OnlyFailuresWait
<1>8. CASE SessionTick  BY <1>8, TickKeeps
<1>9. CASE CleanupFailures
  BY <1>9, LoginForgets DEF CleanupFailures, LoginInv, FailureTypes, OnlyFailuresWait
<1>10. CASE WebRestarts
  BY <1>10 DEF WebRestarts, LoginInv, FailureTypes, LoginPlaces, Remembered, OnlyFailuresWait
<1>11. CASE UNCHANGED webVars
  BY <1>11, LoginElsewhere DEF webVars
<1> QED
  BY <1>1, <1>2, <1>3, <1>4, <1>5, <1>6, <1>7, <1>8, <1>9, <1>10, <1>11 DEF WebNext

(* With any number of addresses, and whatever the shared budget of         *)
(* failures, checkRateLimit refuses a login only to an address that has    *)
(* itself failed within the longest waiting time.                          *)
THEOREM OthersMayLogIn == WebSpec => []OnlyFailuresWait
<1>1. LoginInv => OnlyFailuresWait
  BY DEF LoginInv
<1> QED  BY <1>1, LoginInitInv, LoginNextInv, PTL DEF WebSpec
-----------------------------------------------------------------------------
(* Nodes.                                                                  *)

Statuses == [NodeIds -> NodeNames \cup {NoStatus}]

NodeRequestType ==
  {NoRequest} \cup [at : {"update", "health"}, id : NodeIds, latencies : BOOLEAN]
              \cup [at : {"decommission"}, id : NodeIds] \cup [at : {"dropHealth"}, id : NodeIds]

NodeTypes ==
  /\ nodeStatuses \in Statuses
  /\ nodeRequest \in [NodeRequests -> NodeRequestType]
  /\ nodeTombstones \in SUBSET NodeIds /\ dbTombstones \in SUBSET NodeIds
  /\ upstreamHealth \in SUBSET NodeIds /\ tombstonesDiffer \in BOOLEAN
  /\ nodeNameIndex = [m \in NodeNames |-> nodeNameIndex[m]]

\* While no statement has failed, memory and table hold the same.
TombstonesAgree == ~ tombstonesDiffer => nodeTombstones = dbTombstones

TombstoneInv == NodeTypes /\ TombstonesAgree /\ DecommissionHolds

LEMMA BuriedInMemory == TombstonesAgree => Buried = nodeTombstones
BY DEF TombstonesAgree, Buried

\* Identities of status m under the statuses st, and those with a namesake.
Group(st, m) == {k \in NodeIds : st[k] = m}
Duplicates(st) == {k \in NodeIds : st[k] # NoStatus /\ \E other \in NodeIds \ {k} : st[other] = st[k]}

LEMMA TwoMembers ==
  ASSUME NEW S \in SUBSET NodeIds
  PROVE  Cardinality(S) > 1 <=> \E a, b \in S : a # b
<1>1. IsFiniteSet(S) /\ Cardinality(S) \in Nat
  BY NodesAssumption, FS_Subset, FS_CardinalityType
<1>2. CASE S = {}
  BY <1>2, FS_EmptySet
<1>3. ASSUME NEW a \in S PROVE Cardinality(S) > 1 <=> \E x, y \in S : x # y
  <2>1. IsFiniteSet(S \ {a}) /\ Cardinality(S \ {a}) = Cardinality(S) - 1
    BY <1>1, <1>3, FS_RemoveElement
  <2>2. Cardinality(S \ {a}) \in Nat /\ (Cardinality(S \ {a}) = 0 <=> S \ {a} = {})
    BY <2>1, FS_CardinalityType, FS_EmptySet
  <2>3. Cardinality(S) > 1 <=> S \ {a} # {}
    BY <1>1, <2>1, <2>2
  <2> QED  BY <1>3, <2>3
<1> QED  BY <1>2, <1>3

\* When only the identities in changed get another status, and names are
\* those they leave and enter, updating the warnings of these groups is
\* enough.
Regroups(changed, names, st, new, index) ==
  /\ changed \in SUBSET NodeIds /\ names \in SUBSET NodeNames
  /\ st \in Statuses /\ new \in Statuses
  /\ \A k \in NodeIds \ changed : new[k] = st[k]
  /\ \A k \in changed : /\ st[k] # NoStatus => st[k] \in names
                        /\ new[k] # NoStatus => new[k] \in names
  /\ \A m \in NodeNames : index[m] = Group(new, m)

LEMMA WarningsExact ==
  ASSUME NEW changed, NEW names, NEW st, NEW new, NEW index,
         Regroups(changed, names, st, new, index)
  PROVE  Warns(Duplicates(st) \ changed, index, names) = Duplicates(new)
<1> SUFFICES ASSUME changed \in SUBSET NodeIds, names \in SUBSET NodeNames,
                    st \in Statuses, new \in Statuses,
                    \A k \in NodeIds \ changed : new[k] = st[k],
                    \A k \in changed : /\ st[k] # NoStatus => st[k] \in names
                                       /\ new[k] # NoStatus => new[k] \in names,
                    \A m \in NodeNames : index[m] = Group(new, m)
             PROVE  Warns(Duplicates(st) \ changed, index, names) = Duplicates(new)
  BY DEF Regroups
<1> DEFINE warned == {x \in Duplicates(st) \ changed : \A m \in names : x \notin index[m]}
           fresh == UNION {IF Cardinality(index[m]) > 1 THEN index[m] ELSE {} : m \in names}
<1>1. \A x : x \in fresh <=> \E m \in names : x \in Group(new, m) /\ \E a, b \in Group(new, m) : a # b
  <2>1. \A m \in names : index[m] = Group(new, m) /\ index[m] \in SUBSET NodeIds
    BY DEF Group
  <2> QED  BY <2>1, TwoMembers
<1>2. \A x : x \in fresh <=> x \in Duplicates(new) /\ new[x] \in names
  BY <1>1, NodesAssumption DEF Group, Duplicates, Statuses
<1>3. \A x : x \in warned <=> x \in Duplicates(new) /\ new[x] \notin names
  <2>1. ASSUME NEW x \in warned PROVE x \in Duplicates(new) /\ new[x] \notin names
    <3>1. x \in NodeIds /\ new[x] = st[x] /\ st[x] \in NodeNames
      BY <2>1 DEF Duplicates, Statuses
    <3>2. new[x] \notin names
      BY <2>1, <3>1 DEF Group
    <3>3. PICK other \in NodeIds \ {x} : st[other] = st[x]
      BY <2>1 DEF Duplicates
    <3>4. new[other] = new[x]
      BY <3>1, <3>2, <3>3, NodesAssumption
    <3> QED  BY <3>1, <3>2, <3>3, <3>4, NodesAssumption DEF Duplicates
  <2>2. ASSUME NEW x \in Duplicates(new), new[x] \notin names PROVE x \in warned
    <3>1. x \in NodeIds \ changed /\ new[x] = st[x] /\ new[x] # NoStatus
      BY <2>2 DEF Duplicates
    <3>2. PICK other \in NodeIds \ {x} : new[other] = new[x]
      BY DEF Duplicates
    <3>3. st[other] = st[x]
      BY <2>2, <3>1, <3>2
    <3>4. \A m \in names : x \notin index[m]
      BY <2>2, <3>1 DEF Group
    <3> QED  BY <3>1, <3>2, <3>3, <3>4 DEF Duplicates
  <2> QED  BY <2>1, <2>2
<1>4. Warns(Duplicates(st) \ changed, index, names) = warned \cup fresh
  BY DEF Warns
<1> QED  BY <1>2, <1>3, <1>4
\* NamesIndexed in these terms.
Indexed ==
  /\ nodeNameIndex = [m \in NodeNames |-> Group(nodeStatuses, m)]
  /\ duplicateWarning = Duplicates(nodeStatuses)

NodeInv == TombstoneInv /\ Indexed

LEMMA IndexedIsExact == NodeInv => NamesIndexed
<1> SUFFICES ASSUME NodeInv PROVE NamesIndexed
  OBVIOUS
<1>1. \A m \in NodeNames : nodeNameIndex[m] = {n \in NodeIds : nodeStatuses[n] = m}
  BY DEF NodeInv, Indexed, Group
<1>2. Duplicates(nodeStatuses)
        = {n \in HaveStatus : \E k \in HaveStatus \ {n} : nodeStatuses[k] = nodeStatuses[n]}
  BY DEF Duplicates, HaveStatus
<1> QED  BY <1>1, <1>2 DEF NodeInv, Indexed, NamesIndexed

LEMMA NodesInitInv == NodesInit => NodeInv
<1> SUFFICES ASSUME NodesInit PROVE NodeInv
  OBVIOUS
<1>1. NodeTypes
  BY DEF NodesInit, NodeTypes, Statuses, NodeRequestType
<1>2. TombstonesAgree /\ DecommissionHolds
  BY DEF NodesInit, TombstonesAgree, DecommissionHolds, Buried
<1>3. Indexed
  BY NodesAssumption DEF NodesInit, Indexed, Group, Duplicates
<1> QED  BY <1>1, <1>2, <1>3 DEF NodeInv, TombstoneInv

\* The steps that leave the inventory alone.
LEMMA IndexedElsewhere == Indexed /\ UNCHANGED inventoryVars => Indexed'
BY DEF Indexed, inventoryVars

\* A status is established, if need be in the place of another.
LEMMA InstallIndexes ==
  ASSUME NodeInv, NEW n \in NodeIds, NEW name \in NodeNames,
         NEW victim \in SUBSET NodeIds, Install(n, name, victim)
  PROVE  Indexed' /\ nodeStatuses' \in Statuses /\ nodeNameIndex' = [m \in NodeNames |-> nodeNameIndex'[m]]
<1> DEFINE groups == {name} \cup {nodeStatuses[k] : k \in (victim \cup {n}) \cap HaveStatus}
           index == Index(victim, n, name)
<1>1. nodeStatuses' = [k \in NodeIds |-> IF k = n THEN name
                          ELSE IF k \in victim THEN NoStatus ELSE nodeStatuses[k]]
  BY DEF Install
<1>2. nodeStatuses' \in Statuses /\ nodeStatuses \in Statuses
  BY <1>1 DEF NodeInv, TombstoneInv, NodeTypes, Statuses
<1>3. index = [m \in NodeNames |-> Group(nodeStatuses', m)]
  <2>1. Unindex(victim \cup {n}) = [m \in NodeNames |-> {k \in Group(nodeStatuses, m) : k \notin victim \cup {n}}]
    BY DEF Unindex, NodeInv, Indexed, Group
  <2>2. \A m \in NodeNames : Group(nodeStatuses', m)
            = {k \in Group(nodeStatuses, m) : k \notin victim \cup {n}} \cup (IF m = name THEN {n} ELSE {})
    BY <1>1, NodesAssumption DEF Group
  <2> QED  BY <2>1, <2>2 DEF Index
<1>4. groups \in SUBSET NodeNames
  BY <1>2 DEF HaveStatus, Statuses
<1>5. Regroups(victim \cup {n}, groups, nodeStatuses, nodeStatuses', index)
  <2>1. \A k \in NodeIds \ (victim \cup {n}) : nodeStatuses'[k] = nodeStatuses[k]
    BY <1>1
  <2>2. \A k \in victim \cup {n} : /\ nodeStatuses[k] # NoStatus => nodeStatuses[k] \in groups
                                   /\ nodeStatuses'[k] # NoStatus => nodeStatuses'[k] \in groups
    BY <1>1 DEF HaveStatus
  <2>3. \A m \in NodeNames : index[m] = Group(nodeStatuses', m)
    BY <1>3
  <2> HIDE DEF groups, index
  <2> QED  BY <1>2, <1>4, <2>1, <2>2, <2>3 DEF Regroups
<1>6. nodeNameIndex' = index
      /\ duplicateWarning' = Warns(duplicateWarning \ (victim \cup {n}), index, groups)
  BY DEF Install
<1> QED  BY <1>2, <1>3, <1>5, <1>6, WarningsExact DEF NodeInv, Indexed

LEMMA UpdateKeeps ==
  ASSUME NodeInv, NEW r \in NodeRequests, UpdateNodeStatus(r)
  PROVE  NodeInv'
<1> DEFINE n == nodeRequest[r].id
<1>1. n \in NodeIds /\ nodeRequest[r] \in [at : {"update", "health"}, id : NodeIds, latencies : BOOLEAN]
  BY DEF UpdateNodeStatus, RequestAt, NodeInv, TombstoneInv, NodeTypes, NodeRequestType, NoRequest
<1>2. PICK name \in NodeNames, victim \in SUBSET NodeIds : Install(n, name, victim)
  BY DEF UpdateNodeStatus
<1>3. Indexed' /\ nodeStatuses' \in Statuses /\ nodeNameIndex' = [m \in NodeNames |-> nodeNameIndex'[m]]
  BY <1>1, <1>2, InstallIndexes
<1>4. nodeRequest' \in [NodeRequests -> NodeRequestType]
  BY <1>1 DEF UpdateNodeStatus, Goes, Returns, NodeInv, TombstoneInv, NodeTypes, NodeRequestType
<1>5. DecommissionHolds'
  <2>1. Buried = nodeTombstones /\ Buried' = nodeTombstones /\ n \notin nodeTombstones
    BY BuriedInMemory DEF UpdateNodeStatus, tombstoneVars, Accepts, NodeInv, TombstoneInv, TombstonesAgree, Buried
  <2>2. \A k \in nodeTombstones : nodeStatuses'[k] = NoStatus
    BY <1>2, <2>1 DEF Install, NodeInv, TombstoneInv, NodeTypes, DecommissionHolds
  <2>3. \A x \in NodeRequests : RequestAt(x, "dropHealth") => nodeRequest'[x] = nodeRequest[x]
    BY DEF UpdateNodeStatus, Goes, Returns, RequestAt, NodeInv, TombstoneInv, NodeTypes
  <2> QED  BY <2>1, <2>2, <2>3 DEF UpdateNodeStatus, DecommissionHolds, RequestAt, NodeInv, TombstoneInv
<1> QED  BY <1>3, <1>4, <1>5 DEF UpdateNodeStatus, tombstoneVars, NodeInv, TombstoneInv, NodeTypes, TombstonesAgree

\* Requests that neither see nor bury a node.
LEMMA RequestMoves ==
  ASSUME NodeInv, NEW r \in NodeRequests, ~ RequestAt(r, "dropHealth"),
         UNCHANGED <<inventoryVars, nodeTombstones, upstreamHealth>>,
         nodeRequest' \in [NodeRequests -> NodeRequestType],
         \A x \in NodeRequests \ {r} : nodeRequest'[x] = nodeRequest[x],
         TombstonesAgree', dbTombstones' \in SUBSET NodeIds, tombstonesDiffer' \in BOOLEAN
  PROVE  NodeInv'
<1>1. Indexed'  BY IndexedElsewhere DEF NodeInv
<1>2. NodeTypes'  BY DEF NodeInv, TombstoneInv, NodeTypes, inventoryVars
<1>3. DecommissionHolds'
  <2>1. Buried = nodeTombstones /\ Buried' = nodeTombstones
    BY BuriedInMemory DEF NodeInv, TombstoneInv, TombstonesAgree, Buried
  <2> QED  BY <2>1 DEF DecommissionHolds, RequestAt, NodeInv, TombstoneInv, inventoryVars
<1> QED  BY <1>1, <1>2, <1>3 DEF NodeInv, TombstoneInv
LEMMA ArrivalKeeps ==
  ASSUME NodeInv, NEW r \in NodeRequests,
         \/ \E latencies \in BOOLEAN : Arrives(r, latencies)
         \/ DeleteArrives(r)
  PROVE  NodeInv'
<1>1. PICK request \in NodeRequestType : Starts(r, request)
  BY DEF Arrives, DeleteArrives, HaveStatus, NodeInv, TombstoneInv, NodeTypes, NodeRequestType
<1>2. /\ nodeRequest' \in [NodeRequests -> NodeRequestType] /\ ~ RequestAt(r, "dropHealth")
      /\ \A x \in NodeRequests \ {r} : nodeRequest'[x] = nodeRequest[x]
  BY <1>1 DEF Starts, RequestAt, NodeInv, TombstoneInv, NodeTypes
<1>3. UNCHANGED <<inventoryVars, tombstoneVars, upstreamHealth>>
  BY DEF Arrives, DeleteArrives
<1> QED
  BY <1>2, <1>3, RequestMoves DEF tombstoneVars, NodeInv, TombstoneInv, NodeTypes, TombstonesAgree

LEMMA ReturnKeeps ==
  ASSUME NodeInv, NEW r \in NodeRequests,
         UpdateRefused(r) \/ NoLongerThere(r) \/ DecommissionFails(r)
  PROVE  NodeInv'
<1>1. /\ nodeRequest' \in [NodeRequests -> NodeRequestType] /\ ~ RequestAt(r, "dropHealth")
      /\ \A x \in NodeRequests \ {r} : nodeRequest'[x] = nodeRequest[x]
  BY DEF UpdateRefused, NoLongerThere, DecommissionFails, Returns, RequestAt,
         NodeInv, TombstoneInv, NodeTypes, NodeRequestType
<1>2. UNCHANGED <<inventoryVars, nodeTombstones, upstreamHealth>>
  BY DEF UpdateRefused, NoLongerThere, DecommissionFails, tombstoneVars
<1>3. TombstonesAgree' /\ dbTombstones' \in SUBSET NodeIds /\ tombstonesDiffer' \in BOOLEAN
  BY DEF UpdateRefused, NoLongerThere, DecommissionFails, tombstoneVars, HaveStatus,
         NodeInv, TombstoneInv, NodeTypes, TombstonesAgree
<1> QED  BY <1>1, <1>2, <1>3, RequestMoves

\* Latencies appear for nodes that are not decommissioned.
LEMMA HealthKeeps ==
  ASSUME NodeInv, NEW r \in NodeRequests, SetUpstreamHealth(r) \/ DropHealth(r)
  PROVE  NodeInv'
<1>1. nodeRequest' = [nodeRequest EXCEPT ![r] = NoRequest] /\ UNCHANGED <<inventoryVars, tombstoneVars>>
  BY DEF SetUpstreamHealth, DropHealth, Returns
<1>2. nodeRequest[r].at \in {"health", "dropHealth"} /\ nodeRequest[r].id \in NodeIds
  BY DEF SetUpstreamHealth, DropHealth, RequestAt, NodeInv, TombstoneInv, NodeTypes, NodeRequestType, NoRequest
<1>3. NodeTypes' /\ TombstonesAgree'
  BY <1>1, <1>2 DEF SetUpstreamHealth, DropHealth, HealthSets, inventoryVars, tombstoneVars,
     NodeInv, TombstoneInv, NodeTypes, NodeRequestType, TombstonesAgree
<1>4. Indexed'  BY <1>1, IndexedElsewhere DEF NodeInv
<1>5. Buried = nodeTombstones /\ Buried' = nodeTombstones
  BY <1>1, BuriedInMemory DEF NodeInv, TombstoneInv, TombstonesAgree, Buried, tombstoneVars
<1>6. CASE SetUpstreamHealth(r)
  <2>1. \A n \in nodeTombstones : n \in upstreamHealth' => n \in upstreamHealth
    BY <1>6 DEF SetUpstreamHealth, HealthSets
  <2>2. \A x \in NodeRequests : RequestAt(x, "dropHealth") => nodeRequest'[x] = nodeRequest[x]
    BY <1>1, <1>6 DEF SetUpstreamHealth, RequestAt, NodeInv, TombstoneInv, NodeTypes
  <2>3. DecommissionHolds'
    BY <1>1, <1>5, <2>1, <2>2 DEF DecommissionHolds, RequestAt, NodeInv, TombstoneInv, inventoryVars
  <2> QED  BY <1>3, <1>4, <2>3 DEF NodeInv, TombstoneInv
<1>7. CASE DropHealth(r)
  <2>1. upstreamHealth' = upstreamHealth \ {nodeRequest[r].id}
    BY <1>7 DEF DropHealth
  <2>2. \A x \in NodeRequests \ {r} : nodeRequest'[x] = nodeRequest[x]
    BY <1>1
  <2>3. DecommissionHolds'
    BY <1>1, <1>5, <2>1, <2>2 DEF DecommissionHolds, RequestAt, NodeInv, TombstoneInv, inventoryVars
  <2> QED  BY <1>3, <1>4, <2>3 DEF NodeInv, TombstoneInv
<1> QED  BY <1>6, <1>7

\* The decommission takes the status away, and the request that is left
\* takes the latencies.
LEMMA DecommissionKeeps ==
  ASSUME NodeInv, NEW r \in NodeRequests, DecommissionNode(r)
  PROVE  NodeInv'
<1> DEFINE n == nodeRequest[r].id
<1>1. n \in NodeIds /\ nodeStatuses[n] \in NodeNames /\ nodeRequest[r] \in [at : {"decommission"}, id : NodeIds]
  BY DEF DecommissionNode, RequestAt, HaveStatus, Statuses, NodeInv, TombstoneInv, NodeTypes, NodeRequestType, NoRequest
<1>2. nodeStatuses' = [nodeStatuses EXCEPT ![n] = NoStatus] /\ nodeStatuses' \in Statuses /\ nodeStatuses \in Statuses
  BY <1>1 DEF DecommissionNode, NodeInv, TombstoneInv, NodeTypes, Statuses
<1>3. nodeRequest' = [nodeRequest EXCEPT ![r].at = "dropHealth"]
  BY DEF DecommissionNode, Goes
<1>4. nodeRequest'[r] = [at |-> "dropHealth", id |-> n] /\ nodeRequest' \in [NodeRequests -> NodeRequestType]
  BY <1>1, <1>3 DEF NodeInv, TombstoneInv, NodeTypes, NodeRequestType
<1>5. Indexed'
  <2>1. Unindex({n}) = [m \in NodeNames |-> Group(nodeStatuses', m)]
    BY <1>1, <1>2, NodesAssumption DEF Unindex, Group, Statuses, NodeInv, Indexed
  <2>2. \A m \in NodeNames : Unindex({n})[m] = Group(nodeStatuses', m)
    BY <2>1
  <2>3. \A k \in NodeIds \ {n} : nodeStatuses'[k] = nodeStatuses[k]
    BY <1>2 DEF Statuses
  <2>4. nodeStatuses[n] \in {nodeStatuses[n]} /\ nodeStatuses'[n] = NoStatus
    BY <1>1, <1>2 DEF Statuses
  <2>5. Regroups({n}, {nodeStatuses[n]}, nodeStatuses, nodeStatuses', Unindex({n}))
    BY <1>1, <1>2, <2>2, <2>3, <2>4 DEF Regroups
  <2>6. Warns(Duplicates(nodeStatuses) \ {n}, Unindex({n}), {nodeStatuses[n]}) = Duplicates(nodeStatuses')
    BY <2>5, WarningsExact
  <2> QED  BY <2>1, <2>6 DEF DecommissionNode, NodeInv, Indexed
<1>6. nodeTombstones' = nodeTombstones \cup {n} /\ dbTombstones' = dbTombstones \cup {n}
      /\ UNCHANGED <<tombstonesDiffer, upstreamHealth>>
  BY DEF DecommissionNode
<1>7. DecommissionHolds'
  <2>1. Buried = nodeTombstones /\ Buried' = nodeTombstones \cup {n}
    BY <1>6, BuriedInMemory DEF NodeInv, TombstoneInv, TombstonesAgree, Buried
  <2>2. \A k \in nodeTombstones \cup {n} : nodeStatuses'[k] = NoStatus
    <3>1. \A k \in nodeTombstones : nodeStatuses[k] = NoStatus
      BY <2>1 DEF DecommissionHolds, NodeInv, TombstoneInv
    <3>2. \A k \in nodeTombstones \cup {n} : k \in NodeIds
      BY <1>1 DEF NodeInv, TombstoneInv, NodeTypes
    <3> QED  BY <1>2, <3>1, <3>2 DEF Statuses
  <2>3. \A x \in NodeRequests : RequestAt(x, "dropHealth") => nodeRequest'[x] = nodeRequest[x]
    BY <1>1, <1>3 DEF RequestAt, NodeInv, TombstoneInv, NodeTypes
  <2> QED  BY <1>4, <1>6, <2>1, <2>2, <2>3 DEF DecommissionHolds, RequestAt, NodeInv, TombstoneInv
<1>8. NodeTypes' /\ TombstonesAgree'
  BY <1>1, <1>2, <1>4, <1>5, <1>6 DEF Indexed, NodeInv, TombstoneInv, NodeTypes, TombstonesAgree
<1> QED  BY <1>5, <1>7, <1>8 DEF NodeInv, TombstoneInv

LEMMA RestoreKeeps ==
  ASSUME NodeInv, NEW r \in NodeRequests, RestoreNode(r)
  PROVE  NodeInv'
<1>1. /\ nodeTombstones' \in SUBSET nodeTombstones /\ dbTombstones' \in SUBSET NodeIds
      /\ TombstonesAgree' /\ tombstonesDiffer' \in BOOLEAN
      /\ UNCHANGED <<inventoryVars, upstreamHealth, nodeRequest>>
  <2>1. PICK n \in nodeTombstones :
          \/ /\ dbTombstones' = dbTombstones \ {n} /\ nodeTombstones' = nodeTombstones \ {n}
             /\ UNCHANGED tombstonesDiffer
          \/ /\ dbTombstones' \in {dbTombstones, dbTombstones \ {n}} /\ tombstonesDiffer' = TRUE
             /\ UNCHANGED nodeTombstones
    BY DEF RestoreNode
  <2>2. UNCHANGED <<inventoryVars, upstreamHealth, nodeRequest>>
    BY DEF RestoreNode
  <2> QED  BY <2>1, <2>2 DEF NodeInv, TombstoneInv, NodeTypes, TombstonesAgree
<1>2. Buried = nodeTombstones /\ Buried' = nodeTombstones'
  BY <1>1, BuriedInMemory DEF NodeInv, TombstoneInv, TombstonesAgree, Buried
<1>3. DecommissionHolds'
  BY <1>1, <1>2 DEF DecommissionHolds, RequestAt, NodeInv, TombstoneInv, inventoryVars
<1>4. Indexed'  BY <1>1, IndexedElsewhere DEF NodeInv
<1> QED  BY <1>1, <1>3, <1>4 DEF NodeInv, TombstoneInv, NodeTypes, inventoryVars

\* Whatever part of the table is read, the inventory starts empty.
LEMMA RestartKeeps == NodeInv /\ ControllerRestarts => NodeInv'
<1> SUFFICES ASSUME NodeInv, ControllerRestarts PROVE NodeInv'
  OBVIOUS
<1>1. NodeTypes' /\ TombstonesAgree'
  BY DEF ControllerRestarts, NodeInv, TombstoneInv, NodeTypes, TombstonesAgree, Statuses, NodeRequestType
<1>2. DecommissionHolds'
  <2>1. Buried' \in SUBSET NodeIds
    BY <1>1 DEF Buried, NodeTypes
  <2> QED  BY <2>1 DEF ControllerRestarts, DecommissionHolds
<1>3. Indexed'
  BY NodesAssumption DEF ControllerRestarts, Indexed, Group, Duplicates
<1> QED  BY <1>1, <1>2, <1>3 DEF NodeInv, TombstoneInv

LEMMA NodesNextInv == NodeInv /\ [NodesNext]_nodeVars => NodeInv'
<1> SUFFICES ASSUME NodeInv, [NodesNext]_nodeVars PROVE NodeInv'
  OBVIOUS
<1>1. ASSUME NEW r \in NodeRequests, RequestStep(r) PROVE NodeInv'
  <2>1. CASE HandleHeartbeat(r) \/ HandleIngest(r) \/ HandleIngestEvents(r) \/ DeleteArrives(r)
    BY <2>1, ArrivalKeeps DEF HandleHeartbeat, HandleIngest, HandleIngestEvents
  <2>2. CASE UpdateRefused(r) \/ NoLongerThere(r) \/ DecommissionFails(r)
    BY <2>2, ReturnKeeps
  <2>3. CASE UpdateNodeStatus(r)  BY <2>3, UpdateKeeps
  <2>4. CASE SetUpstreamHealth(r) \/ DropHealth(r)  BY <2>4, HealthKeeps
  <2>5. CASE DecommissionNode(r)  BY <2>5, DecommissionKeeps
  <2>6. CASE RestoreNode(r)  BY <2>6, RestoreKeeps
  <2> QED  BY <1>1, <2>1, <2>2, <2>3, <2>4, <2>5, <2>6 DEF RequestStep
<1>2. CASE NodeTimesOut \/ UNCHANGED nodeVars
  BY <1>2 DEF NodeTimesOut, nodeVars, inventoryVars, tombstoneVars, NodeInv, TombstoneInv, NodeTypes,
     TombstonesAgree, DecommissionHolds, Buried, RequestAt, Indexed
<1>3. CASE ControllerRestarts  BY <1>3, RestartKeeps
<1> QED  BY <1>1, <1>2, <1>3 DEF NodesNext

(* Any number of heartbeats, batches, decommissions and restores, handled  *)
(* at the same time and with failing statements and restarts: a node whose *)
(* tombstone exists has no status, and latencies only until the request    *)
(* that decommissioned it has removed them (DecommissionNode,              *)
(* UpdateNodeStatus, SetUpstreamHealth).                                   *)
THEOREM DecommissionedStayAway == NodesSpec => []DecommissionHolds
<1>1. NodeInv => DecommissionHolds
  BY DEF NodeInv, TombstoneInv
<1> QED  BY <1>1, NodesInitInv, NodesNextInv, PTL DEF NodesSpec

(* The index of names and the warnings that UpdateNodeStatus, evictions    *)
(* and decommissions keep step by step are what the statuses say.          *)
THEOREM NamesStayIndexed == NodesSpec => []NamesIndexed
<1> QED  BY IndexedIsExact, NodesInitInv, NodesNextInv, PTL DEF NodesSpec
-----------------------------------------------------------------------------
(* WebSessions: the sessions and their streams.                            *)

StreamPlaces == {"closed", "opening", "catchUp", "open", "check", "write"}
SessionType == [age : Nat, idle : Nat]

SessionTypes ==
  /\ issued \in Nat /\ DOMAIN sessions \subseteq 1 .. issued
  /\ \A t \in DOMAIN sessions : sessions[t] \in SessionType
  /\ stream \in [EventStreams -> [at : StreamPlaces, token : Nat, late : BOOLEAN]]
  /\ \A s \in EventStreams : stream[s].at # "closed" => stream[s].token \in 1 .. issued

\* A stream that is about to check has seen its session end if it is late,
\* and does not write then.
Silenced ==
  \A s \in EventStreams : /\ stream[s].at = "check" /\ stream[s].late => stream[s].token \notin Live
                          /\ stream[s].at = "write" => ~ stream[s].late

SilentInv == SessionTypes /\ Silenced

StaysEnded == \A t \in 1 .. issued : t \notin Live => t \notin Live'

LEMMA SilentInitInv == WebInit => SilentInv
BY DEF WebInit, SilentInv, SessionTypes, Silenced, Silent, StreamPlaces

\* Who is live after a step was live before or is new.
LEMMA OlderStayEnded ==
  ASSUME SilentInv,
         \A t \in DOMAIN sessions' \cap 1 .. issued :
           /\ t \in DOMAIN sessions
           /\ \/ t \in Live
              \/ sessions'[t].age >= sessions[t].age /\ sessions'[t].idle >= sessions[t].idle
              \/ sessions'[t].age >= SessionLifetime \/ sessions'[t].idle >= SessionIdle,
         \A t \in DOMAIN sessions' : sessions'[t] \in SessionType
  PROVE  StaysEnded
BY SessionAssumption DEF StaysEnded, Live, SessionExpired, SilentInv, SessionTypes, SessionType

LEMMA ValidateKeeps ==
  ASSUME SilentInv, NEW t, Validate(t)
  PROVE  /\ DOMAIN sessions' \subseteq Live /\ StaysEnded
         /\ \A x \in DOMAIN sessions' : sessions'[x] \in SessionType
<1>1. /\ DOMAIN sessions' = Live
      /\ \A x \in Live : sessions'[x] = IF x = t THEN [sessions[x] EXCEPT !.idle = 0] ELSE sessions[x]
  BY DEF Validate
<1>2. \A x \in DOMAIN sessions' : sessions'[x] \in SessionType
  BY <1>1 DEF Live, SilentInv, SessionTypes, SessionType
<1> QED  BY <1>1, <1>2, OlderStayEnded DEF Live

\* Steps that only remove sessions, refresh live ones or create a new one.
LEMMA SessionsMove ==
  ASSUME SilentInv, UNCHANGED stream, issued' \in Nat, issued' >= issued,
         DOMAIN sessions' \subseteq 1 .. issued',
         \A t \in DOMAIN sessions' : sessions'[t] \in SessionType,
         StaysEnded
  PROVE  SilentInv'
BY DEF SilentInv, SessionTypes, Silenced, StaysEnded

\* A stream goes on without a change of the sessions.
LEMMA StreamGoesOn ==
  ASSUME SilentInv, NEW s \in EventStreams, UNCHANGED sessionVars,
         \/ StreamSubscribes(s) \/ StreamReadsPage(s) \/ StreamReplays(s)
         \/ EventComes(s) \/ StreamChecks(s) \/ StreamWrites(s) \/ StreamCloses(s)
  PROVE  SilentInv' /\ StaysEnded
<1>1. Live' = Live /\ StaysEnded
  BY DEF Live, SessionExpired, sessionVars, StaysEnded
<1>2. SessionTypes'
  <2> USE DEF StreamAt, StreamMoves, sessionVars, Silent, SilentInv, SessionTypes, StreamPlaces
  <2>1. CASE EventComes(s)
    <3>1. (stream[s].token \notin Live) \in BOOLEAN
      OBVIOUS
    <3> QED  BY <2>1, <3>1 DEF EventComes
  <2>2. CASE StreamChecks(s)
    <3>1. stream' \in {[stream EXCEPT ![s].at = "write"],
                       [stream EXCEPT ![s] = [at |-> "closed", token |-> 0, late |-> FALSE]]}
      BY <2>2 DEF StreamChecks
    <3>2. stream[s].at # "closed"
      BY <2>2 DEF StreamChecks
    <3>3. UNCHANGED <<issued, sessions>>
      OBVIOUS
    <3>4. CASE stream' = [stream EXCEPT ![s].at = "write"]
      BY <3>2, <3>3, <3>4
    <3>5. CASE stream' = [stream EXCEPT ![s] = [at |-> "closed", token |-> 0, late |-> FALSE]]
      BY <3>3, <3>5
    <3> QED  BY <3>1, <3>4, <3>5
  <2>3. CASE StreamWrites(s)  BY <2>3 DEF StreamWrites
  <2>4. CASE StreamCloses(s)  BY <2>4 DEF StreamCloses
  <2>5. CASE StreamReadsPage(s)
    <3>1. (stream[s].token \notin Live) \in BOOLEAN
      OBVIOUS
    <3> QED  BY <2>5, <3>1 DEF StreamReadsPage
  <2>6. CASE StreamSubscribes(s) \/ StreamReplays(s)
    BY <2>6 DEF StreamSubscribes, StreamReplays
  <2> QED  BY <2>1, <2>2, <2>3, <2>4, <2>5, <2>6
<1>3. Silenced'
  BY <1>1 DEF StreamSubscribes, StreamReadsPage, StreamReplays, EventComes, StreamChecks, StreamWrites, StreamCloses, StreamAt, StreamMoves, Silent, Alive,
     SilentInv, SessionTypes, Silenced
<1> QED  BY <1>1, <1>2, <1>3 DEF SilentInv

LEMMA OpenKeeps ==
  ASSUME SilentInv, NEW s \in EventStreams, NEW t \in 1 .. issued, StreamOpens(s, t)
  PROVE  SilentInv' /\ StaysEnded
<1>1. StaysEnded /\ DOMAIN sessions' \subseteq Live /\ \A x \in DOMAIN sessions' : sessions'[x] \in SessionType
  BY ValidateKeeps DEF StreamOpens
<1>2. issued' = issued /\ stream' = [stream EXCEPT ![s] = [at |-> "opening", token |-> t, late |-> FALSE]]
  BY DEF StreamOpens
<1>3. SessionTypes'
  BY <1>1, <1>2 DEF SilentInv, SessionTypes, StreamPlaces, Live
<1>4. Silenced'
  BY <1>1, <1>2 DEF SilentInv, SessionTypes, Silenced, StaysEnded
<1> QED  BY <1>1, <1>3, <1>4 DEF SilentInv

\* What a request or a logout does to the sessions.
LEMMA RequestKeeps ==
  ASSUME SilentInv, NEW t \in 1 .. issued, Request(t) \/ Logout(t) \/ LogoutAll(t)
  PROVE  SilentInv' /\ StaysEnded
<1>1. StaysEnded /\ DOMAIN sessions' \subseteq DOMAIN sessions
      /\ \A x \in DOMAIN sessions' : sessions'[x] \in SessionType
  <2>1. CASE Validate(t)
    BY <2>1, ValidateKeeps DEF Live
  <2>2. CASE Logout(t)
    <3>1. DOMAIN sessions' = DOMAIN sessions \ {t} /\ \A x \in DOMAIN sessions' : sessions'[x] = sessions[x]
      BY <2>2 DEF Logout
    <3> QED  BY <3>1 DEF StaysEnded, Live, SessionExpired, SilentInv, SessionTypes
  <2>3. CASE sessions' = [x \in {} |-> sessions[x]]
    BY <2>3 DEF StaysEnded, Live
  <2> QED  BY <2>1, <2>2, <2>3 DEF Request, LogoutAll
<1>2. UNCHANGED <<issued, stream>>
  BY DEF Request, Logout, LogoutAll
<1> QED  BY <1>1, <1>2, SessionsMove DEF SilentInv, SessionTypes

LEMMA LoginKeeps ==
  ASSUME SilentInv, NEW a \in LoginAddresses, PasswordFits(a)
  PROVE  SilentInv' /\ StaysEnded
<1>1. issued' = issued + 1 /\ UNCHANGED stream
  BY DEF PasswordFits
<1>2. PICK kept \in SUBSET Live :
        sessions' = [x \in kept \cup {issued + 1} |-> IF x = issued + 1 THEN [age |-> 0, idle |-> 0] ELSE sessions[x]]
  BY DEF PasswordFits, NewSession
<1>3. Live \subseteq DOMAIN sessions /\ issued \in Nat /\ DOMAIN sessions \subseteq 1 .. issued
  BY DEF Live, SilentInv, SessionTypes
<1>4. DOMAIN sessions' \subseteq 1 .. issued' /\ \A x \in DOMAIN sessions' : sessions'[x] \in SessionType
  BY <1>1, <1>2, <1>3 DEF SilentInv, SessionTypes, SessionType
<1>5. StaysEnded
  BY <1>2, <1>3 DEF StaysEnded, Live
<1> QED  BY <1>1, <1>3, <1>4, <1>5, SessionsMove

\* No session becomes younger by itself.
LEMMA SessionTickKeeps ==
  ASSUME SilentInv, SessionTick
  PROVE  SilentInv' /\ StaysEnded
<1>1. \A x \in Nat, most \in Nat : Grown(x, most) \in Nat /\ (Grown(x, most) >= x \/ Grown(x, most) >= most)
  BY DEF Grown
<1>2. /\ DOMAIN sessions' = DOMAIN sessions
      /\ \A t \in DOMAIN sessions : sessions'[t] = [age |-> Grown(sessions[t].age, SessionLifetime),
                                                  idle |-> Grown(sessions[t].idle, SessionIdle)]
  BY DEF SessionTick
<1>3. \A t \in DOMAIN sessions : sessions'[t] \in SessionType
  BY <1>1, <1>2, SessionAssumption DEF SilentInv, SessionTypes, SessionType
<1>4. StaysEnded
  <2>1. ASSUME NEW t \in DOMAIN sessions, SessionExpired(t) PROVE SessionExpired(t)'
    <3>1. sessions[t].age \in Nat /\ sessions[t].idle \in Nat
      BY DEF SilentInv, SessionTypes, SessionType
    <3>2. /\ sessions'[t].age = Grown(sessions[t].age, SessionLifetime)
          /\ sessions'[t].idle = Grown(sessions[t].idle, SessionIdle)
      BY <1>2
    <3>3. CASE sessions[t].age >= SessionLifetime
      BY <3>1, <3>2, <3>3, SessionAssumption DEF Grown, SessionExpired
    <3>4. CASE sessions[t].idle >= SessionIdle
      BY <3>1, <3>2, <3>4, SessionAssumption DEF Grown, SessionExpired
    <3> QED  BY <2>1, <3>3, <3>4 DEF SessionExpired
  <2> QED  BY <1>2, <2>1 DEF StaysEnded, Live
<1> QED  BY <1>2, <1>3, <1>4, SessionsMove DEF SessionTick, SilentInv, SessionTypes

LEMMA SilentNextInv == SilentInv /\ [WebNext]_webVars => SilentInv' /\ StaysEnded
<1> SUFFICES ASSUME SilentInv, [WebNext]_webVars PROVE SilentInv' /\ StaysEnded
  OBVIOUS
<1> USE DEF sessionVars
<1>1. ASSUME NEW t \in 1 .. issued, Request(t) \/ Logout(t) \/ LogoutAll(t)
      PROVE  SilentInv' /\ StaysEnded
  BY <1>1, RequestKeeps
<1>2. ASSUME NEW s \in EventStreams,
             \/ \E t \in 1 .. issued : StreamOpens(s, t)
             \/ StreamSubscribes(s) \/ StreamReadsPage(s) \/ StreamReplays(s)
             \/ EventComes(s) \/ StreamChecks(s) \/ StreamWrites(s) \/ StreamCloses(s)
      PROVE  SilentInv' /\ StaysEnded
  BY <1>2, OpenKeeps, StreamGoesOn
     DEF StreamSubscribes, StreamReadsPage, StreamReplays, EventComes, StreamChecks, StreamWrites, StreamCloses
<1>3. ASSUME UNCHANGED <<sessionVars, stream>> PROVE SilentInv' /\ StaysEnded
  BY <1>3 DEF SilentInv, SessionTypes, Silenced, StaysEnded, Live, SessionExpired
<1>4. ASSUME NEW a \in LoginAddresses,
             LoginBegins(a) \/ PasswordFits(a) \/ LoginResets(a) \/ PasswordFails(a) \/ LoginRefused(a)
      PROVE  SilentInv' /\ StaysEnded
  BY <1>3, <1>4, LoginKeeps DEF LoginBegins, LoginResets, PasswordFails, LoginRefused
<1>5. CASE SessionTick  BY <1>5, SessionTickKeeps
<1>6. CASE CleanupFailures \/ UNCHANGED webVars
  BY <1>3, <1>6 DEF CleanupFailures, webVars
<1>7. CASE WebRestarts
  BY <1>7 DEF WebRestarts, SilentInv, SessionTypes, Silenced, StaysEnded, Live, Silent, StreamPlaces
<1> QED  BY <1>1, <1>2, <1>4, <1>5, <1>6, <1>7 DEF WebNext

(* However many sessions, streams and logins there are: a session that has *)
(* expired, or was ended by a logout, by a newer one or with the process,  *)
(* is never alive again, and the loop of handleStream writes no event that *)
(* came after the end of its session. What handleStream writes before its  *)
(* loop, the page of missed events, is excepted: NothingAfterEnd, which    *)
(* includes it, is false.                                                  *)
THEOREM EndedStaySilent == WebSpec => EndedIsSilent
<1>1. SilentInv /\ [WebNext]_webVars
        => [\A t \in 1 .. issued : t \notin Live => t \notin Live']_webVars
  BY SilentNextInv DEF StaysEnded
<1>2. SilentInv => \A s \in EventStreams : StreamAt(s, "write") => ~ stream[s].late
  BY DEF SilentInv, Silenced, StreamAt
<1>3. SilentInv /\ [WebNext]_webVars => SilentInv'
  BY SilentNextInv
<1> QED  BY <1>1, <1>2, <1>3, SilentInitInv, PTL DEF WebSpec, EndedIsSilent
-----------------------------------------------------------------------------
(* MagicDns.                                                               *)

SyncPlaces == {"idle", "token", "list", "save", "publish", "clear", "succeed"}

MagicTypes ==
  /\ inventory \in Nat
  /\ controllerFile \in Nat /\ controllerRecords \in Nat
  /\ agentFile \in Nat /\ agentRecords \in Nat
  /\ syncer \in [MagicSyncers -> [at : SyncPlaces, attempt : Nat, listed : Nat]]
  /\ agentSync \in [at : SyncPlaces, got : Nat]

\* syncMu: one attempt at a time.
OneSync == \A s, other \in MagicSyncers : syncer[s].at # "idle" /\ syncer[other].at # "idle" => s = other

\* What is on its way is not older than what it replaces: from the tailnet
\* to the controller's file and records, and from these to the agent's.
Forward ==
  /\ controllerRecords <= controllerFile /\ controllerFile <= inventory
  /\ agentRecords <= agentFile /\ agentFile <= controllerRecords
  /\ \A s \in MagicSyncers :
       /\ syncer[s].at = "save" => controllerFile <= syncer[s].listed /\ syncer[s].listed <= inventory
       /\ syncer[s].at = "publish" => syncer[s].listed = controllerFile
  /\ agentSync.at = "save" => agentFile <= agentSync.got /\ agentSync.got <= controllerRecords
  /\ agentSync.at = "publish" => agentSync.got = agentFile

MagicInv == MagicTypes /\ OneSync /\ Forward

NotBack == controllerRecords' >= controllerRecords /\ agentRecords' >= agentRecords

LEMMA MagicInitInv == MagicInit => MagicInv
BY DEF MagicInit, MagicInv, MagicTypes, OneSync, Forward, Idle, SyncPlaces

SyncType == [at : SyncPlaces, attempt : Nat, listed : Nat]

SyncGoesTo(s, record) == syncer' = [syncer EXCEPT ![s] = record]

\* An attempt goes to another place while all others are idle, and leaves
\* what it writes in order.
LEMMA SyncMoves ==
  ASSUME MagicInv, NEW s \in MagicSyncers, NEW record \in SyncType,
         \A other \in MagicSyncers \ {s} : syncer[other].at = "idle",
         SyncGoesTo(s, record),
         UNCHANGED inventory, UNCHANGED agentVars,
         controllerFile' \in Nat, controllerRecords' \in Nat,
         controllerRecords <= controllerRecords', controllerRecords' <= controllerFile',
         controllerFile' <= inventory,
         record.at = "save" => controllerFile' <= record.listed /\ record.listed <= inventory,
         record.at = "publish" => record.listed = controllerFile'
  PROVE  MagicInv' /\ NotBack
<1>1. \A x \in MagicSyncers : syncer'[x] = IF x = s THEN record ELSE syncer[x]
  BY DEF MagicInv, MagicTypes, SyncGoesTo
<1>2. MagicTypes'
  BY DEF MagicInv, MagicTypes, SyncType, SyncGoesTo, agentVars
<1>3. OneSync'
  BY <1>1 DEF OneSync
<1>4. Forward'
  BY <1>1 DEF MagicInv, MagicTypes, Forward, agentVars
<1>5. NotBack
  BY DEF MagicInv, MagicTypes, NotBack, agentVars
<1> QED  BY <1>2, <1>3, <1>4, <1>5 DEF MagicInv

\* A step of one attempt.
LEMMA SyncKeeps ==
  ASSUME MagicInv, NEW s \in MagicSyncers, SyncStep(s)
  PROVE  MagicInv' /\ NotBack
<1> DEFINE at == syncer[s].at
           listed == syncer[s].listed
<1>1. syncer[s] \in SyncType /\ at \in SyncPlaces /\ listed \in Nat /\ syncer[s].attempt \in Nat
  BY DEF MagicInv, MagicTypes, SyncType
<1>2. \A other \in MagicSyncers \ {s} : syncer[other].at = "idle"
  BY DEF SyncStep, SyncBegins, Turn, HaveToken, RequestFails, Lists, Unauthorized, Saves, SaveFails,
     Publishes, Clears, Succeeds, SyncerAt, MagicInv, OneSync
<1>3. /\ controllerFile \in Nat /\ controllerRecords \in Nat /\ inventory \in Nat
      /\ controllerRecords <= controllerFile /\ controllerFile <= inventory
      /\ at = "save" => controllerFile <= listed /\ listed <= inventory
      /\ at = "publish" => listed = controllerFile
  BY DEF MagicInv, MagicTypes, Forward
<1>4. ASSUME NEW record \in SyncType, record.at \notin {"save", "publish"},
             SyncGoesTo(s, record),
             UNCHANGED inventory, UNCHANGED controllerFile, UNCHANGED agentVars,
             controllerRecords' \in {controllerRecords, controllerFile}
      PROVE  MagicInv' /\ NotBack
  BY <1>2, <1>3, <1>4, SyncMoves
<1>5. CASE SyncBegins(s) \/ RequestFails(s) \/ SaveFails(s) \/ Succeeds(s)
  <2>1. PICK record \in {Idle, [at |-> "token", attempt |-> 1, listed |-> 0]} : SyncGoesTo(s, record)
    BY <1>5 DEF SyncGoesTo, SyncBegins, RequestFails, SaveFails, Succeeds, SyncFails
  <2>2. record \in SyncType /\ record.at \notin {"save", "publish"}
    BY DEF Idle, SyncType, SyncPlaces
  <2>3. UNCHANGED <<inventory, controllerVars, agentVars>>
    BY <1>5 DEF SyncBegins, RequestFails, SaveFails, Succeeds, SyncFails
  <2> QED  BY <1>4, <2>1, <2>2, <2>3 DEF controllerVars
<1>6. CASE HaveToken(s) \/ Unauthorized(s) \/ Publishes(s) \/ Clears(s)
  <2>1. PICK record \in SyncType : record.at \notin {"save", "publish"} /\ SyncGoesTo(s, record)
    <3>1. CASE Unauthorized(s) /\ syncer[s].attempt = 2
      <4>1. SyncGoesTo(s, Idle)
        BY <3>1 DEF Unauthorized, SyncFails, SyncGoesTo
      <4>2. Idle \in SyncType /\ Idle.at = "idle"
        BY DEF Idle, SyncType, SyncPlaces
      <4> QED  BY <4>1, <4>2
    <3>2. CASE Unauthorized(s) /\ syncer[s].attempt = 1
      <4> DEFINE record == [syncer[s] EXCEPT !.at = "token", !.attempt = 2]
      <4>1. SyncGoesTo(s, record)
        <5>1. syncer' = [syncer EXCEPT ![s].at = "token", ![s].attempt = 2]
          BY <3>2 DEF Unauthorized
        <5> QED  BY <5>1 DEF SyncGoesTo
      <4>2. record \in SyncType /\ record.at = "token"
        BY <1>1 DEF SyncType, SyncPlaces
      <4> HIDE DEF record
      <4> QED  BY <4>1, <4>2
    <3>3. CASE \E place \in {"list", "clear", "succeed"} : syncer' = [syncer EXCEPT ![s].at = place]
      <4>1. PICK place \in {"list", "clear", "succeed"} : syncer' = [syncer EXCEPT ![s].at = place]
        BY <3>3
      <4> DEFINE record == [syncer[s] EXCEPT !.at = place]
      <4>2. SyncGoesTo(s, record)
        BY <4>1 DEF SyncGoesTo
      <4>3. record \in SyncType /\ record.at = place
        BY <1>1 DEF SyncType, SyncPlaces
      <4> HIDE DEF record
      <4> QED  BY <4>1, <4>2, <4>3
    <3>4. HaveToken(s) \/ Publishes(s) \/ Clears(s)
            => \E place \in {"list", "clear", "succeed"} : syncer' = [syncer EXCEPT ![s].at = place]
      BY DEF HaveToken, Publishes, AfterPublish, Clears
    <3> QED  BY <1>6, <3>1, <3>2, <3>3, <3>4 DEF Unauthorized
  <2>2. UNCHANGED <<inventory, controllerFile, agentVars>>
    BY <1>6 DEF HaveToken, Unauthorized, SyncFails, Publishes, Clears, controllerVars
  <2>3. controllerRecords' \in {controllerRecords, controllerFile}
    BY <1>3, <1>6 DEF HaveToken, Unauthorized, SyncFails, Publishes, Clears, SyncerAt, controllerVars
  <2> QED  BY <1>4, <2>1, <2>2, <2>3
<1>7. CASE Lists(s)
  <2> DEFINE record == [syncer[s] EXCEPT !.at = "save", !.listed = inventory]
  <2>1. SyncGoesTo(s, record)
    BY <1>7 DEF Lists, SyncGoesTo
  <2>2. record \in SyncType /\ record.at = "save" /\ record.listed = inventory
    BY <1>1, <1>3 DEF SyncType, SyncPlaces
  <2>3. UNCHANGED <<inventory, controllerFile, controllerRecords, agentVars>>
    BY <1>7 DEF Lists, controllerVars
  <2> HIDE DEF record
  <2> QED  BY <1>2, <1>3, <2>1, <2>2, <2>3, SyncMoves
<1>8. CASE Saves(s)
  <2> DEFINE record == [syncer[s] EXCEPT !.at = "publish"]
  <2>1. SyncGoesTo(s, record)
    BY <1>8 DEF Saves, SyncGoesTo
  <2>2. record \in SyncType /\ record.at = "publish" /\ record.listed = listed
    BY <1>1 DEF SyncType, SyncPlaces
  <2>3. at = "save" /\ controllerFile' = listed /\ UNCHANGED <<inventory, controllerRecords, agentVars>>
    BY <1>8 DEF Saves, SyncerAt
  <2> HIDE DEF record
  <2> QED  BY <1>1, <1>2, <1>3, <2>1, <2>2, <2>3, SyncMoves
<1> QED
  BY <1>5, <1>6, <1>7, <1>8 DEF SyncStep

LEMMA AgentStepKeeps ==
  ASSUME MagicInv, AgentStep
  PROVE  MagicInv' /\ NotBack
<1> USE DEF MagicInv, MagicTypes, OneSync, Forward, SyncPlaces, NotBack, controllerVars
<1>1. CASE AgentFetches  BY <1>1 DEF AgentFetches
<1>2. CASE AgentFails  BY <1>2 DEF AgentFails
<1>3. CASE AgentSaves  BY <1>3 DEF AgentSaves
<1>4. CASE AgentPublishes  BY <1>4 DEF AgentPublishes, AfterPublish
<1>5. CASE AgentClears  BY <1>5 DEF AgentClears
<1> QED  BY <1>1, <1>2, <1>3, <1>4, <1>5 DEF AgentStep

LEMMA MagicNextInv == MagicInv /\ [MagicNext]_magicVars => MagicInv' /\ (NotBack \/ UNCHANGED magicVars)
<1> SUFFICES ASSUME MagicInv, [MagicNext]_magicVars PROVE MagicInv' /\ (NotBack \/ UNCHANGED magicVars)
  OBVIOUS
<1> USE DEF agentVars, controllerVars
<1>1. CASE DevicesChange
  BY <1>1 DEF DevicesChange, MagicInv, MagicTypes, OneSync, Forward, NotBack
<1>2. CASE TokenAges \/ TokenRevoked \/ UNCHANGED magicVars
  BY <1>2 DEF TokenAges, TokenRevoked, magicVars, MagicInv, MagicTypes, OneSync, Forward, NotBack
<1>3. CASE \E s \in MagicSyncers : SyncStep(s)  BY <1>3, SyncKeeps
<1>4. CASE AgentStep  BY <1>4, AgentStepKeeps
<1>5. CASE MagicRestarts
  BY <1>5 DEF MagicRestarts, MagicControllerRestarts, MagicAgentRestarts, Idle, SyncPlaces,
     MagicInv, MagicTypes, OneSync, Forward, NotBack
<1> QED  BY <1>1, <1>2, <1>3, <1>4, <1>5 DEF MagicNext

(* For any number of callers of Sync, changes of the tailnet, failures and *)
(* restarts: neither the controller nor the agent ever answers with older  *)
(* records than before (Store.Apply after Sync or after a fetch, Load).    *)
THEOREM RecordsStayForward == MagicSpec => RecordsNeverGoBack
<1>1. MagicInv /\ [MagicNext]_magicVars
        => [controllerRecords' >= controllerRecords /\ agentRecords' >= agentRecords]_magicVars
  BY MagicNextInv DEF NotBack
<1>2. MagicInv /\ [MagicNext]_magicVars => MagicInv'
  BY MagicNextInv
<1> QED  BY <1>1, <1>2, MagicInitInv, PTL DEF MagicSpec, RecordsNeverGoBack

-----------------------------------------------------------------------------
(* ClientLimits: a bucket is what the memory says, a key without one is    *)
(* remembered as full, and who has waited longest is at the head of the    *)
(* order.                                                                  *)

Bucket == [tokens : Nat, idle : 0 .. Forever]

LimitTypes ==
    /\ limits \in LimitSettings
    /\ DOMAIN buckets \subseteq LimitKeys
    /\ memory \in [LimitKeys -> Bucket]
    /\ order \in Seq(LimitKeys)
    /\ DOMAIN asked = LimitQueries
    /\ \A q \in LimitQueries : DOMAIN asked[q] = {"at", "client"}
                               /\ (asked[q].at # "idle" => asked[q].client \in DnsClients)

KeptTrack ==
    \A k \in LimitKeys : IF k \in DOMAIN buckets THEN buckets[k] = memory[k]
                                                 ELSE memory[k].idle = Forever

OldestFirst ==
    /\ \A k \in DOMAIN buckets : \E i \in 1 .. Len(order) : order[i] = k
    /\ \A i \in 1 .. Len(order) : order[i] \in DOMAIN buckets
    /\ \A i, j \in 1 .. Len(order) : i < j => memory[order[i]].idle >= memory[order[j]].idle

LimitInv == LimitTypes /\ KeptTrack /\ OldestFirst

(* A bucket that has been idle for a second or longer is full. *)
LEMMA FullWhenIdle ==
  ASSUME NEW b \in Bucket, b.idle = Forever, NEW rate \in Nat
  PROVE  Refilled(b, rate) = rate * PerSecond
<1>1. /\ PerSecond \in Nat /\ MaxIdle \in Nat /\ b.tokens \in Nat
      /\ Forever \in Nat /\ Forever - PerSecond \in Nat
  BY LimitAssumption DEF Forever, Bucket
<1>2. Forever * rate = PerSecond * rate + (Forever - PerSecond) * rate
  BY <1>1
<1>3. (Forever - PerSecond) * rate \in Nat /\ PerSecond * rate \in Nat
  BY <1>1
<1>4. rate * PerSecond = PerSecond * rate
  BY <1>1
<1> QED  BY <1>1, <1>2, <1>3, <1>4 DEF Refilled, AtMost

LEMMA UsedType ==
  ASSUME NEW b \in Bucket, NEW rate \in Nat
  PROVE  Used(Refilled(b, rate)) \in Bucket /\ Used(Refilled(b, rate)).idle = 0
<1>1. PerSecond \in Nat /\ MaxIdle \in Nat /\ b.tokens \in Nat /\ b.idle \in Nat
  BY LimitAssumption DEF Bucket, Forever
<1>2. b.idle * rate \in Nat /\ rate * PerSecond \in Nat
  BY <1>1
<1>3. Refilled(b, rate) \in Nat
  BY <1>1, <1>2 DEF Refilled, AtMost
<1> HIDE DEF Refilled
<1> QED  BY <1>1, <1>3 DEF Used, Passes, Bucket, Forever

LEMMA OlderType ==
  ASSUME NEW b \in Bucket
  PROVE  Older(b) \in Bucket /\ Older(b).idle = AtMost(b.idle + 1, Forever)
  BY LimitAssumption DEF Older, AtMost, Bucket, Forever

(* What the invariant says of limits. *)
LEMMA LimitsKept == LimitInv => LimitsAsThoughKept
<1> SUFFICES ASSUME LimitInv, NEW k \in LimitKeys, NEW rate \in Rates
             PROVE  Level(k, rate) = Refilled(memory[k], rate)
  BY DEF LimitsAsThoughKept
<1>1. rate \in Nat
  BY LimitAssumption
<1>2. CASE k \in DOMAIN buckets
  BY <1>2 DEF Level, LimitInv, KeptTrack
<1>3. CASE k \notin DOMAIN buckets
  <2>1. memory[k] \in Bucket /\ memory[k].idle = Forever
    BY <1>3 DEF LimitInv, LimitTypes, KeptTrack
  <2> QED  BY <1>1, <1>3, <2>1, FullWhenIdle DEF Level
<1> QED  BY <1>2, <1>3

(* The order without some keys, which have lost their buckets. *)
LEMMA OrderKept ==
  ASSUME LimitInv, NEW gone
  PROVE  LET rest == Keep(order, LimitKeys \ gone)
         IN  /\ rest \in Seq(LimitKeys)
             /\ \A k \in DOMAIN buckets \ gone : \E i \in 1 .. Len(rest) : rest[i] = k
             /\ \A i \in 1 .. Len(rest) : rest[i] \in DOMAIN buckets \ gone
             /\ \A i, j \in 1 .. Len(rest) : i < j =>
                  memory[rest[i]].idle >= memory[rest[j]].idle
<1> DEFINE Left == LimitKeys \ gone
           rest == Keep(order, Left)
<1>1. order \in Seq(LimitKeys) /\ OldestFirst /\ DOMAIN buckets \subseteq LimitKeys
  BY DEF LimitInv, LimitTypes
<1>2. /\ rest \in Seq(LimitKeys)
      /\ \A i \in 1 .. Len(rest) :
           rest[i] \in Left /\ \E a \in 1 .. Len(order) : rest[i] = order[a]
      /\ \A a \in 1 .. Len(order) :
           order[a] \in Left => \E i \in 1 .. Len(rest) : rest[i] = order[a]
      /\ \A i, j \in 1 .. Len(rest) : i < j =>
           \E a, b \in 1 .. Len(order) : a < b /\ rest[i] = order[a] /\ rest[j] = order[b]
  <2> HIDE DEF Left
  <2> QED  BY <1>1, KeepIs
<1> HIDE DEF rest
<1>3. \A k \in DOMAIN buckets \ gone : \E i \in 1 .. Len(rest) : rest[i] = k
  <2> SUFFICES ASSUME NEW k \in DOMAIN buckets \ gone
               PROVE  \E i \in 1 .. Len(rest) : rest[i] = k
    OBVIOUS
  <2>1. PICK a \in 1 .. Len(order) : order[a] = k
    BY <1>1 DEF OldestFirst
  <2> QED  BY <1>1, <1>2, <2>1
<1>4. ASSUME NEW i \in 1 .. Len(rest) PROVE rest[i] \in DOMAIN buckets \ gone
  <2>1. PICK a \in 1 .. Len(order) : rest[i] = order[a]
    BY <1>2
  <2> QED  BY <1>1, <1>2, <2>1 DEF OldestFirst
<1>5. \A i, j \in 1 .. Len(rest) : i < j => memory[rest[i]].idle >= memory[rest[j]].idle
  <2> SUFFICES ASSUME NEW i \in 1 .. Len(rest), NEW j \in 1 .. Len(rest), i < j
               PROVE  memory[rest[i]].idle >= memory[rest[j]].idle
    OBVIOUS
  <2>1. PICK a \in 1 .. Len(order), b \in 1 .. Len(order) :
               a < b /\ rest[i] = order[a] /\ rest[j] = order[b]
    BY <1>2
  <2> QED  BY <1>1, <2>1 DEF OldestFirst
<1> QED  BY <1>2, <1>3, <1>4, <1>5 DEF rest

(* A key that makes room has waited longest, so that its bucket is         *)
(* forgotten with it.                                                      *)
LEMMA RoomIsForgiven ==
  ASSUME LimitInv, NEW k
  PROVE  Forgiven(RoomFor(k)) = RoomFor(k) /\ k \notin RoomFor(k)
<1>1. CASE RoomFor(k) = {}
  BY <1>1 DEF Forgiven
<1>2. CASE RoomFor(k) # {}
  <2>1. RoomFor(k) = {Head(order)} /\ order # <<>> /\ k \notin DOMAIN buckets
    BY <1>2 DEF RoomFor
  <2>2. order \in Seq(LimitKeys) /\ OldestFirst /\ KeptTrack /\ DOMAIN buckets \subseteq LimitKeys
    BY DEF LimitInv, LimitTypes
  <2>3. Head(order) = order[1] /\ Len(order) \in Nat /\ 1 \in 1 .. Len(order)
    BY <2>1, <2>2, HeadTailProperties, EmptySeq, LenProperties
  <2>4. order[1] \in DOMAIN buckets
    BY <2>2, <2>3 DEF OldestFirst
  <2>5. ASSUME NEW other \in DOMAIN buckets
        PROVE  buckets[other].idle <= memory[order[1]].idle
    <3>1. PICK i \in 1 .. Len(order) : order[i] = other
      BY <2>2 DEF OldestFirst
    <3>2. buckets[other] = memory[other] /\ memory[other].idle \in Nat
      BY <2>2 DEF KeptTrack, LimitInv, LimitTypes, Bucket
    <3>3. CASE i = 1
      BY <3>1, <3>2, <3>3
    <3>4. CASE 1 < i
      <4>1. memory[order[1]].idle >= memory[order[i]].idle
        BY <2>2, <2>3, <3>4 DEF OldestFirst
      <4>2. memory[order[1]].idle \in Nat
        BY <2>2, <2>4 DEF LimitInv, LimitTypes, Bucket
      <4> QED  BY <3>1, <3>2, <4>1, <4>2
    <3> QED  BY <2>3, <3>3, <3>4
  <2> QED  BY <2>1, <2>3, <2>4, <2>5 DEF Forgiven
<1> QED  BY <1>1, <1>2

LEMMA LimitTake ==
  ASSUME LimitInv, NEW k \in LimitKeys, NEW rate \in Rates, TakeToken(k, rate)
  PROVE  /\ DOMAIN buckets' \subseteq LimitKeys /\ memory' \in [LimitKeys -> Bucket]
         /\ order' \in Seq(LimitKeys) /\ KeptTrack' /\ OldestFirst'
<1> DEFINE out  == RoomFor(k)
           rest == Keep(order, LimitKeys \ (out \cup {k}))
           new  == Used(Refilled(memory[k], rate))
<1>1. /\ rate \in Nat /\ memory \in [LimitKeys -> Bucket] /\ DOMAIN buckets \subseteq LimitKeys
      /\ KeptTrack
  BY LimitAssumption DEF LimitInv, LimitTypes
<1>2. new \in Bucket /\ new.idle = 0
  BY <1>1, UsedType
<1>3. Used(Level(k, rate)) = new
  BY LimitsKept DEF LimitsAsThoughKept
<1>4. Forgiven(out) = out /\ k \notin out
  BY RoomIsForgiven
<1>5. /\ rest \in Seq(LimitKeys)
      /\ \A x \in DOMAIN buckets \ (out \cup {k}) : \E i \in 1 .. Len(rest) : rest[i] = x
      /\ \A i \in 1 .. Len(rest) : rest[i] \in DOMAIN buckets \ (out \cup {k})
      /\ \A i, j \in 1 .. Len(rest) : i < j => memory[rest[i]].idle >= memory[rest[j]].idle
  BY OrderKept
<1>6. /\ buckets' = [x \in (DOMAIN buckets \ out) \cup {k} |-> IF x = k THEN new ELSE buckets[x]]
      /\ order' = Append(rest, k)
      /\ memory' = [x \in LimitKeys |-> IF x = k THEN new
                                        ELSE IF x \in out THEN Unused ELSE memory[x]]
  BY <1>3, <1>4 DEF TakeToken, OrderAfter
<1> HIDE DEF rest, new, out
<1>7. Unused \in Bucket /\ Unused.idle = Forever
  BY LimitAssumption DEF Unused, Bucket, Forever
<1>8. memory' \in [LimitKeys -> Bucket] /\ DOMAIN buckets' = (DOMAIN buckets \ out) \cup {k}
  BY <1>1, <1>2, <1>6, <1>7
<1>9. KeptTrack'
  <2> SUFFICES ASSUME NEW x \in LimitKeys
               PROVE  IF x \in DOMAIN buckets' THEN buckets'[x] = memory'[x]
                                               ELSE memory'[x].idle = Forever
    BY DEF KeptTrack
  <2>1. CASE x = k
    BY <2>1, <1>6, <1>8
  <2>2. CASE x # k /\ x \in out
    BY <2>2, <1>6, <1>7, <1>8
  <2>3. CASE x # k /\ x \notin out
    BY <2>3, <1>1, <1>6, <1>8 DEF KeptTrack
  <2> QED  BY <2>1, <2>2, <2>3
<1>10. /\ order' \in Seq(LimitKeys) /\ Len(rest) \in Nat /\ Len(order') = Len(rest) + 1
       /\ order'[Len(rest) + 1] = k
       /\ \A i \in 1 .. Len(rest) : order'[i] = rest[i]
  BY <1>5, <1>6, AppendProperties, LenProperties
<1>11. \A i \in 1 .. Len(rest) : memory'[rest[i]] = memory[rest[i]] /\ rest[i] \in LimitKeys
  BY <1>1, <1>5, <1>6
<1>12. OldestFirst'
  <2>1. ASSUME NEW x \in DOMAIN buckets' PROVE \E i \in 1 .. Len(order') : order'[i] = x
    <3>1. CASE x = k
      BY <3>1, <1>10
    <3>2. CASE x # k
      <4>1. PICK i \in 1 .. Len(rest) : rest[i] = x
        BY <3>2, <1>5, <1>8
      <4> QED  BY <4>1, <1>10
    <3> QED  BY <3>1, <3>2
  <2>2. ASSUME NEW i \in 1 .. Len(order') PROVE order'[i] \in DOMAIN buckets'
    <3>1. CASE i = Len(rest) + 1
      BY <3>1, <1>8, <1>10
    <3>2. CASE i \in 1 .. Len(rest)
      BY <3>2, <1>5, <1>8, <1>10
    <3> QED  BY <3>1, <3>2, <1>10
  <2>3. ASSUME NEW i \in 1 .. Len(order'), NEW j \in 1 .. Len(order'), i < j
        PROVE  memory'[order'[i]].idle >= memory'[order'[j]].idle
    <3>1. i \in 1 .. Len(rest)
      BY <2>3, <1>10
    <3>2. CASE j \in 1 .. Len(rest)
      BY <2>3, <3>1, <3>2, <1>5, <1>10, <1>11
    <3>3. CASE j = Len(rest) + 1
      <4>1. memory'[order'[j]].idle = 0
        BY <3>3, <1>2, <1>6, <1>10
      <4>2. memory'[order'[i]].idle \in Nat
        BY <3>1, <1>8, <1>10, <1>11 DEF Bucket
      <4> QED  BY <4>1, <4>2
    <3> QED  BY <3>2, <3>3, <1>10
  <2> QED  BY <2>1, <2>2, <2>3 DEF OldestFirst
<1> QED  BY <1>1, <1>8, <1>9, <1>10, <1>12

LEMMA LimitStep == LimitInv /\ [LimitNext]_limitVars => LimitInv'
<1> SUFFICES ASSUME LimitInv, [LimitNext]_limitVars PROVE LimitInv'
  OBVIOUS
<1>1. ASSUME UNCHANGED <<buckets, order, memory>>, limits' \in LimitSettings,
             DOMAIN asked' = LimitQueries,
             \A q \in LimitQueries : DOMAIN asked'[q] = {"at", "client"}
                                     /\ (asked'[q].at # "idle" => asked'[q].client \in DnsClients)
      PROVE  LimitInv'
  BY <1>1 DEF LimitInv, LimitTypes, KeptTrack, OldestFirst
<1>2. CASE UNCHANGED limitVars
  BY <1>1, <1>2 DEF limitVars, LimitInv, LimitTypes
<1>3. CASE LimitsChange
  BY <1>1, <1>3 DEF LimitsChange, LimitInv, LimitTypes
<1>4. ASSUME NEW q \in LimitQueries, Listen(q) \/ OverHttps(q) PROVE LimitInv'
  <2>1. PICK c \in DnsClients : asked' = [asked EXCEPT ![q] = [at |-> "resolve", client |-> c]]
    BY <1>4 DEF Listen, OverHttps
  <2> QED  BY <1>1, <1>4, <2>1 DEF Listen, OverHttps, LimitInv, LimitTypes
<1>5. ASSUME NEW q \in LimitQueries, QueryLeaves(q) PROVE LimitInv'
  BY <1>1, <1>5 DEF QueryLeaves, NotAsked, LimitInv, LimitTypes
<1>6. ASSUME NEW q \in LimitQueries, ResolveAdmits(q) PROVE LimitInv'
  <2> DEFINE c == asked[q].client
  <2>1. c \in DnsClients /\ limits' = limits /\ limits \in LimitSettings
    BY <1>6 DEF ResolveAdmits, LimitInv, LimitTypes
  <2>2. PICK how \in {"dropped", "served", "refused"} : Answers(q, how)
    BY <1>6 DEF ResolveAdmits
  <2>3. asked' = [asked EXCEPT ![q] = [asked[q] EXCEPT !.at = how]]
    BY <2>2 DEF Answers, LimitInv, LimitTypes
  <2>4. /\ DOMAIN asked' = LimitQueries
        /\ \A p \in LimitQueries : DOMAIN asked'[p] = {"at", "client"}
                                   /\ (asked'[p].at # "idle" => asked'[p].client \in DnsClients)
    BY <2>1, <2>3 DEF LimitInv, LimitTypes
  <2>5. CASE UNCHANGED <<buckets, order, memory>>
    BY <1>1, <2>1, <2>4, <2>5
  <2>6. CASE TakeToken(KeyOf(c), RateOf(c))
    <3>1. KeyOf(c) \in LimitKeys
      BY <2>1, LimitAssumption DEF KeyOf
    <3>2. RateOf(c) \in Rates
      BY <2>1 DEF RateOf, Rates
    <3> QED  BY <2>1, <2>4, <2>6, <3>1, <3>2, LimitTake DEF LimitInv, LimitTypes
  <2> QED  BY <1>6, <2>5, <2>6 DEF ResolveAdmits
<1>7. CASE LimitTick
  <2>1. /\ DOMAIN buckets' = DOMAIN buckets /\ memory' \in [LimitKeys -> Bucket]
        /\ \A k \in DOMAIN buckets : buckets'[k] = Older(buckets[k])
        /\ \A k \in LimitKeys : memory'[k] = Older(memory[k])
        /\ order' = order /\ DOMAIN buckets \subseteq LimitKeys
    BY <1>7, OlderType DEF LimitTick, LimitInv, LimitTypes
  <2>2. \A k \in LimitKeys : /\ memory[k].idle \in 0 .. Forever
                             /\ memory'[k].idle = AtMost(memory[k].idle + 1, Forever)
    BY <2>1, OlderType DEF LimitInv, LimitTypes, Bucket
  <2>3. Forever \in Nat
    BY LimitAssumption DEF Forever
  <2>4. KeptTrack'
    <3>1. \A k \in LimitKeys : memory[k].idle = Forever => memory'[k].idle = Forever
      BY <2>2, <2>3 DEF AtMost
    <3> QED  BY <2>1, <3>1 DEF KeptTrack, LimitInv
  <2>5. OldestFirst'
    <3>1. \A i \in 1 .. Len(order) : order[i] \in LimitKeys
      BY <2>1 DEF LimitInv, OldestFirst
    <3>2. ASSUME NEW x \in LimitKeys, NEW y \in LimitKeys, memory[x].idle >= memory[y].idle
          PROVE  memory'[x].idle >= memory'[y].idle
      BY <2>2, <2>3, <3>2 DEF AtMost
    <3> QED  BY <2>1, <3>1, <3>2 DEF LimitInv, OldestFirst
  <2> QED  BY <1>7, <2>1, <2>4, <2>5 DEF LimitTick, LimitInv, LimitTypes
<1>8. CASE Cleanup
  <2> DEFINE idled == {k \in DOMAIN buckets : Idled(k)}
             rest  == Keep(order, LimitKeys \ idled)
  <2>1. /\ buckets' = [k \in DOMAIN buckets \ idled |-> buckets[k]]
        /\ order' = rest /\ UNCHANGED <<limits, asked, memory>>
    BY <1>8 DEF Cleanup
  <2>2. /\ rest \in Seq(LimitKeys)
        /\ \A k \in DOMAIN buckets \ idled : \E i \in 1 .. Len(rest) : rest[i] = k
        /\ \A i \in 1 .. Len(rest) : rest[i] \in DOMAIN buckets \ idled
        /\ \A i, j \in 1 .. Len(rest) : i < j => memory[rest[i]].idle >= memory[rest[j]].idle
    BY OrderKept
  <2>3. ASSUME NEW k \in idled PROVE memory[k].idle = Forever
    <3>1. buckets[k] = memory[k] /\ memory[k].idle \in 0 .. Forever /\ buckets[k].idle > MaxIdle
      BY DEF LimitInv, LimitTypes, KeptTrack, Bucket, Idled
    <3> QED  BY <3>1, LimitAssumption DEF Forever
  <2> HIDE DEF idled, rest
  <2>4. KeptTrack'
    BY <2>1, <2>3 DEF KeptTrack, LimitInv
  <2>5. OldestFirst'
    BY <2>1, <2>2 DEF OldestFirst
  <2> QED  BY <2>1, <2>2, <2>4, <2>5 DEF LimitInv, LimitTypes
<1> QED  BY <1>2, <1>3, <1>4, <1>5, <1>6, <1>7, <1>8 DEF LimitNext

(* A client is limited as though its bucket had never been taken away by   *)
(* cleanup, and for lack of room allowAtRate forgets the bucket that has   *)
(* waited longest and no other: cleanup takes a bucket only when it would  *)
(* be full again at any rate, and the list is in the order of use.         *)
THEOREM NobodyForgottenEarly == LimitSpec => []LimitsAsThoughKept
<1>1. LimitInit => LimitInv
  <2> SUFFICES ASSUME LimitInit PROVE LimitInv
    OBVIOUS
  <2>1. DOMAIN buckets = {} /\ order = <<>> /\ Len(<<>>) = 0 /\ <<>> \in Seq(LimitKeys)
    BY DEF LimitInit
  <2>2. Unused \in Bucket /\ Unused.idle = Forever
    BY LimitAssumption DEF Unused, Bucket, Forever
  <2> QED
    BY <2>1, <2>2 DEF LimitInit, LimitInv, LimitTypes, KeptTrack, OldestFirst, NotAsked
<1> QED  BY <1>1, LimitStep, LimitsKept, PTL DEF LimitSpec

-----------------------------------------------------------------------------
(* EventStream: the ring is in the order of the IDs, and what a stream has *)
(* written is in that order up to lastID.                                  *)

Rising(s) == \A i, j \in 1 .. Len(s) : i < j => s[i] < s[j]

RingInv ==
  /\ idCounter \in 0 .. MaxEvents /\ unsent \subseteq 1 .. idCounter
  /\ ring \in Seq(Events) /\ Rising(ring)
  /\ \A i \in 1 .. Len(ring) : ring[i] <= idCounter

StreamTypes ==
  /\ step \in [Streams -> {"closed", "subscribe", "catchUp", "live", "ended"}]
  /\ header \in [Streams -> Headers \cup {None}] /\ lastID \in [Streams -> Int]
  /\ registered \in [Streams -> BOOLEAN]
  /\ chan \in [Streams -> Seq(Events)] /\ got \in [Streams -> Seq(Events)]
  /\ DOMAIN before = Streams /\ DOMAIN lost = Streams

\* Before it has caught up, a stream has written nothing.
WrittenInOrder ==
  \A s \in Streams :
    /\ step[s] \in {"closed", "subscribe", "catchUp"} => got[s] = <<>>
    /\ Rising(got[s])
    /\ \A i \in 1 .. Len(got[s]) : got[s][i] <= lastID[s]

StreamInv == RingInv /\ StreamTypes /\ WrittenInOrder

\* A sequence with one more, greater element; and one without its first.
LEMMA RisingAppend ==
  ASSUME NEW s \in Seq(Int), NEW e \in Int, Rising(s), \A i \in 1 .. Len(s) : s[i] < e
  PROVE  Rising(Append(s, e)) /\ \A i \in 1 .. Len(Append(s, e)) : Append(s, e)[i] <= e
<1>1. /\ Len(s) \in Nat /\ Len(Append(s, e)) = Len(s) + 1
      /\ Append(s, e)[Len(s) + 1] = e /\ \A i \in 1 .. Len(s) : Append(s, e)[i] = s[i]
      /\ \A i \in 1 .. Len(s) : s[i] \in Int
  BY AppendProperties, LenProperties, ElementOfSeq
<1> QED  BY <1>1 DEF Rising

LEMMA RisingTail ==
  ASSUME NEW s \in Seq(Int), s # <<>>, Rising(s)
  PROVE  Rising(Tail(s))
<1>1. /\ Len(s) \in Nat /\ Len(Tail(s)) = Len(s) - 1
      /\ \A i \in 1 .. Len(Tail(s)) : Tail(s)[i] = s[i + 1]
  BY HeadTailProperties, LenProperties
<1> QED  BY <1>1 DEF Rising

LEMMA EventsAreInt == Events \subseteq Int /\ \A s \in Seq(Events) : s \in Seq(Int)
<1>1. Events \subseteq Int
  BY DEF Events
<1>2. ASSUME NEW s \in Seq(Events) PROVE s \in Seq(Int)
  <2>1. Len(s) \in Nat /\ s \in [1 .. Len(s) -> Events]
    BY SeqDef, LenProperties
  <2>2. s \in [1 .. Len(s) -> Int]
    BY <1>1, <2>1
  <2> QED  BY <2>1, <2>2, SeqDef
<1> QED  BY <1>1, <1>2

\* What GetEventsAfter gives: events newer than the cursor in their order, all
\* of them up to the last one it gives, and none only when there is none.
LEMMA EventsAfterIs ==
  ASSUME RingInv, NEW cursor \in Int
  PROVE  LET page == EventsAfter(cursor)
         IN  /\ page \in Seq(Events) /\ Rising(page)
             /\ \A i \in 1 .. Len(page) : page[i] > cursor /\ page[i] <= Last(page)
             /\ \A i \in 1 .. Len(ring) : ring[i] > cursor =>
                  /\ page # <<>>
                  /\ (\E j \in 1 .. Len(page) : page[j] = ring[i]) \/ ring[i] > Last(page)
<1> DEFINE Later == {e \in Events : e > cursor}
           newer == Keep(ring, Later)
           n == Min({Len(newer), ScanLimit})
           page == SubSeq(newer, 1, n)
<1>1. /\ newer \in Seq(Events)
      /\ \A i \in 1 .. Len(newer) : newer[i] \in Later
      /\ \A a \in 1 .. Len(ring) : ring[a] \in Later => \E i \in 1 .. Len(newer) : newer[i] = ring[a]
      /\ \A i, j \in 1 .. Len(newer) : i < j =>
           \E a, b \in 1 .. Len(ring) : a < b /\ newer[i] = ring[a] /\ newer[j] = ring[b]
  <2>1. ring \in Seq(Events)
    BY DEF RingInv
  <2> HIDE DEF Later
  <2> QED  BY <2>1, KeepIs
<1> HIDE DEF newer
<1>2. Rising(newer)
  <2> SUFFICES ASSUME NEW i \in 1 .. Len(newer), NEW j \in 1 .. Len(newer), i < j
               PROVE  newer[i] < newer[j]
    BY DEF Rising
  <2>1. PICK a \in 1 .. Len(ring), b \in 1 .. Len(ring) :
               a < b /\ newer[i] = ring[a] /\ newer[j] = ring[b]
    BY <1>1
  <2> QED  BY <2>1 DEF RingInv, Rising
<1>3. /\ Len(newer) \in Nat /\ ScanLimit \in Nat \ {0}
      /\ \A i \in 1 .. Len(newer) : newer[i] \in Events /\ newer[i] \in Int
  BY <1>1, StreamAssumption, EventsAreInt, LenProperties, ElementOfSeq
<1>4. n \in Nat /\ n <= Len(newer) /\ (Len(newer) # 0 => n # 0)
  <2>1. Len(newer) \in Int /\ ScanLimit \in Int
    BY <1>3
  <2>2. n \in {Len(newer), ScanLimit} /\ n <= Len(newer)
    BY <2>1, MinOfTwo, Zenon
  <2> HIDE DEF n
  <2> QED  BY <1>3, <2>2
<1> HIDE DEF n
<1>5. /\ page \in Seq(Events) /\ Len(page) = n
      /\ \A i \in 1 .. n : page[i] = newer[i]
  <2>1. /\ page \in Seq(Events)
        /\ Len(page) = IF 1 <= n THEN n - 1 + 1 ELSE 0
        /\ \A i \in 1 .. n - 1 + 1 : page[i] = newer[1 + i - 1]
    BY <1>3, <1>4, SubSeqProperties
  <2> QED  BY <2>1, <1>4
<1>6. Rising(page)
  BY <1>2, <1>4, <1>5, <1>3 DEF Rising
<1>7. ASSUME NEW i \in 1 .. Len(page) PROVE page[i] > cursor /\ page[i] <= Last(page)
  <2>1. page[i] = newer[i] /\ i \in 1 .. Len(newer) /\ n \in 1 .. Len(newer) /\ Last(page) = newer[n]
    BY <1>4, <1>5, <1>3 DEF Last
  <2>2. i = n \/ newer[i] < newer[n]
    BY <2>1, <1>2, <1>5, <1>4 DEF Rising
  <2>3. newer[i] > cursor
    BY <2>1, <1>1
  <2> QED  BY <2>1, <2>2, <2>3, <1>3
<1>8. ASSUME NEW i \in 1 .. Len(ring), ring[i] > cursor
      PROVE  /\ page # <<>>
             /\ (\E j \in 1 .. Len(page) : page[j] = ring[i]) \/ ring[i] > Last(page)
  <2>1. ring[i] \in Later
    BY <1>8, ElementOfSeq DEF RingInv
  <2>2. PICK j \in 1 .. Len(newer) : newer[j] = ring[i]
    BY <2>1, <1>1
  <2>3. n # 0 /\ n \in 1 .. Len(newer)
    BY <1>3, <1>4
  <2>4. page # <<>>
    BY <2>3, <1>5, EmptySeq
  <2>5. CASE j <= n
    BY <2>2, <2>4, <2>5, <1>4, <1>5
  <2>6. CASE n < j
    <3>1. newer[n] < newer[j] /\ Last(page) = newer[n]
      BY <2>3, <2>6, <1>2, <1>4, <1>5 DEF Rising, Last
    <3>2. newer[n] \in Int /\ newer[j] \in Int
      BY <1>3, <2>3
    <3> QED  BY <2>2, <2>4, <3>1, <3>2
  <2> QED  BY <2>5, <2>6, <1>3, <1>4
<1>9. page = EventsAfter(cursor)
  BY DEF EventsAfter, newer, n
<1> HIDE DEF page
<1> QED  BY <1>5, <1>6, <1>7, <1>8, <1>9

LEMMA RingAdd ==
  ASSUME RingInv, AddEvent
  PROVE  /\ RingInv'
         /\ \A i \in 1 .. Len(ring') : ring'[i] = idCounter + 1
                                       \/ \E a \in 1 .. Len(ring) : ring'[i] = ring[a]
<1> DEFINE kept == IF Len(ring) = RingSize THEN Tail(ring) ELSE ring
           e == idCounter + 1
<1>1. /\ idCounter \in Nat /\ idCounter < MaxEvents /\ idCounter' = e /\ unsent' = unsent \cup {e}
      /\ ring' = Append(kept, e)
  BY DEF AddEvent, Store, RingInv
<1>2. e \in Events /\ e \in Int /\ MaxEvents \in Nat
  BY <1>1, StreamAssumption DEF Events
<1>3. /\ ring \in Seq(Events) /\ ring \in Seq(Int) /\ Rising(ring) /\ Len(ring) \in Nat
      /\ \A i \in 1 .. Len(ring) : ring[i] < e /\ ring[i] \in Int
  BY <1>1, EventsAreInt, LenProperties, ElementOfSeq DEF RingInv
<1>4. /\ kept \in Seq(Events) /\ kept \in Seq(Int) /\ Rising(kept) /\ Len(kept) \in Nat
      /\ \A i \in 1 .. Len(kept) : \E a \in 1 .. Len(ring) : kept[i] = ring[a]
  <2>1. CASE Len(ring) = RingSize
    <3>1. ring # <<>>
      BY <2>1, StreamAssumption, EmptySeq
    <3>2. /\ Tail(ring) \in Seq(Events) /\ Tail(ring) \in Seq(Int)
          /\ Len(Tail(ring)) = Len(ring) - 1
          /\ \A i \in 1 .. Len(Tail(ring)) : Tail(ring)[i] = ring[i + 1]
      BY <1>3, <3>1, HeadTailProperties
    <3>3. Rising(Tail(ring))
      BY <1>3, <3>1, RisingTail
    <3>4. \A i \in 1 .. Len(Tail(ring)) : i + 1 \in 1 .. Len(ring)
      BY <1>3, <3>2
    <3>5. Len(Tail(ring)) \in Nat
      BY <3>2, LenProperties
    <3> QED  BY <2>1, <3>2, <3>3, <3>4, <3>5
  <2>2. CASE Len(ring) # RingSize
    BY <2>2, <1>3
  <2> QED  BY <2>1, <2>2
<1> HIDE DEF kept
<1>5. Rising(Append(kept, e)) /\ \A i \in 1 .. Len(Append(kept, e)) : Append(kept, e)[i] <= e
  BY <1>2, <1>3, <1>4, RisingAppend
<1>6. /\ Append(kept, e) \in Seq(Events) /\ Len(Append(kept, e)) = Len(kept) + 1
      /\ Append(kept, e)[Len(kept) + 1] = e
      /\ \A i \in 1 .. Len(kept) : Append(kept, e)[i] = kept[i]
  BY <1>2, <1>4, AppendProperties
<1>7. unsent' \subseteq 1 .. e
  BY <1>1, <1>2 DEF RingInv
<1> HIDE DEF e
<1> QED
  <2>1. RingInv'
    <3>1. idCounter' \in 0 .. MaxEvents
      BY <1>1, <1>2 DEF e, RingInv
    <3> QED  BY <3>1, <1>1, <1>5, <1>6, <1>7 DEF RingInv
  <2>2. ASSUME NEW i \in 1 .. Len(ring')
        PROVE  ring'[i] = e \/ \E a \in 1 .. Len(ring) : ring'[i] = ring[a]
    <3>1. CASE i = Len(kept) + 1
      BY <3>1, <1>1, <1>6
    <3>2. CASE i \in 1 .. Len(kept)
      BY <3>2, <1>1, <1>4, <1>6
    <3> QED  BY <3>1, <3>2, <1>1, <1>4, <1>6
  <2> QED  BY <2>1, <2>2 DEF e

LEMMA StreamInit == Init => StreamInv
<1> SUFFICES ASSUME Init PROVE StreamInv
  OBVIOUS
<1>1. <<>> \in Seq(Events) /\ Len(<<>>) = 0
  OBVIOUS
<1> QED
  BY <1>1, StreamAssumption
     DEF Init, StreamInv, RingInv, StreamTypes, WrittenInOrder, Rising, None

LEMMA StreamStep == StreamInv /\ [Next]_vars => StreamInv'
<1> SUFFICES ASSUME StreamInv, [Next]_vars PROVE StreamInv'
  OBVIOUS
<1> USE DEF StreamInv
<1>1. ASSUME UNCHANGED ring, idCounter' \in 0 .. MaxEvents, idCounter' >= idCounter,
             unsent' \subseteq 1 .. idCounter'
      PROVE  RingInv'
  <2>1. \A i \in 1 .. Len(ring) : ring[i] \in Int
    BY EventsAreInt, ElementOfSeq DEF RingInv
  <2> QED  BY <1>1, <2>1 DEF RingInv, Rising
<1>2. ASSUME UNCHANGED streamVars PROVE StreamTypes' /\ WrittenInOrder'
  BY <1>2 DEF StreamTypes, WrittenInOrder, Rising, streamVars
<1>3. ASSUME UNCHANGED eventVars PROVE RingInv'
  BY <1>1, <1>3 DEF eventVars, RingInv
<1>4. CASE UNCHANGED vars
  BY <1>2, <1>3, <1>4 DEF vars
<1>5. CASE AddEvent
  BY <1>2, <1>5, RingAdd DEF AddEvent
<1>6. CASE AssignEventID
  <2>1. unsent' \subseteq 1 .. idCounter' /\ idCounter' \in 0 .. MaxEvents /\ idCounter' >= idCounter
    BY <1>6, StreamAssumption DEF AssignEventID, RingInv
  <2> QED  BY <1>1, <1>2, <1>6, <2>1 DEF AssignEventID
<1>7. ASSUME NEW e \in unsent, Broadcast(e) PROVE StreamInv'
  <2>1. RingInv'
    BY <1>1, <1>7 DEF Broadcast, RingInv
  <2>2. e \in Events
    BY StreamAssumption, <1>7 DEF RingInv, Events, Broadcast
  <2>3. StreamTypes'
    <3>1. \A s \in Streams : Append(chan[s], e) \in Seq(Events)
      BY <2>2, AppendProperties DEF StreamTypes
    <3>2. /\ chan' \in [Streams -> Seq(Events)] /\ registered' \in [Streams -> BOOLEAN]
          /\ DOMAIN lost' = Streams
      BY <1>7, <3>1 DEF Broadcast, ForgetExpelled, StreamTypes
    <3> QED  BY <1>7, <3>2 DEF Broadcast, StreamTypes
  <2>4. WrittenInOrder'
    BY <1>7 DEF Broadcast, WrittenInOrder, Rising
  <2> QED  BY <2>1, <2>3, <2>4
<1>8. ASSUME NEW s \in Streams, NEW h \in Headers \cup {None}, Open(s, h) PROVE StreamInv'
  <2>1. h \in Int
    BY DEF Headers, None
  <2>2. StreamTypes'
    BY <1>8, <2>1 DEF Open, StreamTypes, Advance, After
  <2>3. WrittenInOrder'
    <3>1. got[s] = <<>> /\ Len(<<>>) = 0
      BY <1>8 DEF Open, WrittenInOrder
    <3>2. /\ got' = got /\ step'[s] = "subscribe" /\ \A r \in Streams \ {s} : lastID'[r] = lastID[r] /\ step'[r] = step[r]
      BY <1>8 DEF Open, Advance, After, StreamTypes
    <3> QED  BY <3>1, <3>2 DEF WrittenInOrder, Rising
  <2> QED  BY <1>3, <1>8, <2>2, <2>3 DEF Open
<1>9. ASSUME NEW s \in Streams, Subscribe(s) PROVE StreamInv'
  <2>1. StreamTypes'
    BY <1>9 DEF Subscribe, StreamTypes, Advance, After
  <2>2. WrittenInOrder'
    <3>1. got' = got /\ lastID' = lastID /\ step[s] = "subscribe"
          /\ \A r \in Streams \ {s} : step'[r] = step[r]
      BY <1>9 DEF Subscribe, Advance, StreamTypes
    <3> QED  BY <3>1 DEF WrittenInOrder, Rising
  <2> QED  BY <1>3, <1>9, <2>1, <2>2 DEF Subscribe
<1>10. ASSUME NEW s \in Streams, CatchUp(s) PROVE StreamInv'
  <2> DEFINE page == EventsAfter(header[s])
  <2>1. header[s] \in Int
    BY DEF StreamTypes, Headers, None
  <2>2. /\ page \in Seq(Events) /\ Rising(page)
        /\ \A i \in 1 .. Len(page) : page[i] <= Last(page)
        /\ page # <<>> => Last(page) \in Int
    <3>1. page \in Seq(Events) /\ Rising(page) /\ \A i \in 1 .. Len(page) : page[i] <= Last(page)
      BY <2>1, EventsAfterIs
    <3> HIDE DEF page
    <3>2. ASSUME page # <<>> PROVE Last(page) \in Int
      <4>1. Len(page) \in 1 .. Len(page)
        BY <3>1, <3>2, EmptySeq, LenProperties
      <4> QED  BY <3>1, <4>1, ElementOfSeq, EventsAreInt DEF Last
    <3> QED  BY <3>1, <3>2
  <2> HIDE DEF page
  <2>3. /\ step[s] = "catchUp" /\ UNCHANGED <<eventVars, header, registered, chan, closed, drops, before>>
        /\ step' = [step EXCEPT ![s] = "live"]
        /\ \/ UNCHANGED <<got, lastID, lost>>
           \/ /\ page # <<>> /\ got' = [got EXCEPT ![s] = page]
              /\ lastID' = [lastID EXCEPT ![s] = Last(page)] /\ DOMAIN lost' = Streams
    BY <1>10 DEF CatchUp, Advance, After, StreamTypes, page
  <2>4. StreamTypes'
    BY <2>2, <2>3 DEF StreamTypes
  <2>5. WrittenInOrder'
    BY <2>2, <2>3 DEF WrittenInOrder, StreamTypes, Rising
  <2> QED  BY <1>3, <2>3, <2>4, <2>5
<1>11. ASSUME NEW s \in Streams, Receive(s) PROVE StreamInv'
  <2> DEFINE e == Head(chan[s])
  <2>1. /\ step[s] = "live" /\ chan[s] # <<>> /\ chan' = [chan EXCEPT ![s] = Tail(chan[s])]
        /\ UNCHANGED <<eventVars, step, header, registered, closed, drops, before, lost>>
        /\ \/ UNCHANGED <<got, lastID>>
           \/ /\ ~ e <= lastID[s] /\ got' = [got EXCEPT ![s] = Append(got[s], e)]
              /\ lastID' = [lastID EXCEPT ![s] = e]
    BY <1>11 DEF Receive, AlreadyWritten
  <2>2. e \in Events /\ Tail(chan[s]) \in Seq(Events) /\ e \in Int
    BY <2>1, HeadTailProperties, EventsAreInt DEF StreamTypes
  <2> HIDE DEF e
  <2>3. Append(got[s], e) \in Seq(Events) /\ got[s] \in Seq(Int) /\ lastID[s] \in Int
    BY <2>2, AppendProperties, EventsAreInt DEF StreamTypes
  <2>4. StreamTypes'
    BY <2>1, <2>2, <2>3 DEF StreamTypes
  <2>5. WrittenInOrder'
    <3>1. CASE UNCHANGED <<got, lastID>>
      BY <2>1, <3>1 DEF WrittenInOrder, Rising
    <3>2. CASE /\ ~ e <= lastID[s] /\ got' = [got EXCEPT ![s] = Append(got[s], e)]
               /\ lastID' = [lastID EXCEPT ![s] = e]
      <4>1. \A i \in 1 .. Len(got[s]) : got[s][i] < e
        <5>1. \A i \in 1 .. Len(got[s]) : got[s][i] \in Int /\ got[s][i] <= lastID[s]
          BY <2>3, ElementOfSeq DEF WrittenInOrder
        <5> QED  BY <5>1, <3>2, <2>2, <2>3
      <4>2. Rising(Append(got[s], e)) /\ \A i \in 1 .. Len(Append(got[s], e)) : Append(got[s], e)[i] <= e
        BY <4>1, <2>2, <2>3, RisingAppend DEF WrittenInOrder
      <4> QED  BY <2>1, <3>2, <4>2 DEF WrittenInOrder, StreamTypes, Rising
    <3> QED  BY <2>1, <3>1, <3>2
  <2> QED  BY <1>3, <2>1, <2>4, <2>5
<1>12. ASSUME NEW s \in Streams, End(s) PROVE StreamInv'
  <2>1. StreamTypes'
    BY <1>12 DEF End, StreamTypes
  <2>2. WrittenInOrder'
    BY <1>12 DEF End, WrittenInOrder, StreamTypes, Rising
  <2> QED  BY <1>3, <1>12, <2>1, <2>2 DEF End
<1> QED
  BY <1>4, <1>5, <1>6, <1>7, <1>8, <1>9, <1>10, <1>11, <1>12 DEF Next, Stream, StreamInv

\* The client of a stream gets its events in the order of their IDs, each once:
\* handleStream leaves out what is not newer than the last event it wrote, and
\* what it reads from the ring is in order.
THEOREM ClientsReadInOrder == Spec => []StreamInOrder
<1>1. Init => StreamInv
  BY StreamInit
<1>2. StreamInv => StreamInOrder
  <2> SUFFICES ASSUME StreamInv, NEW s \in Streams
               PROVE  \A i, j \in DOMAIN got[s] : i < j => got[s][i] < got[s][j]
    BY DEF StreamInOrder
  <2>1. DOMAIN got[s] = 1 .. Len(got[s])
    BY LenProperties DEF StreamInv, StreamTypes
  <2> QED  BY <2>1 DEF StreamInv, WrittenInOrder, Rising
<1> QED  BY <1>1, <1>2, StreamStep, PTL DEF Spec

-----------------------------------------------------------------------------
(* EventStream: what reaches a stream.                                     *)

Holds(s, e) == \E i \in 1 .. Len(s) : s[i] = e

InRing(e) == \E i \in 1 .. Len(ring) : ring[i] = e

\* Expected, by places of the ring.
Due(s, e) == InRing(e) /\ e \notin unsent /\ e \notin before[s] /\ e \notin lost[s]

Reached(s, e) == Holds(got[s], e) \/ Holds(chan[s], e) \/ e < lastID[s]

\* A stream without Last-Event-ID has everything it can expect in its channel
\* from its subscription on; another has read the rest from the ring before its
\* loop begins.
StreamReached ==
  \A s \in Streams :
    /\ step[s] \in {"catchUp", "live"} /\ header[s] # None => before[s] = 1 .. header[s]
    /\ lastID[s] = header[s] \/ Holds(got[s], lastID[s])
    /\ step[s] = "catchUp" /\ header[s] = None /\ registered[s] =>
         \A e \in Events : Due(s, e) => Holds(chan[s], e)
    /\ step[s] = "live" /\ registered[s] => \A e \in Events : Due(s, e) => Reached(s, e)

LEMMA HoldsAppend ==
  ASSUME NEW s \in Seq(Events), NEW e \in Events
  PROVE  Holds(Append(s, e), e) /\ \A x : Holds(s, x) => Holds(Append(s, e), x)
<1>1. /\ Len(s) \in Nat /\ Len(Append(s, e)) = Len(s) + 1
      /\ Append(s, e)[Len(s) + 1] = e /\ \A i \in 1 .. Len(s) : Append(s, e)[i] = s[i]
  BY AppendProperties, LenProperties
<1> QED  BY <1>1 DEF Holds

LEMMA HoldsTail ==
  ASSUME NEW s \in Seq(Events), s # <<>>
  PROVE  \A x : Holds(s, x) => x = Head(s) \/ Holds(Tail(s), x)
<1>1. /\ Len(s) \in Nat /\ Len(Tail(s)) = Len(s) - 1 /\ Head(s) = s[1]
      /\ \A i \in 1 .. Len(Tail(s)) : Tail(s)[i] = s[i + 1]
  BY HeadTailProperties, LenProperties
<1>2. ASSUME NEW x, NEW i \in 1 .. Len(s), s[i] = x, i # 1
      PROVE  Holds(Tail(s), x)
  <2>1. i - 1 \in 1 .. Len(Tail(s)) /\ Tail(s)[i - 1] = x
    BY <1>1, <1>2
  <2> QED  BY <2>1 DEF Holds
<1> QED  BY <1>1, <1>2 DEF Holds

\* What one of two sequences holds is in the range of the two together.
LEMMA HoldsConcat ==
  ASSUME NEW s \in Seq(Events), NEW t \in Seq(Events), NEW e, Holds(s, e) \/ Holds(t, e)
  PROVE  e \in Range(s \o t)
<1>1. /\ Len(s) \in Nat /\ Len(t) \in Nat
      /\ s \o t \in Seq(Events) /\ Len(s \o t) = Len(s) + Len(t)
      /\ \A i \in 1 .. Len(s) + Len(t) :
           (s \o t)[i] = IF i <= Len(s) THEN s[i] ELSE t[i - Len(s)]
  BY ConcatProperties, LenProperties
<1> DEFINE st == s \o t
<1>2. DOMAIN st = 1 .. Len(s) + Len(t)
  BY <1>1, LenProperties
<1> HIDE DEF st
<1>3. ASSUME NEW i \in 1 .. Len(s), s[i] = e PROVE e \in Range(st)
  <2>1. i \in 1 .. Len(s) + Len(t) /\ i <= Len(s)
    BY <1>1
  <2>2. st[i] = e
    BY <1>1, <1>3, <2>1 DEF st
  <2> QED  BY <1>2, <2>1, <2>2 DEF Range
<1>4. ASSUME NEW i \in 1 .. Len(t), t[i] = e PROVE e \in Range(st)
  <2>1. /\ i + Len(s) \in 1 .. Len(s) + Len(t) /\ ~ i + Len(s) <= Len(s)
        /\ (i + Len(s)) - Len(s) = i
    BY <1>1
  <2>2. st[i + Len(s)] = e
    BY <1>1, <1>4, <2>1 DEF st
  <2> QED  BY <1>2, <2>1, <2>2 DEF Range
<1> QED  BY <1>3, <1>4 DEF Holds, st

\* A stream of which nothing changes but what can be expected of it.
LEMMA ReachedStill ==
  ASSUME StreamReached, UNCHANGED <<step, header, lastID, got, before, chan>>,
         NEW s \in Streams, registered'[s] => registered[s],
         \A e \in Events : Due(s, e)' => Due(s, e)
  PROVE  /\ step'[s] \in {"catchUp", "live"} /\ header'[s] # None => before'[s] = 1 .. header'[s]
         /\ lastID'[s] = header'[s] \/ Holds(got'[s], lastID'[s])
         /\ step'[s] = "catchUp" /\ header'[s] = None /\ registered'[s] =>
              \A e \in Events : Due(s, e)' => Holds(chan'[s], e)
         /\ step'[s] = "live" /\ registered'[s] => \A e \in Events : Due(s, e)' => Reached(s, e)'
  BY DEF StreamReached, Reached

LEMMA ReachedAdd ==
  ASSUME StreamInv, StreamReached, AddEvent
  PROVE  StreamReached'
<1>1. UNCHANGED streamVars /\ unsent' = unsent \cup {idCounter + 1}
  BY DEF AddEvent
<1>2. ASSUME NEW s \in Streams, NEW e \in Events, Due(s, e)' PROVE Due(s, e)
  <2>1. e # idCounter + 1 /\ e \notin unsent /\ e \notin before[s] /\ e \notin lost[s]
    BY <1>1, <1>2 DEF Due, streamVars
  <2>2. PICK i \in 1 .. Len(ring') : ring'[i] = e
    BY <1>2 DEF Due, InRing
  <2>3. InRing(e)
    BY <2>1, <2>2, RingAdd DEF InRing, StreamInv
  <2> QED  BY <2>1, <2>3 DEF Due
<1> QED  BY <1>1, <1>2, ReachedStill DEF StreamReached, streamVars

LEMMA ReachedAssign ==
  ASSUME StreamReached, AssignEventID
  PROVE  StreamReached'
<1>1. ASSUME NEW s \in Streams, NEW e \in Events, Due(s, e)' PROVE Due(s, e)
  BY <1>1 DEF AssignEventID, Due, InRing, streamVars
<1> QED  BY <1>1, ReachedStill DEF StreamReached, AssignEventID, streamVars

LEMMA ReachedBroadcast ==
  ASSUME StreamInv, StreamReached, NEW b \in unsent, Broadcast(b)
  PROVE  StreamReached'
<1>1. /\ UNCHANGED <<ring, step, header, lastID, got, before>> /\ unsent' = unsent \ {b}
      /\ chan \in [Streams -> Seq(Events)] /\ b \in Events
  <2>1. b \in 1 .. idCounter /\ idCounter \in 0 .. MaxEvents
    BY DEF StreamInv, RingInv
  <2>2. b \in Events
    BY <2>1, StreamAssumption DEF Events
  <2>3. chan \in [Streams -> Seq(Events)]
    BY DEF StreamInv, StreamTypes
  <2> QED  BY <2>2, <2>3 DEF Broadcast
<1>2. ASSUME NEW s \in Streams, registered'[s]
      PROVE  /\ registered[s]
             /\ Full(s) => chan'[s] = chan[s] /\ lost'[s] = lost[s] \cup {b}
             /\ ~Full(s) => chan'[s] = Append(chan[s], b) /\ lost'[s] = lost[s]
  BY <1>2 DEF Broadcast, ForgetExpelled
<1>3. ASSUME NEW s \in Streams, registered'[s], NEW e \in Events, Due(s, e)'
      PROVE  Due(s, e) \/ Holds(chan'[s], e)
  <2>1. InRing(e) /\ (e \notin unsent \/ e = b) /\ e \notin before[s] /\ e \notin lost'[s]
    BY <1>1, <1>3 DEF Due, InRing
  <2>2. e \notin lost[s]
    BY <1>2, <1>3, <2>1
  <2>3. CASE e = b
    <3>1. chan'[s] = Append(chan[s], b)
      BY <1>2, <1>3, <2>1, <2>3
    <3> QED  BY <1>1, <2>3, <3>1, HoldsAppend
  <2>4. CASE e \notin unsent
    BY <2>1, <2>2, <2>4 DEF Due
  <2> QED  BY <2>1, <2>3, <2>4
<1>4. ASSUME NEW s \in Streams, registered'[s], NEW e, Holds(chan[s], e)
      PROVE  Holds(chan'[s], e)
  <2>1. chan[s] \in Seq(Events) /\ b \in Events
    BY <1>1
  <2>2. chan'[s] = chan[s] \/ chan'[s] = Append(chan[s], b)
    BY <1>2, <1>4
  <2>3. Holds(Append(chan[s], b), e)
    BY <2>1, <1>4, HoldsAppend
  <2> QED  BY <1>4, <2>2, <2>3
<1>5. ASSUME NEW s \in Streams
      PROVE  /\ step'[s] \in {"catchUp", "live"} /\ header'[s] # None => before'[s] = 1 .. header'[s]
             /\ lastID'[s] = header'[s] \/ Holds(got'[s], lastID'[s])
  BY <1>1 DEF StreamReached
<1>6. ASSUME NEW s \in Streams, step'[s] = "catchUp", header'[s] = None, registered'[s],
             NEW e \in Events, Due(s, e)'
      PROVE  Holds(chan'[s], e)
  BY <1>1, <1>2, <1>3, <1>4, <1>6 DEF StreamReached
<1>7. ASSUME NEW s \in Streams, step'[s] = "live", registered'[s],
             NEW e \in Events, Due(s, e)'
      PROVE  Reached(s, e)'
  BY <1>1, <1>2, <1>3, <1>4, <1>7 DEF StreamReached, Reached
<1> QED  BY <1>5, <1>6, <1>7 DEF StreamReached

\* What the others have or can expect does not change when one stream moves.
OthersStill(s) ==
  /\ UNCHANGED <<ring, unsent>>
  /\ \A r \in Streams \ {s} :
       /\ step'[r] = step[r] /\ header'[r] = header[r] /\ lastID'[r] = lastID[r]
       /\ got'[r] = got[r] /\ before'[r] = before[r] /\ lost'[r] = lost[r]
       /\ chan'[r] = chan[r] /\ registered'[r] = registered[r]

LEMMA ReachedOthers ==
  ASSUME StreamReached, NEW s \in Streams, OthersStill(s),
         step'[s] \in {"catchUp", "live"} /\ header'[s] # None => before'[s] = 1 .. header'[s],
         lastID'[s] = header'[s] \/ Holds(got'[s], lastID'[s]),
         step'[s] = "catchUp" /\ header'[s] = None /\ registered'[s] =>
           \A e \in Events : Due(s, e)' => Holds(chan'[s], e),
         step'[s] = "live" /\ registered'[s] => \A e \in Events : Due(s, e)' => Reached(s, e)'
  PROVE  StreamReached'
<1>1. ASSUME NEW r \in Streams \ {s}
      PROVE  /\ step'[r] \in {"catchUp", "live"} /\ header'[r] # None => before'[r] = 1 .. header'[r]
             /\ lastID'[r] = header'[r] \/ Holds(got'[r], lastID'[r])
             /\ step'[r] = "catchUp" /\ header'[r] = None /\ registered'[r] =>
                  \A e \in Events : Due(r, e)' => Holds(chan'[r], e)
             /\ step'[r] = "live" /\ registered'[r] => \A e \in Events : Due(r, e)' => Reached(r, e)'
  <2>1. /\ step'[r] = step[r] /\ header'[r] = header[r] /\ lastID'[r] = lastID[r]
        /\ got'[r] = got[r] /\ before'[r] = before[r]
        /\ chan'[r] = chan[r] /\ registered'[r] = registered[r]
    BY DEF OthersStill
  <2>2. /\ step[r] \in {"catchUp", "live"} /\ header[r] # None => before[r] = 1 .. header[r]
        /\ lastID[r] = header[r] \/ Holds(got[r], lastID[r])
        /\ step[r] = "catchUp" /\ header[r] = None /\ registered[r] =>
             \A e \in Events : Due(r, e) => Holds(chan[r], e)
        /\ step[r] = "live" /\ registered[r] => \A e \in Events : Due(r, e) => Reached(r, e)
    BY DEF StreamReached
  <2>3. ASSUME NEW e \in Events, Due(r, e)'
        PROVE  Due(r, e) /\ (Reached(r, e) => Reached(r, e)')
    BY <2>1, <2>3 DEF OthersStill, Due, InRing, Reached
  <2>4. \A e : /\ Holds(chan[r], e) => Holds(chan'[r], e)
               /\ Holds(got[r], e) => Holds(got'[r], e)
    BY <2>1 DEF Holds
  <2>5. ASSUME step'[r] = "catchUp", header'[r] = None, registered'[r], NEW e \in Events, Due(r, e)'
        PROVE  Holds(chan'[r], e)
    BY <2>1, <2>2, <2>3, <2>4, <2>5
  <2>6. ASSUME step'[r] = "live", registered'[r], NEW e \in Events, Due(r, e)'
        PROVE  Reached(r, e)'
    BY <2>1, <2>2, <2>3, <2>6
  <2>7. lastID'[r] = header'[r] \/ Holds(got'[r], lastID'[r])
    BY <2>1, <2>2
  <2>8. step'[r] \in {"catchUp", "live"} /\ header'[r] # None => before'[r] = 1 .. header'[r]
    BY <2>1, <2>2
  <2> QED  BY <2>5, <2>6, <2>7, <2>8
<1> SUFFICES ASSUME NEW r \in Streams
             PROVE  /\ step'[r] \in {"catchUp", "live"} /\ header'[r] # None => before'[r] = 1 .. header'[r]
                    /\ lastID'[r] = header'[r] \/ Holds(got'[r], lastID'[r])
                    /\ step'[r] = "catchUp" /\ header'[r] = None /\ registered'[r] =>
                         \A e \in Events : Due(r, e)' => Holds(chan'[r], e)
                    /\ step'[r] = "live" /\ registered'[r] => \A e \in Events : Due(r, e)' => Reached(r, e)'
  BY DEF StreamReached
<1>2. CASE r = s
  BY <1>2
<1>3. CASE r # s
  BY <1>1, <1>3
<1> QED  BY <1>2, <1>3

LEMMA ReachedOpen ==
  ASSUME StreamInv, StreamReached, NEW s \in Streams, NEW h, Open(s, h)
  PROVE  StreamReached'
<1>1. /\ OthersStill(s) /\ step'[s] = "subscribe" /\ lastID'[s] = header'[s]
  BY DEF Open, OthersStill, Advance, After, StreamInv, StreamTypes, eventVars
<1> QED  BY <1>1, ReachedOthers

LEMMA ReachedSubscribe ==
  ASSUME StreamInv, StreamReached, NEW s \in Streams, Subscribe(s)
  PROVE  StreamReached'
<1>1. /\ OthersStill(s) /\ step'[s] = "catchUp"
      /\ UNCHANGED <<ring, unsent, header, chan, lastID, got, lost>>
      /\ before'[s] = IF header[s] = None THEN (1 .. idCounter) \ unsent ELSE 1 .. header[s]
  BY DEF Subscribe, OthersStill, Advance, After, StreamInv, StreamTypes, eventVars
<1>2. lastID'[s] = header'[s] \/ Holds(got'[s], lastID'[s])
  BY <1>1 DEF StreamReached
<1>3. ASSUME header'[s] = None, NEW e \in Events, Due(s, e)' PROVE FALSE
  <2>1. InRing(e) /\ e \notin unsent /\ e \notin (1 .. idCounter) \ unsent
    BY <1>1, <1>3 DEF Due, InRing
  <2>2. e \in 1 .. idCounter
    BY <2>1 DEF InRing, StreamInv, RingInv, Events
  <2> QED  BY <2>1, <2>2
<1> QED  BY <1>1, <1>2, <1>3, ReachedOthers

LEMMA ReachedCatchUp ==
  ASSUME StreamInv, StreamReached, NEW s \in Streams, CatchUp(s)
  PROVE  StreamReached'
<1> DEFINE page == EventsAfter(header[s])
<1>0. header[s] \in Int
  BY DEF StreamInv, StreamTypes, Headers, None
<1>1. /\ page \in Seq(Events)
      /\ \A i \in 1 .. Len(ring) : ring[i] > header[s] =>
           /\ page # <<>>
           /\ (\E j \in 1 .. Len(page) : page[j] = ring[i]) \/ ring[i] > Last(page)
  BY <1>0, EventsAfterIs DEF StreamInv
<1> HIDE DEF page
<1>2. /\ OthersStill(s) /\ step[s] = "catchUp" /\ step'[s] = "live"
      /\ UNCHANGED <<ring, unsent, header, registered, chan, before>>
      /\ \/ /\ header[s] = None \/ page = <<>>
            /\ UNCHANGED <<got, lastID, lost>>
         \/ /\ header[s] # None /\ page # <<>>
            /\ got'[s] = page /\ lastID'[s] = Last(page)
            /\ lost'[s] = lost[s] \cup {e \in Range(ring) : e > Last(page)}
  BY DEF CatchUp, OthersStill, Advance, After, StreamInv, StreamTypes, eventVars, page
<1>3. header'[s] # None => before'[s] = 1 .. header'[s]
  BY <1>2 DEF StreamReached
<1>4. CASE header[s] = None /\ UNCHANGED <<got, lastID, lost>>
  <2>1. \A e \in Events : Due(s, e)' => Due(s, e)
    BY <1>2, <1>4 DEF Due, InRing
  <2>2. registered'[s] => \A e \in Events : Due(s, e)' => Reached(s, e)'
    BY <1>2, <1>4, <2>1 DEF StreamReached, Reached
  <2>3. lastID'[s] = header'[s] \/ Holds(got'[s], lastID'[s])
    BY <1>2, <1>4 DEF StreamReached
  <2> QED  BY <1>2, <1>3, <2>2, <2>3, ReachedOthers
<1>5. ASSUME header[s] # None, NEW e \in Events, Due(s, e)'
      PROVE  \E i \in 1 .. Len(ring) : ring[i] = e /\ ring[i] > header[s]
  <2>1. PICK i \in 1 .. Len(ring) : ring[i] = e
    BY <1>2, <1>5 DEF Due, InRing
  <2>2. e \notin 1 .. header[s]
    BY <1>2, <1>3, <1>5 DEF Due
  <2>3. e > header[s]
    BY <1>0, <2>2 DEF Events
  <2> QED  BY <2>1, <2>3
<1>6. CASE header[s] # None /\ page = <<>> /\ UNCHANGED <<got, lastID, lost>>
  <2>1. \A e \in Events : ~Due(s, e)'
    BY <1>1, <1>5, <1>6
  <2>2. lastID'[s] = header'[s] \/ Holds(got'[s], lastID'[s])
    BY <1>2, <1>6 DEF StreamReached
  <2> QED  BY <1>2, <1>3, <2>1, <2>2, ReachedOthers
<1>7. CASE /\ header[s] # None /\ page # <<>>
           /\ got'[s] = page /\ lastID'[s] = Last(page)
           /\ lost'[s] = lost[s] \cup {e \in Range(ring) : e > Last(page)}
  <2>1. Holds(got'[s], lastID'[s])
    <3>1. Len(page) \in 1 .. Len(page)
      BY <1>1, <1>7, EmptySeq, LenProperties
    <3> QED  BY <1>7, <3>1 DEF Holds, Last
  <2>2. ASSUME NEW e \in Events, Due(s, e)' PROVE Reached(s, e)'
    <3>1. PICK i \in 1 .. Len(ring) : ring[i] = e /\ ring[i] > header[s]
      BY <1>5, <1>7, <2>2
    <3>2. (\E j \in 1 .. Len(page) : page[j] = e) \/ e > Last(page)
      BY <1>1, <3>1
    <3>3. e \in Range(ring)
      BY <3>1, LenProperties DEF Range, StreamInv, RingInv
    <3>4. ~ e > Last(page)
      BY <1>7, <2>2, <3>3 DEF Due
    <3> QED  BY <1>7, <3>2, <3>4 DEF Reached, Holds
  <2> QED  BY <1>2, <1>3, <2>1, <2>2, ReachedOthers
<1> QED  BY <1>2, <1>4, <1>6, <1>7

LEMMA ReachedReceive ==
  ASSUME StreamInv, StreamReached, NEW s \in Streams, Receive(s)
  PROVE  StreamReached'
<1> DEFINE e == Head(chan[s])
<1>1. /\ OthersStill(s) /\ step[s] = "live" /\ step'[s] = "live" /\ chan[s] # <<>>
      /\ chan'[s] = Tail(chan[s]) /\ UNCHANGED <<ring, unsent, header, registered, before, lost>>
      /\ \/ e <= lastID[s] /\ UNCHANGED <<got, lastID>>
         \/ ~ e <= lastID[s] /\ got'[s] = Append(got[s], e) /\ lastID'[s] = e
  BY DEF Receive, AlreadyWritten, OthersStill, StreamInv, StreamTypes, eventVars
<1>2. chan[s] \in Seq(Events) /\ got[s] \in Seq(Events) /\ e \in Events /\ e \in Int /\ lastID[s] \in Int
  BY <1>1, HeadTailProperties, EventsAreInt DEF StreamInv, StreamTypes
<1>3. \A x : Holds(chan[s], x) => x = e \/ Holds(chan'[s], x)
  BY <1>1, <1>2, HoldsTail
<1>4. header'[s] # None => before'[s] = 1 .. header'[s]
  BY <1>1 DEF StreamReached
<1> HIDE DEF e
<1>5. \A x \in Events : Due(s, x)' => Due(s, x)
  BY <1>1 DEF Due, InRing
<1>6. CASE e <= lastID[s] /\ UNCHANGED <<got, lastID>>
  <2>1. lastID'[s] = header'[s] \/ Holds(got'[s], lastID'[s])
    BY <1>1, <1>6 DEF StreamReached
  <2>2. Due(s, e) => e < lastID[s] \/ Holds(got[s], e)
    <3> SUFFICES ASSUME Due(s, e), e = lastID[s], lastID[s] = header[s] PROVE FALSE
      BY <1>2, <1>6 DEF StreamReached
    <3>1. header[s] # None
      BY <1>2, StreamAssumption DEF None, Events
    <3>2. e \in before[s]
      BY <1>1, <1>2, <3>1 DEF StreamReached, Events
    <3> QED  BY <3>2 DEF Due
  <2>3. registered'[s] => \A x \in Events : Due(s, x)' => Reached(s, x)'
    <3> SUFFICES ASSUME registered'[s], NEW x \in Events, Due(s, x)' PROVE Reached(s, x)'
      OBVIOUS
    <3>1. Reached(s, x) /\ Due(s, x)
      BY <1>1, <1>5 DEF StreamReached
    <3>2. CASE x = e
      BY <1>6, <2>2, <3>1, <3>2 DEF Reached
    <3>3. CASE x # e
      BY <1>3, <1>6, <3>1, <3>3 DEF Reached
    <3> QED  BY <3>2, <3>3
  <2> QED  BY <1>1, <1>4, <2>1, <2>3, ReachedOthers
<1>7. CASE ~ e <= lastID[s] /\ got'[s] = Append(got[s], e) /\ lastID'[s] = e
  <2>1. Holds(got'[s], e) /\ \A x : Holds(got[s], x) => Holds(got'[s], x)
    BY <1>2, <1>7, HoldsAppend
  <2>2. registered'[s] => \A x \in Events : Due(s, x)' => Reached(s, x)'
    <3> SUFFICES ASSUME registered'[s], NEW x \in Events, Due(s, x)' PROVE Reached(s, x)'
      OBVIOUS
    <3>1. Reached(s, x)
      BY <1>1, <1>5 DEF StreamReached
    <3>2. x \in Int
      BY EventsAreInt
    <3>3. x < lastID[s] => x < lastID'[s]
      BY <1>2, <1>7, <3>2
    <3> QED  BY <1>3, <2>1, <3>1, <3>3 DEF Reached
  <2> QED  BY <1>1, <1>4, <1>7, <2>1, <2>2, ReachedOthers
<1> QED  BY <1>1, <1>6, <1>7

LEMMA ReachedStep == StreamInv /\ StreamReached /\ [Next]_vars => StreamReached'
<1> SUFFICES ASSUME StreamInv, StreamReached, [Next]_vars PROVE StreamReached'
  OBVIOUS
<1>1. CASE UNCHANGED vars
  <2>1. \A s \in Streams, e \in Events : Due(s, e)' => Due(s, e)
    BY <1>1 DEF vars, eventVars, streamVars, Due, InRing
  <2> QED  BY <1>1, <2>1, ReachedStill DEF vars, eventVars, streamVars, StreamReached
<1>2. ASSUME NEW s \in Streams, End(s) PROVE StreamReached'
  <2>1. OthersStill(s) /\ step'[s] = "ended" /\ UNCHANGED <<header, lastID, got>>
    BY <1>2 DEF End, OthersStill, StreamInv, StreamTypes, eventVars
  <2> QED  BY <2>1, ReachedOthers DEF StreamReached
<1> QED
  BY <1>1, <1>2, ReachedAdd, ReachedAssign, ReachedBroadcast, ReachedOpen, ReachedSubscribe,
     ReachedCatchUp, ReachedReceive DEF Next, Stream

\* Nothing falls between the ring and the live events: handleStream subscribes
\* before it reads the ring, so that what is broadcast after the subscription is
\* in the channel and what was before is in the ring or too old to be expected.
THEOREM NothingFallsBetween == Spec => []StreamComplete
<1>1. Init => StreamReached
  BY DEF Init, StreamReached
<1>2. StreamInv /\ StreamReached => StreamComplete
  <2> SUFFICES ASSUME StreamInv, StreamReached, NEW s \in Streams, step[s] = "live", registered[s],
                      NEW e \in Expected(s)
               PROVE  e \in Range(got[s] \o chan[s]) \/ e < lastID[s]
    BY DEF StreamComplete
  <2>1. Due(s, e) /\ e \in Events
    <3>1. e \in Range(ring) /\ e \notin unsent \cup before[s] \cup lost[s]
      BY DEF Expected
    <3>2. PICK i \in 1 .. Len(ring) : ring[i] = e
      BY <3>1, LenProperties DEF Range, StreamInv, RingInv
    <3> QED  BY <3>1, <3>2, ElementOfSeq DEF Due, InRing, StreamInv, RingInv
  <2>2. Reached(s, e)
    BY <2>1 DEF StreamReached
  <2>3. got[s] \in Seq(Events) /\ chan[s] \in Seq(Events)
    BY DEF StreamInv, StreamTypes
  <2> QED  BY <2>2, <2>3, HoldsConcat DEF Reached
<1>3. Init => StreamInv
  BY StreamInit
<1> QED  BY <1>1, <1>2, <1>3, StreamStep, ReachedStep, PTL DEF Spec

-----------------------------------------------------------------------------
(* DnsPipeline: the store of rewrites. What an edit may do to it depends   *)
(* on how far it has come: memory is ahead of the file when the edit may   *)
(* be undone, and behind it when it is still to be published.              *)

RuleTypes ==
    /\ rules \subseteq RuleUniverse /\ ruleFile \subseteq RuleUniverse
    /\ ruleEdit \in [at : {"none", "save", "publish"}, kind : {"none", "undo", "publish"},
                     set : SUBSET RuleUniverse]

EditMatchesFile ==
    /\ ruleEdit.at = "none" => ruleEdit = NoEdit
    /\ ruleEdit.at = "save" /\ ruleEdit.kind = "undo" /\ ~ ruleFileDiffers => ruleEdit.set = ruleFile
    /\ ruleEdit.at = "save" /\ ruleEdit.kind # "undo" /\ ~ ruleFileDiffers => rules = ruleFile
    /\ ruleEdit.at = "publish" => ruleEdit.set = ruleFile /\ ~ ruleFileDiffers

EditInv == RuleTypes /\ EditMatchesFile /\ RewritesMatchFile

LEMMA EditInit == PipelineInit => EditInv
  BY DEF PipelineInit, EditInv, RuleTypes, EditMatchesFile, RewritesMatchFile, NoEdit

LEMMA EditStep == EditInv /\ [PipelineNext]_pipelineVars => EditInv'
<1> SUFFICES ASSUME EditInv, [PipelineNext]_pipelineVars PROVE EditInv'
  OBVIOUS
<1> USE DEF EditInv, RuleTypes, EditMatchesFile, RewritesMatchFile, NoEdit
<1>1. CASE UNCHANGED ruleVars
  BY <1>1 DEF ruleVars
<1>2. CASE AddRule \/ DeleteRule
  BY <1>2 DEF AddRule, DeleteRule, Undoable, EditBegins
<1>3. CASE UpdateRule \/ ReplaceRules
  <2>1. PICK set \in SUBSET RuleUniverse : ToPublish(set)
    BY <1>3, PipelineAssumption DEF UpdateRule, ReplaceRules
  <2> QED  BY <1>3, <2>1 DEF UpdateRule, ReplaceRules, ToPublish, EditBegins
<1>4. CASE SaveRules
  <2>1. CASE ruleEdit.kind = "publish"
    <3>1. /\ ruleEdit' = [ruleEdit EXCEPT !.at = "publish"]
          /\ ruleFile' = ruleEdit.set /\ ~ ruleFileDiffers'
      BY <1>4, <2>1 DEF SaveRules, SavedSet
    <3> QED  BY <1>4, <3>1 DEF SaveRules
  <2>2. CASE ruleEdit.kind # "publish"
    BY <1>4, <2>2 DEF SaveRules, SavedSet
  <2> QED  BY <2>1, <2>2
<1>5. CASE SaveRulesFails
  BY <1>5 DEF SaveRulesFails, RulesAfterFailure, SavedSet
<1>6. CASE PublishRules
  BY <1>6 DEF PublishRules
<1>7. CASE PipelineRestarts
  BY <1>7 DEF PipelineRestarts
<1>8. ASSUME NEW q, QueryStep(q) PROVE UNCHANGED ruleVars
  BY <1>8 DEF QueryStep, QueryBegins, StageRewrites, StageMagicDns, StagePrivatePtr, StageSafeSearch,
              StageFilter, AskUpstream, QueryReturns
<1>9. StoreStep => UNCHANGED ruleVars
  BY DEF StoreStep, MagicRecordsChange, FilterChanges, FilterPauses, ProfileChanges, PolicyChanges
<1> QED
  BY <1>1, <1>2, <1>3, <1>4, <1>5, <1>6, <1>7, <1>8, <1>9 DEF PipelineNext, RuleStep, pipelineVars

(* At rest, the rewrites that answer are those a restart would load, unless *)
(* a save failed after the rename: Add and Delete take back what they did   *)
(* to memory, Update and Replace publish what was saved.                    *)
THEOREM RestartKeepsRewrites == PipelineSpec => []RewritesMatchFile
  BY EditInit, EditStep, PTL DEF PipelineSpec, EditInv

-----------------------------------------------------------------------------
(* DnsPipeline: queries.                                                   *)

Links == [owner : Names, target : Names, label : {"Rewrite", "SafeSearch"}]

(* A chain has one link for each step of its depth, of distinct names,     *)
(* none of them the present one, to which they lead; and it is given up    *)
(* only when it leads back or is full.                                     *)
SoundChain(r) ==
    /\ r.links \in Seq(Links) /\ Len(r.links) = r.depth /\ r.depth <= MaxChainDepth
    /\ \A i, j \in 1 .. r.depth : i # j => r.links[i].owner # r.links[j].owner
    /\ \A i \in 1 .. r.depth : r.links[i].owner # r.name
    /\ \A i \in 1 .. r.depth :
         r.links[i].target = (IF i = r.depth THEN r.name ELSE r.links[i + 1].owner)
    /\ r.ended = "loop" =>
         \/ r.refused = r.name \/ r.depth = MaxChainDepth
         \/ \E i \in 1 .. r.depth : r.links[i].owner = r.refused

(* The names that the filter keeps from everybody. *)
Kept == IF filterPaused THEN {} ELSE blockedNames

(* What stands is in force; past the rewrites none that stands covers the  *)
(* name, and past the filter the name has not been blocked all the time.   *)
Obeys(r) ==
    /\ r.standing \subseteq rules /\ r.blocked \subseteq Kept
    /\ r.at # "done" => r.ended = "none"
    /\ r.at \in {"magic", "ptr", "safe", "filter", "upstream"} \/ r.ended = "upstream" =>
         \A s \in r.standing : ~ Covers(s, r.name)
    /\ r.at = "upstream" \/ r.ended = "upstream" =>
         (Filtered(r.profile) => r.name \notin r.blocked)

IsDnsQuery(r) == DOMAIN r = DOMAIN NoDnsQuery /\ (r.at # "idle" => r.name \in Names)

QueriesSound ==
    /\ DOMAIN query = DnsQueries
    /\ \A q \in DnsQueries : IsDnsQuery(query[q]) /\ SoundChain(query[q]) /\ Obeys(query[q])

LEMMA IdleSound == IsDnsQuery(NoDnsQuery) /\ SoundChain(NoDnsQuery) /\ Obeys(NoDnsQuery)
<1>1. <<>> \in Seq(Links) /\ Len(<<>>) = 0
  OBVIOUS
<1> QED  BY <1>1, PipelineAssumption DEF IsDnsQuery, SoundChain, Obeys, NoDnsQuery

(* A query that has become sound again, while nothing else has changed.    *)
LEMMA OneQuery ==
  ASSUME QueriesSound, NEW q \in DnsQueries, NEW r,
         IsDnsQuery(r), SoundChain(r), Obeys(r), query' = [query EXCEPT ![q] = r],
         UNCHANGED <<ruleVars, storeVars>>
  PROVE  QueriesSound'
<1>1. /\ DOMAIN query' = DnsQueries /\ query'[q] = r
      /\ \A p \in DnsQueries \ {q} : query'[p] = query[p]
  BY DEF QueriesSound
<1>2. \A p \in DnsQueries : IsDnsQuery(query'[p]) /\ SoundChain(query'[p]) /\ Obeys(query'[p])
  BY <1>1 DEF QueriesSound
<1>3. rules' = rules /\ Kept' = Kept
  BY DEF ruleVars, storeVars, Kept
<1> QED  BY <1>1, <1>2, <1>3 DEF QueriesSound, IsDnsQuery, SoundChain, Obeys

(* No rewrite answers for a name exactly when none covers it: of finitely  *)
(* many that cover it one is the narrowest.                                *)
LEMMA NothingFound ==
  ASSUME NEW stored \in SUBSET RuleUniverse, NEW n, Lookup(stored, n) = {}
  PROVE  \A r \in stored : ~ Covers(r, n)
<1> DEFINE matching == {r \in stored : Covers(r, n)}
           Before == {p \in matching \X matching : Narrower(p[1], p[2])}
<1>1. \A r \in RuleUniverse : Cardinality(Above[r.name]) \in Nat /\ r.source \in Nat
  BY PipelineAssumption, FS_CardinalityType
<1>2. matching \subseteq RuleUniverse
  OBVIOUS
<1>3. IsFiniteSet(matching)
  BY <1>2, PipelineAssumption, FS_Subset
<1>4. \A x \in matching : <<x, x>> \notin Before
  BY <1>1, <1>2 DEF Narrower
<1>5. \A x, y, z \in matching :
        Narrower(x, y) /\ Narrower(y, z) => Narrower(x, z)
  BY <1>1, <1>2 DEF Narrower
<1>6. \A x, y, z \in matching : <<x, y>> \in Before /\ <<y, z>> \in Before => <<x, z>> \in Before
  BY <1>5
<1>7. ASSUME matching # {} PROVE FALSE
  <2>1. PICK m \in matching : \A x \in matching : <<x, m>> \notin Before
    <3> HIDE DEF matching, Before
    <3> QED  BY <1>3, <1>4, <1>6, <1>7, MinimalElement
  <2>2. m \in Lookup(stored, n)
    BY <2>1 DEF Lookup
  <2> QED  BY <2>2
<1> QED  BY <1>7

(* The converse, for what stands at the end. *)
LEMMA NothingCovers ==
  ASSUME NEW stored, NEW n, \A r \in stored : ~ Covers(r, n)
  PROVE  Lookup(stored, n) = {}
  BY DEF Lookup

LEMMA MovesSound ==
  ASSUME QueriesSound, NEW q \in DnsQueries, query[q].at \notin {"idle", "done"}, NEW place,
         place \notin {"idle", "done"}, Moves(q, place), UNCHANGED <<ruleVars, storeVars>>,
         place \in {"magic", "ptr", "safe", "filter", "upstream"} =>
           \A s \in query[q].standing : ~ Covers(s, query[q].name),
         place = "upstream" =>
           (Filtered(query[q].profile) => query[q].name \notin query[q].blocked)
  PROVE  QueriesSound'
<1> DEFINE r == [query[q] EXCEPT !.at = place]
<1>1. query' = [query EXCEPT ![q] = r]
  BY DEF Moves, QueriesSound
<1>2. IsDnsQuery(query[q]) /\ SoundChain(query[q]) /\ Obeys(query[q])
  BY DEF QueriesSound
<1>3. /\ DOMAIN r = DOMAIN NoDnsQuery /\ r.at = place /\ r.name = query[q].name
      /\ r.links = query[q].links /\ r.depth = query[q].depth /\ r.ended = query[q].ended
      /\ r.standing = query[q].standing /\ r.blocked = query[q].blocked
      /\ r.profile = query[q].profile /\ r.refused = query[q].refused
  BY <1>2 DEF IsDnsQuery, NoDnsQuery
<1> HIDE DEF r
<1>4. IsDnsQuery(r) /\ SoundChain(r) /\ Obeys(r)
  BY <1>2, <1>3 DEF IsDnsQuery, SoundChain, Obeys
<1> QED  BY <1>1, <1>4, OneQuery

LEMMA EndsSound ==
  ASSUME QueriesSound, NEW q \in DnsQueries, query[q].at \notin {"idle", "done"}, NEW how,
         how = "upstream" => query[q].at = "upstream", how # "loop", Ends(q, how),
         UNCHANGED <<ruleVars, storeVars>>
  PROVE  QueriesSound'
<1> DEFINE r == [query[q] EXCEPT !.at = "done", !.ended = how]
<1>1. query' = [query EXCEPT ![q] = r]
  BY DEF Ends, QueriesSound
<1>2. IsDnsQuery(query[q]) /\ SoundChain(query[q]) /\ Obeys(query[q])
  BY DEF QueriesSound
<1>3. /\ DOMAIN r = DOMAIN NoDnsQuery /\ r.at = "done" /\ r.name = query[q].name
      /\ r.links = query[q].links /\ r.depth = query[q].depth /\ r.ended = how
      /\ r.standing = query[q].standing /\ r.blocked = query[q].blocked
      /\ r.profile = query[q].profile
  BY <1>2 DEF IsDnsQuery, NoDnsQuery
<1> HIDE DEF r
<1>4. IsDnsQuery(r) /\ SoundChain(r) /\ Obeys(r)
  BY <1>2, <1>3 DEF IsDnsQuery, SoundChain, Obeys
<1> QED  BY <1>1, <1>4, OneQuery

(* A chase that is not given up adds a link with a new owner. *)
LEMMA ChaseSound ==
  ASSUME QueriesSound, NEW q \in DnsQueries, query[q].at \notin {"idle", "done"},
         NEW target \in Names, NEW label \in {"Rewrite", "SafeSearch"}, Chase(q, target, label),
         UNCHANGED <<ruleVars, storeVars>>
  PROVE  QueriesSound'
<1>1. CASE Loops(q, target)
  <2> DEFINE r == [query[q] EXCEPT !.at = "done", !.ended = "loop", !.refused = target]
  <2>1. query' = [query EXCEPT ![q] = r]
    BY <1>1 DEF Chase, Refuses, QueriesSound
  <2>2. IsDnsQuery(query[q]) /\ SoundChain(query[q]) /\ Obeys(query[q])
    BY DEF QueriesSound
  <2>3. /\ DOMAIN r = DOMAIN NoDnsQuery /\ r.at = "done" /\ r.name = query[q].name
        /\ r.links = query[q].links /\ r.depth = query[q].depth
        /\ r.ended = "loop" /\ r.refused = target
        /\ r.standing = query[q].standing /\ r.blocked = query[q].blocked
    BY <2>2 DEF IsDnsQuery, NoDnsQuery
  <2> HIDE DEF r
  <2>4. DOMAIN query[q].links = 1 .. query[q].depth /\ query[q].depth \in Nat
    BY <2>2, LenProperties DEF SoundChain
  <2>5. \/ target = query[q].name \/ query[q].depth = MaxChainDepth
        \/ \E i \in 1 .. query[q].depth : query[q].links[i].owner = target
    BY <1>1, <2>2, <2>4, PipelineAssumption DEF Loops, SoundChain
  <2>6. IsDnsQuery(r) /\ SoundChain(r) /\ Obeys(r)
    BY <2>2, <2>3, <2>5 DEF IsDnsQuery, SoundChain, Obeys
  <2> QED  BY <2>1, <2>6, OneQuery
<1>2. CASE ~ Loops(q, target)
  <2> DEFINE link  == [owner |-> query[q].name, target |-> target, label |-> label]
             links == Append(query[q].links, link)
             r == [query[q] EXCEPT !.at = "rewrites", !.name = target, !.depth = @ + 1,
                                   !.links = links]
  <2>1. query' = [query EXCEPT ![q] = r]
    BY <1>2 DEF Chase, ChaseTo, QueriesSound
  <2>2. IsDnsQuery(query[q]) /\ SoundChain(query[q]) /\ Obeys(query[q])
    BY DEF QueriesSound
  <2> HIDE DEF links
  <2>3. /\ DOMAIN r = DOMAIN NoDnsQuery /\ r.at = "rewrites" /\ r.name = target
        /\ r.links = links /\ r.depth = query[q].depth + 1 /\ r.ended = query[q].ended
        /\ r.standing = query[q].standing /\ r.blocked = query[q].blocked
    BY <2>2 DEF IsDnsQuery, NoDnsQuery
  <2> HIDE DEF r
  <2>4. /\ query[q].links \in Seq(Links) /\ link \in Links
        /\ query[q].depth \in Nat /\ query[q].depth = Len(query[q].links)
    BY <2>2, LenProperties DEF IsDnsQuery, SoundChain, Links
  <2>5. /\ target # query[q].name /\ query[q].depth < MaxChainDepth
        /\ \A i \in 1 .. query[q].depth : query[q].links[i].owner # target
    BY <1>2, <2>4, PipelineAssumption, LenProperties DEF Loops
  <2>6. /\ links \in Seq(Links) /\ Len(links) = query[q].depth + 1
        /\ links[query[q].depth + 1] = link
        /\ \A i \in 1 .. query[q].depth : links[i] = query[q].links[i]
    BY <2>4, AppendProperties DEF links
  <2>7. SoundChain(r)
    <3>1. \A i \in 1 .. r.depth : links[i].owner = IF i = r.depth THEN query[q].name
                                                                 ELSE query[q].links[i].owner
      BY <2>3, <2>4, <2>6
    <3>2. \A i \in 1 .. r.depth : i # r.depth => i \in 1 .. query[q].depth
      BY <2>3, <2>4
    <3>3. \A i, j \in 1 .. r.depth : i # j => links[i].owner # links[j].owner
      BY <3>1, <3>2, <2>2 DEF SoundChain
    <3>4. \A i \in 1 .. r.depth : links[i].owner # target
      BY <3>1, <3>2, <2>5
    <3>5. links[r.depth].target = target
      BY <2>3, <2>6
    <3>6. ASSUME NEW i \in 1 .. r.depth, i # r.depth PROVE links[i].target = links[i + 1].owner
      <4>1. i \in 1 .. query[q].depth /\ i + 1 \in 1 .. r.depth /\ links[i] = query[q].links[i]
        BY <3>2, <3>6, <2>3, <2>4, <2>6
      <4>2. i = query[q].depth => links[i].target = query[q].name /\ i + 1 = r.depth
        BY <4>1, <2>2, <2>3 DEF SoundChain
      <4>3. i # query[q].depth => links[i].target = query[q].links[i + 1].owner /\ i + 1 # r.depth
        BY <4>1, <2>2, <2>3, <2>4 DEF SoundChain
      <4> QED  BY <4>1, <4>2, <4>3, <3>1
    <3>7. r.ended # "loop"
      BY <2>2, <2>3 DEF Obeys, At
    <3> QED
      BY <2>3, <2>4, <2>5, <2>6, <3>3, <3>4, <3>5, <3>6, <3>7, PipelineAssumption DEF SoundChain
  <2>8. IsDnsQuery(r) /\ Obeys(r)
    BY <2>2, <2>3 DEF IsDnsQuery, Obeys
  <2> QED  BY <2>1, <2>7, <2>8, OneQuery
<1> QED  BY <1>1, <1>2

LEMMA BeginsSound ==
  ASSUME QueriesSound, NEW q \in DnsQueries, QueryBegins(q)
  PROVE  QueriesSound'
<1>1. PICK question \in Questions :
         query' = [query EXCEPT ![q] =
               [NoDnsQuery EXCEPT !.name = question.name, !.type = question.type, !.profile = profile,
                   !.at = IF \/ policy.refuseAny /\ question.type = "ANY"
                             \/ policy.aaaaDisabled /\ question.type = "AAAA" THEN "done" ELSE "rewrites",
                   !.ended = IF \/ policy.refuseAny /\ question.type = "ANY"
                                \/ policy.aaaaDisabled /\ question.type = "AAAA" THEN "policy" ELSE "none",
                   !.standing = rules, !.blocked = IF filterPaused THEN {} ELSE blockedNames]]
  BY DEF QueryBegins
<1> DEFINE r == query'[q]
<1>2. /\ DOMAIN r = DOMAIN NoDnsQuery /\ r.name = question.name
      /\ r.links = <<>> /\ r.depth = 0 /\ r.standing = rules /\ r.blocked = Kept
      /\ \/ r.at = "done" /\ r.ended = "policy"
         \/ r.at = "rewrites" /\ r.ended = "none"
  BY <1>1 DEF QueriesSound, NoDnsQuery, Kept
<1>3. query' = [query EXCEPT ![q] = r]
  BY <1>1 DEF QueriesSound
<1> HIDE DEF r
<1>4. question.name \in Names
  BY PipelineAssumption
<1>5. <<>> \in Seq(Links) /\ Len(<<>>) = 0
  OBVIOUS
<1>6. IsDnsQuery(r) /\ SoundChain(r) /\ Obeys(r)
  BY <1>2, <1>4, <1>5, PipelineAssumption DEF IsDnsQuery, SoundChain, Obeys
<1> QED  BY <1>3, <1>6, OneQuery DEF QueryBegins

LEMMA RewritesSound ==
  ASSUME QueriesSound, RuleTypes, NEW q \in DnsQueries, StageRewrites(q)
  PROVE  QueriesSound'
<1> DEFINE entries == Lookup(rules, query[q].name)
<1>1. At(q, "rewrites") /\ UNCHANGED <<ruleVars, storeVars>>
  BY DEF StageRewrites
<1>2. CASE entries = {} /\ Moves(q, "magic")
  <2>1. \A s \in rules : ~ Covers(s, query[q].name)
    BY <1>2, NothingFound DEF RuleTypes
  <2>2. query[q].standing \subseteq rules
    BY DEF QueriesSound, Obeys
  <2> QED  BY <1>1, <1>2, <2>1, <2>2, MovesSound DEF At
<1>3. ASSUME NEW r \in entries, r.type = "CNAME", Chase(q, r.value, "Rewrite")
      PROVE  QueriesSound'
  <2>1. r \in RuleUniverse
    BY DEF Lookup, RuleTypes
  <2> QED  BY <1>1, <1>3, <2>1, ChaseSound, PipelineAssumption DEF At
<1>4. ASSUME Ends(q, "rewrite") PROVE QueriesSound'
  BY <1>1, <1>4, EndsSound DEF At
<1> HIDE DEF entries
<1> QED
  BY <1>2, <1>3, <1>4 DEF StageRewrites, entries

LEMMA StagesSound ==
  ASSUME QueriesSound, NEW q \in DnsQueries,
         StageMagicDns(q) \/ StagePrivatePtr(q) \/ StageSafeSearch(q) \/ StageFilter(q) \/ AskUpstream(q)
  PROVE  QueriesSound'
<1>1. /\ UNCHANGED <<ruleVars, storeVars>>
      /\ query[q].at \in {"magic", "ptr", "safe", "filter", "upstream"}
  BY DEF StageMagicDns, StagePrivatePtr, StageSafeSearch, StageFilter, AskUpstream, At
<1>2. /\ query[q].name \in Names /\ query[q].blocked \subseteq Kept
      /\ \A s \in query[q].standing : ~ Covers(s, query[q].name)
  BY <1>1 DEF QueriesSound, Obeys, IsDnsQuery
<1>3. ASSUME NEW how, how \notin {"upstream", "loop"}, Ends(q, how) PROVE QueriesSound'
  BY <1>1, <1>3, EndsSound
<1>4. ASSUME NEW place \in {"ptr", "safe", "filter"}, Moves(q, place) PROVE QueriesSound'
  BY <1>1, <1>2, <1>4, MovesSound
<1>5. CASE StageMagicDns(q) \/ StagePrivatePtr(q)
  BY <1>3, <1>4, <1>5 DEF StageMagicDns, StagePrivatePtr
<1>6. CASE StageSafeSearch(q)
  <2>1. SafeTarget[query[q].name] \in Names
    BY <1>2, PipelineAssumption
  <2>2. ASSUME Chase(q, SafeTarget[query[q].name], "SafeSearch") PROVE QueriesSound'
    BY <1>1, <2>1, <2>2, ChaseSound
  <2> QED  BY <1>3, <1>4, <1>6, <2>2 DEF StageSafeSearch
<1>7. CASE StageFilter(q)
  <2>1. ASSUME Moves(q, "upstream"),
               ~ (Filtered(query[q].profile) /\ ~ filterPaused /\ query[q].name \in blockedNames)
        PROVE  QueriesSound'
    <3>1. Filtered(query[q].profile) => query[q].name \notin Kept
      BY <2>1 DEF Kept
    <3> QED  BY <1>1, <1>2, <2>1, <3>1, MovesSound
  <2> QED  BY <1>3, <1>7, <2>1 DEF StageFilter
<1>8. CASE AskUpstream(q)
  BY <1>1, <1>8, EndsSound DEF AskUpstream, At
<1> QED  BY <1>5, <1>6, <1>7, <1>8

(* A record of a query of which less stands. *)
Less(r, s) ==
    /\ DOMAIN s = DOMAIN NoDnsQuery /\ s.at = r.at /\ s.name = r.name /\ s.links = r.links
    /\ s.depth = r.depth /\ s.ended = r.ended /\ s.profile = r.profile /\ s.refused = r.refused
    /\ s.standing \subseteq r.standing /\ s.blocked \subseteq r.blocked

(* Rules and stores change: what stands can only become less. *)
LEMMA LessSound ==
  ASSUME QueriesSound, DOMAIN query' = DnsQueries,
         \A q \in DnsQueries : /\ Less(query[q], query'[q])
                               /\ query'[q].standing \subseteq rules'
                               /\ query'[q].blocked \subseteq Kept'
  PROVE  QueriesSound'
<1>1. ASSUME NEW q \in DnsQueries
      PROVE  IsDnsQuery(query'[q]) /\ SoundChain(query'[q]) /\ Obeys(query[q])'
  <2>1. IsDnsQuery(query[q]) /\ SoundChain(query[q]) /\ Obeys(query[q])
    BY DEF QueriesSound
  <2>2. Less(query[q], query'[q]) /\ query'[q].standing \subseteq rules'
        /\ query'[q].blocked \subseteq Kept'
    OBVIOUS
  <2>3. IsDnsQuery(query'[q]) /\ SoundChain(query'[q])
    BY <2>1, <2>2 DEF IsDnsQuery, SoundChain, Less
  <2>4. Obeys(query[q])'
    BY <2>1, <2>2 DEF Obeys, Less
  <2> QED  BY <2>3, <2>4
<1> QED  BY <1>1 DEF QueriesSound, IsDnsQuery, SoundChain, Obeys

LEMMA StillSound ==
  ASSUME QueriesSound, query' = StillStanding, UNCHANGED storeVars
  PROVE  QueriesSound'
<1>1. DOMAIN query' = DnsQueries
  BY DEF StillStanding
<1>2. Kept' = Kept
  BY DEF Kept, storeVars
<1>3. ASSUME NEW q \in DnsQueries
      PROVE  /\ Less(query[q], query'[q]) /\ query'[q].standing \subseteq rules'
             /\ query'[q].blocked \subseteq Kept'
  <2>1. DOMAIN query[q] = DOMAIN NoDnsQuery /\ query[q].blocked \subseteq Kept
    BY DEF QueriesSound, IsDnsQuery, Obeys
  <2>2. query'[q] = [query[q] EXCEPT !.standing = query[q].standing \cap rules']
    BY DEF StillStanding
  <2> QED  BY <1>2, <2>1, <2>2 DEF Less, NoDnsQuery
<1> QED  BY <1>1, <1>3, LessSound

LEMMA StillBlockedSound ==
  ASSUME QueriesSound, NEW blocked, StillBlocked(blocked), Kept' = blocked, UNCHANGED ruleVars
  PROVE  QueriesSound'
<1>1. DOMAIN query' = DnsQueries
  BY DEF StillBlocked
<1>2. ASSUME NEW q \in DnsQueries
      PROVE  /\ Less(query[q], query'[q]) /\ query'[q].standing \subseteq rules'
             /\ query'[q].blocked \subseteq Kept'
  <2>1. DOMAIN query[q] = DOMAIN NoDnsQuery /\ query[q].standing \subseteq rules
    BY DEF QueriesSound, IsDnsQuery, Obeys
  <2>2. query'[q] = [query[q] EXCEPT !.blocked = query[q].blocked \cap blocked]
    BY DEF StillBlocked
  <2> QED  BY <2>1, <2>2 DEF Less, NoDnsQuery, ruleVars
<1> QED  BY <1>1, <1>2, LessSound

LEMMA QueriesStep == QueriesSound /\ RuleTypes /\ [PipelineNext]_pipelineVars => QueriesSound'
<1> SUFFICES ASSUME QueriesSound, RuleTypes, [PipelineNext]_pipelineVars PROVE QueriesSound'
  OBVIOUS
<1>1. ASSUME rules' = rules, query' = query, Kept' = Kept PROVE QueriesSound'
  BY <1>1 DEF QueriesSound, IsDnsQuery, SoundChain, Obeys
<1>2. CASE UNCHANGED pipelineVars
  BY <1>1, <1>2 DEF pipelineVars, ruleVars, storeVars, Kept
<1>3. ASSUME NEW q \in DnsQueries, QueryStep(q) PROVE QueriesSound'
  <2>1. CASE QueryReturns(q)
    BY <2>1, IdleSound, OneQuery DEF QueryReturns
  <2> QED
    BY <1>3, <2>1, BeginsSound, RewritesSound, StagesSound DEF QueryStep
<1>4. CASE AddRule \/ DeleteRule \/ UpdateRule \/ ReplaceRules \/ SaveRulesFails \/ PublishRules
  <2>1. query' = StillStanding /\ UNCHANGED storeVars
    BY <1>4 DEF AddRule, DeleteRule, UpdateRule, ReplaceRules, SaveRulesFails, PublishRules, EditBegins
  <2> QED  BY <2>1, StillSound
<1>5. CASE SaveRules
  BY <1>1, <1>5 DEF SaveRules, storeVars, Kept
<1>6. CASE PipelineRestarts
  <2>1. /\ DOMAIN query' = DnsQueries
        /\ \A q \in DnsQueries : query'[q] = NoDnsQuery
    BY <1>6 DEF PipelineRestarts
  <2>2. /\ NoDnsQuery.standing = {} /\ NoDnsQuery.blocked = {} /\ NoDnsQuery.ended = "none"
        /\ NoDnsQuery.at = "idle"
    BY DEF NoDnsQuery
  <2>3. ASSUME NEW q \in DnsQueries
        PROVE  IsDnsQuery(query'[q]) /\ SoundChain(query'[q]) /\ Obeys(query[q])'
    BY <2>1, <2>2, IdleSound DEF Obeys
  <2> QED  BY <2>1, <2>3 DEF QueriesSound, IsDnsQuery, SoundChain, Obeys
<1>7. CASE FilterChanges
  <2> DEFINE blocked == IF filterPaused THEN {} ELSE blockedNames'
  <2>1. StillBlocked(blocked) /\ Kept' = blocked /\ UNCHANGED ruleVars
    BY <1>7 DEF FilterChanges, Kept
  <2> QED  BY <2>1, StillBlockedSound
<1>8. CASE FilterPauses
  <2> DEFINE blocked == IF filterPaused' THEN {} ELSE blockedNames
  <2>1. StillBlocked(blocked) /\ Kept' = blocked /\ UNCHANGED ruleVars
    BY <1>8 DEF FilterPauses, Kept
  <2> QED  BY <2>1, StillBlockedSound
<1>9. CASE MagicRecordsChange \/ ProfileChanges \/ PolicyChanges
  BY <1>1, <1>9 DEF MagicRecordsChange, ProfileChanges, PolicyChanges, ruleVars, Kept
<1> QED
  BY <1>2, <1>3, <1>4, <1>5, <1>6, <1>7, <1>8, <1>9 DEF PipelineNext, RuleStep, StoreStep

LEMMA PipelineSound == PipelineSpec => []QueriesSound
<1>1. PipelineInit => QueriesSound
  <2> SUFFICES ASSUME PipelineInit PROVE QueriesSound
    OBVIOUS
  <2>1. DOMAIN query = DnsQueries /\ \A q \in DnsQueries : query[q] = NoDnsQuery
    BY DEF PipelineInit
  <2> QED  BY <2>1, IdleSound DEF QueriesSound
<1>2. EditInv => RuleTypes
  BY DEF EditInv
<1>3. (EditInv /\ QueriesSound) /\ [PipelineNext]_pipelineVars => (EditInv /\ QueriesSound)'
  BY <1>2, EditStep, QueriesStep
<1> QED  BY <1>1, <1>3, EditInit, PTL DEF PipelineSpec

(* However rules are edited while resolve calls itself for the target of a *)
(* CNAME, no name is resolved twice and no chain passes MaxChainDepth.     *)
THEOREM ChainsStaySound == PipelineSpec => []ChainSound
<1>1. QueriesSound => ChainSound
  <2> SUFFICES ASSUME QueriesSound, NEW q \in DnsQueries
               PROVE  LET links == query[q].links
                      IN /\ Len(links) = query[q].depth /\ Len(links) <= MaxChainDepth
                         /\ \A i, j \in DOMAIN links : i # j => links[i].owner # links[j].owner
                         /\ \A i \in DOMAIN links : links[i].owner # query[q].name
                         /\ \A i \in DOMAIN links :
                              links[i].target = (IF i = Len(links) THEN query[q].name
                                                                   ELSE links[i + 1].owner)
                         /\ query[q].ended = "loop" =>
                              \/ query[q].refused = query[q].name \/ Len(links) = MaxChainDepth
                              \/ \E i \in DOMAIN links : links[i].owner = query[q].refused
    BY DEF ChainSound
  <2>1. SoundChain(query[q])
    BY DEF QueriesSound
  <2>2. DOMAIN query[q].links = 1 .. query[q].depth
    BY <2>1, LenProperties DEF SoundChain
  <2> QED  BY <2>1, <2>2 DEF SoundChain
<1> QED  BY <1>1, PipelineSound, PTL

(* A name that goes upstream was not blocked all the time, and no rewrite  *)
(* stood for it all the time: a chase takes the target through the         *)
(* rewrites and the filter again, however the stores changed in between.   *)
THEOREM StandingPolicyObeyed == PipelineSpec => []StandingPolicyHolds
<1>1. QueriesSound => StandingPolicyHolds
  <2> SUFFICES ASSUME QueriesSound, NEW q \in DnsQueries, query[q].ended = "upstream"
               PROVE  /\ Filtered(query[q].profile) => query[q].name \notin query[q].blocked
                      /\ Lookup(query[q].standing, query[q].name) = {}
    BY DEF StandingPolicyHolds
  <2>1. Obeys(query[q])
    BY DEF QueriesSound
  <2> QED  BY <2>1, NothingCovers DEF Obeys
<1> QED  BY <1>1, PipelineSound, PTL
=============================================================================
