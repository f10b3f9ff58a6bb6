------------------------------ MODULE MCCluster ------------------------------
(***************************************************************************)
(* Small instances of five components for TLC that share no state, the     *)
(* parts of a cluster around its queries: which one runs is chosen at the  *)
(* start, so their state spaces add up and are explored by one run.        *)
(***************************************************************************)
EXTENDS Nodes, MagicDns, ControllerTls, ClientLimits, WebSessions, TLC

VARIABLE service

\* The names and the requests of the inventory are alike.
Symmetry == Permutations(NodeNames) \cup Permutations(NodeRequests)

allVars == <<nodeVars, magicVars, tlsVars, limitVars, webVars, service>>

\* A client of the LAN and two strangers of one network.
MCDnsClients == {"lan", "wan1", "wan2"}
MCHostKey == [c \in MCDnsClients |-> c]
MCNetKey == [c \in MCDnsClients |-> IF c = "lan" THEN "lan" ELSE "net"]

\* No list; lists and low rates by network; a list, exemptions, no rate inside.
MCLimitSettings ==
  {[denied |-> {}, configured |-> FALSE, allowed |-> {}, qps |-> 1, internalQps |-> 2,
    exempt |-> {}, ede |-> FALSE, wide |-> FALSE],
   [denied |-> {"lan"}, configured |-> TRUE, allowed |-> MCDnsClients, qps |-> 2, internalQps |-> 1,
    exempt |-> {}, ede |-> TRUE, wide |-> TRUE],
   [denied |-> {}, configured |-> TRUE, allowed |-> {"wan1", "wan2"}, qps |-> 2, internalQps |-> 0,
    exempt |-> {"wan2"}, ede |-> FALSE, wide |-> FALSE]}

\* Components that do not run start in one of their states only.
ClusterInit ==
  /\ service \in {"nodes", "magic", "tls", "limits", "web"}
  /\ NodesInit
  /\ MagicInit /\ (service # "magic" => inventory = 0)
  /\ TlsInit   /\ (service # "tls" => legacyCa = 0)
  /\ LimitInit /\ (service # "limits" => ~ limits.configured)
  /\ WebInit

NodesRun ==
  /\ service = "nodes" /\ NodesNext
  /\ UNCHANGED <<magicVars, tlsVars, limitVars, webVars, service>>

MagicRuns ==
  /\ service = "magic" /\ MagicNext
  /\ UNCHANGED <<nodeVars, tlsVars, limitVars, webVars, service>>

TlsRuns ==
  /\ service = "tls" /\ TlsNext
  /\ UNCHANGED <<nodeVars, magicVars, limitVars, webVars, service>>

LimitsRun ==
  /\ service = "limits" /\ LimitNext
  /\ UNCHANGED <<nodeVars, magicVars, tlsVars, webVars, service>>

WebRuns ==
  /\ service = "web" /\ WebNext
  /\ UNCHANGED <<nodeVars, magicVars, tlsVars, limitVars, service>>

ClusterNext == NodesRun \/ MagicRuns \/ TlsRuns \/ LimitsRun \/ WebRuns

ClusterSpec == ClusterInit /\ [][ClusterNext]_allVars
=============================================================================
