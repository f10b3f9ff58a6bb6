------------------------------ MODULE MCServices ------------------------------
(***************************************************************************)
(* Small instances of three components for TLC that share no state: which  *)
(* one runs is chosen at the start, so their state spaces add up and are   *)
(* explored by one run.                                                    *)
(***************************************************************************)
EXTENDS EventStream, History, DnsPipeline

VARIABLE service

allVars == <<vars, historyVars, pipelineVars, service>>

\* Two rows older than the tables of totals.
MCLegacyRows == {[id |-> 1, time |-> 0], [id |-> 2, time |-> 1]}

Rule(name, wild, type, value, source) ==
  [name |-> name, wild |-> wild, type |-> type, value |-> value, source |-> source]

\* Names a, sub.a, b, and c, which is blocked, private and what safe search
\* makes of b.
MCNames == {"a", "sub", "b", "c"}
MCAbove == [n \in MCNames |-> IF n = "sub" THEN {"a"} ELSE {}]
MCSafeTarget == [n \in MCNames |-> IF n = "b" THEN "c" ELSE n]

\* A loop of two names, entered through a wildcard, and a name that is denied.
MCRules == {Rule("a", FALSE, "CNAME", "b", 0), Rule("b", FALSE, "CNAME", "a", 1),
            Rule("a", TRUE, "CNAME", "a", 0), Rule("sub", FALSE, "NXDOMAIN", "sub", 0)}
MCRuleLists == {{}, {Rule("a", FALSE, "CNAME", "b", 0)}}

MCQuestions ==
  {[name |-> q[1], type |-> q[2]] :
     q \in {<<"a", "A">>, <<"sub", "A">>, <<"c", "PTR">>, <<"a", "ANY">>,
            <<"b", "AAAA">>, <<"a", "CNAME">>, <<"b", "PTR">>}}

MCProfiles ==
  {[known |-> TRUE, custom |-> TRUE, filtering |-> FALSE, safeSearch |-> FALSE],
   [known |-> TRUE, custom |-> FALSE, filtering |-> TRUE, safeSearch |-> TRUE]}

\* Subsequences says what the operators of the libraries say.
ASSUME SubsequencesAgree ==
  /\ \A s \in BoundedSeq(1 .. 3, 4), P \in SUBSET (1 .. 3) :
       Keep(s, P) = SelectSeq(s, LAMBDA x : x \in P)
  /\ \A S \in SUBSET (1 .. 5) : Descending(S) = SetToSortSeq(S, >)
  /\ \A f \in [1 .. 3 -> 0 .. 2], S \in SUBSET (1 .. 3) :
       SumOver(f, S) = MapThenSumSet(LAMBDA x : f[x], S)

\* Components that do not run start in one of their states only.
ServicesInit ==
  /\ service \in {"stream", "history", "pipeline"}
  /\ Init
  /\ HistoryInit  /\ (service # "history" => rows = {} /\ clock = 0)
  /\ PipelineInit /\ (service # "pipeline" => rules = {})

StreamRuns ==
  /\ service = "stream" /\ Next
  /\ UNCHANGED <<historyVars, pipelineVars, service>>

HistoryRuns ==
  /\ service = "history" /\ HistoryNext
  /\ UNCHANGED <<vars, pipelineVars, service>>

PipelineRuns ==
  /\ service = "pipeline" /\ PipelineNext
  /\ UNCHANGED <<vars, historyVars, service>>

ServicesNext == StreamRuns \/ HistoryRuns \/ PipelineRuns

ServicesSpec == ServicesInit /\ [][ServicesNext]_allVars

\* A reader of the history and a count share nothing but the table, which
\* neither changes: one of them at a time.
OneReader == count.at = "idle" \/ reader.at = "idle"
=============================================================================
