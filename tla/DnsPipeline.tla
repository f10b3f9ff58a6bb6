----------------------------- MODULE DnsPipeline -----------------------------
(***************************************************************************)
(* What happens to a query before the cache: rewrites, MagicDNS, names of  *)
(* private addresses, safe search and the filter, in this order, with the  *)
(* chase of CNAMEs that runs a target through all of them again; and the   *)
(* store of rewrites, whose edits, failed saves and restarts meet queries  *)
(* between any two stages.                                                 *)
(*                                                                         *)
(* Resolve holds runtimeMu, so a query sees one policy; the stores have    *)
(* locks of their own and are read stage by stage. The profile of the      *)
(* client is found once. What the cache and the upstreams answer is left   *)
(* to DnsCache and UpstreamPool: a query ends here as "upstream".          *)
(***************************************************************************)
EXTENDS Naturals, Sequences, FiniteSets, SequencesExt

CONSTANTS
    Names,             \* names that are asked for or that a rule leads to
    Above,             \* name -> the names it is below of
    Questions,         \* records of a name and a type
    RuleUniverse,      \* rewrites that may be stored
    RuleLists,         \* sets of them that a replacement may bring
    SafeTarget,        \* name -> where safe search leads it, or itself
    PrivatePtrNames,   \* names of private addresses
    MagicHosts,        \* names that MagicDNS may have
    Blockable,         \* names that the filter may block
    Profiles,          \* profiles a client may have
    DnsQueries,        \* queries that are resolved at the same time
    MaxChainDepth,
    MaxRuleEdits, MaxRuleFaults, MaxPipelineChanges   \* bounds

ASSUME PipelineAssumption ==
    /\ Above \in [Names -> SUBSET Names] /\ SafeTarget \in [Names -> Names]
    /\ IsFiniteSet(RuleUniverse) /\ \A n \in Names : IsFiniteSet(Above[n])
    /\ \A r \in RuleUniverse :
         r.name \in Names /\ r.source \in Nat /\ (r.type = "CNAME" => r.value \in Names)
    /\ \A question \in Questions : question.name \in Names
    /\ RuleLists \subseteq SUBSET RuleUniverse
    /\ MaxChainDepth \in Nat /\ MaxRuleEdits \in Nat /\ MaxRuleFaults \in Nat
    /\ MaxPipelineChanges \in Nat

VARIABLES
    rules, ruleFile,     \* rewrites in memory and in the file
    ruleEdit,            \* the edit that holds writeMu
    ruleFileDiffers,     \* the file was renamed into place and the save failed all the same
    magicHosts, blockedNames, filterPaused, profile,   \* the other stores
    policy,              \* refuseAny, aaaaDisabled, safeSearch and privatePtr
    query,               \* what each query is doing
    ruleEdits, ruleFaults, pipelineChanges   \* bounded counts

ruleVars == <<rules, ruleFile, ruleEdit, ruleFileDiffers, ruleEdits, ruleFaults>>
storeVars == <<magicHosts, blockedNames, filterPaused, profile, pipelineChanges>>
pipelineVars == <<ruleVars, storeVars, policy, query>>

(* No profile covers the client's address. *)
NoProfile == [known |-> FALSE, custom |-> FALSE, filtering |-> TRUE, safeSearch |-> FALSE]
NoEdit == [at |-> "none", kind |-> "none", set |-> {}]
NoDnsQuery == [at |-> "idle", name |-> CHOOSE n \in Names : TRUE, type |-> "none", profile |-> NoProfile,
               depth |-> 0, links |-> <<>>, refused |-> "none", ended |-> "none", standing |-> {}, blocked |-> {}]

PipelineInit ==
    /\ rules \in SUBSET RuleUniverse /\ ruleFile = rules /\ ruleEdit = NoEdit /\ ruleFileDiffers = FALSE
    /\ magicHosts = {} /\ blockedNames = {} /\ filterPaused = FALSE /\ profile = NoProfile
    /\ policy = [refuseAny |-> TRUE, aaaaDisabled |-> TRUE, safeSearch |-> TRUE, privatePtr |-> TRUE]
    /\ query = [q \in DnsQueries |-> NoDnsQuery]
    /\ ruleEdits = 0 /\ ruleFaults = 0 /\ pipelineChanges = 0

-----------------------------------------------------------------------------
(* lookup: rules at the most specific domain, then for the narrowest       *)
(* source; a wildcard does not cover its own apex.                         *)

Covers(r, n) == (r.name = n /\ ~ r.wild) \/ r.name \in Above[n]

Narrower(r, s) ==
    \/ Cardinality(Above[r.name]) > Cardinality(Above[s.name])
    \/ Cardinality(Above[r.name]) = Cardinality(Above[s.name]) /\ r.source > s.source

Lookup(stored, n) ==
    LET matching == {r \in stored : Covers(r, n)}
    IN {r \in matching : \A s \in matching : ~ Narrower(s, r)}

RcodeTypes == {"NXDOMAIN", "REFUSED", "NOERROR"}
Addresses == {"A", "AAAA"}
Chased == Addresses \cup {"CNAME"}

-----------------------------------------------------------------------------
(* The stages of resolve. *)

At(q, place) == query[q].at = place
Moves(q, place) == query' = [query EXCEPT ![q].at = place]
Ends(q, how) == query' = [query EXCEPT ![q].at = "done", ![q].ended = how]

(* Mutant: names that were chased before are forgotten. *)
LoopsAtSelf(q, target) == target = query[q].name \/ query[q].depth >= MaxChainDepth

Loops(q, target) ==
    \/ target = query[q].name \/ query[q].depth >= MaxChainDepth
    \/ \E i \in DOMAIN query[q].links : query[q].links[i].owner = target

(* Mutant: the target is not taken through the filter. *)
ChaseToUpstream(q, target) == "upstream"

ChaseTo(q, target) == "rewrites"

(* The answer names the target at which the chain was given up. *)
Refuses(q, target) ==
    query' = [query EXCEPT ![q].at = "done", ![q].ended = "loop", ![q].refused = target]

(* resolve is called for the target, with depth + 1. *)
Chase(q, target, label) ==
    IF Loops(q, target) THEN Refuses(q, target)
    ELSE query' = [query EXCEPT ![q].at = ChaseTo(q, target), ![q].name = target, ![q].depth = @ + 1,
                       ![q].links = Append(@, [owner |-> query[q].name, target |-> target, label |-> label])]

(* Resolve: the policy's short cuts, which a target of the same type does  *)
(* not take any more.                                                      *)
QueryBegins(q) ==
    \E question \in Questions :
        /\ At(q, "idle")
        /\ query' = [query EXCEPT ![q] =
               [NoDnsQuery EXCEPT !.name = question.name, !.type = question.type, !.profile = profile,
                   !.at = IF \/ policy.refuseAny /\ question.type = "ANY"
                             \/ policy.aaaaDisabled /\ question.type = "AAAA" THEN "done" ELSE "rewrites",
                   !.ended = IF \/ policy.refuseAny /\ question.type = "ANY"
                                \/ policy.aaaaDisabled /\ question.type = "AAAA" THEN "policy" ELSE "none",
                   !.standing = rules, !.blocked = IF filterPaused THEN {} ELSE blockedNames]]
        /\ UNCHANGED <<ruleVars, storeVars, policy>>

StageRewrites(q) ==
    LET entries == Lookup(rules, query[q].name)
        records == {r \in entries : r.type = query[q].type}
        cnames == {r \in entries : r.type = "CNAME"}
    IN /\ At(q, "rewrites")
       /\ \/ entries = {} /\ Moves(q, "magic")
          \/ \E r \in entries : r.type \in RcodeTypes /\ Ends(q, "rewrite")
          \/ /\ entries # {} /\ \A r \in entries : r.type \notin RcodeTypes
             /\ \/ records # {} /\ Ends(q, "rewrite")
                \/ /\ records = {} /\ query[q].type \in Chased /\ cnames # {}
                   /\ \E r \in cnames : Chase(q, r.value, "Rewrite")
                \/ records = {} /\ ~ (query[q].type \in Chased /\ cnames # {}) /\ Ends(q, "rewrite")
       /\ UNCHANGED <<ruleVars, storeVars, policy>>

StageMagicDns(q) ==
    /\ At(q, "magic")
    /\ IF query[q].name \in magicHosts /\ query[q].type \in Addresses THEN Ends(q, "magic") ELSE Moves(q, "ptr")
    /\ UNCHANGED <<ruleVars, storeVars, policy>>

(* The name comes from the registry as it is now. *)
StagePrivatePtr(q) ==
    /\ At(q, "ptr")
    /\ IF policy.privatePtr /\ query[q].type = "PTR" /\ query[q].name \in PrivatePtrNames /\ profile.known
       THEN Ends(q, "ptr") ELSE Moves(q, "safe")
    /\ UNCHANGED <<ruleVars, storeVars, policy>>

Custom(p) == p.known /\ p.custom

StageSafeSearch(q) ==
    LET applies == IF Custom(query[q].profile) THEN query[q].profile.safeSearch ELSE policy.safeSearch
        target == SafeTarget[query[q].name]
    IN /\ At(q, "safe")
       /\ IF ~ applies \/ target = query[q].name THEN Moves(q, "filter")
          ELSE IF query[q].type \in Chased THEN Chase(q, target, "SafeSearch") ELSE Ends(q, "safe")
       /\ UNCHANGED <<ruleVars, storeVars, policy>>

Filtered(p) == Custom(p) => p.filtering

StageFilter(q) ==
    /\ At(q, "filter")
    /\ IF Filtered(query[q].profile) /\ ~ filterPaused /\ query[q].name \in blockedNames
       THEN Ends(q, "filtered") ELSE Moves(q, "upstream")
    /\ UNCHANGED <<ruleVars, storeVars, policy>>

(* resolveViaCacheOrUpstream. *)
AskUpstream(q) ==
    /\ At(q, "upstream") /\ Ends(q, "upstream")
    /\ UNCHANGED <<ruleVars, storeVars, policy>>

QueryReturns(q) ==
    /\ At(q, "done") /\ query' = [query EXCEPT ![q] = NoDnsQuery]
    /\ UNCHANGED <<ruleVars, storeVars, policy>>

-----------------------------------------------------------------------------
(* Edits of the rewrites, under writeMu. Add and Delete change memory and  *)
(* save it; Update and Replace save the new set and publish it.            *)

StillStanding == [q \in DnsQueries |-> [query[q] EXCEPT !.standing = @ \cap rules']]

EditBegins ==
    /\ ruleEdit = NoEdit /\ ruleEdits < MaxRuleEdits /\ ruleEdits' = ruleEdits + 1
    /\ query' = StillStanding
    /\ UNCHANGED <<ruleFile, ruleFileDiffers, ruleFaults, storeVars, policy>>

Undoable == ruleEdit' = [at |-> "save", kind |-> "undo", set |-> rules]
ToPublish(set) == ruleEdit' = [at |-> "save", kind |-> "publish", set |-> set] /\ UNCHANGED rules

AddRule ==
    /\ \E r \in RuleUniverse \ rules : rules' = rules \cup {r}
    /\ Undoable /\ EditBegins

DeleteRule ==
    /\ \E r \in rules : rules' = rules \ {r}
    /\ Undoable /\ EditBegins

UpdateRule ==
    /\ \E r \in rules, new \in RuleUniverse \ rules : ToPublish((rules \ {r}) \cup {new})
    /\ EditBegins

ReplaceRules ==
    /\ \E new \in RuleLists \ {rules} : ToPublish(new)
    /\ EditBegins

SavedSet == IF ruleEdit.kind = "publish" THEN ruleEdit.set ELSE rules

SaveRules ==
    /\ ruleEdit.at = "save"
    /\ ruleFile' = SavedSet /\ ruleFileDiffers' = FALSE
    /\ ruleEdit' = IF ruleEdit.kind = "publish" THEN [ruleEdit EXCEPT !.at = "publish"] ELSE NoEdit
    /\ UNCHANGED <<rules, ruleEdits, ruleFaults, storeVars, policy, query>>

(* Mutant: a failed save leaves memory as it is. *)
RulesKept(edit) == rules

RulesAfterFailure(edit) == IF edit.kind = "undo" THEN edit.set ELSE rules

(* Before the rename, or after it, when the directory is synchronized.     *)
SaveRulesFails ==
    /\ ruleEdit.at = "save" /\ ruleFaults < MaxRuleFaults /\ ruleFaults' = ruleFaults + 1
    /\ \/ UNCHANGED <<ruleFile, ruleFileDiffers>>
       \/ ruleFile' = SavedSet /\ ruleFileDiffers' = TRUE
    /\ rules' = RulesAfterFailure(ruleEdit) /\ ruleEdit' = NoEdit
    /\ query' = StillStanding
    /\ UNCHANGED <<ruleEdits, storeVars, policy>>

PublishRules ==
    /\ ruleEdit.at = "publish"
    /\ rules' = ruleEdit.set /\ ruleEdit' = NoEdit
    /\ query' = StillStanding
    /\ UNCHANGED <<ruleFile, ruleFileDiffers, ruleEdits, ruleFaults, storeVars, policy>>

(* The process ends at any point and loads the file. *)
PipelineRestarts ==
    /\ ruleFaults < MaxRuleFaults /\ ruleFaults' = ruleFaults + 1
    /\ rules' = ruleFile /\ ruleEdit' = NoEdit /\ ruleFileDiffers' = FALSE
    /\ query' = [q \in DnsQueries |-> NoDnsQuery]
    /\ UNCHANGED <<ruleFile, ruleEdits, storeVars, policy>>

-----------------------------------------------------------------------------
(* The other stores change between stages. *)

Changes == pipelineChanges < MaxPipelineChanges /\ pipelineChanges' = pipelineChanges + 1

StillBlocked(blocked) == query' = [q \in DnsQueries |-> [query[q] EXCEPT !.blocked = @ \cap blocked]]

(* Store.Apply publishes other records. *)
MagicRecordsChange ==
    /\ Changes
    /\ \E n \in MagicHosts : magicHosts' = SymDiff(magicHosts, {n})
    /\ UNCHANGED <<ruleVars, blockedNames, filterPaused, profile, policy, query>>

(* The engine publishes other rules. *)
FilterChanges ==
    /\ Changes
    /\ \E n \in Blockable : blockedNames' = SymDiff(blockedNames, {n})
    /\ StillBlocked(IF filterPaused THEN {} ELSE blockedNames')
    /\ UNCHANGED <<ruleVars, magicHosts, filterPaused, profile, policy>>

(* A pause begins, is ended or runs out. *)
FilterPauses ==
    /\ Changes
    /\ filterPaused' = ~ filterPaused
    /\ StillBlocked(IF filterPaused' THEN {} ELSE blockedNames)
    /\ UNCHANGED <<ruleVars, magicHosts, blockedNames, profile, policy>>

(* The registry of clients publishes other profiles. *)
ProfileChanges ==
    /\ Changes
    /\ profile' \in (Profiles \cup {NoProfile}) \ {profile}
    /\ UNCHANGED <<ruleVars, magicHosts, blockedNames, filterPaused, policy, query>>

(* ApplySettings waits for runtimeMu. *)
PolicyChanges ==
    /\ Changes /\ \A q \in DnsQueries : At(q, "idle")
    /\ \E setting \in DOMAIN policy : policy' = [policy EXCEPT ![setting] = ~ @]
    /\ UNCHANGED <<ruleVars, magicHosts, blockedNames, filterPaused, profile, query>>

QueryStep(q) ==
    \/ QueryBegins(q) \/ StageRewrites(q) \/ StageMagicDns(q) \/ StagePrivatePtr(q) \/ StageSafeSearch(q)
    \/ StageFilter(q) \/ AskUpstream(q) \/ QueryReturns(q)

RuleStep ==
    \/ AddRule \/ DeleteRule \/ UpdateRule \/ ReplaceRules
    \/ SaveRules \/ SaveRulesFails \/ PublishRules \/ PipelineRestarts

StoreStep == MagicRecordsChange \/ FilterChanges \/ FilterPauses \/ ProfileChanges \/ PolicyChanges

PipelineNext == (\E q \in DnsQueries : QueryStep(q)) \/ RuleStep \/ StoreStep

PipelineSpec == PipelineInit /\ [][PipelineNext]_pipelineVars

-----------------------------------------------------------------------------
(* However rules are edited while a chain is followed, its links lead from *)
(* the name asked for to the present one, no name is resolved twice in one *)
(* query and no chain is longer than the limit; and a query is only given  *)
(* up as a loop at a target that is in its chain, or when that is full.    *)
ChainSound ==
    \A q \in DnsQueries :
        LET links == query[q].links
        IN /\ Len(links) = query[q].depth /\ Len(links) <= MaxChainDepth
           /\ \A i, j \in DOMAIN links : i # j => links[i].owner # links[j].owner
           /\ \A i \in DOMAIN links : links[i].owner # query[q].name
           /\ \A i \in DOMAIN links :
                links[i].target = (IF i = Len(links) THEN query[q].name ELSE links[i + 1].owner)
           /\ query[q].ended = "loop" =>
                \/ query[q].refused = query[q].name \/ Len(links) = MaxChainDepth
                \/ \E i \in DOMAIN links : links[i].owner = query[q].refused

(* What stood while the whole of a query was resolved was obeyed: a name   *)
(* the filter blocked throughout was not asked for, and neither was a name *)
(* for which rewrites stood throughout; a chase does not lead past them.   *)
StandingPolicyHolds ==
    \A q \in DnsQueries :
        query[q].ended = "upstream" =>
            /\ Filtered(query[q].profile) => query[q].name \notin query[q].blocked
            /\ Lookup(query[q].standing, query[q].name) = {}

(* At rest, the rewrites that answer are those a restart would load, after *)
(* failed saves as well, unless the save failed after the rename.          *)
RewritesMatchFile == ruleEdit = NoEdit /\ ~ ruleFileDiffers => rules = ruleFile
=============================================================================
