---------------------------- MODULE FilterSources ----------------------------
(***************************************************************************)
(* The sources of filter rules (webgui/internal/filter: filter.go,         *)
(* sources.go, subscriptions.go, history.go) and the handlers that edit    *)
(* them (webgui/internal/api: config_subscriptions.go, filtering.go,       *)
(* config_user_rules.go, filtering_diagnostics.go).                        *)
(*                                                                         *)
(* The store holds the subscriptions an operator configured; the engine    *)
(* holds a source object for each enabled one and the file of user rules.  *)
(* One goroutine, the update loop, downloads the sources of a batch in     *)
(* parallel; what they change is put into the indexes that Match reads     *)
(* once, when the batch ends, and with e.mu released while the indexes are *)
(* built.  Edits, rollbacks and reloads of user rules come in between.     *)
(*                                                                         *)
(* A step holds one mutex, reads or writes one file, or gets one answer.   *)
(* A list of rules is a member of Contents and whether its rules are       *)
(* exceptions; the user rules are a version number.  A subscription that   *)
(* is deleted is one that is disabled: the engine cannot tell.  Clearing   *)
(* the DNS cache, the last thing a handler does, belongs to DnsCache.      *)
(***************************************************************************)
EXTENDS Integers, Sequences, FiniteSets

CONSTANTS
  Ids,              \* subscriptions
  Confs,            \* what a subscription's URL and options can be
  AllowConfs,       \* those with allow_only
  Contents,         \* what a download can hold
  NoRules,          \* the download that holds no rule
  Handlers,         \* API requests under way
  MaxHistory,       \* rollback versions kept: 3
  MaxEdits,         \* bounds: changes of the store,
  MaxTicks,         \* firings of the tickers,
  MaxUpsets         \* and rollbacks, edits of the user rules and restarts, together

ASSUME FilterAssumption ==
  /\ Confs # {} /\ AllowConfs \subseteq Confs
  /\ NoRules \in Contents
  /\ MaxHistory \in Nat \ {0}
  /\ {MaxEdits, MaxTicks, MaxUpsets} \subseteq Nat

VARIABLES
  store,            \* SubscriptionStore.items, the same in memory and on disk
  histFile,         \* the document in the history file of each subscription, or none
  userFile,         \* the file of user rules
  ready,            \* main has called SetHistoryDir and serves requests
  sources,          \* e.sources: the objects of enabled subscriptions
  src,              \* what each object holds
  userRules,        \* the rules of the file source
  index,            \* what Match reads: rules of each object, and of the file
  batch,            \* updateBatchDepth, hasDirtyIndexes, the generation moved
  ids, token,       \* updateIDs and updateRequests
  loop,             \* the update loop
  fetch,            \* the goroutines of fetchSource
  handler,          \* the API requests
  wanted,           \* for properties: objects asked for and not collected since
  left              \* what the bounds leave

storeVars  == <<store, histFile, userFile>>
engineVars == <<sources, src, userRules, index, batch, wanted>>
askVars    == <<ids, token>>
vars == <<store, histFile, userFile, ready, sources, src, userRules, index,
          batch, ids, token, loop, fetch, handler, wanted, left>>

\* Source objects have an identity: what was fetched for an object that has
\* been replaced is not the new one's.  Two may be alive beside a dropped one.
Objs == Ids \X (1..3)
IdOf(o) == o[1]

Parsed == [what : Contents, allow : BOOLEAN]
Nothing == [what |-> NoRules, allow |-> FALSE]
AllowOnly(conf) == conf \in AllowConfs

\* parseRules: all rules of an allow_only source are exceptions.
Parse(c, allowOnly) ==
  IF c = NoRules THEN Nothing ELSE [what |-> c, allow |-> allowOnly]

Subscription == [on : BOOLEAN, conf : Confs, gen : 0..MaxEdits]
History == UNION {[1..n -> Parsed] : n \in 0..MaxHistory}
HistoryDocument == [allow : BOOLEAN, snaps : History]

NewSource(s) ==
  [conf |-> s.conf, gen |-> s.gen, rules |-> Nothing, loaded |-> FALSE,
   history |-> <<>>]
Dropped == NewSource([on |-> FALSE, conf |-> CHOOSE c \in Confs : TRUE, gen |-> 0])

ActiveOf(i) == {o \in sources : IdOf(o) = i}

\* buildRuleIndexes: the rules of the sources that are in the list.
Indexed(active, held, file) ==
  [url |-> [o \in Objs |-> IF o \in active THEN held[o].rules ELSE Nothing],
   user |-> file]

\* Mutant: the policy in the file is not looked at.
ReadsAnyHistory(i, allow) == {d.snaps : d \in histFile[i]}

\* readSourceHistory: a file is taken only under the policy it was written under.
ReadHistory(i, allow) == {d.snaps : d \in {f \in histFile[i] : f.allow = allow}}

Idle == [pc |-> "idle"]

\* Rules have changed under e.mu, by a step that rebuilds the indexes ...
Rebuild ==
  /\ index' = Indexed(sources', src', userRules')
  /\ batch' = [batch EXCEPT !.moved = TRUE]

\* ... or by one that leaves them to the end of the batch, if one is open.
RebuildOrDefer ==
  IF batch.open
    THEN /\ batch' = [batch EXCEPT !.moved = TRUE, !.dirty = TRUE]
         /\ UNCHANGED index
    ELSE Rebuild

-----------------------------------------------------------------------------
(* Start of the program: setupFilterEngine, up to StartUpdateLoop. *)

BootSources(st) == {o \in Objs : o[2] = 1 /\ st[IdOf(o)].on}
BootSrc(st) ==
  [o \in Objs |-> IF o \in BootSources(st) THEN NewSource(st[IdOf(o)]) ELSE Dropped]

BootIds(st) == {i \in Ids : st[i].on}

\* The first start seeds the store with the lists of the environment.
Init ==
  /\ store \in [Ids -> [on : {TRUE}, conf : Confs, gen : {0}]]
  /\ histFile = [i \in Ids |-> {}]
  /\ userFile = 0
  /\ left = [edits |-> MaxEdits, ticks |-> MaxTicks, upsets |-> MaxUpsets]
  /\ ready = FALSE
  /\ sources = BootSources(store) /\ src = BootSrc(store)
  /\ userRules = userFile
  /\ index = Indexed(sources, src, userRules)
  /\ batch = [open |-> FALSE, dirty |-> FALSE, moved |-> FALSE]
  /\ ids = BootIds(store) /\ token = (ids # {})
  /\ loop = [pc |-> "init"]
  /\ fetch = [o \in Objs |-> Idle]
  /\ handler = [h \in Handlers |-> Idle]
  /\ wanted = sources

SpendUpset == left.upsets > 0 /\ left' = [left EXCEPT !.upsets = @ - 1]

\* The program stops at any point and is started again: all but the files is new.
Restart ==
  /\ SpendUpset
  /\ UNCHANGED storeVars
  /\ ready' = FALSE
  /\ sources' = BootSources(store) /\ src' = BootSrc(store)
  /\ userRules' = userFile
  /\ index' = Indexed(sources', src', userRules')
  /\ batch' = [open |-> FALSE, dirty |-> FALSE, moved |-> FALSE]
  /\ ids' = BootIds(store) /\ token' = (ids' # {})
  /\ loop' = [pc |-> "init"]
  /\ fetch' = [o \in Objs |-> Idle]
  /\ handler' = [h \in Handlers |-> Idle]
  /\ wanted' = sources'

\* SetFilter and SetSubscriptionStore, while the loop may already fetch.
SetHistoryDir ==
  /\ ~ready
  /\ ready' = TRUE
  /\ src' = [o \in Objs |->
       LET found == ReadHistory(IdOf(o), AllowOnly(src[o].conf))
       IN IF o \in sources /\ src[o].history = <<>> /\ found # {}
            THEN [src[o] EXCEPT !.history = CHOOSE s \in found : TRUE]
            ELSE src[o]]
  /\ UNCHANGED <<storeVars, sources, userRules, index, batch, wanted, askVars,
                 loop, fetch, handler, left>>

-----------------------------------------------------------------------------
(* Requests that edit the subscriptions: change the store, read it again,  *)
(* replace the sources, load the histories of new ones, ask for updates.   *)

Goes(h, state) == handler' = [handler EXCEPT ![h] = state]
Free(h) == ready /\ handler[h] = Idle

SpendEdit == left.edits > 0 /\ left' = [left EXCEPT !.edits = @ - 1]

\* A generation that no subscription had.
NewGeneration == MaxEdits - left.edits + 1

\* PUT of a list, or import of a document.
Replace ==
  \E items \in [Ids -> [on : BOOLEAN, conf : Confs]] :
    store' = [i \in Ids |-> [on |-> items[i].on, conf |-> items[i].conf,
                             gen |-> store[i].gen]]

\* POST of enable, disable or delete for some of them.
Bulk ==
  \E S \in SUBSET Ids \ {{}}, b \in BOOLEAN :
    store' = [i \in Ids |-> IF i \in S THEN [store[i] EXCEPT !.on = b] ELSE store[i]]

\* Refresh of one, of some, or of all: a generation the resolvers see, too.
RequestRefresh ==
  \E S \in SUBSET Ids \ {{}} :
    store' = [i \in Ids |-> IF i \in S THEN [store[i] EXCEPT !.gen = NewGeneration]
                            ELSE store[i]]

EditStore(h) ==
  /\ Free(h)
  /\ SpendEdit
  /\ Replace \/ Bulk \/ RequestRefresh
  /\ Goes(h, [pc |-> "list"])
  /\ UNCHANGED <<histFile, userFile, ready, engineVars, askVars, loop, fetch>>

ListStore(h) ==
  /\ handler[h].pc = "list"
  /\ Goes(h, [pc |-> "replace", list |-> store])
  /\ UNCHANGED <<storeVars, ready, engineVars, askVars, loop, fetch, left>>

\* sourceMatchesSubscription: an object is kept while its options are the same.
Kept(l) == {o \in sources : l[IdOf(o)].on /\ src[o].conf = l[IdOf(o)].conf}

\* A new object for each other enabled subscription: not one somebody still holds.
Created(l) ==
  {<<i, CHOOSE n \in 1..3 : <<i, n>> \notin sources /\ fetch[<<i, n>>] = Idle>> :
     i \in {j \in Ids : l[j].on /\ ActiveOf(j) \cap Kept(l) = {}}}

\* Those asked to refresh: the new ones and those of another generation.
Regenerated(l) == {o \in Kept(l) : src[o].gen # l[IdOf(o)].gen}

\* What is left to do when ReplaceURLSources has released e.mu.
Following(load, ask) ==
  IF load # {} THEN [pc |-> "peek", load |-> load, ask |-> ask]
  ELSE IF ask # {} THEN [pc |-> "ask", ask |-> ask]
  ELSE Idle

ReplaceURLSources(h) ==
  /\ handler[h].pc = "replace"
  /\ LET l == handler[h].list
         new == Created(l)
         refreshed == new \cup Regenerated(l)
     IN /\ sources' = Kept(l) \cup new
        /\ src' = [o \in Objs |->
             IF o \in Kept(l) THEN [src[o] EXCEPT !.gen = l[IdOf(o)].gen]
             ELSE IF o \in new THEN NewSource(l[IdOf(o)])
             ELSE Dropped]
        /\ wanted' = (wanted \cap Kept(l)) \cup refreshed
        /\ Goes(h, Following({IdOf(o) : o \in new}, {IdOf(o) : o \in refreshed}))
  /\ UNCHANGED userRules
  /\ Rebuild
  /\ UNCHANGED <<storeVars, ready, askVars, loop, fetch, left>>

\* loadSourceHistory: the policy under e.mu, the file, and under e.mu again the
\* object that has this policy then.
PeekPolicy(h) ==
  /\ handler[h].pc = "peek"
  /\ \E i \in handler[h].load :
       Goes(h, [pc |-> "read", load |-> handler[h].load \ {i}, ask |-> handler[h].ask,
                id |-> i, allow |-> \E o \in ActiveOf(i) : AllowOnly(src[o].conf)])
  /\ UNCHANGED <<storeVars, ready, engineVars, askVars, loop, fetch, left>>

ReadFile(h) ==
  /\ handler[h].pc = "read"
  /\ LET me == handler[h]
         found == ReadHistory(me.id, me.allow)
     IN Goes(h, IF found = {} THEN Following(me.load, me.ask)
                ELSE [pc |-> "install", load |-> me.load, ask |-> me.ask, id |-> me.id,
                      allow |-> me.allow, snaps |-> CHOOSE s \in found : TRUE])
  /\ UNCHANGED <<storeVars, ready, engineVars, askVars, loop, fetch, left>>

\* The objects that a history read under the policy is for.
TakesHistory(i, allow) == {o \in ActiveOf(i) : AllowOnly(src[o].conf) = allow}

InstallHistory(h) ==
  /\ handler[h].pc = "install"
  /\ LET me == handler[h]
     IN /\ src' = [o \in Objs |-> IF o \in TakesHistory(me.id, me.allow)
                     THEN [src[o] EXCEPT !.history = me.snaps] ELSE src[o]]
        /\ Goes(h, Following(me.load, me.ask))
  /\ UNCHANGED <<storeVars, ready, sources, userRules, index, batch, wanted, askVars,
                 loop, fetch, left>>

\* Mutant: a signal is spared when ids are waiting already.
AsksWithoutSignal(h) ==
  /\ handler[h].pc = "ask"
  /\ \E i \in handler[h].ask :
       /\ ids' = ids \cup {i}
       /\ Goes(h, IF ids = {} THEN [pc |-> "signal", ask |-> handler[h].ask \ {i}]
                  ELSE Following({}, handler[h].ask \ {i}))
  /\ UNCHANGED <<storeVars, ready, engineVars, token, loop, fetch, left>>

\* requestSourceUpdate: the id under updateMu, then the channel of capacity 1.
AskUpdate(h) ==
  /\ handler[h].pc = "ask"
  /\ \E i \in handler[h].ask :
       /\ ids' = ids \cup {i}
       /\ Goes(h, [pc |-> "signal", ask |-> handler[h].ask \ {i}])
  /\ UNCHANGED <<storeVars, ready, engineVars, token, loop, fetch, left>>

SignalUpdate(h) ==
  /\ handler[h].pc = "signal"
  /\ token' = TRUE
  /\ Goes(h, Following({}, handler[h].ask))
  /\ UNCHANGED <<storeVars, ready, engineVars, ids, loop, fetch, left>>

-----------------------------------------------------------------------------
(* Rollback of a subscription, and the file of user rules. *)

\* snapshotRulesForPolicy
UnderPolicy(snap, allowOnly) ==
  IF allowOnly THEN Parse(snap.what, TRUE) ELSE snap

RollbackSource(h) ==
  /\ Free(h)
  /\ SpendUpset
  /\ \E o \in sources :
       LET past == src[o].history
       IN /\ past # <<>>
          /\ src' = [src EXCEPT
               ![o].rules = UnderPolicy(past[Len(past)], AllowOnly(src[o].conf)),
               ![o].loaded = TRUE,
               ![o].history = SubSeq(past, 1, Len(past) - 1)]
          /\ Goes(h, [pc |-> "persist", id |-> IdOf(o)])
  /\ UNCHANGED <<sources, userRules, wanted>>
  /\ Rebuild
  /\ UNCHANGED <<storeVars, ready, askVars, loop, fetch>>

\* persistSourceHistory: the document under e.mu, also of a source that is gone,
\* and later the file.
Document(i) ==
  IF ActiveOf(i) = {} THEN [allow |-> FALSE, snaps |-> <<>>]
  ELSE LET o == CHOOSE p \in ActiveOf(i) : TRUE
       IN [allow |-> AllowOnly(src[o].conf), snaps |-> src[o].history]

Persist(h) ==
  /\ handler[h].pc = "persist"
  /\ Goes(h, [pc |-> "write", id |-> handler[h].id, doc |-> Document(handler[h].id)])
  /\ UNCHANGED <<storeVars, ready, engineVars, askVars, loop, fetch, left>>

WriteHistory(h) ==
  /\ handler[h].pc = "write"
  /\ histFile' = [histFile EXCEPT ![handler[h].id] = {handler[h].doc}]
  /\ Goes(h, Idle)
  /\ UNCHANGED <<store, userFile, ready, engineVars, askVars, loop, fetch, left>>

\* userRulesMu: an edit from the query log keeps it until the rules are set, one
\* of the whole file releases it before ReloadSource.
UserRulesLocked == \E h \in Handlers : handler[h].pc \in {"reload", "set"} /\ handler[h].held

EditUserRules(h) ==
  /\ Free(h)
  /\ SpendUpset
  /\ ~UserRulesLocked
  /\ userFile' = userFile + 1
  /\ \E held \in BOOLEAN : Goes(h, [pc |-> "reload", held |-> held])
  /\ UNCHANGED <<store, histFile, ready, engineVars, askVars, loop, fetch>>

ReadUserRules(h) ==
  /\ handler[h].pc = "reload"
  /\ Goes(h, [pc |-> "set", held |-> handler[h].held, file |-> userFile])
  /\ UNCHANGED <<storeVars, ready, engineVars, askVars, loop, fetch, left>>

\* setRules of the file source: nothing to do when its checksum is the same.
SetUserRules(v) ==
  /\ userRules' = v
  /\ UNCHANGED <<sources, src, wanted>>
  /\ IF v # userRules THEN RebuildOrDefer ELSE UNCHANGED <<index, batch>>

ReloadUserRules(h) ==
  /\ handler[h].pc = "set"
  /\ SetUserRules(handler[h].file)
  /\ Goes(h, Idle)
  /\ UNCHANGED <<storeVars, ready, askVars, loop, fetch, left>>

-----------------------------------------------------------------------------
(* The update loop, StartUpdateLoop. *)

Loop(state) == loop' = state

\* A batch of downloads: the sources are collected, and the batch is opened for
\* them unless there are none.
Collect(urls) ==
  /\ wanted' = wanted \ urls
  /\ IF urls = {}
       THEN /\ Loop([pc |-> "select"])
            /\ UNCHANGED <<batch, fetch>>
       ELSE /\ Loop([pc |-> "fetching"])
            /\ batch' = [batch EXCEPT !.open = TRUE]
            /\ fetch' = [o \in Objs |-> IF o \in urls THEN [pc |-> "queued"] ELSE fetch[o]]
  /\ UNCHANGED <<storeVars, ready, sources, src, userRules, index, askVars, handler>>

\* First the requests of the setup are dropped, since all sources are fetched.
DropRequests ==
  /\ loop.pc = "init"
  /\ ids' = {}
  /\ Loop([pc |-> "drain"])
  /\ UNCHANGED <<storeVars, ready, engineVars, token, fetch, handler, left>>

DrainSignal ==
  /\ loop.pc = "drain"
  /\ token' = FALSE
  /\ Loop([pc |-> "all"])
  /\ UNCHANGED <<storeVars, ready, engineVars, ids, fetch, handler, left>>

UpdateAll ==
  /\ loop.pc = "all"
  /\ Collect(sources)
  /\ UNCHANGED left

\* A request, or several of them at once: the ids are taken after the signal.
ReceiveSignal ==
  /\ loop.pc = "select" /\ token
  /\ token' = FALSE
  /\ Loop([pc |-> "take"])
  /\ UNCHANGED <<storeVars, ready, engineVars, ids, fetch, handler, left>>

TakeUpdateRequest ==
  /\ loop.pc = "take"
  /\ Loop(IF ids = {} THEN [pc |-> "select"] ELSE [pc |-> "some", ids |-> ids])
  /\ ids' = {}
  /\ UNCHANGED <<storeVars, ready, engineVars, token, fetch, handler, left>>

UpdateSources ==
  /\ loop.pc = "some"
  /\ Collect({o \in sources : IdOf(o) \in loop.ids})
  /\ UNCHANGED left

\* The ticker: the file in a batch of its own, then the sources that follow the
\* interval.  The minute ticker: those whose time of the day has come.
SpendTick == left.ticks > 0 /\ left' = [left EXCEPT !.ticks = @ - 1]

Tick ==
  /\ loop.pc = "select"
  /\ SpendTick
  /\ batch' = [batch EXCEPT !.open = TRUE]
  /\ Loop([pc |-> "local"])
  /\ UNCHANGED <<storeVars, ready, sources, src, userRules, index, wanted, askVars,
                 fetch, handler>>

ReadLocal ==
  /\ loop.pc = "local"
  /\ Loop([pc |-> "loaded", file |-> userFile])
  /\ UNCHANGED <<storeVars, ready, engineVars, askVars, fetch, handler, left>>

SetLocal ==
  /\ loop.pc = "loaded"
  /\ SetUserRules(loop.file)
  /\ Loop([pc |-> "end", then |-> "interval"])
  /\ UNCHANGED <<storeVars, ready, askVars, fetch, handler, left>>

UpdateInterval ==
  /\ loop.pc = "interval"
  /\ \E S \in SUBSET sources : Collect(S)
  /\ UNCHANGED left

UpdateScheduled ==
  /\ loop.pc = "select"
  /\ SpendTick
  /\ \E S \in SUBSET sources \ {{}} : Collect(S)

\* fetchSource: the rules are kept on any error and on 304 ...
FetchKeeps(o) ==
  /\ fetch[o].pc = "queued"
  /\ fetch' = [fetch EXCEPT ![o] = Idle]
  /\ UNCHANGED <<storeVars, ready, engineVars, askVars, loop, handler, left>>

\* ... and parsed from an answer.
FetchParses(o) ==
  /\ fetch[o].pc = "queued"
  /\ \E c \in Contents :
       fetch' = [fetch EXCEPT ![o] = [pc |-> "parsed",
                                      rules |-> Parse(c, AllowOnly(src[o].conf))]]
  /\ UNCHANGED <<storeVars, ready, engineVars, askVars, loop, handler, left>>

\* A result is for a source that is still in the list.
IsActive(o) == o \in sources

\* The previous rules become the youngest version, of at most MaxHistory.
Remember(s) ==
  IF s.rules = Nothing THEN s.history
  ELSE LET all == Append(s.history, s.rules)
       IN SubSeq(all, Len(all) - (IF Len(all) > MaxHistory THEN MaxHistory ELSE Len(all)) + 1,
                 Len(all))

\* setRulesStatus of a download.
SetRules(o) ==
  /\ fetch[o].pc = "parsed"
  /\ LET r == fetch[o].rules
         changed == IF src[o].loaded THEN r # src[o].rules ELSE r # Nothing
     IN IF IsActive(o)
          THEN /\ src' = [src EXCEPT
                    ![o].rules = r, ![o].loaded = TRUE,
                    ![o].history = IF changed THEN Remember(src[o]) ELSE @]
               /\ UNCHANGED <<sources, userRules, wanted>>
               /\ IF changed THEN RebuildOrDefer ELSE UNCHANGED <<index, batch>>
               /\ fetch' = [fetch EXCEPT ![o] = IF changed THEN [pc |-> "persist"] ELSE Idle]
          ELSE /\ fetch' = [fetch EXCEPT ![o] = Idle]
               /\ UNCHANGED engineVars
  /\ UNCHANGED <<storeVars, ready, askVars, loop, handler, left>>

\* There is no directory to write to before SetHistoryDir.
FetchPersists(o) ==
  /\ fetch[o].pc = "persist"
  /\ fetch' = [fetch EXCEPT ![o] = IF ready THEN [pc |-> "write", doc |-> Document(IdOf(o))]
                                   ELSE Idle]
  /\ UNCHANGED <<storeVars, ready, engineVars, askVars, loop, handler, left>>

FetchWrites(o) ==
  /\ fetch[o].pc = "write"
  /\ histFile' = [histFile EXCEPT ![IdOf(o)] = {fetch[o].doc}]
  /\ fetch' = [fetch EXCEPT ![o] = Idle]
  /\ UNCHANGED <<store, userFile, ready, engineVars, askVars, loop, handler, left>>

FetchesDone ==
  /\ loop.pc = "fetching"
  /\ \A o \in Objs : fetch[o] = Idle
  /\ Loop([pc |-> "end", then |-> "select"])
  /\ UNCHANGED <<storeVars, ready, engineVars, askVars, fetch, handler, left>>

\* endRuleUpdateBatch: the rules are copied under e.mu ...
EndBatch ==
  /\ loop.pc = "end"
  /\ batch' = [open |-> FALSE, dirty |-> FALSE, moved |-> FALSE]
  /\ Loop(IF batch.dirty
            THEN [pc |-> "apply", then |-> loop.then, built |-> Indexed(sources, src, userRules)]
            ELSE [pc |-> loop.then])
  /\ UNCHANGED <<storeVars, ready, sources, src, userRules, index, wanted, askVars,
                 fetch, handler, left>>

\* Mutant: the generation is not compared.
AppliedAlways == loop.built

\* ... and the indexes built from the copy are used unless the rules have
\* changed meanwhile: who changed them has built the indexes anew.
Applied == IF batch.moved THEN index ELSE loop.built

ApplyIndexes ==
  /\ loop.pc = "apply"
  /\ index' = Applied
  /\ Loop([pc |-> loop.then])
  /\ UNCHANGED <<storeVars, ready, sources, src, userRules, batch, wanted, askVars,
                 fetch, handler, left>>

-----------------------------------------------------------------------------
HandlerStep(h) ==
  \/ EditStore(h) \/ ListStore(h) \/ ReplaceURLSources(h)
  \/ PeekPolicy(h) \/ ReadFile(h) \/ InstallHistory(h)
  \/ AskUpdate(h) \/ SignalUpdate(h)
  \/ RollbackSource(h) \/ Persist(h) \/ WriteHistory(h)
  \/ EditUserRules(h) \/ ReadUserRules(h) \/ ReloadUserRules(h)

FetchStep(o) ==
  FetchKeeps(o) \/ FetchParses(o) \/ SetRules(o) \/ FetchPersists(o) \/ FetchWrites(o)

LoopStep ==
  \/ DropRequests \/ DrainSignal \/ UpdateAll
  \/ ReceiveSignal \/ TakeUpdateRequest \/ UpdateSources
  \/ Tick \/ ReadLocal \/ SetLocal \/ UpdateInterval \/ UpdateScheduled
  \/ FetchesDone \/ EndBatch \/ ApplyIndexes

Next ==
  \/ Restart \/ SetHistoryDir \/ LoopStep
  \/ \E h \in Handlers : HandlerStep(h)
  \/ \E o \in Objs : FetchStep(o)

Spec == Init /\ [][Next]_vars

-----------------------------------------------------------------------------
(* Properties *)

SourceState == [conf : Confs, gen : 0..MaxEdits, rules : Parsed, loaded : BOOLEAN,
                history : History]

\* The type of every variable that is not a program counter.
TypeOK ==
  /\ store \in [Ids -> Subscription]
  /\ histFile \in [Ids -> SUBSET HistoryDocument]
  /\ sources \subseteq Objs /\ wanted \subseteq sources
  /\ \A i \in Ids : Cardinality(ActiveOf(i)) <= 1
  /\ src \in [Objs -> SourceState]
  /\ index \in [url : [Objs -> Parsed], user : 0..MaxUpsets]
  /\ userFile \in 0..MaxUpsets /\ userRules \in 0..MaxUpsets
  /\ batch \in [open : BOOLEAN, dirty : BOOLEAN, moved : BOOLEAN]
  /\ ids \subseteq Ids /\ token \in BOOLEAN /\ ready \in BOOLEAN

\* Unless a batch holds changes back, or the indexes built for one are still to
\* be put in place and nobody has built them anew since, Match reads exactly the
\* rules that the sources hold.  The rules of a source that is gone never match,
\* whatever is fetched, rolled back, reloaded or edited in between, and the
\* indexes built from an old copy never replace newer ones (ruleGeneration,
\* filter.go:541).
PublishedIsCurrent ==
  /\ ~batch.dirty /\ (loop.pc = "apply" => batch.moved)
       => index = Indexed(sources, src, userRules)
  /\ \A o \in Objs \ sources : index.url[o] = Nothing /\ src[o].rules = Nothing

\* What matches for a source was classified under its present policy: neither a
\* download that was under way when allow_only changed nor a history file that
\* was written, read or taken over while it changed turns exceptions into block
\* rules or block rules into exceptions (history.go:23, filter.go:592).
ClassifiedUnderPolicy ==
  \A o \in sources :
    /\ src[o].rules # Nothing => src[o].rules.allow = AllowOnly(src[o].conf)
    /\ index.url[o] # Nothing => index.url[o].allow = AllowOnly(src[o].conf)

\* An update that was asked for a source, by an edit or by a refresh, is not lost
\* in the coalescing of requests: until the loop collects the source somebody has
\* still to ask, a signal is there or on its way, or the loop is about to look.
RequestsNotLost ==
  \A o \in wanted :
    \/ loop.pc \in {"init", "drain", "all"}
    \/ loop.pc = "some" /\ IdOf(o) \in loop.ids
    \/ \E h \in Handlers :
         handler[h].pc \in {"peek", "read", "install", "ask", "signal"}
           /\ IdOf(o) \in handler[h].ask
    \/ /\ IdOf(o) \in ids
       /\ \/ token \/ loop.pc = "take"
          \/ \E h \in Handlers : handler[h].pc = "signal"
=============================================================================
