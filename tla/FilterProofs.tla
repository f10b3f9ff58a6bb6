----------------------------- MODULE FilterProofs -----------------------------
(***************************************************************************)
(* For any number of subscriptions and requests, and without the bounds on *)
(* edits, ticks and restarts having to be small: what Match reads is what  *)
(* the sources hold, it was classified under their present policy, and no  *)
(* request for an update is lost.                                          *)
(*                                                                         *)
(* The shapes come first: a source is replaced by an object that nobody    *)
(* holds, since of the three an id can have one is in the list and one is  *)
(* being downloaded at most.  The three properties follow, each by its own *)
(* strengthening, with one lemma for the requests, one for the downloads   *)
(* and one for the update loop.                                            *)
(***************************************************************************)
EXTENDS FilterSources, TLAPS

Listed == [on : BOOLEAN, conf : Confs, gen : Int]
StoreList == [Ids -> Listed]
Past == Seq(Parsed)
Doc == [allow : BOOLEAN, snaps : Past]
Held == [conf : Confs, gen : Int, rules : Parsed, loaded : BOOLEAN, history : Past]

HandlerState ==
  [pc : {"idle", "list"}]
    \cup [pc : {"replace"}, list : StoreList]
    \cup [pc : {"peek"}, load : SUBSET Ids, ask : SUBSET Ids]
    \cup [pc : {"read"}, load : SUBSET Ids, ask : SUBSET Ids, id : Ids, allow : BOOLEAN]
    \cup [pc : {"install"}, load : SUBSET Ids, ask : SUBSET Ids, id : Ids,
          allow : BOOLEAN, snaps : Past]
    \cup [pc : {"ask", "signal"}, ask : SUBSET Ids]
    \cup [pc : {"persist"}, id : Ids]
    \cup [pc : {"write"}, id : Ids, doc : Doc]
    \cup [pc : {"reload"}, held : BOOLEAN]
    \cup [pc : {"set"}, held : BOOLEAN, file : Int]

FetchState ==
  [pc : {"idle", "queued", "persist"}]
    \cup [pc : {"parsed"}, rules : Parsed] \cup [pc : {"write"}, doc : Doc]

FileShape ==
  /\ store \in StoreList /\ histFile \in [Ids -> SUBSET Doc] /\ userFile \in Int
  /\ left \in [edits : Int, ticks : Int, upsets : Int]

HandlerShape == handler \in [Handlers -> HandlerState]

FetchShape == fetch \in [Objs -> FetchState]

SourceShape ==
  /\ sources \subseteq Objs /\ wanted \subseteq sources
  /\ src \in [Objs -> Held]

\* One object of an id is in the list, and one is downloaded, at most.
OneEach ==
  /\ \A o, p \in sources : IdOf(o) = IdOf(p) => o = p
  /\ \A o, p \in Objs :
       fetch[o] # Idle /\ fetch[p] # Idle /\ IdOf(o) = IdOf(p) => o = p
  /\ loop.pc # "fetching" => \A o \in Objs : fetch[o] = Idle

BatchShape ==
  /\ batch \in [open : BOOLEAN, dirty : BOOLEAN, moved : BOOLEAN]
  /\ batch.dirty => batch.open
  /\ loop.pc = "apply" => ~batch.open
  /\ loop.pc \in {"end", "apply"} => loop.then \in {"select", "interval"}
  /\ loop.pc = "loaded" => loop.file \in Int

Shape == FileShape /\ HandlerShape /\ FetchShape /\ SourceShape /\ OneEach /\ BatchShape

-----------------------------------------------------------------------------
(* Values. *)

LEMMA NothingParsed == Nothing \in Parsed
BY FilterAssumption DEF Nothing, Parsed

LEMMA ParseParsed ==
  ASSUME NEW c \in Contents, NEW b \in BOOLEAN
  PROVE  Parse(c, b) \in Parsed
BY NothingParsed DEF Parse, Parsed

LEMMA AllowBoolean == \A c : AllowOnly(c) \in BOOLEAN
BY DEF AllowOnly

\* A source starts with no rules and no history.
LEMMA NewHeld ==
  ASSUME NEW s, s.conf \in Confs, s.gen \in Int
  PROVE  /\ NewSource(s) \in Held
         /\ NewSource(s).rules = Nothing /\ NewSource(s).conf = s.conf
         /\ NewSource(s).loaded = FALSE /\ NewSource(s).history = <<>>
<1>1. <<>> \in Past
  BY DEF Past
<1> HIDE DEF Past
<1> QED BY <1>1, NothingParsed DEF NewSource, Held

LEMMA DroppedHeld ==
  Dropped \in Held /\ Dropped.rules = Nothing /\ Dropped.loaded = FALSE
<1> DEFINE s == [on |-> FALSE, conf |-> CHOOSE c \in Confs : TRUE, gen |-> 0]
<1>1. (CHOOSE c \in Confs : TRUE) \in Confs
  BY FilterAssumption
<1>2. s.conf \in Confs /\ s.gen \in Int
  BY <1>1
<1> HIDE DEF s
<1>3. Dropped = NewSource(s)
  BY DEF Dropped, s
<1> QED BY <1>2, <1>3, NewHeld

\* Rules of a snapshot, under any policy.
LEMMA UnderPolicyParsed ==
  ASSUME NEW snap \in Parsed, NEW b \in BOOLEAN
  PROVE  UnderPolicy(snap, b) \in Parsed
<1>1. snap.what \in Contents
  BY DEF Parsed
<1>2. Parse(snap.what, TRUE) \in Parsed
  BY <1>1, ParseParsed
<1> QED BY <1>2 DEF UnderPolicy

\* The history after a change holds rules only.
LEMMA RememberPast ==
  ASSUME NEW s \in Held
  PROVE  Remember(s) \in Past
<1>1. s.history \in Seq(Parsed) /\ s.rules \in Parsed
  BY DEF Held, Past
<1>2. CASE s.rules = Nothing
  BY <1>1, <1>2 DEF Remember, Past
<1>3. CASE s.rules # Nothing
  <2> DEFINE all == Append(s.history, s.rules)
             n == IF Len(all) > MaxHistory THEN MaxHistory ELSE Len(all)
  <2>1. all \in Seq(Parsed) /\ Len(all) \in Nat
    BY <1>1
  <2>2. n \in Nat /\ n <= Len(all)
    BY <2>1, FilterAssumption
  <2>3. Remember(s) = SubSeq(all, Len(all) - n + 1, Len(all))
    BY <1>3 DEF Remember
  <2> HIDE DEF all, n
  <2>4. \A i \in Len(all) - n + 1 .. Len(all) : all[i] \in Parsed
    BY <2>1, <2>2
  <2>5. SubSeq(all, Len(all) - n + 1, Len(all)) \in Seq(Parsed)
    BY <2>1, <2>2, <2>4
  <2> QED BY <2>3, <2>5 DEF Past
<1> QED BY <1>2, <1>3

\* What a request does after the sources have been replaced or a history loaded.
LEMMA FollowingState ==
  ASSUME NEW load \in SUBSET Ids, NEW ask \in SUBSET Ids
  PROVE  /\ Following(load, ask) \in HandlerState
         /\ Following(load, ask).pc \in {"peek", "ask", "idle"}
         /\ ask # {} => /\ Following(load, ask).pc \in {"peek", "ask"}
                        /\ Following(load, ask).ask = ask
BY DEF Following, Idle, HandlerState

-----------------------------------------------------------------------------
(* Replacement. *)

\* Of the three objects of an id one is neither in the list nor downloaded.
LEMMA FreeObject ==
  ASSUME OneEach, FetchShape, NEW i \in Ids
  PROVE  \E n \in 1..3 : <<i, n>> \notin sources /\ fetch[<<i, n>>] = Idle
<1> SUFFICES ASSUME \A n \in 1..3 : <<i, n>> \in sources \/ fetch[<<i, n>>] # Idle
             PROVE  FALSE
  OBVIOUS
<1>1. \A n \in 1..3 : <<i, n>> \in Objs /\ IdOf(<<i, n>>) = i
  BY DEF Objs, IdOf
<1>2. \A m, n \in 1..3 : m # n => <<i, m>> # <<i, n>>
  OBVIOUS
<1>3. \A m, n \in 1..3 : m # n => ~(<<i, m>> \in sources /\ <<i, n>> \in sources)
  BY <1>1, <1>2 DEF OneEach
<1>4. \A m, n \in 1..3 : m # n => ~(fetch[<<i, m>>] # Idle /\ fetch[<<i, n>>] # Idle)
  BY <1>1, <1>2 DEF OneEach
<1>5. 1 \in 1..3 /\ 2 \in 1..3 /\ 3 \in 1..3
  OBVIOUS
<1> QED BY <1>3, <1>4, <1>5

LEMMA CreatedObjects ==
  ASSUME OneEach, FetchShape, SourceShape, NEW l
  PROVE  /\ \A o \in Created(l) :
              /\ o \in Objs /\ o \notin sources /\ fetch[o] = Idle
              /\ l[IdOf(o)].on
              /\ \A p \in Kept(l) : IdOf(p) # IdOf(o)
         /\ \A o, p \in Created(l) : IdOf(o) = IdOf(p) => o = p
<1> DEFINE N(i) == CHOOSE n \in 1..3 : <<i, n>> \notin sources /\ fetch[<<i, n>>] = Idle
           Lacking == {j \in Ids : l[j].on /\ ActiveOf(j) \cap Kept(l) = {}}
<1>1. Created(l) = {<<i, N(i)>> : i \in Lacking}
  BY DEF Created
<1>2. ASSUME NEW i \in Ids
      PROVE  N(i) \in 1..3 /\ <<i, N(i)>> \notin sources /\ fetch[<<i, N(i)>>] = Idle
  BY FreeObject
<1> HIDE DEF N
<1>3. ASSUME NEW o \in Created(l)
      PROVE  \E i \in Lacking : o = <<i, N(i)>> /\ IdOf(o) = i
  BY <1>1, <1>3 DEF IdOf
<1>4. ASSUME NEW o \in Created(l)
      PROVE  /\ o \in Objs /\ o \notin sources /\ fetch[o] = Idle
             /\ l[IdOf(o)].on
             /\ \A p \in Kept(l) : IdOf(p) # IdOf(o)
  <2>1. PICK i \in Lacking : o = <<i, N(i)>> /\ IdOf(o) = i
    BY <1>3, <1>4
  <2>2. \A p \in Kept(l) : IdOf(p) # i
    BY <2>1 DEF Kept, ActiveOf
  <2> QED BY <1>2, <2>1, <2>2 DEF Objs
<1>5. \A o, p \in Created(l) : IdOf(o) = IdOf(p) => o = p
  BY <1>3
<1> QED BY <1>4, <1>5

\* The step of a request that only changes what the request remembers.
LEMMA HandlerGoes ==
  ASSUME HandlerShape, NEW h \in Handlers, NEW state \in HandlerState, Goes(h, state)
  PROVE  HandlerShape'
BY DEF HandlerShape, Goes

\* What a request remembers, by its place.
LEMMA HandlerFields ==
  ASSUME HandlerShape, NEW h \in Handlers
  PROVE  /\ handler[h].pc = "replace" => handler[h].list \in StoreList
         /\ handler[h].pc \in {"peek", "read", "install"} =>
              handler[h].load \in SUBSET Ids
         /\ handler[h].pc \in {"peek", "read", "install", "ask", "signal"} =>
              handler[h].ask \in SUBSET Ids
         /\ handler[h].pc \in {"read", "install"} =>
              handler[h].id \in Ids /\ handler[h].allow \in BOOLEAN
         /\ handler[h].pc = "install" => handler[h].snaps \in Past
         /\ handler[h].pc = "persist" => handler[h].id \in Ids
         /\ handler[h].pc = "write" => handler[h].id \in Ids /\ handler[h].doc \in Doc
         /\ handler[h].pc \in {"reload", "set"} => handler[h].held \in BOOLEAN
         /\ handler[h].pc = "set" => handler[h].file \in Int
<1>1. handler[h] \in HandlerState
  BY DEF HandlerShape
<1> QED BY <1>1 DEF HandlerState

LEMMA FetchFields ==
  ASSUME FetchShape, NEW o \in Objs
  PROVE  /\ fetch[o].pc = "parsed" => fetch[o].rules \in Parsed
         /\ fetch[o].pc = "write" => fetch[o].doc \in Doc
<1>1. fetch[o] \in FetchState
  BY DEF FetchShape
<1> QED BY <1>1 DEF FetchState

-----------------------------------------------------------------------------
(* The shapes are kept. *)

LEMMA InitShape == Init => Shape
<1> SUFFICES ASSUME Init PROVE Shape
  OBVIOUS
<1>1. FileShape
  <2>1. ASSUME NEW i \in Ids
        PROVE  store[i] \in Listed
    <3>1. PICK conf \in Confs : store[i] = [on |-> TRUE, conf |-> conf, gen |-> 0]
      BY DEF Init
    <3> QED BY <3>1 DEF Listed
  <2>2. store \in StoreList
    BY <2>1 DEF Init, StoreList
  <2>3. MaxEdits \in Int /\ MaxTicks \in Int /\ MaxUpsets \in Int
    BY FilterAssumption
  <2> QED BY <2>2, <2>3 DEF Init, FileShape
<1>2. Idle \in HandlerState /\ Idle \in FetchState
  BY DEF Idle, HandlerState, FetchState
<1>3. HandlerShape /\ FetchShape
  BY <1>2 DEF Init, HandlerShape, FetchShape
<1>4. \A o \in Objs : store[IdOf(o)].conf \in Confs /\ store[IdOf(o)].gen \in Int
  BY <1>1 DEF Objs, IdOf, FileShape, StoreList, Listed
<1>5. SourceShape
  BY <1>4, NewHeld, DroppedHeld DEF Init, SourceShape, BootSources, BootSrc
<1>6. OneEach
  <2>1. \A o, p \in BootSources(store) : IdOf(o) = IdOf(p) => o = p
    BY DEF BootSources, Objs, IdOf
  <2> QED BY <2>1 DEF Init, OneEach
<1>7. BatchShape
  BY DEF Init, BatchShape
<1> QED BY <1>1, <1>3, <1>5, <1>6, <1>7 DEF Shape

LEMMA RestartShape ==
  ASSUME Shape, Restart
  PROVE  Shape'
<1>1. FileShape'
  BY DEF Shape, FileShape, Restart, SpendUpset, storeVars
<1>2. Idle \in HandlerState /\ Idle \in FetchState
  BY DEF Idle, HandlerState, FetchState
<1>3. HandlerShape' /\ FetchShape'
  BY <1>2 DEF Restart, HandlerShape, FetchShape
<1>4. \A o \in Objs : store[IdOf(o)].conf \in Confs /\ store[IdOf(o)].gen \in Int
  BY DEF Objs, IdOf, Shape, FileShape, StoreList, Listed
<1>5. SourceShape'
  BY <1>4, NewHeld, DroppedHeld DEF Restart, SourceShape, BootSources, BootSrc
<1>6. OneEach'
  <2>1. \A o, p \in BootSources(store) : IdOf(o) = IdOf(p) => o = p
    BY DEF BootSources, Objs, IdOf
  <2> QED BY <2>1 DEF Restart, OneEach
<1>7. BatchShape'
  BY DEF Restart, BatchShape
<1> QED BY <1>1, <1>3, <1>5, <1>6, <1>7 DEF Shape

\* What a step leaves alone keeps its shape.
LEMMA EngineUnchanged ==
  ASSUME Shape, UNCHANGED <<engineVars, loop, fetch>>
  PROVE  FetchShape' /\ SourceShape' /\ OneEach' /\ BatchShape'
<1>1. FetchShape' /\ SourceShape'
  BY DEF Shape, engineVars, FetchShape, SourceShape
<1>2. OneEach' /\ BatchShape'
  BY DEF Shape, engineVars, OneEach, BatchShape
<1> QED BY <1>1, <1>2

LEMMA FilesUnchanged ==
  ASSUME Shape, UNCHANGED <<storeVars, left>>
  PROVE  FileShape'
BY DEF Shape, storeVars, FileShape

\* So does the batch when rules change.
LEMMA RulesChange ==
  ASSUME BatchShape, Rebuild \/ RebuildOrDefer \/ UNCHANGED <<index, batch>>, UNCHANGED loop
  PROVE  BatchShape'
BY DEF BatchShape, Rebuild, RebuildOrDefer

LEMMA OneEachUnchanged ==
  ASSUME OneEach, UNCHANGED <<sources, fetch, loop>>
  PROVE  OneEach'
BY DEF OneEach

LEMMA HistoryRead ==
  ASSUME FileShape, NEW i \in Ids, NEW allow, ReadHistory(i, allow) # {}
  PROVE  (CHOOSE s \in ReadHistory(i, allow) : TRUE) \in Past
<1>1. \A d \in histFile[i] : d.snaps \in Past
  BY DEF FileShape, Doc
<1>2. \A s \in ReadHistory(i, allow) : s \in Past
  BY <1>1 DEF ReadHistory
<1> QED BY <1>2

LEMMA SetHistoryDirShape ==
  ASSUME Shape, SetHistoryDir
  PROVE  Shape'
<1>1. FileShape' /\ HandlerShape' /\ FetchShape' /\ OneEach' /\ BatchShape'
  BY FilesUnchanged, OneEachUnchanged DEF Shape, SetHistoryDir, HandlerShape, FetchShape, BatchShape
<1>2. ASSUME NEW o \in Objs
      PROVE  src'[o] \in Held
  <2> DEFINE found == ReadHistory(IdOf(o), AllowOnly(src[o].conf))
  <2>1. src[o] \in Held /\ IdOf(o) \in Ids
    BY DEF Shape, SourceShape, Objs, IdOf
  <2>2. found # {} => (CHOOSE s \in found : TRUE) \in Past
    BY <2>1, HistoryRead DEF Shape
  <2>3. \/ src'[o] = src[o]
        \/ found # {} /\ src'[o] = [src[o] EXCEPT !.history = CHOOSE s \in found : TRUE]
    BY DEF SetHistoryDir
  <2> HIDE DEF found
  <2> QED BY <2>1, <2>2, <2>3 DEF Held
<1>3. SourceShape'
  BY <1>2 DEF Shape, SourceShape, SetHistoryDir
<1> QED BY <1>1, <1>3 DEF Shape

LEMMA EditStoreShape ==
  ASSUME Shape, NEW h \in Handlers, EditStore(h)
  PROVE  Shape'
<1>1. HandlerShape'
  <2>1. [pc |-> "list"] \in HandlerState
    BY DEF HandlerState
  <2> QED BY <2>1, HandlerGoes DEF Shape, EditStore
<1>2. left' \in [edits : Int, ticks : Int, upsets : Int] /\ NewGeneration \in Int
  BY FilterAssumption DEF Shape, FileShape, EditStore, SpendEdit, NewGeneration
<1>3. store' \in StoreList
  <2>1. store \in [Ids -> Listed]
    BY DEF Shape, FileShape, StoreList
  <2>2. CASE Replace
    <3>1. PICK items \in [Ids -> [on : BOOLEAN, conf : Confs]] :
            store' = [i \in Ids |-> [on |-> items[i].on, conf |-> items[i].conf,
                                     gen |-> store[i].gen]]
      BY <2>2 DEF Replace
    <3>2. \A i \in Ids : items[i].on \in BOOLEAN /\ items[i].conf \in Confs
      BY <3>1
    <3>3. \A i \in Ids : store[i].gen \in Int
      BY <2>1 DEF Listed
    <3> QED BY <3>1, <3>2, <3>3 DEF StoreList, Listed
  <2>3. CASE Bulk
    BY <2>1, <2>3 DEF Bulk, StoreList, Listed
  <2>4. CASE RequestRefresh
    BY <1>2, <2>1, <2>4 DEF RequestRefresh, StoreList, Listed
  <2> QED BY <2>2, <2>3, <2>4 DEF EditStore
<1>4. FileShape'
  BY <1>2, <1>3 DEF Shape, FileShape, EditStore
<1> QED BY <1>1, <1>4, EngineUnchanged DEF EditStore, Shape

LEMMA ListStoreShape ==
  ASSUME Shape, NEW h \in Handlers, ListStore(h)
  PROVE  Shape'
<1>1. [pc |-> "replace", list |-> store] \in HandlerState
  BY DEF HandlerState, Shape, FileShape
<1> QED BY <1>1, HandlerGoes, EngineUnchanged, FilesUnchanged DEF ListStore, Shape

\* The sources are those kept and those created, one for each id.
LEMMA ReplacedSources ==
  ASSUME Shape, NEW l \in StoreList,
         sources' = Kept(l) \cup Created(l), UNCHANGED <<fetch, loop>>,
         src' = [o \in Objs |->
             IF o \in Kept(l) THEN [src[o] EXCEPT !.gen = l[IdOf(o)].gen]
             ELSE IF o \in Created(l) THEN NewSource(l[IdOf(o)])
             ELSE Dropped],
         wanted' \subseteq sources'
  PROVE  SourceShape' /\ OneEach'
<1>1. Kept(l) \subseteq sources /\ sources \subseteq Objs
  BY DEF Kept, Shape, SourceShape
<1>2. /\ \A o \in Created(l) : o \in Objs /\ \A p \in Kept(l) : IdOf(p) # IdOf(o)
      /\ \A o, p \in Created(l) : IdOf(o) = IdOf(p) => o = p
  BY CreatedObjects DEF Shape
<1>3. OneEach'
  <2>1. \A o, p \in sources' : IdOf(o) = IdOf(p) => o = p
    BY <1>1, <1>2 DEF Shape, OneEach
  <2> QED BY <2>1 DEF Shape, OneEach
<1>4. ASSUME NEW o \in Objs
      PROVE  src'[o] \in Held
  <2>1. l[IdOf(o)].conf \in Confs /\ l[IdOf(o)].gen \in Int /\ src[o] \in Held
    BY DEF StoreList, Listed, Objs, IdOf, Shape, SourceShape
  <2>2. CASE o \in Kept(l)
    BY <2>1, <2>2 DEF Held
  <2>3. CASE o \notin Kept(l)
    BY <2>1, <2>3, NewHeld, DroppedHeld
  <2> QED BY <2>2, <2>3
<1>5. SourceShape'
  BY <1>1, <1>2, <1>4 DEF SourceShape
<1> QED BY <1>3, <1>5

LEMMA ReplaceShape ==
  ASSUME Shape, NEW h \in Handlers, ReplaceURLSources(h)
  PROVE  Shape'
<1> DEFINE l == handler[h].list
           refreshed == Created(l) \cup Regenerated(l)
           load == {IdOf(o) : o \in Created(l)}
           ask == {IdOf(o) : o \in refreshed}
<1>1. l \in StoreList
  BY HandlerFields DEF ReplaceURLSources, Shape
<1>2. Created(l) \subseteq Objs /\ Regenerated(l) \subseteq Kept(l) /\ Kept(l) \subseteq Objs
  BY CreatedObjects DEF Shape, SourceShape, Regenerated, Kept
<1>3. \A o \in Objs : IdOf(o) \in Ids
  BY DEF Objs, IdOf
<1>4. load \in SUBSET Ids /\ ask \in SUBSET Ids
  BY <1>2, <1>3
<1>5. HandlerShape'
  <2>1. Goes(h, Following(load, ask))
    BY DEF ReplaceURLSources
  <2> HIDE DEF load, ask
  <2> QED BY <1>4, <2>1, FollowingState, HandlerGoes DEF Shape
<1>6. SourceShape' /\ OneEach'
  <2>1. /\ sources' = Kept(l) \cup Created(l)
        /\ src' = [o \in Objs |->
             IF o \in Kept(l) THEN [src[o] EXCEPT !.gen = l[IdOf(o)].gen]
             ELSE IF o \in Created(l) THEN NewSource(l[IdOf(o)])
             ELSE Dropped]
        /\ wanted' = (wanted \cap Kept(l)) \cup refreshed
        /\ UNCHANGED <<fetch, loop>>
    BY DEF ReplaceURLSources
  <2>2. wanted' \subseteq sources'
    BY <1>2, <2>1
  <2> HIDE DEF l, refreshed
  <2> QED BY <1>1, <2>1, <2>2, ReplacedSources
<1>7. FileShape' /\ FetchShape' /\ BatchShape'
  BY FilesUnchanged, RulesChange DEF ReplaceURLSources, Shape, FetchShape
<1> QED BY <1>5, <1>6, <1>7 DEF Shape

LEMMA PeekPolicyShape ==
  ASSUME Shape, NEW h \in Handlers, PeekPolicy(h)
  PROVE  Shape'
<1>1. PICK i \in handler[h].load :
        Goes(h, [pc |-> "read", load |-> handler[h].load \ {i}, ask |-> handler[h].ask,
                 id |-> i, allow |-> \E o \in ActiveOf(i) : AllowOnly(src[o].conf)])
  BY DEF PeekPolicy
<1> DEFINE allow == \E o \in ActiveOf(i) : AllowOnly(src[o].conf)
<1>2. allow \in BOOLEAN
  OBVIOUS
<1>3. Goes(h, [pc |-> "read", load |-> handler[h].load \ {i}, ask |-> handler[h].ask,
               id |-> i, allow |-> allow])
  BY <1>1
<1> HIDE DEF allow
<1>4. handler[h].load \in SUBSET Ids /\ handler[h].ask \in SUBSET Ids
  BY HandlerFields DEF PeekPolicy, Shape
<1>5. [pc |-> "read", load |-> handler[h].load \ {i}, ask |-> handler[h].ask,
       id |-> i, allow |-> allow] \in HandlerState
  BY <1>2, <1>4 DEF HandlerState
<1> QED BY <1>3, <1>5, HandlerGoes, EngineUnchanged, FilesUnchanged DEF PeekPolicy, Shape

LEMMA ReadFileShape ==
  ASSUME Shape, NEW h \in Handlers, ReadFile(h)
  PROVE  Shape'
<1> DEFINE me == handler[h]
           found == ReadHistory(me.id, me.allow)
           snaps == CHOOSE s \in found : TRUE
<1>1. /\ me.load \in SUBSET Ids /\ me.ask \in SUBSET Ids
      /\ me.id \in Ids /\ me.allow \in BOOLEAN
  BY HandlerFields DEF ReadFile, Shape
<1>2. found # {} => snaps \in Past
  BY <1>1, HistoryRead DEF Shape
<1>3. Goes(h, IF found = {} THEN Following(me.load, me.ask)
              ELSE [pc |-> "install", load |-> me.load, ask |-> me.ask, id |-> me.id,
                    allow |-> me.allow, snaps |-> snaps])
  BY DEF ReadFile
<1> HIDE DEF found, snaps, me
<1>4. CASE found = {}
  <2>1. Following(me.load, me.ask) \in HandlerState
    BY <1>1, FollowingState
  <2>2. Goes(h, Following(me.load, me.ask))
    BY <1>3, <1>4
  <2> QED BY <2>1, <2>2, HandlerGoes, EngineUnchanged, FilesUnchanged DEF ReadFile, Shape
<1>5. CASE found # {}
  <2>1. [pc |-> "install", load |-> me.load, ask |-> me.ask, id |-> me.id,
         allow |-> me.allow, snaps |-> snaps] \in HandlerState
    BY <1>1, <1>2, <1>5 DEF HandlerState
  <2>2. Goes(h, [pc |-> "install", load |-> me.load, ask |-> me.ask, id |-> me.id,
         allow |-> me.allow, snaps |-> snaps])
    BY <1>3, <1>5
  <2> QED BY <2>1, <2>2, HandlerGoes, EngineUnchanged, FilesUnchanged DEF ReadFile, Shape
<1> QED BY <1>4, <1>5

LEMMA InstallHistoryShape ==
  ASSUME Shape, NEW h \in Handlers, InstallHistory(h)
  PROVE  Shape'
<1> DEFINE me == handler[h]
<1>1. me.load \in SUBSET Ids /\ me.ask \in SUBSET Ids /\ me.snaps \in Past
  BY HandlerFields DEF InstallHistory, Shape
<1>2. HandlerShape'
  <2>1. Goes(h, Following(me.load, me.ask))
    BY DEF InstallHistory
  <2> HIDE DEF me
  <2> QED BY <1>1, <2>1, FollowingState, HandlerGoes DEF Shape
<1>3. SourceShape'
  <2>1. ASSUME NEW o \in Objs
        PROVE  src'[o] \in Held
    <3>1. src[o] \in Held
      BY DEF Shape, SourceShape
    <3>2. src'[o] = src[o] \/ src'[o] = [src[o] EXCEPT !.history = me.snaps]
      BY DEF InstallHistory
    <3> HIDE DEF me
    <3> QED BY <1>1, <3>1, <3>2 DEF Held
  <2> QED BY <2>1 DEF InstallHistory, Shape, SourceShape
<1>4. FileShape' /\ FetchShape' /\ OneEach' /\ BatchShape'
  BY FilesUnchanged, OneEachUnchanged DEF InstallHistory, Shape, FetchShape, BatchShape
<1> QED BY <1>2, <1>3, <1>4 DEF Shape

LEMMA AskUpdateShape ==
  ASSUME Shape, NEW h \in Handlers, AskUpdate(h)
  PROVE  Shape'
<1>1. PICK i \in handler[h].ask :
        Goes(h, [pc |-> "signal", ask |-> handler[h].ask \ {i}])
  BY DEF AskUpdate
<1>2. handler[h].ask \in SUBSET Ids
  BY HandlerFields DEF AskUpdate, Shape
<1>3. [pc |-> "signal", ask |-> handler[h].ask \ {i}] \in HandlerState
  BY <1>2 DEF HandlerState
<1> QED BY <1>1, <1>3, HandlerGoes, EngineUnchanged, FilesUnchanged DEF AskUpdate, Shape

LEMMA SignalUpdateShape ==
  ASSUME Shape, NEW h \in Handlers, SignalUpdate(h)
  PROVE  Shape'
<1>1. handler[h].ask \in SUBSET Ids
  BY HandlerFields DEF SignalUpdate, Shape
<1>2. Following({}, handler[h].ask) \in HandlerState
  BY <1>1, FollowingState
<1> QED BY <1>2, HandlerGoes, EngineUnchanged, FilesUnchanged DEF SignalUpdate, Shape

LEMMA RollbackShape ==
  ASSUME Shape, NEW h \in Handlers, RollbackSource(h)
  PROVE  Shape'
<1>1. PICK o \in sources :
        /\ src[o].history # <<>>
        /\ src' = [src EXCEPT
             ![o].rules = UnderPolicy(src[o].history[Len(src[o].history)], AllowOnly(src[o].conf)),
             ![o].loaded = TRUE,
             ![o].history = SubSeq(src[o].history, 1, Len(src[o].history) - 1)]
        /\ Goes(h, [pc |-> "persist", id |-> IdOf(o)])
  BY DEF RollbackSource
<1> DEFINE past == src[o].history
           rules == UnderPolicy(past[Len(past)], AllowOnly(src[o].conf))
           older == SubSeq(past, 1, Len(past) - 1)
<1>2. o \in Objs /\ IdOf(o) \in Ids /\ src \in [Objs -> Held] /\ src[o] \in Held
  BY DEF Shape, SourceShape, Objs, IdOf
<1>3. past \in Seq(Parsed) /\ past # <<>>
  BY <1>1, <1>2 DEF Held, Past
<1>4. past[Len(past)] \in Parsed /\ older \in Past
  BY <1>3 DEF Past
<1>5. rules \in Parsed
  BY <1>4, UnderPolicyParsed, AllowBoolean
<1>6. src' = [src EXCEPT ![o] = [src[o] EXCEPT !.rules = rules, !.loaded = TRUE,
                                               !.history = older]]
  BY <1>1, <1>2
<1> HIDE DEF past, rules, older
<1>7. [src[o] EXCEPT !.rules = rules, !.loaded = TRUE, !.history = older] \in Held
  BY <1>2, <1>4, <1>5 DEF Held
<1>8. SourceShape'
  BY <1>2, <1>6, <1>7 DEF RollbackSource, Shape, SourceShape
<1>9. [pc |-> "persist", id |-> IdOf(o)] \in HandlerState
  BY <1>2 DEF HandlerState
<1>10. FileShape' /\ FetchShape' /\ OneEach' /\ BatchShape'
  <2>1. FileShape'
    BY DEF RollbackSource, SpendUpset, storeVars, Shape, FileShape
  <2> QED
    BY <2>1, OneEachUnchanged, RulesChange DEF RollbackSource, Shape, FetchShape
<1> QED BY <1>1, <1>8, <1>9, <1>10, HandlerGoes DEF Shape

LEMMA DocumentDoc ==
  ASSUME SourceShape, NEW i
  PROVE  Document(i) \in Doc
<1>1. CASE ActiveOf(i) = {}
  <2>1. <<>> \in Past
    BY DEF Past
  <2> QED BY <1>1, <2>1 DEF Document, Doc
<1>2. CASE ActiveOf(i) # {}
  <2> DEFINE o == CHOOSE p \in ActiveOf(i) : TRUE
  <2>1. o \in ActiveOf(i)
    BY <1>2
  <2>2. src[o] \in Held
    BY <2>1 DEF ActiveOf, SourceShape
  <2>3. Document(i) = [allow |-> AllowOnly(src[o].conf), snaps |-> src[o].history]
    BY <1>2 DEF Document
  <2> HIDE DEF o
  <2> QED BY <2>2, <2>3, AllowBoolean DEF Held, Doc
<1> QED BY <1>1, <1>2

LEMMA PersistShape ==
  ASSUME Shape, NEW h \in Handlers, Persist(h)
  PROVE  Shape'
<1>1. handler[h].id \in Ids /\ Document(handler[h].id) \in Doc
  BY HandlerFields, DocumentDoc DEF Persist, Shape
<1>2. [pc |-> "write", id |-> handler[h].id, doc |-> Document(handler[h].id)] \in HandlerState
  BY <1>1 DEF HandlerState
<1> QED BY <1>2, HandlerGoes, EngineUnchanged, FilesUnchanged DEF Persist, Shape

LEMMA IdleState == Idle \in HandlerState /\ Idle \in FetchState
BY DEF Idle, HandlerState, FetchState

LEMMA HistoryWritten ==
  ASSUME FileShape, NEW i \in Ids, NEW doc \in Doc,
         histFile' = [histFile EXCEPT ![i] = {doc}], UNCHANGED <<store, userFile, left>>
  PROVE  FileShape'
BY DEF FileShape

LEMMA WriteHistoryShape ==
  ASSUME Shape, NEW h \in Handlers, WriteHistory(h)
  PROVE  Shape'
<1>1. handler[h].id \in Ids /\ handler[h].doc \in Doc
  BY HandlerFields DEF WriteHistory, Shape
<1>2. FileShape'
  BY <1>1, HistoryWritten DEF WriteHistory, Shape
<1> QED BY <1>2, IdleState, HandlerGoes, EngineUnchanged DEF WriteHistory, Shape

LEMMA EditUserRulesShape ==
  ASSUME Shape, NEW h \in Handlers, EditUserRules(h)
  PROVE  Shape'
<1>1. PICK held \in BOOLEAN : Goes(h, [pc |-> "reload", held |-> held])
  BY DEF EditUserRules
<1>2. [pc |-> "reload", held |-> held] \in HandlerState
  BY DEF HandlerState
<1>3. FileShape'
  BY DEF EditUserRules, SpendUpset, Shape, FileShape
<1> QED BY <1>1, <1>2, <1>3, HandlerGoes, EngineUnchanged DEF EditUserRules, Shape

LEMMA ReadUserRulesShape ==
  ASSUME Shape, NEW h \in Handlers, ReadUserRules(h)
  PROVE  Shape'
<1>1. handler[h].held \in BOOLEAN /\ userFile \in Int
  BY HandlerFields DEF ReadUserRules, Shape, FileShape
<1>2. [pc |-> "set", held |-> handler[h].held, file |-> userFile] \in HandlerState
  BY <1>1 DEF HandlerState
<1> QED BY <1>2, HandlerGoes, EngineUnchanged, FilesUnchanged DEF ReadUserRules, Shape

LEMMA ReloadUserRulesShape ==
  ASSUME Shape, NEW h \in Handlers, ReloadUserRules(h)
  PROVE  Shape'
<1>1. HandlerShape'
  BY IdleState, HandlerGoes DEF ReloadUserRules, Shape
<1>2. SourceShape' /\ BatchShape'
  BY RulesChange DEF ReloadUserRules, SetUserRules, Shape, SourceShape
<1>3. FileShape' /\ FetchShape' /\ OneEach'
  BY FilesUnchanged, OneEachUnchanged DEF ReloadUserRules, SetUserRules, Shape, FetchShape
<1> QED BY <1>1, <1>2, <1>3 DEF Shape

LEMMA HandlerStepShape ==
  ASSUME Shape, NEW h \in Handlers, HandlerStep(h)
  PROVE  Shape'
BY EditStoreShape, ListStoreShape, ReplaceShape, PeekPolicyShape, ReadFileShape,
   InstallHistoryShape, AskUpdateShape, SignalUpdateShape, RollbackShape, PersistShape,
   WriteHistoryShape, EditUserRulesShape, ReadUserRulesShape, ReloadUserRulesShape
DEF HandlerStep

-----------------------------------------------------------------------------

\* A step of the loop that opens, closes or downloads nothing.
LEMMA LoopMoves ==
  ASSUME Shape, UNCHANGED <<storeVars, engineVars, fetch, handler, left>>,
         loop.pc # "fetching" \/ \A o \in Objs : fetch[o] = Idle,
         loop'.pc # "apply", loop'.pc = "end" => loop'.then \in {"select", "interval"},
         loop'.pc = "loaded" => loop'.file \in Int
  PROVE  Shape'
<1>1. FileShape' /\ HandlerShape' /\ FetchShape' /\ SourceShape'
  BY FilesUnchanged DEF Shape, engineVars, HandlerShape, FetchShape, SourceShape
<1>2. OneEach'
  BY DEF Shape, OneEach, engineVars
<1>3. BatchShape'
  BY DEF Shape, BatchShape, engineVars
<1> QED BY <1>1, <1>2, <1>3 DEF Shape

LEMMA CollectShape ==
  ASSUME Shape, NEW urls \in SUBSET sources, Collect(urls), loop.pc # "fetching",
         left' \in [edits : Int, ticks : Int, upsets : Int]
  PROVE  Shape'
<1>1. FileShape' /\ HandlerShape'
  BY DEF Collect, storeVars, Shape, FileShape, HandlerShape
<1>2. SourceShape'
  BY DEF Collect, Shape, SourceShape
<1>3. BatchShape'
  <2>1. CASE urls = {}
    BY <2>1 DEF Collect, Loop, Shape, BatchShape
  <2>2. CASE urls # {}
    <3>1. loop' = [pc |-> "fetching"] /\ batch' = [batch EXCEPT !.open = TRUE]
      BY <2>2 DEF Collect, Loop
    <3>2. batch \in [open : BOOLEAN, dirty : BOOLEAN, moved : BOOLEAN]
      BY DEF Shape, BatchShape
    <3> QED BY <3>1, <3>2 DEF BatchShape
  <2> QED BY <2>1, <2>2
<1>4. FetchShape'
  <2>1. [pc |-> "queued"] \in FetchState
    BY DEF FetchState
  <2> QED BY <2>1 DEF Collect, Shape, FetchShape
<1>5. OneEach'
  <2>1. \A o \in Objs : fetch[o] = Idle
    BY DEF Shape, OneEach
  <2>2. CASE urls = {}
    BY <2>1, <2>2 DEF Collect, Loop, Shape, OneEach
  <2>3. CASE urls # {}
    <3>1. \A o \in Objs : fetch'[o] # Idle => o \in urls
      BY <2>1, <2>3 DEF Collect
    <3>2. loop'.pc = "fetching" /\ sources' = sources
      BY <2>3 DEF Collect, Loop
    <3> QED BY <3>1, <3>2 DEF Shape, OneEach
  <2> QED BY <2>2, <2>3
<1> QED BY <1>1, <1>2, <1>3, <1>4, <1>5 DEF Shape

LEMMA LoopStepShape ==
  ASSUME Shape, LoopStep
  PROVE  Shape'
<1>1. CASE DropRequests
  BY <1>1, LoopMoves DEF DropRequests, Loop
<1>2. CASE DrainSignal
  BY <1>2, LoopMoves DEF DrainSignal, Loop
<1>3. CASE UpdateAll
  <2>1. Collect(sources) /\ loop.pc # "fetching" /\ left' = left
    BY <1>3 DEF UpdateAll
  <2> QED BY <2>1, CollectShape DEF Shape, FileShape
<1>4. CASE ReceiveSignal
  BY <1>4, LoopMoves DEF ReceiveSignal, Loop
<1>5. CASE TakeUpdateRequest
  BY <1>5, LoopMoves DEF TakeUpdateRequest, Loop
<1>6. CASE UpdateSources
  <2>1. /\ Collect({o \in sources : IdOf(o) \in loop.ids})
        /\ loop.pc # "fetching" /\ left' = left
    BY <1>6 DEF UpdateSources
  <2> QED BY <2>1, CollectShape DEF Shape, FileShape
<1>7. CASE Tick
  <2>1. FileShape'
    BY <1>7 DEF Tick, SpendTick, storeVars, Shape, FileShape
  <2>2. HandlerShape' /\ FetchShape' /\ SourceShape'
    BY <1>7 DEF Tick, Shape, HandlerShape, FetchShape, SourceShape
  <2>3. OneEach' /\ BatchShape'
    BY <1>7 DEF Tick, Loop, Shape, OneEach, BatchShape
  <2> QED BY <2>1, <2>2, <2>3 DEF Shape
<1>8. CASE ReadLocal
  BY <1>8, LoopMoves DEF ReadLocal, Loop, Shape, FileShape
<1>9. CASE SetLocal
  <2>1. FileShape' /\ HandlerShape' /\ FetchShape'
    BY <1>9, FilesUnchanged DEF SetLocal, Shape, HandlerShape, FetchShape
  <2>2. SourceShape' /\ OneEach'
    BY <1>9 DEF SetLocal, SetUserRules, Loop, Shape, SourceShape, OneEach
  <2>3. BatchShape'
    BY <1>9 DEF SetLocal, SetUserRules, Loop, Rebuild, RebuildOrDefer, Shape, BatchShape
  <2> QED BY <2>1, <2>2, <2>3 DEF Shape
<1>10. CASE UpdateInterval
  <2>1. PICK S \in SUBSET sources : Collect(S)
    BY <1>10 DEF UpdateInterval
  <2>2. loop.pc # "fetching" /\ left' = left
    BY <1>10 DEF UpdateInterval
  <2> QED BY <2>1, <2>2, CollectShape DEF Shape, FileShape
<1>11. CASE UpdateScheduled
  <2>1. PICK S \in SUBSET sources : Collect(S)
    BY <1>11 DEF UpdateScheduled
  <2>2. loop.pc # "fetching" /\ left' \in [edits : Int, ticks : Int, upsets : Int]
    BY <1>11 DEF UpdateScheduled, SpendTick, Shape, FileShape
  <2> QED BY <2>1, <2>2, CollectShape
<1>12. CASE FetchesDone
  BY <1>12, LoopMoves DEF FetchesDone, Loop
<1>13. CASE EndBatch
  <2>1. FileShape' /\ HandlerShape' /\ FetchShape' /\ SourceShape'
    BY <1>13, FilesUnchanged DEF EndBatch, Shape, HandlerShape, FetchShape, SourceShape
  <2>2. /\ batch' = [open |-> FALSE, dirty |-> FALSE, moved |-> FALSE]
        /\ loop.then \in {"select", "interval"}
        /\ \/ loop' = [pc |-> "apply", then |-> loop.then,
                       built |-> Indexed(sources, src, userRules)]
           \/ loop' = [pc |-> loop.then]
    BY <1>13 DEF EndBatch, Loop, Shape, BatchShape
  <2>3. BatchShape'
    BY <2>2 DEF BatchShape
  <2>4. OneEach'
    BY <1>13, <2>2 DEF EndBatch, Shape, OneEach
  <2> QED BY <2>1, <2>3, <2>4 DEF Shape
<1>14. CASE ApplyIndexes
  <2>1. FileShape' /\ HandlerShape' /\ FetchShape' /\ SourceShape'
    BY <1>14, FilesUnchanged DEF ApplyIndexes, Shape, HandlerShape, FetchShape, SourceShape
  <2>2. loop' = [pc |-> loop.then] /\ loop.then \in {"select", "interval"}
    BY <1>14 DEF ApplyIndexes, Loop, Shape, BatchShape
  <2>3. OneEach' /\ BatchShape'
    BY <1>14, <2>2 DEF ApplyIndexes, Shape, OneEach, BatchShape
  <2> QED BY <2>1, <2>3 DEF Shape
<1> QED
  BY <1>1, <1>2, <1>3, <1>4, <1>5, <1>6, <1>7, <1>8, <1>9, <1>10, <1>11, <1>12, <1>13, <1>14
  DEF LoopStep

\* A download that only changes what it remembers.
LEMMA FetchGoes ==
  ASSUME Shape, NEW o \in Objs, NEW state \in FetchState, fetch[o] # Idle,
         fetch' = [fetch EXCEPT ![o] = state], UNCHANGED <<sources, loop>>
  PROVE  FetchShape' /\ OneEach'
<1>1. FetchShape'
  BY DEF Shape, FetchShape
<1>2. \A p \in Objs : fetch'[p] # Idle => fetch[p] # Idle
  BY DEF Shape, FetchShape
<1>3. loop.pc = "fetching"
  BY DEF Shape, OneEach
<1>4. OneEach'
  BY <1>2, <1>3 DEF Shape, OneEach
<1> QED BY <1>1, <1>4

LEMMA SetRulesShape ==
  ASSUME Shape, NEW o \in Objs, SetRules(o)
  PROVE  Shape'
<1> DEFINE r == fetch[o].rules
           changed == IF src[o].loaded THEN r # src[o].rules ELSE r # Nothing
           past == IF changed THEN Remember(src[o]) ELSE src[o].history
<1>1. r \in Parsed /\ fetch[o] # Idle
  BY FetchFields DEF SetRules, Shape, Idle
<1>2. PICK state \in {[pc |-> "persist"], Idle} : fetch' = [fetch EXCEPT ![o] = state]
  BY DEF SetRules
<1>3. state \in FetchState
  BY <1>2, IdleState DEF FetchState
<1>4. UNCHANGED <<sources, loop, storeVars, left, handler, wanted>>
  BY DEF SetRules, engineVars
<1>5. FetchShape' /\ OneEach'
  BY <1>1, <1>2, <1>3, <1>4, FetchGoes
<1>6. FileShape' /\ HandlerShape' /\ BatchShape'
  <2>1. UNCHANGED <<index, batch>> \/ RebuildOrDefer
    BY DEF SetRules, engineVars
  <2> QED BY <1>4, <2>1, FilesUnchanged, RulesChange DEF Shape, HandlerShape
<1>7. SourceShape'
  <2>1. src \in [Objs -> Held] /\ src[o] \in Held
    BY DEF Shape, SourceShape
  <2>2. past \in Past
    BY <2>1, RememberPast DEF Held
  <2>3. \/ src' = src
        \/ src' = [src EXCEPT ![o] = [src[o] EXCEPT !.rules = r, !.loaded = TRUE,
                                                   !.history = past]]
    BY <2>1 DEF SetRules, engineVars
  <2> HIDE DEF past, r
  <2>4. [src[o] EXCEPT !.rules = r, !.loaded = TRUE, !.history = past] \in Held
    BY <1>1, <2>1, <2>2 DEF Held
  <2>5. src' \in [Objs -> Held]
    BY <2>1, <2>3, <2>4
  <2> QED BY <1>4, <2>5 DEF Shape, SourceShape
<1> QED BY <1>5, <1>6, <1>7 DEF Shape

\* A download that leaves the rules alone.
LEMMA FetchOnly ==
  ASSUME Shape, NEW o \in Objs, NEW state \in FetchState, fetch[o] # Idle,
         fetch' = [fetch EXCEPT ![o] = state], UNCHANGED <<engineVars, loop, handler>>
  PROVE  HandlerShape' /\ FetchShape' /\ SourceShape' /\ OneEach' /\ BatchShape'
<1>1. FetchShape' /\ OneEach'
  BY FetchGoes DEF engineVars
<1> QED BY <1>1 DEF Shape, engineVars, HandlerShape, SourceShape, BatchShape

LEMMA FetchStepShape ==
  ASSUME Shape, NEW o \in Objs, FetchStep(o)
  PROVE  Shape'
<1>1. src[o].conf \in Confs /\ IdOf(o) \in Ids /\ SourceShape
  BY DEF Shape, SourceShape, Held, Objs, IdOf
<1>2. CASE FetchKeeps(o)
  <2>1. fetch[o] # Idle
    BY <1>2 DEF FetchKeeps, Idle
  <2> QED BY <1>2, <2>1, IdleState, FetchOnly, FilesUnchanged DEF FetchKeeps, Shape
<1>3. CASE FetchParses(o)
  <2>1. PICK c \in Contents :
          fetch' = [fetch EXCEPT ![o] = [pc |-> "parsed",
                                         rules |-> Parse(c, AllowOnly(src[o].conf))]]
    BY <1>3 DEF FetchParses
  <2>2. Parse(c, AllowOnly(src[o].conf)) \in Parsed
    BY ParseParsed, AllowBoolean
  <2>3. [pc |-> "parsed", rules |-> Parse(c, AllowOnly(src[o].conf))] \in FetchState
    BY <2>2 DEF FetchState
  <2>4. fetch[o] # Idle
    BY <1>3 DEF FetchParses, Idle
  <2> QED BY <1>3, <2>1, <2>3, <2>4, FetchOnly, FilesUnchanged DEF FetchParses, Shape
<1>4. CASE SetRules(o)
  BY <1>4, SetRulesShape
<1>5. CASE FetchPersists(o)
  <2>1. [pc |-> "write", doc |-> Document(IdOf(o))] \in FetchState
    BY <1>1, DocumentDoc DEF FetchState
  <2>2. fetch[o] # Idle
    BY <1>5 DEF FetchPersists, Idle
  <2> QED BY <1>5, <2>1, <2>2, IdleState, FetchOnly, FilesUnchanged DEF FetchPersists, Shape
<1>6. CASE FetchWrites(o)
  <2>1. fetch[o] # Idle /\ fetch[o].doc \in Doc
    BY <1>6, FetchFields DEF FetchWrites, Idle, Shape
  <2>2. FileShape'
    BY <1>1, <1>6, <2>1, HistoryWritten DEF FetchWrites, Shape
  <2> QED BY <1>6, <2>1, <2>2, IdleState, FetchOnly DEF FetchWrites, Shape
<1> QED BY <1>2, <1>3, <1>4, <1>5, <1>6 DEF FetchStep

LEMMA StutterShape ==
  ASSUME Shape, UNCHANGED vars
  PROVE  Shape'
<1>1. UNCHANGED <<engineVars, loop, fetch>> /\ UNCHANGED <<storeVars, left>>
        /\ UNCHANGED handler
  BY DEF vars, engineVars, storeVars
<1> QED BY <1>1, EngineUnchanged, FilesUnchanged DEF Shape, HandlerShape

LEMMA NextShape ==
  ASSUME Shape, [Next]_vars
  PROVE  Shape'
BY RestartShape, SetHistoryDirShape, LoopStepShape, HandlerStepShape, FetchStepShape,
   StutterShape
DEF Next

\* Requests, downloads and the update loop hold what they should at every place
\* of their program, a subscription has one source object in the list and one
\* that is downloaded at most, and changes are held back only while a batch is
\* open (updateBatchDepth, filter.go:520).
THEOREM ShapeCorrect == Spec => []Shape
<1>1. Init => Shape
  BY InitShape
<1>2. Shape /\ [Next]_vars => Shape'
  BY NextShape
<1> QED BY <1>1, <1>2, PTL DEF Spec
-----------------------------------------------------------------------------
(* What Match reads. *)

\* The copy that the indexes are built from is current unless rules changed since.
CopyIsCurrent ==
  loop.pc = "apply" /\ ~batch.moved => loop.built = Indexed(sources, src, userRules)

\* A source that no download was installed for has no rules.
UnloadedIsEmpty == \A o \in Objs : ~src[o].loaded => src[o].rules = Nothing

Published == PublishedIsCurrent /\ CopyIsCurrent /\ UnloadedIsEmpty

\* The objects that are not in the list have no rules.
DroppedIsEmpty == \A o \in Objs \ sources : src[o].rules = Nothing

LEMMA IndexedDropped ==
  \A active, held, file : \A o \in Objs \ active : Indexed(active, held, file).url[o] = Nothing
BY DEF Indexed

\* A step that leaves the rules, the indexes and the generation alone.
LEMMA RulesUnchanged ==
  ASSUME Published, UNCHANGED <<sources, userRules, index>>,
         \A o \in Objs : src'[o].rules = src[o].rules /\ (src[o].loaded => src'[o].loaded),
         batch'.moved = batch.moved, batch'.dirty = batch.dirty,
         loop' = loop \/ (loop.pc # "apply" /\ loop'.pc # "apply")
  PROVE  Published'
<1>1. Indexed(sources, src, userRules)' = Indexed(sources, src, userRules)
  BY DEF Indexed
<1>2. PublishedIsCurrent'
  BY <1>1 DEF Published, PublishedIsCurrent
<1>3. CopyIsCurrent' /\ UnloadedIsEmpty'
  BY <1>1 DEF Published, CopyIsCurrent, UnloadedIsEmpty
<1> QED BY <1>2, <1>3 DEF Published

\* The same without anything that concerns the rules.
LEMMA EngineQuiet ==
  ASSUME Published, UNCHANGED <<sources, src, userRules, index, batch>>,
         loop' = loop \/ (loop.pc # "apply" /\ loop'.pc # "apply")
  PROVE  Published'
BY RulesUnchanged

\* A step that builds the indexes anew.
LEMMA Rebuilt ==
  ASSUME BatchShape, Rebuild, DroppedIsEmpty', UnloadedIsEmpty'
  PROVE  Published'
<1>1. index' = Indexed(sources, src, userRules)' /\ batch'.moved
  BY DEF Rebuild, BatchShape, Indexed
<1>2. PublishedIsCurrent'
  BY <1>1, IndexedDropped DEF PublishedIsCurrent, DroppedIsEmpty
<1>3. CopyIsCurrent'
  BY <1>1 DEF CopyIsCurrent
<1> QED BY <1>2, <1>3 DEF Published

\* A step that leaves that to the end of the batch.
LEMMA Deferred ==
  ASSUME BatchShape, Published, RebuildOrDefer, UNCHANGED sources,
         loop' = loop \/ (loop.pc # "apply" /\ loop'.pc # "apply"),
         DroppedIsEmpty', UnloadedIsEmpty'
  PROVE  Published'
<1>1. CASE batch.open
  <2>1. batch'.dirty /\ index' = index /\ loop'.pc # "apply"
    BY <1>1 DEF RebuildOrDefer, BatchShape
  <2>2. PublishedIsCurrent'
    BY <2>1 DEF Published, PublishedIsCurrent, DroppedIsEmpty
  <2> QED BY <2>1, <2>2 DEF Published, CopyIsCurrent
<1>2. CASE ~batch.open
  BY <1>2, Rebuilt DEF RebuildOrDefer
<1> QED BY <1>1, <1>2

LEMMA ReplacePublishes ==
  ASSUME Shape, Published, NEW h \in Handlers, ReplaceURLSources(h)
  PROVE  Published'
<1> DEFINE l == handler[h].list
<1>1. l \in StoreList
  BY HandlerFields DEF ReplaceURLSources, Shape
<1>2. /\ sources' = Kept(l) \cup Created(l)
      /\ src' = [o \in Objs |->
             IF o \in Kept(l) THEN [src[o] EXCEPT !.gen = l[IdOf(o)].gen]
             ELSE IF o \in Created(l) THEN NewSource(l[IdOf(o)])
             ELSE Dropped]
  BY DEF ReplaceURLSources
<1> HIDE DEF l
<1>3. ASSUME NEW o \in Objs
      PROVE  /\ src'[o].rules # Nothing => o \in Kept(l)
             /\ ~src'[o].loaded => src'[o].rules = Nothing
  <2>1. CASE o \in Kept(l)
    <3>1. src[o] \in Held
      BY DEF Shape, SourceShape
    <3>2. src'[o] = [src[o] EXCEPT !.gen = l[IdOf(o)].gen]
      BY <1>2, <2>1
    <3>3. src'[o].rules = src[o].rules /\ src'[o].loaded = src[o].loaded
      BY <3>1, <3>2 DEF Held
    <3> QED BY <2>1, <3>3 DEF Published, UnloadedIsEmpty
  <2>2. CASE o \notin Kept(l) /\ o \in Created(l)
    <3>1. src'[o] = NewSource(l[IdOf(o)])
      BY <1>2, <2>2
    <3> QED BY <3>1 DEF NewSource
  <2>3. CASE o \notin Kept(l) /\ o \notin Created(l)
    <3>1. src'[o] = Dropped
      BY <1>2, <2>3
    <3> QED BY <3>1, DroppedHeld
  <2> QED BY <2>1, <2>2, <2>3
<1>4. DroppedIsEmpty' /\ UnloadedIsEmpty'
  BY <1>2, <1>3 DEF DroppedIsEmpty, UnloadedIsEmpty
<1>5. Rebuild
  BY DEF ReplaceURLSources
<1> QED BY <1>4, <1>5, Rebuilt DEF Shape

LEMMA RollbackPublishes ==
  ASSUME Shape, Published, NEW h \in Handlers, RollbackSource(h)
  PROVE  Published'
<1>1. PICK o \in sources : \E rules, older :
        src' = [src EXCEPT ![o].rules = rules, ![o].loaded = TRUE, ![o].history = older]
  BY DEF RollbackSource
<1>2. src \in [Objs -> Held] /\ o \in Objs
  BY DEF Shape, SourceShape
<1>3. \A p \in Objs \ {o} : src'[p] = src[p]
  BY <1>1, <1>2
<1>4. src'[o].loaded
  BY <1>1, <1>2 DEF Held
<1>5. Rebuild /\ UNCHANGED sources
  BY DEF RollbackSource
<1>6. DroppedIsEmpty' /\ UnloadedIsEmpty'
  BY <1>3, <1>4, <1>5 DEF Published, PublishedIsCurrent, DroppedIsEmpty, UnloadedIsEmpty
<1> QED BY <1>5, <1>6, Rebuilt DEF Shape

\* The user rules are set, by a request or by the loop within a batch.
LEMMA UserRulesPublish ==
  ASSUME Shape, Published, NEW v, SetUserRules(v),
         loop' = loop \/ (loop.pc # "apply" /\ loop'.pc # "apply")
  PROVE  Published'
<1>1. DroppedIsEmpty' /\ UnloadedIsEmpty'
  BY DEF SetUserRules, Published, PublishedIsCurrent, DroppedIsEmpty, UnloadedIsEmpty
<1>2. CASE v # userRules
  BY <1>1, <1>2, Deferred DEF SetUserRules, Shape
<1>3. CASE v = userRules
  BY <1>3, EngineQuiet DEF SetUserRules
<1> QED BY <1>2, <1>3
LEMMA HandlerStepPublishes ==
  ASSUME Shape, Published, NEW h \in Handlers, HandlerStep(h)
  PROVE  Published'
<1>1. CASE \/ EditStore(h) \/ ListStore(h) \/ PeekPolicy(h) \/ ReadFile(h)
           \/ AskUpdate(h) \/ SignalUpdate(h) \/ Persist(h) \/ WriteHistory(h)
           \/ EditUserRules(h) \/ ReadUserRules(h)
  BY <1>1, EngineQuiet
  DEF EditStore, ListStore, PeekPolicy, ReadFile, AskUpdate, SignalUpdate, Persist,
      WriteHistory, EditUserRules, ReadUserRules, engineVars
<1>2. CASE ReplaceURLSources(h)
  BY <1>2, ReplacePublishes
<1>3. CASE InstallHistory(h)
  <2>1. ASSUME NEW o \in Objs
        PROVE  src'[o].rules = src[o].rules /\ (src[o].loaded => src'[o].loaded)
    <3>1. src[o] \in Held
      BY DEF Shape, SourceShape
    <3>2. src'[o] = src[o] \/ src'[o] = [src[o] EXCEPT !.history = handler[h].snaps]
      BY <1>3 DEF InstallHistory
    <3> QED BY <3>1, <3>2 DEF Held
  <2> QED BY <1>3, <2>1, RulesUnchanged DEF InstallHistory
<1>4. CASE RollbackSource(h)
  BY <1>4, RollbackPublishes
<1>5. CASE ReloadUserRules(h)
  BY <1>5, UserRulesPublish DEF ReloadUserRules
<1> QED BY <1>1, <1>2, <1>3, <1>4, <1>5 DEF HandlerStep

LEMMA SetRulesPublishes ==
  ASSUME Shape, Published, NEW o \in Objs, SetRules(o)
  PROVE  Published'
<1> DEFINE r == fetch[o].rules
           changed == IF src[o].loaded THEN r # src[o].rules ELSE r # Nothing
<1>1. src \in [Objs -> Held] /\ src[o] \in Held /\ UNCHANGED <<loop, sources, userRules>>
  BY DEF Shape, SourceShape, SetRules, engineVars
<1>2. CASE o \notin sources
  BY <1>2, EngineQuiet DEF SetRules, IsActive, engineVars
<1>3. CASE o \in sources
  <2>1. PICK past : src' = [src EXCEPT ![o].rules = r, ![o].loaded = TRUE, ![o].history = past]
    BY <1>3 DEF SetRules, IsActive
  <2>2. src'[o].rules = r /\ src'[o].loaded = TRUE
    BY <1>1, <2>1 DEF Held
  <2>3. \A p \in Objs \ {o} : src'[p] = src[p]
    BY <1>1, <2>1
  <2>4. DroppedIsEmpty' /\ UnloadedIsEmpty'
    BY <1>1, <1>3, <2>2, <2>3 DEF Published, PublishedIsCurrent, DroppedIsEmpty, UnloadedIsEmpty
  <2>5. CASE changed
    <3>1. RebuildOrDefer
      BY <1>3, <2>5 DEF SetRules, IsActive
    <3> QED BY <1>1, <2>4, <3>1, Deferred DEF Shape
  <2>6. CASE ~changed
    <3>1. UNCHANGED <<index, batch>>
      BY <1>3, <2>6 DEF SetRules, IsActive
    <3>2. r = src[o].rules
      BY <2>6 DEF Published, UnloadedIsEmpty
    <3>3. \A p \in Objs : src'[p].rules = src[p].rules /\ (src[p].loaded => src'[p].loaded)
      BY <2>2, <2>3, <3>2
    <3> QED BY <1>1, <3>1, <3>3, RulesUnchanged
  <2> QED BY <2>5, <2>6
<1> QED BY <1>2, <1>3

LEMMA FetchStepPublishes ==
  ASSUME Shape, Published, NEW o \in Objs, FetchStep(o)
  PROVE  Published'
<1>1. CASE FetchKeeps(o) \/ FetchParses(o) \/ FetchPersists(o) \/ FetchWrites(o)
  BY <1>1, EngineQuiet DEF FetchKeeps, FetchParses, FetchPersists, FetchWrites, engineVars
<1> QED BY <1>1, SetRulesPublishes DEF FetchStep

LEMMA LoopStepPublishes ==
  ASSUME Shape, Published, LoopStep
  PROVE  Published'
<1>1. CASE DropRequests \/ DrainSignal \/ ReceiveSignal \/ TakeUpdateRequest
           \/ ReadLocal \/ FetchesDone
  BY <1>1, EngineQuiet
  DEF DropRequests, DrainSignal, ReceiveSignal, TakeUpdateRequest, ReadLocal, FetchesDone,
      Loop, engineVars
<1>2. ASSUME NEW urls, Collect(urls), loop.pc # "apply"
      PROVE  Published'
  <2>1. batch \in [open : BOOLEAN, dirty : BOOLEAN, moved : BOOLEAN]
    BY DEF Shape, BatchShape
  <2>2. batch' = batch \/ batch' = [batch EXCEPT !.open = TRUE]
    BY <1>2 DEF Collect
  <2>3. batch'.moved = batch.moved /\ batch'.dirty = batch.dirty
    BY <2>1, <2>2
  <2> QED BY <1>2, <2>3, RulesUnchanged DEF Collect, Loop
<1>3. CASE UpdateAll \/ UpdateSources \/ UpdateInterval \/ UpdateScheduled
  BY <1>2, <1>3 DEF UpdateAll, UpdateSources, UpdateInterval, UpdateScheduled
<1>4. CASE Tick
  <2>1. batch \in [open : BOOLEAN, dirty : BOOLEAN, moved : BOOLEAN]
    BY DEF Shape, BatchShape
  <2>2. batch'.moved = batch.moved /\ batch'.dirty = batch.dirty
    BY <1>4, <2>1 DEF Tick
  <2> QED BY <1>4, <2>2, RulesUnchanged DEF Tick, Loop
<1>5. CASE SetLocal
  BY <1>5, UserRulesPublish DEF SetLocal, Loop
<1>6. CASE EndBatch
  <2>1. UNCHANGED <<sources, src, userRules, index>>
          /\ batch' = [open |-> FALSE, dirty |-> FALSE, moved |-> FALSE]
    BY <1>6 DEF EndBatch
  <2>2. Indexed(sources, src, userRules)' = Indexed(sources, src, userRules)
    BY <2>1 DEF Indexed
  <2>3. CASE batch.dirty
    <3>1. loop' = [pc |-> "apply", then |-> loop.then,
                   built |-> Indexed(sources, src, userRules)]
      BY <1>6, <2>3 DEF EndBatch, Loop
    <3> QED
      BY <2>1, <2>2, <3>1 DEF Published, PublishedIsCurrent, CopyIsCurrent, UnloadedIsEmpty
  <2>4. CASE ~batch.dirty
    <3>1. loop.pc = "end" /\ loop' = [pc |-> loop.then] /\ loop.then # "apply"
      BY <1>6, <2>4 DEF EndBatch, Loop, Shape, BatchShape
    <3> QED
      BY <2>1, <2>2, <2>4, <3>1
      DEF Published, PublishedIsCurrent, CopyIsCurrent, UnloadedIsEmpty
  <2> QED BY <2>3, <2>4
<1>7. CASE ApplyIndexes
  <2>1. UNCHANGED <<sources, src, userRules, batch>>
          /\ loop.pc = "apply" /\ index' = IF batch.moved THEN index ELSE loop.built
    BY <1>7 DEF ApplyIndexes, Applied
  <2>2. loop' = [pc |-> loop.then] /\ loop.then # "apply" /\ ~batch.dirty
    BY <1>7 DEF ApplyIndexes, Loop, Shape, BatchShape
  <2>3. Indexed(sources, src, userRules)' = Indexed(sources, src, userRules)
    BY <2>1 DEF Indexed
  <2>4. index' = Indexed(sources, src, userRules)
    BY <2>1, <2>2 DEF Published, PublishedIsCurrent, CopyIsCurrent
  <2>5. PublishedIsCurrent'
    BY <2>1, <2>3, <2>4, IndexedDropped DEF Published, PublishedIsCurrent
  <2> QED BY <2>1, <2>2, <2>5 DEF Published, CopyIsCurrent, UnloadedIsEmpty
<1> QED BY <1>1, <1>3, <1>4, <1>5, <1>6, <1>7 DEF LoopStep
\* Every start, the first or another, begins with the sources of the store and
\* indexes built from them.
LEMMA BootPublishes ==
  ASSUME sources' = BootSources(store), src' = BootSrc(store), FileShape,
         index' = Indexed(sources', src', userRules'), loop'.pc = "init"
  PROVE  Published'
<1>1. ASSUME NEW o \in Objs
      PROVE  src'[o].rules = Nothing
  <2>1. src'[o] = NewSource(store[IdOf(o)]) \/ src'[o] = Dropped
    BY DEF BootSrc
  <2> QED BY <2>1, DroppedHeld DEF NewSource
<1>2. index' = Indexed(sources, src, userRules)'
  BY DEF Indexed
<1> QED
  BY <1>1, <1>2, IndexedDropped DEF Published, PublishedIsCurrent, CopyIsCurrent, UnloadedIsEmpty

LEMMA InitPublishes == Init => Published
<1> SUFFICES ASSUME Init PROVE Published
  OBVIOUS
<1>1. ASSUME NEW o \in Objs
      PROVE  src[o].rules = Nothing
  <2>1. src[o] = NewSource(store[IdOf(o)]) \/ src[o] = Dropped
    BY DEF Init, BootSrc
  <2> QED BY <2>1, DroppedHeld DEF NewSource
<1> QED
  BY <1>1, IndexedDropped DEF Init, Published, PublishedIsCurrent, CopyIsCurrent, UnloadedIsEmpty

LEMMA NextPublishes ==
  ASSUME Shape, Published, [Next]_vars
  PROVE  Published'
<1>1. CASE Restart
  BY <1>1, BootPublishes DEF Restart, Shape
<1>2. CASE SetHistoryDir
  <2>1. ASSUME NEW o \in Objs
        PROVE  src'[o].rules = src[o].rules /\ (src[o].loaded => src'[o].loaded)
    <3>1. src[o] \in Held
      BY DEF Shape, SourceShape
    <3>2. \E past : src'[o] = src[o] \/ src'[o] = [src[o] EXCEPT !.history = past]
      BY <1>2 DEF SetHistoryDir
    <3> QED BY <3>1, <3>2 DEF Held
  <2> QED BY <1>2, <2>1, RulesUnchanged DEF SetHistoryDir
<1>3. CASE UNCHANGED vars
  BY <1>3, EngineQuiet DEF vars
<1> QED
  BY <1>1, <1>2, <1>3, LoopStepPublishes, HandlerStepPublishes, FetchStepPublishes DEF Next

\* Whatever is fetched, edited, rolled back and reloaded in between, Match reads
\* what the sources hold unless the update loop holds changes back, and never the
\* rules of a source that is gone (rebuildIndexesLocked and the comparison of
\* ruleGeneration, filter.go:541).
THEOREM PublishedCurrent == Spec => []PublishedIsCurrent
<1>1. Init => Shape /\ Published
  BY InitShape, InitPublishes
<1>2. Shape /\ Published /\ [Next]_vars => (Shape /\ Published)'
  BY NextShape, NextPublishes
<1>3. Shape /\ Published => PublishedIsCurrent
  BY DEF Published
<1> QED BY <1>1, <1>2, <1>3, PTL DEF Spec
-----------------------------------------------------------------------------
(* Requests for updates. *)

Asks == {"peek", "read", "install", "ask", "signal"}

\* For one source: who will see to it that the loop collects it.
Awaited(o) ==
  \/ loop.pc \in {"init", "drain", "all"}
  \/ loop.pc = "some" /\ IdOf(o) \in loop.ids
  \/ \E h \in Handlers : handler[h].pc \in Asks /\ IdOf(o) \in handler[h].ask
  \/ /\ IdOf(o) \in ids
     /\ \/ token \/ loop.pc = "take"
        \/ \E h \in Handlers : handler[h].pc = "signal"

LEMMA AwaitedAll == RequestsNotLost <=> \A o \in wanted : Awaited(o)
BY DEF RequestsNotLost, Awaited, Asks

\* A request that does not signal hands on what it has to ask for.
LEMMA AskingGoesOn ==
  ASSUME HandlerShape, NEW h \in Handlers, NEW state, Goes(h, state), NEW o, Awaited(o),
         UNCHANGED <<ids, token, loop>>, handler[h].pc # "signal",
         handler[h].pc \in Asks /\ IdOf(o) \in handler[h].ask
           => state.pc \in Asks /\ state.ask = handler[h].ask
  PROVE  Awaited(o)'
<1>1. handler'[h] = state /\ \A g \in Handlers \ {h} : handler'[g] = handler[g]
  BY DEF HandlerShape, Goes
<1>2. IdOf(o)' = IdOf(o)
  BY DEF IdOf
<1> QED BY <1>1, <1>2 DEF Awaited

\* So does one whose requests have been handed on already.
LEMMA NotAsking ==
  ASSUME HandlerShape, NEW h \in Handlers, NEW state, Goes(h, state), handler[h].pc \notin Asks,
         UNCHANGED <<ids, token, loop>>, RequestsNotLost, wanted' \subseteq wanted
  PROVE  RequestsNotLost'
<1>1. ASSUME NEW o \in wanted'
      PROVE  Awaited(o)'
  <2>1. Awaited(o) /\ handler[h].pc # "signal"
    BY AwaitedAll DEF Asks
  <2> QED BY <2>1, AskingGoesOn
<1>2. RequestsNotLost' <=> \A o \in wanted' : Awaited(o)'
  BY DEF RequestsNotLost, Awaited, Asks
<1> QED BY <1>1, <1>2

LEMMA HandlerStepAsks ==
  ASSUME Shape, RequestsNotLost, NEW h \in Handlers, HandlerStep(h)
  PROVE  RequestsNotLost'
<1>1. RequestsNotLost' <=> \A o \in wanted' : Awaited(o)'
  BY DEF RequestsNotLost, Awaited, Asks
<1>2. \A o \in wanted : Awaited(o)
  BY AwaitedAll
<1>3. HandlerShape /\ \A o : IdOf(o)' = IdOf(o)
  BY DEF Shape, IdOf
<1>4. CASE EditStore(h) \/ ListStore(h) \/ RollbackSource(h) \/ Persist(h) \/ WriteHistory(h)
           \/ EditUserRules(h) \/ ReadUserRules(h) \/ ReloadUserRules(h)
  <2>1. handler[h].pc \notin Asks
    <3>1. CASE EditStore(h) \/ RollbackSource(h) \/ EditUserRules(h)
      <4>1. handler[h] = [pc |-> "idle"]
        BY <3>1 DEF EditStore, RollbackSource, EditUserRules, Free, Idle
      <4> QED BY <4>1 DEF Asks
    <3>2. CASE ListStore(h) \/ Persist(h) \/ WriteHistory(h)
      BY <3>2 DEF ListStore, Persist, WriteHistory, Asks
    <3>3. CASE ReadUserRules(h) \/ ReloadUserRules(h)
      BY <3>3 DEF ReadUserRules, ReloadUserRules, Asks
    <3> QED BY <1>4, <3>1, <3>2, <3>3
  <2>2. UNCHANGED <<ids, token, loop, wanted>>
    BY <1>4 DEF EditStore, ListStore, RollbackSource, Persist, WriteHistory, EditUserRules,
      ReadUserRules, ReloadUserRules, SetUserRules, engineVars, askVars
  <2>3. \E state : Goes(h, state)
    BY <1>4 DEF EditStore, ListStore, RollbackSource, Persist, WriteHistory, EditUserRules,
      ReadUserRules, ReloadUserRules
  <2> QED BY <1>3, <2>1, <2>2, <2>3, NotAsking
<1>5. CASE ReplaceURLSources(h)
  <2> DEFINE l == handler[h].list
             refreshed == Created(l) \cup Regenerated(l)
             ask == {IdOf(o) : o \in refreshed}
             load == {IdOf(o) : o \in Created(l)}
  <2>1. handler[h].pc = "replace" /\ UNCHANGED <<ids, token, loop>>
    BY <1>5 DEF ReplaceURLSources, askVars
  <2>2. Goes(h, Following(load, ask)) /\ wanted' = (wanted \cap Kept(l)) \cup refreshed
    BY <1>5 DEF ReplaceURLSources
  <2>3. ask \in SUBSET Ids /\ load \in SUBSET Ids
    BY CreatedObjects DEF Shape, SourceShape, Regenerated, Kept, Objs, IdOf
  <2> HIDE DEF l
  <2>4. ASSUME NEW o \in wanted, Awaited(o)
        PROVE  Awaited(o)'
    BY <1>3, <2>1, <2>2, <2>4, AskingGoesOn DEF Asks
  <2>5. ASSUME NEW o \in refreshed
        PROVE  Awaited(o)'
    <3>1. IdOf(o) \in ask
      OBVIOUS
    <3> HIDE DEF ask, load
    <3>2. Following(load, ask).pc \in {"peek", "ask"} /\ Following(load, ask).ask = ask
      BY <2>3, <3>1, FollowingState
    <3>3. handler'[h] = Following(load, ask)
      BY <1>3, <2>2 DEF HandlerShape, Goes
    <3> QED BY <1>3, <3>1, <3>2, <3>3 DEF Awaited, Asks
  <2> QED BY <1>1, <1>2, <2>2, <2>4, <2>5
<1>6. CASE PeekPolicy(h)
  <2>1. UNCHANGED <<ids, token, loop, wanted>> /\ handler[h].pc = "peek"
    BY <1>6 DEF PeekPolicy, engineVars, askVars
  <2>2. PICK i : Goes(h, [pc |-> "read", load |-> handler[h].load \ {i}, ask |-> handler[h].ask,
                id |-> i, allow |-> \E o \in ActiveOf(i) : AllowOnly(src[o].conf)])
    BY <1>6 DEF PeekPolicy
  <2> QED BY <1>1, <1>2, <1>3, <2>1, <2>2, AskingGoesOn DEF Asks
<1>7. CASE ReadFile(h) \/ InstallHistory(h)
  <2>1. UNCHANGED <<ids, token, loop, wanted>> /\ handler[h].pc \in {"read", "install"}
    BY <1>7 DEF ReadFile, InstallHistory, engineVars, askVars
  <2>2. \/ Goes(h, Following(handler[h].load, handler[h].ask))
        \/ \E i, allow, snaps :
             Goes(h, [pc |-> "install", load |-> handler[h].load, ask |-> handler[h].ask,
                      id |-> i, allow |-> allow, snaps |-> snaps])
    BY <1>7 DEF ReadFile, InstallHistory
  <2>3. handler[h].load \in SUBSET Ids /\ handler[h].ask \in SUBSET Ids
    BY <1>3, <2>1, HandlerFields
  <2>4. ASSUME NEW o \in wanted
        PROVE  Awaited(o)'
    <3>1. Awaited(o) /\ handler[h].pc # "signal"
      BY <1>2, <2>1
    <3>2. CASE Goes(h, Following(handler[h].load, handler[h].ask))
      BY <1>3, <2>1, <2>3, <3>1, <3>2, FollowingState, AskingGoesOn DEF Asks
    <3>3. ASSUME NEW i, NEW allow, NEW snaps,
                 Goes(h, [pc |-> "install", load |-> handler[h].load, ask |-> handler[h].ask,
                          id |-> i, allow |-> allow, snaps |-> snaps])
          PROVE  Awaited(o)'
      BY <1>3, <2>1, <3>1, <3>3, AskingGoesOn DEF Asks
    <3> QED BY <2>2, <3>2, <3>3
  <2> QED BY <1>1, <2>1, <2>4
<1>8. CASE AskUpdate(h)
  <2>1. PICK i \in handler[h].ask :
          ids' = ids \cup {i} /\ Goes(h, [pc |-> "signal", ask |-> handler[h].ask \ {i}])
    BY <1>8 DEF AskUpdate
  <2>2. UNCHANGED <<token, loop, wanted>> /\ handler[h].pc = "ask"
    BY <1>8 DEF AskUpdate, engineVars
  <2>3. handler'[h] = [pc |-> "signal", ask |-> handler[h].ask \ {i}]
          /\ \A g \in Handlers \ {h} : handler'[g] = handler[g]
    BY <1>3, <2>1 DEF HandlerShape, Goes
  <2> QED BY <1>1, <1>2, <1>3, <2>1, <2>2, <2>3 DEF Awaited, Asks
<1>9. CASE SignalUpdate(h)
  <2>1. UNCHANGED <<ids, loop, wanted>> /\ token' /\ handler[h].pc = "signal"
          /\ Goes(h, Following({}, handler[h].ask))
    BY <1>9 DEF SignalUpdate, engineVars
  <2>2. handler'[h] = Following({}, handler[h].ask)
          /\ \A g \in Handlers \ {h} : handler'[g] = handler[g]
    BY <1>3, <2>1 DEF HandlerShape, Goes
  <2>3. handler[h].ask \in SUBSET Ids
    BY <1>3, <2>1, HandlerFields
  <2>4. handler[h].ask # {} => handler'[h].pc \in Asks /\ handler'[h].ask = handler[h].ask
    BY <2>2, <2>3, FollowingState DEF Asks
  <2> QED BY <1>1, <1>2, <1>3, <2>1, <2>2, <2>4 DEF Awaited, Asks
<1> QED BY <1>4, <1>5, <1>6, <1>7, <1>8, <1>9 DEF HandlerStep
\* A step that takes no request and that leaves the loop elsewhere.
LEMMA StillAwaited ==
  ASSUME RequestsNotLost, UNCHANGED <<ids, token, handler>>, wanted' \subseteq wanted,
         loop' = loop \/ loop.pc \notin {"init", "drain", "all", "some", "take"}
  PROVE  RequestsNotLost'
<1>1. \A o : IdOf(o)' = IdOf(o)
  BY DEF IdOf
<1> QED BY <1>1 DEF RequestsNotLost

LEMMA LoopStepAsks ==
  ASSUME Shape, RequestsNotLost, LoopStep
  PROVE  RequestsNotLost'
<1>1. RequestsNotLost' <=> \A o \in wanted' : Awaited(o)'
  BY DEF RequestsNotLost, Awaited, Asks
<1>2. \A o \in wanted : Awaited(o)
  BY AwaitedAll
<1>3. wanted \subseteq sources /\ \A o : IdOf(o)' = IdOf(o)
  BY DEF Shape, SourceShape, IdOf
<1>4. CASE DropRequests \/ DrainSignal
  BY <1>1, <1>4 DEF DropRequests, DrainSignal, Loop, engineVars, Awaited
<1>5. CASE UpdateAll
  <2>1. wanted' = {}
    BY <1>3, <1>5 DEF UpdateAll, Collect
  <2> QED BY <1>1, <2>1
<1>6. CASE ReceiveSignal
  <2>1. loop.pc = "select" /\ loop' = [pc |-> "take"] /\ UNCHANGED <<ids, handler, wanted>>
    BY <1>6 DEF ReceiveSignal, Loop, engineVars
  <2> QED BY <1>1, <1>2, <1>3, <2>1 DEF Awaited
<1>7. CASE TakeUpdateRequest
  <2>1. loop.pc = "take" /\ UNCHANGED <<token, handler, wanted>>
    BY <1>7 DEF TakeUpdateRequest, engineVars
  <2>2. ids # {} => loop' = [pc |-> "some", ids |-> ids]
    BY <1>7 DEF TakeUpdateRequest, Loop
  <2> QED BY <1>1, <1>2, <1>3, <2>1, <2>2 DEF Awaited
<1>8. CASE UpdateSources
  <2>1. loop.pc = "some" /\ UNCHANGED <<ids, token, handler>>
    BY <1>8 DEF UpdateSources, Collect, askVars
  <2>2. wanted' = wanted \ {o \in sources : IdOf(o) \in loop.ids}
    BY <1>8 DEF UpdateSources, Collect
  <2> QED BY <1>1, <1>2, <1>3, <2>1, <2>2 DEF Awaited
<1>9. CASE UpdateInterval \/ UpdateScheduled
  BY <1>9, StillAwaited DEF UpdateInterval, UpdateScheduled, Collect, askVars
<1>10. CASE Tick \/ ReadLocal \/ SetLocal
  BY <1>10, StillAwaited DEF Tick, ReadLocal, SetLocal, SetUserRules, engineVars, askVars
<1>11. CASE FetchesDone \/ EndBatch \/ ApplyIndexes
  BY <1>11, StillAwaited DEF FetchesDone, EndBatch, ApplyIndexes, engineVars, askVars
<1> QED
  BY <1>4, <1>5, <1>6, <1>7, <1>8, <1>9, <1>10, <1>11 DEF LoopStep

LEMMA FetchStepAsks ==
  ASSUME RequestsNotLost, NEW o, FetchStep(o)
  PROVE  RequestsNotLost'
BY StillAwaited
DEF FetchStep, FetchKeeps, FetchParses, SetRules, FetchPersists, FetchWrites, engineVars, askVars

LEMMA NextAsks ==
  ASSUME Shape, RequestsNotLost, [Next]_vars
  PROVE  RequestsNotLost'
<1>1. CASE Restart
  BY <1>1 DEF Restart, RequestsNotLost
<1>2. CASE SetHistoryDir
  BY <1>2, StillAwaited DEF SetHistoryDir, askVars
<1>3. CASE UNCHANGED vars
  BY <1>3, StillAwaited DEF vars
<1> QED BY <1>1, <1>2, <1>3, LoopStepAsks, HandlerStepAsks, FetchStepAsks DEF Next

\* An update that was asked for reaches the loop, however requests and signals are
\* joined: the id is put down before the signal is given and taken after it
\* (requestSourceUpdate and takeUpdateRequest,
\* sources.go:263-300).
THEOREM RequestsReachLoop == Spec => []RequestsNotLost
<1>1. Init => Shape /\ RequestsNotLost
  <2>1. Init => loop = [pc |-> "init"]
    BY DEF Init
  <2> QED BY <2>1, InitShape DEF RequestsNotLost
<1>2. Shape /\ RequestsNotLost /\ [Next]_vars => (Shape /\ RequestsNotLost)'
  BY NextShape, NextAsks
<1> QED BY <1>1, <1>2, PTL DEF Spec
-----------------------------------------------------------------------------
(* The policy of a source.                                                 *)
(*                                                                         *)
(* A rollback under allow_only parses the old version anew, one without    *)
(* takes it as it is: so a history is good unless it holds exceptions and  *)
(* the source is not allow_only.  That has to hold wherever a history is:  *)
(* in the source, in the file, and on the way between them.                *)

Under(rules, allow) == rules # Nothing => rules.allow = allow
Plain(snaps) == \A k \in DOMAIN snaps : ~snaps[k].allow
PlainDoc(doc) == ~doc.allow => Plain(doc.snaps)

SourcesClassed ==
  \A o \in sources :
    /\ Under(src[o].rules, AllowOnly(src[o].conf))
    /\ ~AllowOnly(src[o].conf) => Plain(src[o].history)

IndexClassed == \A o \in sources : Under(index.url[o], AllowOnly(src[o].conf))

DownloadsClassed ==
  \A o \in Objs :
    /\ o \in sources /\ fetch[o].pc = "parsed"
         => Under(fetch[o].rules, AllowOnly(src[o].conf))
    /\ fetch[o].pc = "write" => PlainDoc(fetch[o].doc)

FilesClassed == \A i \in Ids : \A d \in histFile[i] : PlainDoc(d)

RequestsClassed ==
  \A h \in Handlers :
    /\ handler[h].pc = "install" /\ ~handler[h].allow => Plain(handler[h].snaps)
    /\ handler[h].pc = "write" => PlainDoc(handler[h].doc)

Classed ==
  SourcesClassed /\ IndexClassed /\ DownloadsClassed /\ FilesClassed /\ RequestsClassed

LEMMA ParseUnder ==
  ASSUME NEW c, NEW allow
  PROVE  Under(Parse(c, allow), allow)
BY DEF Under, Parse

LEMMA UnderPolicyUnder ==
  ASSUME NEW snap \in Parsed, NEW allow \in BOOLEAN, ~allow => ~snap.allow
  PROVE  Under(UnderPolicy(snap, allow), allow)
<1>1. CASE allow
  BY <1>1, ParseUnder DEF UnderPolicy
<1>2. CASE ~allow
  BY <1>2 DEF UnderPolicy, Under, Parsed
<1> QED BY <1>1, <1>2

LEMMA EmptyPlain == Plain(<<>>)
BY DEF Plain

LEMMA PlainSubSeq ==
  ASSUME NEW s \in Seq(Parsed), Plain(s), NEW m \in Nat \ {0}, NEW n \in Int, n <= Len(s)
  PROVE  Plain(SubSeq(s, m, n))
<1>1. CASE m > n
  BY <1>1 DEF Plain
<1>2. CASE m <= n
  <2>1. /\ DOMAIN SubSeq(s, m, n) = 1 .. n - m + 1
        /\ \A k \in 1 .. n - m + 1 : SubSeq(s, m, n)[k] = s[m + k - 1]
    BY <1>2
  <2>2. \A k \in 1 .. n - m + 1 : m + k - 1 \in DOMAIN s
    BY <1>2
  <2> QED BY <2>1, <2>2 DEF Plain
<1> QED BY <1>1, <1>2

LEMMA RememberPlain ==
  ASSUME NEW s \in Held, Plain(s.history), Under(s.rules, FALSE)
  PROVE  Plain(Remember(s))
<1>1. s.history \in Seq(Parsed) /\ s.rules \in Parsed
  BY DEF Held, Past
<1>2. CASE s.rules = Nothing
  BY <1>2 DEF Remember
<1>3. CASE s.rules # Nothing
  <2> DEFINE all == Append(s.history, s.rules)
             n == IF Len(all) > MaxHistory THEN MaxHistory ELSE Len(all)
  <2>1. all \in Seq(Parsed) /\ Len(all) \in Nat
    BY <1>1
  <2>2. n \in Nat /\ n <= Len(all)
    BY <2>1, FilterAssumption
  <2>3. Plain(all)
    BY <1>1, <1>3 DEF Plain, Under
  <2>4. Remember(s) = SubSeq(all, Len(all) - n + 1, Len(all))
    BY <1>3 DEF Remember
  <2> HIDE DEF all, n
  <2>5. Len(all) - n + 1 \in Nat \ {0} /\ Len(all) \in Int /\ Len(all) <= Len(all)
    BY <2>1, <2>2
  <2> QED BY <2>1, <2>3, <2>4, <2>5, PlainSubSeq
<1> QED BY <1>2, <1>3

LEMMA ReadPlain ==
  ASSUME FilesClassed, NEW i \in Ids, NEW allow, ReadHistory(i, allow) # {}, ~allow
  PROVE  Plain(CHOOSE s \in ReadHistory(i, allow) : TRUE)
<1>1. \A s \in ReadHistory(i, allow) : Plain(s)
  BY DEF ReadHistory, FilesClassed, PlainDoc
<1> QED BY <1>1

LEMMA DocumentPlain ==
  ASSUME SourceShape, SourcesClassed, NEW i
  PROVE  PlainDoc(Document(i))
<1>1. CASE ActiveOf(i) = {}
  BY <1>1, EmptyPlain DEF Document, PlainDoc
<1>2. CASE ActiveOf(i) # {}
  <2> DEFINE o == CHOOSE p \in ActiveOf(i) : TRUE
  <2>1. o \in sources
    BY <1>2 DEF ActiveOf
  <2>2. Document(i) = [allow |-> AllowOnly(src[o].conf), snaps |-> src[o].history]
    BY <1>2 DEF Document
  <2> HIDE DEF o
  <2> QED BY <2>1, <2>2 DEF SourcesClassed, PlainDoc
<1> QED BY <1>1, <1>2

\* Indexes that are built anew hold what the sources hold.
LEMMA IndexRebuilt ==
  ASSUME Rebuild, SourcesClassed', sources' \subseteq Objs
  PROVE  IndexClassed'
BY DEF Rebuild, Indexed, SourcesClassed, IndexClassed

\* Those left alone hold what they held, under options that are the same.
LEMMA IndexKept ==
  ASSUME IndexClassed, UNCHANGED <<sources, index>>, \A o \in sources : src'[o].conf = src[o].conf
  PROVE  IndexClassed'
BY DEF IndexClassed

LEMMA IndexDeferred ==
  ASSUME IndexClassed, RebuildOrDefer, SourcesClassed', UNCHANGED sources, sources \subseteq Objs,
         \A o \in sources : src'[o].conf = src[o].conf
  PROVE  IndexClassed'
BY IndexRebuilt, IndexKept DEF RebuildOrDefer

LEMMA SourcesQuiet ==
  ASSUME Classed, UNCHANGED <<sources, src>>
  PROVE  SourcesClassed'
BY DEF Classed, SourcesClassed

LEMMA DownloadsQuiet ==
  ASSUME Classed, UNCHANGED <<sources, fetch>>, \A o \in sources : src'[o].conf = src[o].conf
  PROVE  DownloadsClassed'
BY DEF Classed, DownloadsClassed

LEMMA FilesQuiet ==
  ASSUME Classed, UNCHANGED histFile
  PROVE  FilesClassed'
BY DEF Classed, FilesClassed

LEMMA RequestsQuiet ==
  ASSUME Classed, UNCHANGED handler
  PROVE  RequestsClassed'
BY DEF Classed, RequestsClassed

\* A request that goes on, with a history that is good where it has one.
LEMMA RequestGoes ==
  ASSUME Shape, Classed, NEW h \in Handlers, NEW state, Goes(h, state),
         state.pc = "install" /\ ~state.allow => Plain(state.snaps),
         state.pc = "write" => PlainDoc(state.doc)
  PROVE  RequestsClassed'
<1>1. handler'[h] = state /\ \A g \in Handlers \ {h} : handler'[g] = handler[g]
  BY DEF Shape, HandlerShape, Goes
<1> QED BY <1>1 DEF Classed, RequestsClassed
LEMMA ReplaceClasses ==
  ASSUME Shape, Classed, NEW h \in Handlers, ReplaceURLSources(h)
  PROVE  Classed'
<1> DEFINE l == handler[h].list
<1>1. l \in StoreList /\ src \in [Objs -> Held] /\ sources \subseteq Objs
  BY HandlerFields DEF ReplaceURLSources, Shape, SourceShape
<1>2. /\ sources' = Kept(l) \cup Created(l)
      /\ src' = [o \in Objs |->
             IF o \in Kept(l) THEN [src[o] EXCEPT !.gen = l[IdOf(o)].gen]
             ELSE IF o \in Created(l) THEN NewSource(l[IdOf(o)])
             ELSE Dropped]
  BY DEF ReplaceURLSources
<1>3. Rebuild /\ UNCHANGED <<fetch, histFile>>
  BY DEF ReplaceURLSources, storeVars
<1>4. \E load, ask : Goes(h, Following(load, ask))
  BY DEF ReplaceURLSources
<1> HIDE DEF l
<1>5. ASSUME NEW o \in Kept(l)
      PROVE  /\ o \in sources /\ src'[o].rules = src[o].rules
             /\ src'[o].conf = src[o].conf /\ src'[o].history = src[o].history
  <2>1. o \in sources /\ o \in Objs /\ src[o] \in Held
    BY <1>1 DEF Kept
  <2>2. src'[o] = [src[o] EXCEPT !.gen = l[IdOf(o)].gen]
    BY <1>2, <2>1
  <2> QED BY <2>1, <2>2 DEF Held
<1>6. ASSUME NEW o \in Created(l), o \notin Kept(l)
      PROVE  /\ o \in Objs /\ fetch[o] = Idle
             /\ src'[o].rules = Nothing /\ src'[o].history = <<>>
  <2>1. o \in Objs /\ fetch[o] = Idle
    BY CreatedObjects DEF Shape
  <2>2. src'[o] = NewSource(l[IdOf(o)])
    BY <1>2, <1>6, <2>1
  <2> QED BY <2>1, <2>2 DEF NewSource
<1>7. SourcesClassed'
  BY <1>2, <1>5, <1>6, EmptyPlain DEF Classed, SourcesClassed, Under
<1>8. sources' \subseteq Objs
  BY <1>1, <1>2, <1>5, <1>6
<1>9. IndexClassed'
  BY <1>3, <1>7, <1>8, IndexRebuilt
<1>10. DownloadsClassed'
  <2>1. Idle.pc # "parsed"
    BY DEF Idle
  <2> QED BY <1>2, <1>3, <1>5, <1>6, <2>1 DEF Classed, DownloadsClassed
<1>11. FilesClassed' /\ RequestsClassed'
  <2>1. PICK load, ask : Goes(h, Following(load, ask))
    BY <1>4
  <2>2. Following(load, ask).pc \in {"peek", "ask", "idle"}
    BY DEF Following, Idle
  <2> QED BY <1>3, <2>1, <2>2, FilesQuiet, RequestGoes
<1> QED BY <1>7, <1>9, <1>10, <1>11 DEF Classed

LEMMA InstallClasses ==
  ASSUME Shape, Classed, NEW h \in Handlers, InstallHistory(h)
  PROVE  Classed'
<1> DEFINE me == handler[h]
<1>1. UNCHANGED <<sources, index, fetch, histFile>> /\ me.pc = "install"
        /\ Goes(h, Following(me.load, me.ask))
  BY DEF InstallHistory, storeVars
<1>2. src \in [Objs -> Held] /\ sources \subseteq Objs
  BY DEF Shape, SourceShape
<1>3. ASSUME NEW o \in sources
      PROVE  /\ src'[o].rules = src[o].rules /\ src'[o].conf = src[o].conf
             /\ \/ src'[o].history = src[o].history
                \/ src'[o].history = me.snaps /\ AllowOnly(src[o].conf) = me.allow
  <2>1. src[o] \in Held /\ o \in Objs
    BY <1>2
  <2>2. \/ src'[o] = src[o]
        \/ /\ o \in TakesHistory(me.id, me.allow)
           /\ src'[o] = [src[o] EXCEPT !.history = me.snaps]
    BY <2>1 DEF InstallHistory
  <2>3. o \in TakesHistory(me.id, me.allow) => AllowOnly(src[o].conf) = me.allow
    BY DEF TakesHistory
  <2> HIDE DEF me
  <2> QED BY <2>1, <2>2, <2>3 DEF Held
<1>4. ~me.allow => Plain(me.snaps)
  BY <1>1 DEF Classed, RequestsClassed
<1>5. Following(me.load, me.ask).pc \in {"peek", "ask", "idle"}
  BY DEF Following, Idle
<1> HIDE DEF me
<1>6. SourcesClassed'
  BY <1>1, <1>3, <1>4 DEF Classed, SourcesClassed
<1>7. IndexClassed' /\ DownloadsClassed' /\ FilesClassed' /\ RequestsClassed'
  BY <1>1, <1>3, <1>5, IndexKept, DownloadsQuiet, FilesQuiet, RequestGoes DEF Classed
<1> QED BY <1>6, <1>7 DEF Classed

LEMMA RollbackClasses ==
  ASSUME Shape, Classed, NEW h \in Handlers, RollbackSource(h)
  PROVE  Classed'
<1>1. PICK o \in sources :
        /\ src[o].history # <<>>
        /\ src' = [src EXCEPT
             ![o].rules = UnderPolicy(src[o].history[Len(src[o].history)], AllowOnly(src[o].conf)),
             ![o].loaded = TRUE,
             ![o].history = SubSeq(src[o].history, 1, Len(src[o].history) - 1)]
        /\ Goes(h, [pc |-> "persist", id |-> IdOf(o)])
  BY DEF RollbackSource
<1> DEFINE past == src[o].history
           allow == AllowOnly(src[o].conf)
           rules == UnderPolicy(past[Len(past)], allow)
           older == SubSeq(past, 1, Len(past) - 1)
<1>2. o \in Objs /\ src \in [Objs -> Held] /\ src[o] \in Held /\ sources \subseteq Objs
  BY DEF Shape, SourceShape
<1>3. past \in Seq(Parsed) /\ past # <<>> /\ Len(past) \in Nat \ {0}
  BY <1>1, <1>2 DEF Held, Past
<1>4. past[Len(past)] \in Parsed /\ Len(past) \in DOMAIN past
  BY <1>3
<1>5. ~allow => Plain(past)
  BY DEF Classed, SourcesClassed
<1>6. Under(rules, allow)
  <2>1. ~allow => ~past[Len(past)].allow
    BY <1>4, <1>5 DEF Plain
  <2>2. allow \in BOOLEAN
    BY AllowBoolean
  <2> HIDE DEF allow, past
  <2> QED BY <1>4, <2>1, <2>2, UnderPolicyUnder
<1>7. ~allow => Plain(older)
  <2> HIDE DEF allow, past
  <2> QED BY <1>3, <1>5, PlainSubSeq
<1>8. src' = [src EXCEPT ![o] = [src[o] EXCEPT !.rules = rules, !.loaded = TRUE,
                                               !.history = older]]
  BY <1>1, <1>2
<1> HIDE DEF past, rules, older
<1>9. src'[o].rules = rules /\ src'[o].history = older /\ src'[o].conf = src[o].conf
  BY <1>2, <1>8 DEF Held
<1>10. \A p \in Objs \ {o} : src'[p] = src[p]
  BY <1>2, <1>8
<1>11. Rebuild /\ UNCHANGED <<sources, fetch, histFile>>
  BY DEF RollbackSource, storeVars
<1>12. SourcesClassed'
  BY <1>2, <1>6, <1>7, <1>9, <1>10, <1>11 DEF Classed, SourcesClassed
<1>13. IndexClassed' /\ DownloadsClassed' /\ FilesClassed' /\ RequestsClassed'
  BY <1>1, <1>2, <1>9, <1>10, <1>11, <1>12, IndexRebuilt, DownloadsQuiet, FilesQuiet, RequestGoes
<1> QED BY <1>12, <1>13 DEF Classed

LEMMA HandlerStepClasses ==
  ASSUME Shape, Classed, NEW h \in Handlers, HandlerStep(h)
  PROVE  Classed'
<1>1. ASSUME UNCHANGED <<sources, src, index, fetch>>
      PROVE  SourcesClassed' /\ IndexClassed' /\ DownloadsClassed'
  BY <1>1, SourcesQuiet, IndexKept, DownloadsQuiet DEF Classed
<1>2. CASE \/ EditStore(h) \/ ListStore(h) \/ PeekPolicy(h) \/ AskUpdate(h)
           \/ SignalUpdate(h) \/ EditUserRules(h) \/ ReadUserRules(h)
  <2>1. UNCHANGED <<sources, src, index, fetch, histFile>>
    BY <1>2 DEF EditStore, ListStore, PeekPolicy, AskUpdate, SignalUpdate, EditUserRules,
      ReadUserRules, engineVars, storeVars
  <2>2. ASSUME NEW state, Goes(h, state), state.pc \notin {"install", "write"}
        PROVE  Classed'
    <3>1. RequestsClassed'
      BY <2>2, RequestGoes
    <3> QED BY <1>1, <2>1, <3>1, FilesQuiet DEF Classed
  <2>3. CASE EditStore(h)
    BY <2>2, <2>3 DEF EditStore
  <2>4. CASE ListStore(h)
    BY <2>2, <2>4 DEF ListStore
  <2>5. CASE PeekPolicy(h)
    BY <2>2, <2>5 DEF PeekPolicy
  <2>6. CASE AskUpdate(h)
    BY <2>2, <2>6 DEF AskUpdate
  <2>7. CASE SignalUpdate(h)
    <3>1. Following({}, handler[h].ask).pc \in {"ask", "idle"}
      BY DEF Following, Idle
    <3> QED BY <2>2, <2>7, <3>1 DEF SignalUpdate
  <2>8. CASE EditUserRules(h)
    <3>1. PICK held : Goes(h, [pc |-> "reload", held |-> held])
      BY <2>8 DEF EditUserRules
    <3> QED BY <2>2, <3>1
  <2>9. CASE ReadUserRules(h)
    BY <2>2, <2>9 DEF ReadUserRules
  <2> QED
    BY <1>2, <2>3, <2>4, <2>5, <2>6, <2>7, <2>8, <2>9
<1>3. CASE ReadFile(h)
  <2> DEFINE me == handler[h]
             found == ReadHistory(me.id, me.allow)
             snaps == CHOOSE s \in found : TRUE
  <2>1. UNCHANGED <<sources, src, index, fetch, histFile>> /\ me.id \in Ids
    BY <1>3, HandlerFields DEF ReadFile, engineVars, storeVars, Shape
  <2>2. \/ Goes(h, Following(me.load, me.ask))
        \/ /\ found # {}
           /\ Goes(h, [pc |-> "install", load |-> me.load, ask |-> me.ask, id |-> me.id,
                       allow |-> me.allow, snaps |-> snaps])
    BY <1>3 DEF ReadFile
  <2>3. found # {} /\ ~me.allow => Plain(snaps)
    BY <2>1, ReadPlain DEF Classed
  <2>4. Following(me.load, me.ask).pc \in {"peek", "ask", "idle"}
    BY DEF Following, Idle
  <2> HIDE DEF me, found, snaps
  <2>5. RequestsClassed'
    BY <2>2, <2>3, <2>4, RequestGoes
  <2> QED BY <1>1, <2>1, <2>5, FilesQuiet DEF Classed
<1>4. CASE ReplaceURLSources(h)
  BY <1>4, ReplaceClasses
<1>5. CASE InstallHistory(h)
  BY <1>5, InstallClasses
<1>6. CASE RollbackSource(h)
  BY <1>6, RollbackClasses
<1>7. CASE Persist(h)
  <2>1. UNCHANGED <<sources, src, index, fetch, histFile>>
    BY <1>7 DEF Persist, engineVars, storeVars
  <2>2. Goes(h, [pc |-> "write", id |-> handler[h].id, doc |-> Document(handler[h].id)])
    BY <1>7 DEF Persist
  <2>3. PlainDoc(Document(handler[h].id))
    BY DocumentPlain DEF Shape, Classed
  <2>4. RequestsClassed'
    BY <2>2, <2>3, RequestGoes
  <2> QED BY <1>1, <2>1, <2>4, FilesQuiet DEF Classed
<1>8. CASE WriteHistory(h)
  <2>1. UNCHANGED <<sources, src, index, fetch>> /\ Goes(h, Idle) /\ handler[h].pc = "write"
          /\ histFile' = [histFile EXCEPT ![handler[h].id] = {handler[h].doc}]
    BY <1>8 DEF WriteHistory, engineVars
  <2>2. FilesClassed'
    BY <2>1 DEF Classed, RequestsClassed, FilesClassed, Shape, FileShape
  <2>3. RequestsClassed'
    BY <2>1, RequestGoes DEF Idle
  <2> QED BY <1>1, <2>1, <2>2, <2>3 DEF Classed
<1>9. CASE ReloadUserRules(h)
  <2>1. UNCHANGED <<sources, src, fetch, histFile>> /\ Goes(h, Idle)
    BY <1>9 DEF ReloadUserRules, SetUserRules, storeVars
  <2>2. SourcesClassed' /\ DownloadsClassed' /\ FilesClassed'
    BY <2>1, SourcesQuiet, DownloadsQuiet, FilesQuiet
  <2>3. IndexClassed'
    <3>1. RebuildOrDefer \/ UNCHANGED index
      BY <1>9 DEF ReloadUserRules, SetUserRules
    <3> QED BY <2>1, <2>2, <3>1, IndexDeferred, IndexKept DEF Classed, Shape, SourceShape
  <2>4. RequestsClassed'
    BY <2>1, RequestGoes DEF Idle
  <2> QED BY <2>2, <2>3, <2>4 DEF Classed
<1> QED BY <1>2, <1>3, <1>4, <1>5, <1>6, <1>7, <1>8, <1>9 DEF HandlerStep
\* A download that leaves the rules alone, with good rules where it has some.
LEMMA DownloadGoes ==
  ASSUME Shape, Classed, NEW o \in Objs, NEW state, fetch' = [fetch EXCEPT ![o] = state],
         UNCHANGED <<engineVars, handler>>,
         state.pc = "parsed" => Under(state.rules, AllowOnly(src[o].conf)),
         state.pc = "write" => PlainDoc(state.doc), FilesClassed'
  PROVE  Classed'
<1>1. fetch'[o] = state /\ \A p \in Objs \ {o} : fetch'[p] = fetch[p]
  BY DEF Shape, FetchShape
<1>2. UNCHANGED <<sources, src, index, handler>>
  BY DEF engineVars
<1>3. DownloadsClassed'
  BY <1>1, <1>2 DEF Classed, DownloadsClassed
<1> QED BY <1>2, <1>3, SourcesQuiet, IndexKept, RequestsQuiet DEF Classed

LEMMA SetRulesClasses ==
  ASSUME Shape, Classed, NEW o \in Objs, SetRules(o)
  PROVE  Classed'
<1> DEFINE r == fetch[o].rules
           changed == IF src[o].loaded THEN r # src[o].rules ELSE r # Nothing
           past == IF changed THEN Remember(src[o]) ELSE src[o].history
<1>1. src \in [Objs -> Held] /\ src[o] \in Held /\ sources \subseteq Objs
        /\ UNCHANGED <<sources, histFile, handler>> /\ fetch[o].pc = "parsed"
  BY DEF Shape, SourceShape, SetRules, engineVars, storeVars
<1>2. PICK state \in {[pc |-> "persist"], Idle} : fetch' = [fetch EXCEPT ![o] = state]
  BY DEF SetRules
<1>3. state.pc \in {"persist", "idle"}
  BY <1>2 DEF Idle
<1>4. CASE o \notin sources
  <2>1. UNCHANGED engineVars
    BY <1>4 DEF SetRules, IsActive
  <2> QED BY <1>1, <1>2, <1>3, <2>1, FilesQuiet, DownloadGoes
<1>5. CASE o \in sources
  <2>1. src' = [src EXCEPT ![o] = [src[o] EXCEPT !.rules = r, !.loaded = TRUE,
                                                 !.history = past]]
    BY <1>1, <1>5 DEF SetRules, IsActive
  <2>2. Under(r, AllowOnly(src[o].conf))
    BY <1>1, <1>5 DEF Classed, DownloadsClassed
  <2>3. ~AllowOnly(src[o].conf) => Plain(past)
    <3>1. Under(src[o].rules, AllowOnly(src[o].conf))
            /\ (~AllowOnly(src[o].conf) => Plain(src[o].history))
      BY <1>5 DEF Classed, SourcesClassed
    <3>2. ~AllowOnly(src[o].conf) => Under(src[o].rules, FALSE)
      BY <3>1, AllowBoolean DEF Under
    <3> QED BY <1>1, <3>1, <3>2, RememberPlain
  <2>4. RebuildOrDefer \/ UNCHANGED index
    BY <1>5 DEF SetRules, IsActive
  <2> HIDE DEF r, past
  <2>5. src'[o].rules = r /\ src'[o].history = past /\ src'[o].conf = src[o].conf
    BY <1>1, <2>1 DEF Held
  <2>6. \A p \in Objs \ {o} : src'[p] = src[p]
    BY <1>1, <2>1
  <2>7. SourcesClassed'
    BY <1>1, <2>2, <2>3, <2>5, <2>6 DEF Classed, SourcesClassed
  <2>8. IndexClassed'
    BY <1>1, <2>4, <2>5, <2>6, <2>7, IndexDeferred, IndexKept DEF Classed
  <2>9. DownloadsClassed'
    <3>1. fetch'[o] = state /\ \A p \in Objs \ {o} : fetch'[p] = fetch[p]
      BY <1>2 DEF Shape, FetchShape
    <3> QED BY <1>1, <1>3, <2>6, <3>1 DEF Classed, DownloadsClassed
  <2> QED BY <1>1, <2>7, <2>8, <2>9, FilesQuiet, RequestsQuiet DEF Classed
<1> QED BY <1>4, <1>5

LEMMA FetchStepClasses ==
  ASSUME Shape, Classed, NEW o \in Objs, FetchStep(o)
  PROVE  Classed'
<1>1. CASE FetchKeeps(o)
  BY <1>1, FilesQuiet, DownloadGoes DEF FetchKeeps, storeVars, Idle
<1>2. CASE FetchParses(o)
  <2>1. PICK c \in Contents :
          fetch' = [fetch EXCEPT ![o] = [pc |-> "parsed",
                                         rules |-> Parse(c, AllowOnly(src[o].conf))]]
    BY <1>2 DEF FetchParses
  <2> QED BY <1>2, <2>1, ParseUnder, FilesQuiet, DownloadGoes DEF FetchParses, storeVars
<1>3. CASE SetRules(o)
  BY <1>3, SetRulesClasses
<1>4. CASE FetchPersists(o)
  <2>1. PlainDoc(Document(IdOf(o)))
    BY DocumentPlain DEF Shape, Classed
  <2>2. UNCHANGED <<engineVars, handler>> /\ FilesClassed'
    BY <1>4, FilesQuiet DEF FetchPersists, storeVars
  <2>3. \/ fetch' = [fetch EXCEPT ![o] = [pc |-> "write", doc |-> Document(IdOf(o))]]
        \/ fetch' = [fetch EXCEPT ![o] = Idle]
    BY <1>4 DEF FetchPersists
  <2>4. CASE fetch' = [fetch EXCEPT ![o] = Idle]
    BY <2>2, <2>4, DownloadGoes DEF Idle
  <2>5. CASE fetch' = [fetch EXCEPT ![o] = [pc |-> "write", doc |-> Document(IdOf(o))]]
    BY <2>1, <2>2, <2>5, DownloadGoes
  <2> QED BY <2>3, <2>4, <2>5
<1>5. CASE FetchWrites(o)
  <2>1. UNCHANGED <<engineVars, handler>> /\ fetch[o].pc = "write"
          /\ histFile' = [histFile EXCEPT ![IdOf(o)] = {fetch[o].doc}]
          /\ fetch' = [fetch EXCEPT ![o] = Idle]
    BY <1>5 DEF FetchWrites
  <2>2. FilesClassed'
    BY <2>1 DEF Classed, DownloadsClassed, FilesClassed, Shape, FileShape
  <2> QED BY <2>1, <2>2, DownloadGoes DEF Idle
<1> QED BY <1>1, <1>2, <1>3, <1>4, <1>5 DEF FetchStep

LEMMA LoopStepClasses ==
  ASSUME Shape, Published, Classed, LoopStep
  PROVE  Classed'
<1>1. UNCHANGED <<sources, src, histFile, handler>>
  BY DEF LoopStep, DropRequests, DrainSignal, UpdateAll, ReceiveSignal, TakeUpdateRequest,
    UpdateSources, Tick, ReadLocal, SetLocal, SetUserRules, UpdateInterval, UpdateScheduled,
    FetchesDone, EndBatch, ApplyIndexes, Collect, engineVars, storeVars
<1>2. SourcesClassed' /\ FilesClassed' /\ RequestsClassed'
  BY <1>1, SourcesQuiet, FilesQuiet, RequestsQuiet
<1>3. IndexClassed'
  <2>1. CASE UNCHANGED index
    BY <1>1, <2>1, IndexKept DEF Classed
  <2>2. CASE SetLocal
    <3>1. RebuildOrDefer \/ UNCHANGED index
      BY <2>2 DEF SetLocal, SetUserRules
    <3> QED BY <1>1, <1>2, <2>1, <3>1, IndexDeferred DEF Classed, Shape, SourceShape
  <2>3. CASE ApplyIndexes
    <3>1. batch.moved \/ loop.built = Indexed(sources, src, userRules)
      BY <2>3 DEF ApplyIndexes, Published, CopyIsCurrent
    <3>2. UNCHANGED index \/ index' = Indexed(sources, src, userRules)
      BY <2>3, <3>1 DEF ApplyIndexes, Applied
    <3>3. CASE index' = Indexed(sources, src, userRules)
      BY <1>1, <3>3 DEF Indexed, IndexClassed, Classed, SourcesClassed, Shape, SourceShape
    <3> QED BY <2>1, <3>2, <3>3
  <2>4. UNCHANGED index \/ SetLocal \/ ApplyIndexes
    BY DEF LoopStep, DropRequests, DrainSignal, UpdateAll, ReceiveSignal, TakeUpdateRequest,
      UpdateSources, Tick, ReadLocal, UpdateInterval, UpdateScheduled, FetchesDone, EndBatch,
      Collect, engineVars
  <2> QED BY <2>1, <2>2, <2>3, <2>4
<1>4. DownloadsClassed'
  <2>1. UNCHANGED fetch
          \/ \E urls : fetch' = [o \in Objs |-> IF o \in urls THEN [pc |-> "queued"] ELSE fetch[o]]
    BY DEF LoopStep, DropRequests, DrainSignal, UpdateAll, ReceiveSignal, TakeUpdateRequest,
      UpdateSources, Tick, ReadLocal, SetLocal, UpdateInterval, UpdateScheduled, FetchesDone,
      EndBatch, ApplyIndexes, Collect
  <2> QED BY <1>1, <2>1 DEF Classed, DownloadsClassed
<1> QED BY <1>2, <1>3, <1>4 DEF Classed
LEMMA SetHistoryDirClasses ==
  ASSUME Shape, Classed, SetHistoryDir
  PROVE  Classed'
<1>1. UNCHANGED <<sources, index, fetch, histFile, handler>>
  BY DEF SetHistoryDir, storeVars
<1>2. ASSUME NEW o \in sources
      PROVE  /\ src'[o].rules = src[o].rules /\ src'[o].conf = src[o].conf
             /\ ~AllowOnly(src[o].conf) /\ Plain(src[o].history) => Plain(src'[o].history)
  <2> DEFINE found == ReadHistory(IdOf(o), AllowOnly(src[o].conf))
             snaps == CHOOSE s \in found : TRUE
  <2>1. src[o] \in Held /\ o \in Objs /\ IdOf(o) \in Ids
    BY DEF Shape, SourceShape, Objs, IdOf
  <2>2. \/ src'[o] = src[o]
        \/ found # {} /\ src'[o] = [src[o] EXCEPT !.history = snaps]
    BY <2>1 DEF SetHistoryDir
  <2>3. found # {} /\ ~AllowOnly(src[o].conf) => Plain(snaps)
    BY <2>1, ReadPlain DEF Classed
  <2> HIDE DEF found, snaps
  <2> QED BY <2>1, <2>2, <2>3 DEF Held
<1>3. SourcesClassed'
  BY <1>1, <1>2 DEF Classed, SourcesClassed
<1> QED
  BY <1>1, <1>2, <1>3, IndexKept, DownloadsQuiet, FilesQuiet, RequestsQuiet DEF Classed

\* A program that starts has no rules, and the files that were there.
LEMMA RestartClasses ==
  ASSUME Shape, Classed, Restart
  PROVE  Classed'
<1>1. ASSUME NEW o \in Objs
      PROVE  src'[o].rules = Nothing /\ Plain(src'[o].history)
  <2>1. src'[o] = NewSource(store[IdOf(o)]) \/ src'[o] = Dropped
    BY DEF Restart, BootSrc
  <2> QED BY <2>1, EmptyPlain DEF Dropped, NewSource
<1>2. sources' \subseteq Objs /\ index' = Indexed(sources', src', userRules')
  BY DEF Restart, BootSources
<1>3. SourcesClassed' /\ IndexClassed'
  BY <1>1, <1>2 DEF SourcesClassed, IndexClassed, Indexed, Under
<1>4. DownloadsClassed' /\ RequestsClassed'
  <2>1. (\A o \in Objs : fetch'[o] = Idle) /\ (\A h \in Handlers : handler'[h] = Idle)
    BY DEF Restart
  <2>2. Idle.pc = "idle"
    BY DEF Idle
  <2> QED BY <2>1, <2>2 DEF DownloadsClassed, RequestsClassed
<1>5. FilesClassed'
  BY FilesQuiet DEF Restart, storeVars
<1> QED BY <1>3, <1>4, <1>5 DEF Classed

LEMMA InitClasses == Init => Classed
<1> SUFFICES ASSUME Init PROVE Classed
  OBVIOUS
<1>1. ASSUME NEW o \in Objs
      PROVE  src[o].rules = Nothing /\ Plain(src[o].history)
  <2>1. src[o] = NewSource(store[IdOf(o)]) \/ src[o] = Dropped
    BY DEF Init, BootSrc
  <2> QED BY <2>1, EmptyPlain DEF Dropped, NewSource
<1>2. sources \subseteq Objs /\ index = Indexed(sources, src, userRules)
  BY DEF Init, BootSources
<1>3. SourcesClassed /\ IndexClassed
  BY <1>1, <1>2 DEF SourcesClassed, IndexClassed, Indexed, Under
<1>4. DownloadsClassed /\ RequestsClassed /\ FilesClassed
  <2>1. (\A o \in Objs : fetch[o] = Idle) /\ (\A h \in Handlers : handler[h] = Idle)
          /\ \A i \in Ids : histFile[i] = {}
    BY DEF Init
  <2>2. Idle.pc = "idle"
    BY DEF Idle
  <2> QED BY <2>1, <2>2 DEF DownloadsClassed, RequestsClassed, FilesClassed
<1> QED BY <1>3, <1>4 DEF Classed

LEMMA NextClasses ==
  ASSUME Shape, Published, Classed, [Next]_vars
  PROVE  Classed'
<1>1. CASE UNCHANGED vars
  BY <1>1, SourcesQuiet, IndexKept, DownloadsQuiet, FilesQuiet, RequestsQuiet DEF vars, Classed
<1> QED
  BY <1>1, RestartClasses, SetHistoryDirClasses, LoopStepClasses, HandlerStepClasses,
     FetchStepClasses
  DEF Next

\* The rules that match for a source were classified under its present policy,
\* whether they were downloaded, restored from a history, or read from a file that
\* was written before the policy changed (readSourceHistory, history.go:145, and
\* snapshotRulesForPolicy, filter.go:596).
THEOREM PolicyKept == Spec => []ClassifiedUnderPolicy
<1>1. Init => Shape /\ Published /\ Classed
  BY InitShape, InitPublishes, InitClasses
<1>2. Shape /\ Published /\ Classed /\ [Next]_vars => (Shape /\ Published /\ Classed)'
  BY NextShape, NextPublishes, NextClasses
<1>3. Classed => ClassifiedUnderPolicy
  BY DEF Classed, SourcesClassed, IndexClassed, Under, ClassifiedUnderPolicy
<1> QED BY <1>1, <1>2, <1>3, PTL DEF Spec
=============================================================================
