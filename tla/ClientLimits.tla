----------------------------- MODULE ClientLimits -----------------------------
(***************************************************************************)
(* Who is served before any name is looked up: the lists of the DNS        *)
(* server, the default that keeps strangers out of a server without a      *)
(* list, DoH's own rule, and the rate limiter, a token bucket for each     *)
(* client or network, at most maxBuckets of them.                          *)
(*                                                                         *)
(* Time is ticks, PerSecond of them to a second. A bucket holds the time   *)
(* since its last use instead of the clock, counted up to where the        *)
(* cleanup takes it; tokens are counted in parts of PerSecond, so a tick   *)
(* adds the rate. Resolve and ApplySettings exclude each other by          *)
(* runtimeMu, and the limiter has a mutex: each is one step.               *)
(***************************************************************************)
EXTENDS Integers, Sequences, FiniteSets, Subsequences

CONSTANTS
    LimitQueries,        \* queries that are handled at the same time
    DnsClients,          \* addresses
    LimitKeys,           \* keys of buckets
    HostKey, NetKey,     \* client -> its key, alone and in its network
    Internal,            \* clients of the LAN, the tailnet, and this machine
    Loopback, DohPrivate,\* clients on this machine, and those DoH takes for private
    BearerRequired,      \* DOH_AUTH_TOKEN is set
    LimitSettings,       \* settings that may be applied
    PerSecond,           \* ticks in a second
    MaxIdle,             \* ticks after which the cleanup takes a bucket, 10 minutes
    MaxBuckets           \* maxRateLimitBuckets

Rates == {s.qps : s \in LimitSettings} \cup {s.internalQps : s \in LimitSettings}

ASSUME LimitAssumption ==
    /\ HostKey \in [DnsClients -> LimitKeys] /\ NetKey \in [DnsClients -> LimitKeys]
    /\ Rates \subseteq Nat
    /\ \A s \in LimitSettings : s.wide \in BOOLEAN
    /\ PerSecond \in Nat \ {0} /\ MaxIdle \in Nat /\ MaxBuckets \in Nat \ {0}
    /\ PerSecond <= MaxIdle

VARIABLES
    limits,      \* settings in force
    buckets,     \* key -> its bucket
    order,       \* their keys, the least recently used first
    asked,       \* what each query is doing, and its client
    memory       \* history: buckets that nothing but the lack of room removes

limitVars == <<limits, buckets, order, asked, memory>>

NotAsked == [at |-> "idle", client |-> CHOOSE c \in DnsClients : TRUE]

(* Idle for longer than any bucket is kept. *)
Forever == MaxIdle + 1
Unused == [tokens |-> 0, idle |-> Forever]

LimitInit ==
    /\ limits \in LimitSettings
    /\ buckets = [k \in {} |-> Unused] /\ order = <<>>
    /\ asked = [q \in LimitQueries |-> NotAsked]
    /\ memory = [k \in LimitKeys |-> Unused]

-----------------------------------------------------------------------------
(* allowAtRate                                                             *)

AtMost(n, cap) == IF n > cap THEN cap ELSE n

(* A bucket after the refill: never more than one second's worth.          *)
Refilled(b, rate) == AtMost(b.tokens + b.idle * rate, rate * PerSecond)

Level(k, rate) == IF k \in DOMAIN buckets THEN Refilled(buckets[k], rate) ELSE rate * PerSecond

Passes(level) == level >= PerSecond

Used(level) == [tokens |-> IF Passes(level) THEN level - PerSecond ELSE level, idle |-> 0]

(* Mutant: a bucket keeps its place when it is used. *)
OrderInPlace(k, out) ==
    IF k \in DOMAIN buckets THEN order ELSE Append(Keep(order, LimitKeys \ out), k)

OrderAfter(k, out) == Append(Keep(order, LimitKeys \ (out \cup {k})), k)

(* Keys that make room for a new one. *)
RoomFor(k) ==
    IF k \notin DOMAIN buckets /\ Cardinality(DOMAIN buckets) >= MaxBuckets /\ order # <<>>
    THEN {Head(order)} ELSE {}

(* Only the least recently used bucket may make room. *)
Forgiven(out) == {x \in out : \A other \in DOMAIN buckets : buckets[other].idle <= memory[x].idle}

TakeToken(k, rate) ==
    LET out == RoomFor(k)
    IN /\ buckets' = [x \in (DOMAIN buckets \ out) \cup {k} |->
                         IF x = k THEN Used(Level(k, rate)) ELSE buckets[x]]
       /\ order' = OrderAfter(k, out)
       /\ memory' = [x \in LimitKeys |-> IF x = k THEN Used(Refilled(memory[x], rate))
                                         ELSE IF x \in Forgiven(out) THEN Unused ELSE memory[x]]

-----------------------------------------------------------------------------
(* Queries.                                                                *)

(* ServeDNS: without a list only internal clients are served.              *)
DefaultDrop(c) == ~ limits.configured /\ c \notin Internal

Listen(q) ==
    \E c \in DnsClients :
        /\ asked[q].at = "idle" /\ ~ DefaultDrop(c)
        /\ asked' = [asked EXCEPT ![q] = [at |-> "resolve", client |-> c]]
        /\ UNCHANGED <<limits, buckets, order, memory>>

(* dohClientAllowed: the token, when one is set, and private clients       *)
(* otherwise, except those on this machine.                                *)
DohAllowed(c, bearer) == IF BearerRequired THEN bearer ELSE c \in DohPrivate \ Loopback

OverHttps(q) ==
    \E c \in DnsClients, bearer \in BOOLEAN :
        /\ asked[q].at = "idle" /\ DohAllowed(c, bearer)
        /\ asked' = [asked EXCEPT ![q] = [at |-> "resolve", client |-> c]]
        /\ UNCHANGED <<limits, buckets, order, memory>>

AclDrop(c) == c \in limits.denied \/ (limits.configured /\ c \notin limits.allowed)

RateOf(c) == IF c \in Internal THEN limits.internalQps ELSE limits.qps
KeyOf(c) == IF limits.wide THEN NetKey[c] ELSE HostKey[c]
Unlimited(c) == c \in limits.exempt \/ RateOf(c) = 0

Answers(q, how) == asked' = [asked EXCEPT ![q].at = how]

(* Resolve, as far as the limiter; what follows is DnsPipeline.            *)
ResolveAdmits(q) ==
    LET c == asked[q].client
    IN /\ asked[q].at = "resolve"
       /\ \/ AclDrop(c) /\ Answers(q, "dropped") /\ UNCHANGED <<buckets, order, memory>>
          \/ ~ AclDrop(c) /\ Unlimited(c) /\ Answers(q, "served") /\ UNCHANGED <<buckets, order, memory>>
          \/ /\ ~ AclDrop(c) /\ ~ Unlimited(c)
             /\ TakeToken(KeyOf(c), RateOf(c))
             /\ \E edns0 \in BOOLEAN :
                  Answers(q, IF Passes(Level(KeyOf(c), RateOf(c))) THEN "served"
                             ELSE IF limits.ede /\ edns0 THEN "refused" ELSE "dropped")
       /\ UNCHANGED limits

QueryLeaves(q) ==
    /\ asked[q].at \in {"served", "refused", "dropped"}
    /\ asked' = [asked EXCEPT ![q] = NotAsked]
    /\ UNCHANGED <<limits, buckets, order, memory>>

-----------------------------------------------------------------------------

(* ApplySettings replaces the lists and the rates; buckets stay.           *)
LimitsChange ==
    /\ limits' \in LimitSettings \ {limits}
    /\ UNCHANGED <<buckets, order, asked, memory>>

Older(b) == [b EXCEPT !.idle = AtMost(@ + 1, Forever)]

LimitTick ==
    /\ buckets' = [k \in DOMAIN buckets |-> Older(buckets[k])]
    /\ memory' = [k \in LimitKeys |-> Older(memory[k])]
    /\ UNCHANGED <<limits, order, asked>>

Idled(k) == buckets[k].idle > MaxIdle

(* cleanup, by its ticker.                                                 *)
Cleanup ==
    LET idled == {k \in DOMAIN buckets : Idled(k)}
    IN /\ idled # {}
       /\ buckets' = [k \in DOMAIN buckets \ idled |-> buckets[k]]
       /\ order' = Keep(order, LimitKeys \ idled)
       /\ UNCHANGED <<limits, asked, memory>>

LimitNext ==
    \/ \E q \in LimitQueries : Listen(q) \/ OverHttps(q) \/ ResolveAdmits(q) \/ QueryLeaves(q)
    \/ LimitsChange \/ LimitTick \/ Cleanup

LimitSpec == LimitInit /\ [][LimitNext]_limitVars

-----------------------------------------------------------------------------
(* Buckets and their order.                                                *)
LimitTypeOK ==
    /\ limits \in LimitSettings
    /\ DOMAIN buckets \subseteq LimitKeys
    /\ \A k \in DOMAIN buckets : buckets[k] \in [tokens : Nat, idle : 0 .. Forever]
    /\ memory \in [LimitKeys -> [tokens : Nat, idle : 0 .. Forever]]
    /\ order \in Seq(LimitKeys)
    /\ asked \in [LimitQueries -> [at : {"idle", "resolve", "served", "refused", "dropped"},
                                   client : DnsClients]]

(* A client is limited exactly as though its bucket had never been taken   *)
(* away by the cleanup, whatever rates it had since; and for lack of room  *)
(* none but the longest unused bucket is forgotten.                        *)
LimitsAsThoughKept ==
    \A k \in LimitKeys : \A rate \in Rates : Level(k, rate) = Refilled(memory[k], rate)
=============================================================================
