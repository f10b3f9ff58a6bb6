----------------------------- MODULE WebSessions -----------------------------
(***************************************************************************)
(* Browser sessions of the dashboard and the waiting times of failed       *)
(* logins. A session ends by its age, when it is idle, by a logout, by a   *)
(* logout of all, for a newer one when there are too many, and with the    *)
(* process; requests keep it from being idle, event streams do not: their  *)
(* loop falls silent when it has ended, the page of missed events before   *)
(* the loop does not ask. A login is checked against the failures of its   *)
(* address, then its password is compared, which is slow, and then it is   *)
(* counted: logins of other addresses run in between.                      *)
(*                                                                         *)
(* A session is the number of its token, which is never used again. Time   *)
(* is ticks; ages are kept instead of times and counted no further than    *)
(* where they matter. sessionMu and rateMu make each of their uses a step. *)
(***************************************************************************)
EXTENDS Naturals, Sequences, FiniteSets, SequencesExt

CONSTANTS
    LoginAddresses,                \* that log in, one attempt at a time each
    EventStreams,                  \* event streams
    SessionLifetime, SessionIdle,  \* sessionLifetime and sessionIdleTimeout
    MaxSessions,                   \* maxSessions
    FailureMemory,                 \* loginFailureMemory
    BackoffCap,                    \* loginBackoffCap
    GlobalWindow, GlobalLimit,     \* globalLoginFailureWindow and -Limit
    MaxTracked,                    \* maxRateLimitEntries
    MaxLogins, MaxFailures         \* bounds: sessions and failed logins

ASSUME SessionAssumption ==
    /\ SessionLifetime \in Nat \ {0} /\ SessionIdle \in Nat \ {0} /\ MaxSessions \in Nat \ {0}
    /\ BackoffCap \in Nat /\ FailureMemory \in Nat /\ BackoffCap <= FailureMemory
    /\ GlobalWindow \in Nat \ {0} /\ GlobalLimit \in Nat \ {0} /\ MaxTracked \in Nat \ {0}
    /\ MaxLogins \in Nat /\ MaxFailures \in Nat

VARIABLES
    sessions,      \* token -> time since its login and since its last request
    issued,        \* tokens issued so far
    tracked,       \* address -> failures in a row and time since the last one
    globalFailures,\* time since each failure of any address
    login,         \* place of each address's attempt
    stream,        \* place of each stream, its token, and whether what it is
                   \* about to write may have come after its session's end
    sinceFailure,  \* history: time since an address last failed
    failures       \* bounded count

sessionVars == <<sessions, issued>>
failureVars == <<tracked, globalFailures, sinceFailure, failures>>
webVars == <<sessionVars, failureVars, login, stream>>

Silent == [at |-> "closed", token |-> 0, late |-> FALSE]
LongAgo == FailureMemory + 1

WebInit ==
    /\ sessions = [t \in {} |-> Silent] /\ issued = 0
    /\ tracked = [a \in {} |-> Silent] /\ globalFailures = <<>>
    /\ login = [a \in LoginAddresses |-> "idle"]
    /\ stream = [s \in EventStreams |-> Silent]
    /\ sinceFailure = [a \in LoginAddresses |-> LongAgo] /\ failures = 0

-----------------------------------------------------------------------------
(* Sessions.                                                               *)

SessionExpired(t) == sessions[t].age >= SessionLifetime \/ sessions[t].idle >= SessionIdle

Live == {t \in DOMAIN sessions : ~ SessionExpired(t)}

(* Mutant: a stream takes a session for alive until it is removed. *)
AliveWhileKept(t) == t \in DOMAIN sessions

(* sessionAlive                                                            *)
Alive(t) == t \in Live

LeastRecent(kept) == {t \in kept : \A other \in kept : sessions[other].idle <= sessions[t].idle}

(* newSession: expired sessions are removed, and then the least recently   *)
(* used ones until there is room.                                          *)
NewSession(t) ==
    \E kept \in SUBSET Live :
        /\ IF Cardinality(Live) < MaxSessions THEN kept = Live
           ELSE \E out \in LeastRecent(Live) : kept = Live \ {out}
        /\ sessions' = [x \in kept \cup {t} |-> IF x = t THEN [age |-> 0, idle |-> 0] ELSE sessions[x]]

(* validSession: the expired go, the one that is named is used.            *)
Validate(t) ==
    sessions' = [x \in Live |-> IF x = t THEN [sessions[x] EXCEPT !.idle = 0] ELSE sessions[x]]

(* authMiddleware lets the request through, to a page or an API.           *)
Request(t) ==
    /\ Validate(t)
    /\ UNCHANGED <<issued, failureVars, login, stream>>

Logout(t) ==
    /\ sessions' = [x \in DOMAIN sessions \ {t} |-> sessions[x]]
    /\ UNCHANGED <<issued, failureVars, login, stream>>

(* scope=all needs a live session.                                         *)
LogoutAll(t) ==
    /\ IF t \in Live THEN sessions' = [x \in {} |-> sessions[x]] ELSE Validate(t)
    /\ UNCHANGED <<issued, failureVars, login, stream>>

-----------------------------------------------------------------------------
(* handleStream, with regard to its session.                               *)

StreamAt(s, place) == stream[s].at = place
StreamMoves(s, place) == stream' = [stream EXCEPT ![s].at = place]

(* authMiddleware lets the request of a stream through.                    *)
StreamOpens(s, t) ==
    /\ StreamAt(s, "closed") /\ t \in Live
    /\ Validate(t)
    /\ stream' = [stream EXCEPT ![s] = [at |-> "opening", token |-> t, late |-> FALSE]]
    /\ UNCHANGED <<issued, failureVars, login>>

(* A client without a Last-Event-ID goes straight to the loop.             *)
StreamSubscribes(s) ==
    /\ StreamAt(s, "opening") /\ StreamMoves(s, "open")
    /\ UNCHANGED <<sessionVars, failureVars, login>>

(* GetEventsAfter: the page holds what was stored until now. Nothing asks  *)
(* whether the session is still alive, here or before the page is written. *)
StreamReadsPage(s) ==
    /\ StreamAt(s, "opening")
    /\ \E late \in {FALSE, stream[s].token \notin Live} :
          stream' = [stream EXCEPT ![s].at = "catchUp", ![s].late = late]
    /\ UNCHANGED <<sessionVars, failureVars, login>>

StreamReplays(s) ==
    /\ StreamAt(s, "catchUp") /\ StreamMoves(s, "open")
    /\ UNCHANGED <<sessionVars, failureVars, login>>

(* The loop takes an event from its channel.                               *)
EventComes(s) ==
    /\ StreamAt(s, "open")
    /\ stream' = [stream EXCEPT ![s].at = "check", ![s].late = stream[s].token \notin Live]
    /\ UNCHANGED <<sessionVars, failureVars, login>>

StreamChecks(s) ==
    /\ StreamAt(s, "check")
    /\ IF Alive(stream[s].token) THEN StreamMoves(s, "write")
       ELSE stream' = [stream EXCEPT ![s] = Silent]
    /\ UNCHANGED <<sessionVars, failureVars, login>>

StreamWrites(s) ==
    /\ StreamAt(s, "write") /\ StreamMoves(s, "open")
    /\ UNCHANGED <<sessionVars, failureVars, login>>

(* The client leaves, the keepalive finds the session ended, or the        *)
(* request cannot be streamed.                                             *)
StreamCloses(s) ==
    /\ StreamAt(s, "open") \/ StreamAt(s, "opening")
    /\ stream' = [stream EXCEPT ![s] = Silent]
    /\ UNCHANGED <<sessionVars, failureVars, login>>

-----------------------------------------------------------------------------
(* handleLogin                                                             *)

Pruned(s) == SelectSeq(s, LAMBDA age : age < GlobalWindow)

(* getRateLimitBackoff                                                     *)
Backoff(count) ==
    IF count <= 1 THEN 0 ELSE IF 2 ^ (count - 2) \in 0 .. BackoffCap THEN 2 ^ (count - 2) ELSE BackoffCap

Exhausted == Len(Pruned(globalFailures)) >= GlobalLimit

(* Mutant: an exhausted budget refuses everybody. *)
MustWaitAll(a) ==
    \/ Exhausted
    \/ a \in DOMAIN tracked /\ tracked[a].quiet < Backoff(tracked[a].count)

(* The shared budget refuses nobody who has not failed before.             *)
MustWait(a) ==
    /\ a \in DOMAIN tracked /\ tracked[a].quiet <= FailureMemory
    /\ tracked[a].quiet < (IF Exhausted THEN BackoffCap ELSE Backoff(tracked[a].count))

Without(a) == [x \in DOMAIN tracked \ {a} |-> tracked[x]]
LoginMoves(a, place) == login' = [login EXCEPT ![a] = place]

(* checkRateLimit; an attempt that fails the CSRF check ends as well.      *)
LoginBegins(a) ==
    /\ login[a] = "idle"
    /\ globalFailures' = Pruned(globalFailures)
    /\ tracked' = IF a \in DOMAIN tracked /\ tracked[a].quiet > FailureMemory THEN Without(a) ELSE tracked
    /\ IF MustWait(a) THEN LoginMoves(a, "refused") ELSE LoginMoves(a, "idle") \/ LoginMoves(a, "compare")
    /\ UNCHANGED <<sessionVars, sinceFailure, failures, stream>>

PasswordFits(a) ==
    /\ login[a] = "compare" /\ issued < MaxLogins
    /\ issued' = issued + 1 /\ NewSession(issued + 1)
    /\ LoginMoves(a, "reset")
    /\ UNCHANGED <<failureVars, stream>>

(* resetRateLimit, and the answer.                                         *)
LoginResets(a) ==
    /\ login[a] = "reset"
    /\ tracked' = Without(a) /\ LoginMoves(a, "idle")
    /\ UNCHANGED <<sessionVars, globalFailures, sinceFailure, failures, stream>>

LongestQuiet == {a \in DOMAIN tracked : \A other \in DOMAIN tracked : tracked[other].quiet <= tracked[a].quiet}

(* recordFailedLogin                                                       *)
PasswordFails(a) ==
    /\ login[a] = "compare" /\ failures < MaxFailures /\ failures' = failures + 1
    /\ globalFailures' = Append(Pruned(globalFailures), 0)
    /\ \E out \in SUBSET DOMAIN tracked :
          /\ IF a \in DOMAIN tracked \/ Cardinality(DOMAIN tracked) < MaxTracked THEN out = {}
             ELSE \E oldest \in LongestQuiet : out = {oldest}
          /\ tracked' = [x \in (DOMAIN tracked \ out) \cup {a} |->
                            IF x # a THEN tracked[x]
                            ELSE [count |-> IF a \in DOMAIN tracked THEN tracked[a].count + 1 ELSE 1, quiet |-> 0]]
    /\ sinceFailure' = [sinceFailure EXCEPT ![a] = 0]
    /\ LoginMoves(a, "idle")
    /\ UNCHANGED <<sessionVars, stream>>

LoginRefused(a) ==
    /\ login[a] = "refused" /\ LoginMoves(a, "idle")
    /\ UNCHANGED <<sessionVars, failureVars, stream>>

-----------------------------------------------------------------------------
Grown(n, most) == IF n < most THEN n + 1 ELSE most

(* Time passes, though not within the steps of an attempt's answer.        *)
SessionTick ==
    /\ sessions' = [t \in DOMAIN sessions |-> [age |-> Grown(sessions[t].age, SessionLifetime),
                                               idle |-> Grown(sessions[t].idle, SessionIdle)]]
    /\ tracked' = [a \in DOMAIN tracked |-> [tracked[a] EXCEPT !.quiet = Grown(@, LongAgo)]]
    /\ globalFailures' = [i \in DOMAIN globalFailures |-> Grown(globalFailures[i], GlobalWindow)]
    /\ sinceFailure' = [a \in LoginAddresses |-> Grown(sinceFailure[a], LongAgo)]
    /\ \A a \in LoginAddresses : login[a] # "refused"
    /\ UNCHANGED <<issued, failures, login, stream>>

(* cleanupRateLimits                                                       *)
CleanupFailures ==
    /\ tracked' = [a \in {x \in DOMAIN tracked : tracked[x].quiet <= FailureMemory} |-> tracked[a]]
    /\ globalFailures' = Pruned(globalFailures)
    /\ UNCHANGED <<sessionVars, sinceFailure, failures, login, stream>>

(* Sessions and failures are in memory only.                               *)
WebRestarts ==
    /\ sessions' = [t \in {} |-> Silent]
    /\ tracked' = [a \in {} |-> Silent] /\ globalFailures' = <<>>
    /\ login' = [a \in LoginAddresses |-> "idle"] /\ stream' = [s \in EventStreams |-> Silent]
    /\ UNCHANGED <<issued, sinceFailure, failures>>

WebNext ==
    \/ \E t \in 1 .. issued : Request(t) \/ Logout(t) \/ LogoutAll(t)
    \/ \E s \in EventStreams : \/ \E t \in 1 .. issued : StreamOpens(s, t)
                                 \/ StreamSubscribes(s) \/ StreamReadsPage(s) \/ StreamReplays(s)
                                 \/ EventComes(s) \/ StreamChecks(s) \/ StreamWrites(s) \/ StreamCloses(s)
    \/ \E a \in LoginAddresses : \/ LoginBegins(a) \/ PasswordFits(a) \/ LoginResets(a)
                                   \/ PasswordFails(a) \/ LoginRefused(a)
    \/ SessionTick \/ CleanupFailures \/ WebRestarts

WebSpec == WebInit /\ [][WebNext]_webVars

-----------------------------------------------------------------------------
(* A session that has ended, in whatever way, is over for good, and the    *)
(* loop of handleStream writes no event that came after its end, however   *)
(* its check, the write and the end interleave. The page of missed events  *)
(* that a stream may write before its loop is not held to this.            *)
EndedIsSilent ==
    /\ [][\A t \in 1 .. issued : t \notin Live => t \notin Live']_webVars
    /\ [](\A s \in EventStreams : StreamAt(s, "write") => ~ stream[s].late)

(* Once a session has ended, none of its streams is about to write what    *)
(* came after its end: "a revoked or expired session stops receiving       *)
(* telemetry" (handleStream). The page written before the loop breaks it.  *)
NothingAfterEnd == \A s \in EventStreams : stream[s].at \in {"catchUp", "write"} => ~ stream[s].late

(* A login is refused only to an address that has itself failed within the *)
(* longest waiting time: nobody can keep others out by failing.            *)
OnlyFailuresWait == \A a \in LoginAddresses : login[a] = "refused" => sinceFailure[a] < BackoffCap
=============================================================================
