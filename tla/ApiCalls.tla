------------------------------- MODULE ApiCalls -------------------------------
(***************************************************************************)
(* A request from a client library to the server and back: the four SDKs'  *)
(* retry loops and the command line's, and on the server the instance's    *)
(* rate limit, the API key and the handler.  Source: go/http.go, js/src/   *)
(* http.ts, python _http.py, php Http.php, cli/internal/{hosted/hosted.go, *)
(* server/ratelimit.go, auth/auth.go, common/common.go}.                   *)
(*                                                                         *)
(* A tick is the SDKs' first backoff.  A request the client gave up on may *)
(* still be on its way, and a proxy before the hosted service may answer   *)
(* for it whether or not it was acted on.                                  *)
(***************************************************************************)
EXTENDS Naturals, TLC

CONSTANTS
    Callers,     \* calls that may be in progress at a time
    Sorts,       \* <<library, kind>>: what a call is made with and what it does
    Keys,        \* API keys; "none" for a request without one
    GrantTables, \* the grants a key may be byHash with: sets of <<scope, level>>
    DevOpen,     \* Options.DevOpen: a key nobody byHash has every grant
    Rpms,        \* the instance's rateLimit: requests a minute, 0 for none
    MaxRpm,      \* the largest of them
    MinuteTicks, \* ticks a minute
    RetryAfter   \* ticks in the "Retry-After: 1" of a 429

\* What a call does: "once" is not repeated by an SDK (a transaction, a publish, an add of
\* tasks without names) and is a POST to the command line; the server tells a repeated
\* "named" add and a repeated "ack" from a first one; a "create" is a put without a key.
Kinds == {"once", "named", "ack", "create"}
Libraries == {"go", "js", "python", "php", "cli"}

ASSUME CallsAssumption ==
    /\ Sorts \subseteq Libraries \X Kinds /\ DevOpen \in BOOLEAN
    /\ MaxRpm \in Nat \ {0} /\ Rpms \subseteq 0..MaxRpm
    /\ MinuteTicks \in Nat \ {0} /\ RetryAfter \in Nat \ {0}

VARIABLES
    calls,   \* each caller's loop: its attempt, what came back, what is left of its pause
    air,     \* <<caller, attempt>> of the requests not yet served
    effects, \* history: how often a caller's call took effect
    byHash,  \* Store.byHash: the grants of the keys minted since the start
    rpm,     \* the instance's configured limit
    spare,   \* bucket.tokens as of its last request, in parts of a token, and
    since,   \* the ticks passed since then
    lately   \* history: k -> requests let through within the last k ticks

serverVars == <<byHash, rpm, spare, since, lately>>
apiVars == <<calls, air, effects, serverVars>>

IdleCall == [phase |-> "idle", sort |-> <<>>, key |-> "none", attempt |-> 0, outcome |-> "none", left |-> 0, owed |-> 0]
Lookback == 0..MinuteTicks
NoKeys == [k \in {} |-> {}]

ApiInit ==
    /\ calls = [c \in Callers |-> IdleCall] /\ air = {}
    /\ effects = [c \in Callers |-> 0]
    /\ byHash = NoKeys
    /\ rpm \in Rpms /\ spare = MinuteTicks * rpm /\ since = 0
    /\ lately = [k \in Lookback |-> 0]

-----------------------------------------------------------------------------
(* The client *)

Lib(c)  == calls[c].sort[1]
Kind(c) == calls[c].sort[2]

\* newTransport's default, and hosted's; a call that must not be repeated has one.
Attempts(c) == CASE Lib(c) = "cli" -> 4
                 [] Lib(c) # "cli" /\ Kind(c) = "once" -> 1
                 [] OTHER -> 3

\* Whether the method may be repeated when it may have been acted on.
Idempotent(c) == Lib(c) # "cli" \/ Kind(c) # "once"

\* Faulty: whatever a proxy may answer is worth another attempt.
RetryableAlways(c, a) == a \in {"limited", "unavailable", "gateway", "failed", "unsent", "broken"}

\* Which outcomes are worth another attempt: a 429 and a 503 turn the request away, a 502 or
\* 504 may come after it was acted on; a transport that fails; a body that breaks off, which
\* is a transport failure only to the libraries that read it with the answer.
Retryable(c, a) ==
    \/ a \in {"limited", "unavailable", "unsent"}
    \/ a \in {"gateway", "failed"} /\ Idempotent(c)
    \/ a = "broken" /\ Idempotent(c) /\ Lib(c) \in {"python", "php", "cli"}

\* The pause before the next attempt: doubled each time and capped at sixteen of the first;
\* raised to Retry-After; and, but for the command line, cut by up to a half at random.
Doubled(n) == IF n < 5 THEN 2 ^ (n - 1) ELSE 16
Raised(a, d) == IF a = "limited" /\ RetryAfter > d THEN RetryAfter ELSE d
Pauses(c, a, n) ==
    LET d == Raised(a, Doubled(n)) IN
    IF Lib(c) = "cli" THEN {IF a = "limited" THEN RetryAfter ELSE 2 * Doubled(n)}
    ELSE ((d + 1) \div 2)..d

Begins(c, s, k) ==
    /\ calls[c] = IdleCall
    /\ calls' = [calls EXCEPT ![c] = [IdleCall EXCEPT !.phase = "sent", !.sort = s, !.key = k, !.attempt = 1]]
    /\ air' = air \cup {<<c, 1>>}
    /\ UNCHANGED <<effects, serverVars>>

\* The loop's turn on an attempt's outcome: another attempt after a pause, or the outcome is
\* the application's.
Turn(c, a) ==
    IF Retryable(c, a) /\ calls[c].attempt < Attempts(c)
    THEN \E d \in Pauses(c, a, calls[c].attempt) :
            calls' = [calls EXCEPT ![c].phase = "pausing", ![c].left = d, ![c].outcome = "none",
                                   ![c].owed = IF a = "limited" THEN RetryAfter ELSE 0]
    ELSE calls' = [calls EXCEPT ![c].phase = "done", ![c].outcome = a]

Receives(c) ==
    /\ calls[c].phase = "answered" /\ Turn(c, calls[c].outcome)
    /\ UNCHANGED <<air, effects, serverVars>>

\* The connection fails or the client's timeout passes, whatever became of the request.
Fails(c) ==
    /\ calls[c].phase \in {"sent", "answered"} /\ Turn(c, "failed")
    /\ UNCHANGED <<air, effects, serverVars>>

\* No connection is made.
Unsent(c) ==
    /\ calls[c].phase = "sent" /\ <<c, calls[c].attempt>> \in air
    /\ Turn(c, "unsent") /\ air' = air \ {<<c, calls[c].attempt>>}
    /\ UNCHANGED <<effects, serverVars>>

\* The body breaks off.  Under an error's status what there is of it is used, except by the
\* libraries that read it with the answer.
Breaks(c) ==
    /\ calls[c].phase = "answered"
    /\ Turn(c, IF calls[c].outcome = "ok" \/ Lib(c) \in {"python", "php"} THEN "broken" ELSE calls[c].outcome)
    /\ UNCHANGED <<air, effects, serverVars>>

\* The body stays away.  once() stopped its timer when the headers came, so nothing in
\* http.ts ends the wait; the other libraries' timeouts cover the body, and Fails.
Stalls(c) ==
    /\ calls[c].phase = "answered" /\ Lib(c) = "js"
    /\ calls' = [calls EXCEPT ![c].phase = "hung"]
    /\ UNCHANGED <<air, effects, serverVars>>

\* Faulty: the loop does not count.
ResumesSame(c) ==
    /\ calls[c].phase = "pausing" /\ calls[c].left = 0
    /\ calls' = [calls EXCEPT ![c].phase = "sent", ![c].owed = 0]
    /\ air' = air \cup {<<c, calls[c].attempt>>}
    /\ UNCHANGED <<effects, serverVars>>

Resumes(c) ==
    /\ calls[c].phase = "pausing" /\ calls[c].left = 0
    /\ calls' = [calls EXCEPT ![c].phase = "sent", ![c].attempt = @ + 1, ![c].owed = 0]
    /\ air' = air \cup {<<c, calls[c].attempt + 1>>}
    /\ UNCHANGED <<effects, serverVars>>

\* The caller goes on to its next call once nothing of this one is under way.
Rests(c) ==
    /\ calls[c].phase = "done" /\ \A r \in air : r[1] # c
    /\ calls' = [calls EXCEPT ![c] = IdleCall] /\ effects' = [effects EXCEPT ![c] = 0]
    /\ UNCHANGED <<air, serverVars>>

-----------------------------------------------------------------------------
(* The server *)

AtMost(a, b) == IF a < b THEN a ELSE b
Token == MinuteTicks

\* Faulty: the time since the last request refills without end.
FilledOver == spare + since * rpm

\* A minute's worth at most, refilled a rpm's part of it each tick.
Filled == AtMost(Token * rpm, spare + since * rpm)

\* rateMW: before the key is looked at, so any request spends a token.
LetsThrough == rpm = 0 \/ Filled >= Token
Spends ==
    IF rpm = 0 THEN UNCHANGED <<spare, since, lately>>
    ELSE /\ spare' = Filled - (IF LetsThrough THEN Token ELSE 0) /\ since' = 0
         /\ lately' = IF LetsThrough THEN [k \in Lookback |-> lately[k] + 1] ELSE lately

\* The instance's own grant stands before the service's.
Effective(g) ==
    IF \E x \in g : x[1] = "instance" THEN (CHOOSE x \in g : x[1] = "instance")[2]
    ELSE IF \E x \in g : x[1] = "service" THEN (CHOOSE x \in g : x[1] = "service")[2]
    ELSE "none"

\* Resolve and Require, for a handler that writes.
Authorized(k) ==
    /\ k # "none"
    /\ IF k \in DOMAIN byHash THEN Effective(byHash[k]) \in {"write", "full"} ELSE DevOpen

\* What the handler does for a call, and whether it counts: its effect, or none.
Acts(c) ==
    IF effects[c] = 0 \/ Kind(c) \in {"once", "create"} THEN {<<"ok", 1>>}
    ELSE IF Kind(c) = "named" THEN {<<"ok", 0>>} ELSE {<<"refused", 0>>}

\* A proxy turns the request away, or hides what was made of it.
Hidden(c) == {<<"unavailable", 0>>, <<"gateway", 0>>} \cup {<<"gateway", x[2]>> : x \in Acts(c)}

Handled(c) ==
    IF ~LetsThrough THEN {<<"limited", 0>>}
    ELSE IF ~Authorized(calls[c].key) THEN {<<"refused", 0>>}
    ELSE Acts(c) \cup Hidden(c)

\* The answer of an attempt the client has given up on goes nowhere.
Serves(c, n) ==
    /\ <<c, n>> \in air /\ air' = air \ {<<c, n>>}
    /\ Spends
    /\ \E x \in Handled(c) :
          /\ effects' = [effects EXCEPT ![c] = @ + x[2]]
          /\ calls' = IF calls[c].phase = "sent" /\ calls[c].attempt = n
                      THEN [calls EXCEPT ![c].phase = "answered", ![c].outcome = x[1]] ELSE calls
    /\ UNCHANGED <<byHash, rpm>>

\* A request nobody waits for never arrives.
Vanishes(c, n) ==
    /\ <<c, n>> \in air /\ (calls[c].phase # "sent" \/ calls[c].attempt # n)
    /\ air' = air \ {<<c, n>>}
    /\ UNCHANGED <<calls, effects, serverVars>>

MintKey(k, g) ==
    /\ k \notin DOMAIN byHash /\ byHash' = byHash @@ (k :> g)
    /\ UNCHANGED <<calls, air, effects, rpm, spare, since, lately>>

SetLimit(r) ==
    /\ rpm' = r /\ r # rpm
    /\ UNCHANGED <<calls, air, effects, byHash, spare, since, lately>>

\* The server starts again: its buckets and its keys were in memory.
ApiRestart ==
    /\ byHash' = NoKeys /\ spare' = Token * rpm /\ since' = 0
    /\ lately' = [k \in Lookback |-> 0]
    /\ UNCHANGED <<calls, air, effects, rpm>>

Less(n) == IF n = 0 THEN 0 ELSE n - 1

\* A pause that is over ends before time goes on.
Ticks ==
    /\ \A c \in Callers : calls[c].phase = "pausing" => calls[c].left > 0
    /\ calls' = [c \in Callers |-> [calls[c] EXCEPT !.left = Less(@), !.owed = Less(@)]]
    /\ since' = AtMost(since + 1, MinuteTicks)
    /\ lately' = [k \in Lookback |-> IF k = 0 THEN 0 ELSE lately[k - 1]]
    /\ UNCHANGED <<air, effects, byHash, rpm, spare>>

-----------------------------------------------------------------------------
CallGoesOn(c) == Receives(c) \/ Fails(c) \/ Unsent(c) \/ Breaks(c) \/ Stalls(c)

ApiNext ==
    \/ \E c \in Callers : \/ \E s \in Sorts, k \in Keys : Begins(c, s, k)
                           \/ CallGoesOn(c) \/ Resumes(c) \/ Rests(c)
                           \/ \E n \in 1..4 : Serves(c, n) \/ Vanishes(c, n)
    \/ \E k \in Keys \ {"none"}, g \in GrantTables : MintKey(k, g)
    \/ \E r \in Rpms : SetLimit(r)
    \/ ApiRestart \/ Ticks

\* Every library ends an attempt by its timeout, and a pause is a timer's.
ApiFairness ==
    /\ \A c \in Callers : WF_apiVars(CallGoesOn(c)) /\ WF_apiVars(Resumes(c))
    /\ WF_apiVars(Ticks)

ApiSpec == ApiInit /\ [][ApiNext]_apiVars /\ ApiFairness

-----------------------------------------------------------------------------
\* Every variable has its type, and a call makes no more attempts than it may.
ApiTyped ==
    /\ \A c \in Callers : calls[c].attempt <= (IF calls[c].phase = "idle" THEN 0 ELSE Attempts(c))
    /\ air \subseteq Callers \X (1..4)
    /\ spare \in 0..(Token * MaxRpm) /\ since \in Lookback

\* However attempts fail, are repeated or arrive late: a call that must not be repeated, a
\* named add and an acknowledgement take effect once at most, and a call whose answer is a
\* success has taken effect.
TakesEffectOnce ==
    \A c \in Callers : calls[c].phase # "idle" =>
        /\ Kind(c) # "create" => effects[c] <= 1
        /\ calls[c].phase = "done" /\ calls[c].outcome = "ok" => effects[c] >= 1

\* However the limit changes, no stretch of k ticks lets through more than a minute's worth
\* at the highest limit and the refill of those ticks.
LimitHolds == \A k \in Lookback : Token * lately[k] <= Token * MaxRpm + k * MaxRpm

\* Every call comes back to the application, unless its answer's body stays away from the
\* JavaScript library.
CallsReturn == \A c \in Callers : calls[c].phase # "idle" ~> calls[c].phase \in {"idle", "done", "hung"}

\* A client that was told when to come again does not come before.
RetryAfterHonoured ==
    [][\A c \in Callers : calls[c].phase = "pausing" /\ calls'[c].phase = "sent" => calls[c].owed = 0]_apiVars

\* A call that may not be repeated takes effect once at most, and the rate limit lets through no more.
CallsHold == ApiTyped /\ TakesEffectOnce /\ LimitHolds

=============================================================================
