------------------------------ MODULE AuthClient ------------------------------
(***************************************************************************)
(* The session a web page keeps: the tokens AuthClient holds and stores,   *)
(* the refresh its concurrent callers share, and the server that rotates   *)
(* and revokes them.  Source: js/src/auth/{client,storage}.ts; the server  *)
(* is identity's refresh and sign-out, in one step each.                   *)
(*                                                                         *)
(* The page runs one thread: between two awaits a method is one step.  A   *)
(* request is sent, served or not, and its answer comes or is lost.  The   *)
(* two tokens of a pair come together, so a session holds a pair's number. *)
(***************************************************************************)
EXTENDS Naturals, Sequences

CONSTANTS
    PageCalls,    \* calls the page has in progress
    PageUsers,    \* accounts that sign in
    MaxPairs,     \* bound: token pairs the server issues
    Overlap       \* whether a sign-in, a sign-out or a `refresh` may overlap other requests

Shared == "refreshing"
ASSUME PageAssumption == Shared \notin PageCalls /\ MaxPairs \in Nat /\ Overlap \in BOOLEAN

VARIABLES
    session,   \* AuthClient.session: the user shown and the pair held, or SignedOut
    stored,    \* what the storage has under the client's key
    out,       \* the requests in flight, and the refresh getToken's callers share
    pairs,     \* the server's token pairs: whose, refreshable, not about to expire
    spoilt     \* history: pairs revoked, or rotated without the page learning of it

PageVars == <<session, stored, out, pairs, spoilt>>

SignedOut == <<>>
Quiet == [op |-> "none"]
Request(op, n) == [op |-> op, pair |-> n, answer |-> "none", got |-> 0]
SignInRequest(u) == [op |-> "signIn", user |-> u, pair |-> 0, answer |-> "none", got |-> 0]

PageInit ==
    /\ session = SignedOut /\ stored = SignedOut
    /\ out = [c \in PageCalls \cup {Shared} |-> Quiet]
    /\ pairs = <<>> /\ spoilt = {}

-----------------------------------------------------------------------------
\* save: the page and the storage change together.
SaveSession(s) == session' = s /\ stored' = s

\* Faulty: what the answer does not name is dropped.
AdoptBare(n) == SaveSession([user |-> "nobody", pair |-> n])

\* adopt: a refresh names no user, and the one shown stays.
Adopt(n) == SaveSession([user |-> IF session = SignedOut THEN "nobody" ELSE session.user, pair |-> n])

Free(c) == out[c] = Quiet
Alone == \A c \in DOMAIN out : Free(c)
MayAsk == Overlap \/ \A c \in PageCalls : out[c].op \notin {"signIn", "signOut", "refresh"}
Sends(c, r) == out' = [out EXCEPT ![c] = r]

\* signIn, signUp and the passwordless forms.
PageSignIn(c, u) ==
    /\ Free(c) /\ (Overlap \/ Alone)
    /\ Sends(c, SignInRequest(u))
    /\ UNCHANGED <<session, stored, pairs, spoilt>>

\* The page is signed out first; then the server is told, when there is a token.
PageSignOut(c) ==
    /\ Free(c) /\ (Overlap \/ Alone) /\ session # SignedOut
    /\ SaveSession(SignedOut)
    /\ Sends(c, Request("signOut", session.pair))
    /\ UNCHANGED <<pairs, spoilt>>

\* refresh, called by the app: a request of its own.
PageRefresh(c) ==
    /\ Free(c) /\ (Overlap \/ Alone) /\ session # SignedOut /\ Len(pairs) < MaxPairs
    /\ Sends(c, Request("refresh", session.pair))
    /\ UNCHANGED <<session, stored, pairs, spoilt>>

Waiting(then) == [op |-> "wait", then |-> then]

\* getToken: the token when it is good, else the refresh that is in flight or a new one;
\* `me` goes on with the token it gets.
GetToken(c, then) ==
    /\ Free(c) /\ MayAsk /\ session # SignedOut
    /\ IF pairs[session.pair].fresh
       THEN then = "me" /\ Sends(c, Request("me", session.pair))
       ELSE out' = [out EXCEPT ![c] = Waiting(then),
                               ![Shared] = IF @ = Quiet THEN Request("getToken", session.pair) ELSE @]
    /\ UNCHANGED <<session, stored, pairs, spoilt>>

-----------------------------------------------------------------------------
(* The server *)

Answered(c, a, n) == Sends(c, [out[c] EXCEPT !.answer = a, !.got = n])
Sent(c) == out[c].op \notin {"none", "wait"} /\ out[c].answer = "none"
Rotation(c) == out[c].op \in {"refresh", "getToken"}
NewPair(u) == [user |-> u, live |-> TRUE, fresh |-> TRUE]
Dead(n) == [pairs EXCEPT ![n].live = FALSE]

\* A rotation retires the pair and issues the next; what is dead is refused.
Rotates(c) ==
    /\ Sent(c) /\ Rotation(c)
    /\ LET n == out[c].pair IN
       IF pairs[n].live
       THEN /\ Len(pairs) < MaxPairs
            /\ pairs' = Append(Dead(n), NewPair(pairs[n].user))
            /\ Answered(c, "ok", Len(pairs) + 1)
       ELSE Answered(c, "refused", 0) /\ UNCHANGED pairs
    /\ UNCHANGED <<session, stored, spoilt>>

ServesSignIn(c) ==
    /\ Sent(c) /\ out[c].op = "signIn" /\ Len(pairs) < MaxPairs
    /\ pairs' = Append(pairs, NewPair(out[c].user))
    /\ Answered(c, "ok", Len(pairs) + 1)
    /\ UNCHANGED <<session, stored, spoilt>>

ServesSignOut(c) ==
    /\ Sent(c) /\ out[c].op = "signOut"
    /\ pairs' = Dead(out[c].pair) /\ spoilt' = spoilt \cup {out[c].pair}
    /\ Answered(c, "ok", 0)
    /\ UNCHANGED <<session, stored>>

ServesMe(c) ==
    /\ Sent(c) /\ out[c].op = "me"
    /\ Answered(c, IF pairs[out[c].pair].fresh THEN "ok" ELSE "refused", 0)
    /\ UNCHANGED <<session, stored, pairs, spoilt>>

Serves(c) == Rotates(c) \/ ServesSignIn(c) \/ ServesSignOut(c) \/ ServesMe(c)

\* The request or its answer does not arrive.
Loses(c) ==
    /\ out[c].op \notin {"none", "wait"} /\ out[c].answer # "lost"
    /\ Answered(c, "lost", 0)
    /\ spoilt' = IF out[c].answer = "ok" /\ Rotation(c) THEN spoilt \cup {out[c].pair} ELSE spoilt
    /\ UNCHANGED <<session, stored, pairs>>

\* An account's tokens are revoked: it was disabled, deleted or reset.
RevokeUser(u) ==
    /\ \E n \in DOMAIN pairs : pairs[n].user = u /\ pairs[n].live
    /\ pairs' = [n \in DOMAIN pairs |-> IF pairs[n].user = u THEN [pairs[n] EXCEPT !.live = FALSE] ELSE pairs[n]]
    /\ spoilt' = spoilt \cup {n \in DOMAIN pairs : pairs[n].user = u}
    /\ UNCHANGED <<session, stored, out>>

\* An identity token comes within the skew of its end.
GrowsStale(n) ==
    /\ pairs[n].fresh /\ pairs' = [pairs EXCEPT ![n].fresh = FALSE]
    /\ UNCHANGED <<session, stored, out, spoilt>>

-----------------------------------------------------------------------------
(* The answers *)

Back(c, op) == out[c].op = op /\ out[c].answer # "none"

\* An error leaves the session alone, and is the caller's to see.
SignInReturns(c) ==
    /\ Back(c, "signIn")
    /\ IF out[c].answer = "ok" THEN SaveSession([user |-> out[c].user, pair |-> out[c].got])
       ELSE UNCHANGED <<session, stored>>
    /\ Sends(c, Quiet) /\ UNCHANGED <<pairs, spoilt>>

SignOutReturns(c) ==
    /\ Back(c, "signOut") /\ Sends(c, Quiet) /\ UNCHANGED <<session, stored, pairs, spoilt>>

RefreshReturns(c) ==
    /\ Back(c, "refresh")
    /\ IF out[c].answer = "ok" THEN Adopt(out[c].got) ELSE UNCHANGED <<session, stored>>
    /\ Sends(c, Quiet) /\ UNCHANGED <<pairs, spoilt>>

\* me: the user is shown, whoever holds the session by now.
MeReturns(c) ==
    /\ Back(c, "me")
    /\ IF out[c].answer = "ok" /\ session # SignedOut
       THEN SaveSession([session EXCEPT !.user = pairs[out[c].pair].user])
       ELSE UNCHANGED <<session, stored>>
    /\ Sends(c, Quiet) /\ UNCHANGED <<pairs, spoilt>>

\* Faulty: any failure ends the session.
SettledStrict(a) == IF a # "ok" THEN SaveSession(SignedOut) ELSE UNCHANGED <<session, stored>>

\* A refusal ends the session; another failure leaves it for the next call.
Settled(a) == IF a = "refused" THEN SaveSession(SignedOut) ELSE UNCHANGED <<session, stored>>

\* Everyone who waited goes on with the new token, or has nothing to go on with.
SharedReturns(c) ==
    /\ Back(c, "getToken")
    /\ IF out[c].answer = "ok" THEN Adopt(out[c].got) ELSE Settled(out[c].answer)
    /\ out' = [d \in DOMAIN out |->
         IF d = c THEN Quiet
         ELSE IF out[d].op # "wait" THEN out[d]
         ELSE IF out[d].then = "me" /\ out[c].answer = "ok" THEN Request("me", out[c].got) ELSE Quiet]
    /\ UNCHANGED <<pairs, spoilt>>

\* The page is loaded anew from the storage; what it waited for is gone.  A request the
\* server has not seen counts as one it saw before, or never.
Reload ==
    /\ \A c \in DOMAIN out : ~Sent(c)
    /\ session' = stored
    /\ out' = [c \in DOMAIN out |-> Quiet]
    /\ spoilt' = spoilt \cup {out[c].pair : c \in {d \in DOMAIN out : Rotation(d)}}
    /\ UNCHANGED <<stored, pairs>>

-----------------------------------------------------------------------------
PageStep(c) == SignInReturns(c) \/ SignOutReturns(c) \/ RefreshReturns(c) \/ MeReturns(c) \/ SharedReturns(c)

PageNext ==
    \/ \E c \in PageCalls : \/ \E u \in PageUsers : PageSignIn(c, u)
                            \/ PageSignOut(c) \/ PageRefresh(c)
                            \/ \E then \in {"use", "me"} : GetToken(c, then)
    \/ \E c \in DOMAIN out : Serves(c) \/ Loses(c) \/ PageStep(c)
    \/ \E u \in PageUsers : RevokeUser(u)
    \/ \E n \in DOMAIN pairs : GrowsStale(n)
    \/ Reload

PageSpec == PageInit /\ [][PageNext]_PageVars

-----------------------------------------------------------------------------
\* Every variable has its type.
PageTyped ==
    /\ session = SignedOut \/ (session.pair \in DOMAIN pairs /\ session.user \in PageUsers \cup {"nobody"})
    /\ stored = SignedOut \/ stored.pair \in DOMAIN pairs
    /\ spoilt \subseteq DOMAIN pairs /\ Len(pairs) <= MaxPairs

\* The user shown is the one whose tokens are held, however many calls share a refresh,
\* whatever fails and whenever the page is loaded again.
ShownIsHeld == session # SignedOut => session.user = pairs[session.pair].user

\* A page shows the user whose tokens it holds.
PageHolds == PageTyped /\ ShownIsHeld

\* A page is signed out only by its own sign-out, or because the refresh token it offered
\* was revoked or rotated in an answer that was lost: never by the callers of getToken
\* racing for one refresh.
SignedOutForCause ==
    [][session # SignedOut /\ session' = SignedOut =>
          \/ \E c \in DOMAIN out : Back(c, "getToken") /\ out[c].pair \in spoilt
          \/ \E c \in PageCalls : out'[c].op = "signOut" /\ out[c] = Quiet]_PageVars

\* A page that signed out stays so until somebody signs in.
SignedOutStaysOut ==
    [][session = SignedOut /\ session' # SignedOut => \E c \in PageCalls : Back(c, "signIn")]_PageVars

=============================================================================
