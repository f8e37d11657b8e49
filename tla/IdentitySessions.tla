--------------------------- MODULE IdentitySessions ---------------------------
(***************************************************************************)
(* One auth instance: accounts, the sessions they hold (identity tokens    *)
(* that verify until they expire or are revoked, refresh tokens that       *)
(* rotate), one-time email codes, the verification gate, and what disables,*)
(* deletes or resets an account.                                           *)
(* Source: cli/internal/identity/{store,service,routes,token,config}.go.   *)
(*                                                                         *)
(* Every statement of the store is atomic (one connection) and a handler   *)
(* is a sequence of them, so handlers interleave at their statements and a *)
(* crash may come between two.  Tokens and codes are guessed by nobody.    *)
(* Profiles, claims and the wording of answers are left out.               *)
(***************************************************************************)
EXTENDS Naturals, Sequences, FiniteSets

CONSTANTS
    AuthClients,
    Handles,        \* login identifiers
    Passwords,
    AccessTTL, RefreshTTL, CodeTTL,
    Window,         \* revocationWindowMS
    Slack,          \* how long a handler may run, the slack of the window
    MaxGuesses,     \* maxCodeAttempt
    MaxUsers, MaxTokens, MaxCodes, MaxEpoch, MaxAuthClock, MaxAuthCrashes   \* bounds

ASSUME AuthAssumption ==
    /\ AccessTTL \in Nat /\ RefreshTTL \in Nat /\ CodeTTL \in Nat /\ Slack \in Nat
    /\ Window \in Nat /\ AccessTTL + Slack <= Window
    /\ MaxGuesses \in Nat \ {0}
    /\ MaxUsers \in Nat /\ MaxTokens \in Nat /\ MaxCodes \in Nat /\ MaxEpoch \in Nat
    /\ MaxAuthClock \in Nat /\ MaxAuthCrashes \in Nat

VARIABLES
    users,        \* uid -> row
    refresh,      \* refresh_tokens, by number; `made` is the epoch it was recorded in and
                  \* `proved` the epoch its credential was proved in
    idTokens,     \* the identity tokens in circulation
    codes,        \* email_codes, by number
    revocations,  \* uid -> [epoch, at]
    gate,         \* requireEmailVerification
    authReq,      \* client -> the request it has in flight
    authClock,
    authCrashes,
    half          \* accounts a crash left with half a revocation

AuthVars == <<users, refresh, idTokens, codes, revocations, gate, authReq, authClock, authCrashes, half>>

Uids == 1..MaxUsers
NoAuth == [op |-> "none"]
None == <<>>

UserRow == [handle : Handles, pw : Passwords, disabled : BOOLEAN, verified : BOOLEAN,
            pending : BOOLEAN, epoch : Nat]
IdentityClaims == [sub : Uids, ce : Nat, exp : Nat]
Revocation == [epoch : Nat, at : Nat]

AuthInit ==
    /\ users = None /\ refresh = <<>> /\ idTokens = {} /\ codes = <<>> /\ revocations = None
    /\ gate = FALSE /\ authReq = [c \in AuthClients |-> NoAuth]
    /\ authClock = 1 /\ authCrashes = 0 /\ half = {}

-----------------------------------------------------------------------------
\* The store's statements.

Put(f, x, v) == [y \in DOMAIN f \cup {x} |-> IF y = x THEN v ELSE f[y]]
Known(u) == u \in DOMAIN users
ByIdentifier(h) == {u \in DOMAIN users : users[u].handle = h}
EpochOf(u) == IF Known(u) THEN users[u].epoch
              ELSE IF u \in DOMAIN revocations THEN revocations[u].epoch ELSE 0
Born == Cardinality(DOMAIN users \cup DOMAIN revocations)

NewUser(h, pw, pending) ==
    Put(users, Born + 1, [handle |-> h, pw |-> pw, disabled |-> FALSE,
                          verified |-> FALSE, pending |-> pending, epoch |-> 0])

MarkVerified(u) == IF Known(u) THEN [users EXCEPT ![u].verified = TRUE] ELSE users

RevokeRefresh(k) == refresh' = [refresh EXCEPT ![k].revoked = TRUE]
RevokeRefreshOf(u) == refresh' = [k \in DOMAIN refresh |->
    IF refresh[k].uid = u THEN [refresh[k] EXCEPT !.revoked = TRUE] ELSE refresh[k]]

\* Faulty: the epoch the account had is recorded.
RecordRevocationBefore(u) ==
    revocations' = IF Known(u) THEN Put(revocations, u, [epoch |-> users[u].epoch - 1, at |-> authClock])
                   ELSE revocations

\* Identity tokens from before the account's current epoch are revoked.
RecordRevocation(u) ==
    revocations' = IF Known(u) THEN Put(revocations, u, [epoch |-> users[u].epoch, at |-> authClock])
                   ELSE revocations

\* The record is forgotten once no token from before it can be alive.
RevokedEpoch(u) == u \in DOMAIN revocations /\ revocations[u].at + Window >= authClock

\* A token is refused when its account has a later epoch on record.
Revoked(t) == RevokedEpoch(t.sub) /\ t.ce < revocations[t.sub].epoch

VerifyIdentity(t) == t.exp > authClock
Verifies(t) == VerifyIdentity(t) /\ ~Revoked(t)

Live(k) == ~refresh[k].revoked /\ refresh[k].exp > authClock
LiveCode(u, purpose) == {k \in DOMAIN codes : /\ codes[k].uid = u /\ codes[k].purpose = purpose
                                              /\ ~codes[k].consumed /\ codes[k].exp > authClock}

\* Where a request goes on, and when it ends.
Goes(c, r) == authReq' = [authReq EXCEPT ![c] = r]
Ends(c) == Goes(c, NoAuth)
Starts(c) == authReq[c] = NoAuth

\* issueTokens: the refresh token is recorded and an identity token minted from the row
\* the handler read before.
IssueTokens(u, ce) ==
    /\ Len(refresh) < MaxTokens
    /\ refresh' = Append(refresh, [uid |-> u, exp |-> authClock + RefreshTTL, revoked |-> FALSE,
                                   swapped |-> 0, made |-> EpochOf(u), proved |-> ce])
    /\ idTokens' = idTokens \cup {[sub |-> u, ce |-> ce, exp |-> authClock + AccessTTL]}

-----------------------------------------------------------------------------
\* Signing up, in and out.

\* The account is inserted, unique by its handle; an admin's creation is never pending.
CreateUser(c, h, pw, bySignup) ==
    /\ Starts(c) /\ Born < MaxUsers /\ ByIdentifier(h) = {}
    /\ users' = NewUser(h, pw, bySignup /\ gate)
    /\ IF bySignup
       THEN Goes(c, IF gate THEN [op |-> "code", purpose |-> "verify", u |-> Born + 1, at |-> "look", since |-> authClock]
                    ELSE [op |-> "issue", u |-> Born + 1, ce |-> 0, since |-> authClock])
       ELSE UNCHANGED authReq
    /\ UNCHANGED <<refresh, idTokens, codes, revocations, gate, authClock, authCrashes, half>>

\* The row is read and the password, the flag and the gate are looked at.
SignIn(c, h, pw) ==
    /\ Starts(c)
    /\ \E u \in ByIdentifier(h) :
          /\ users[u].pw = pw /\ ~users[u].disabled /\ (gate => users[u].verified)
          /\ Goes(c, [op |-> "issue", u |-> u, ce |-> users[u].epoch, since |-> authClock])
    /\ UNCHANGED <<users, refresh, idTokens, codes, revocations, gate, authClock, authCrashes, half>>

Issue(c) ==
    /\ authReq[c].op = "issue"
    /\ IssueTokens(authReq[c].u, authReq[c].ce)
    /\ Ends(c)
    /\ UNCHANGED <<users, codes, revocations, gate, authClock, authCrashes, half>>

\* Faulty: the old token stays good.
RotateRefreshKeeps(c, k) ==
    /\ Starts(c) /\ k \in DOMAIN refresh /\ Live(k) /\ Len(refresh) < MaxTokens
    /\ refresh' = Append([refresh EXCEPT ![k].swapped = @ + 1],
                         [refresh[k] EXCEPT !.exp = authClock + RefreshTTL, !.made = EpochOf(refresh[k].uid)])
    /\ Goes(c, [op |-> "reread", u |-> refresh[k].uid, since |-> authClock])
    /\ UNCHANGED <<users, idTokens, codes, revocations, gate, authClock, authCrashes, half>>

\* Rotation is a transaction: the old token is revoked and the new one recorded.
RotateRefresh(c, k) ==
    /\ Starts(c) /\ k \in DOMAIN refresh /\ Live(k) /\ Len(refresh) < MaxTokens
    /\ refresh' = Append([refresh EXCEPT ![k].revoked = TRUE, ![k].swapped = @ + 1],
                         [refresh[k] EXCEPT !.exp = authClock + RefreshTTL, !.made = EpochOf(refresh[k].uid)])
    /\ Goes(c, [op |-> "reread", u |-> refresh[k].uid, since |-> authClock])
    /\ UNCHANGED <<users, idTokens, codes, revocations, gate, authClock, authCrashes, half>>

\* The account is read again, and the identity token minted from it.
Reread(c) ==
    /\ authReq[c].op = "reread"
    /\ LET u == authReq[c].u
       IN idTokens' = IF Known(u) /\ ~users[u].disabled
                      THEN idTokens \cup {[sub |-> u, ce |-> users[u].epoch,
                                           exp |-> authReq[c].since + AccessTTL]}
                      ELSE idTokens
    /\ Ends(c)
    /\ UNCHANGED <<users, refresh, codes, revocations, gate, authClock, authCrashes, half>>

SignOut(c, k) ==
    /\ Starts(c) /\ k \in DOMAIN refresh /\ ~refresh[k].revoked
    /\ RevokeRefresh(k)
    /\ UNCHANGED <<users, idTokens, codes, revocations, gate, authReq, authClock, authCrashes, half>>

-----------------------------------------------------------------------------
\* One-time codes: a live one is looked for, the old ones go, the new one is recorded.

Purposes == {"login", "reset", "verify"}

\* Addresses are verified only where the gate asks for it.
Offered(purpose) == purpose = "verify" => gate

CodeStart(c, h, purpose) ==
    /\ Starts(c) /\ Offered(purpose)
    /\ \E u \in ByIdentifier(h) :
          /\ ~users[u].disabled
          /\ Goes(c, [op |-> "code", purpose |-> purpose, u |-> u, at |-> "look", since |-> authClock])
    /\ UNCHANGED <<users, refresh, idTokens, codes, revocations, gate, authClock, authCrashes, half>>

CodeLook(c) ==
    /\ authReq[c].op = "code" /\ authReq[c].at = "look"
    /\ IF LiveCode(authReq[c].u, authReq[c].purpose) # {}
       THEN Ends(c) ELSE Goes(c, [authReq[c] EXCEPT !.at = "clear"])
    /\ UNCHANGED <<users, refresh, idTokens, codes, revocations, gate, authClock, authCrashes, half>>

\* The delete and the insert; what is deleted is consumed here, which reads the same.
CodeClear(c) ==
    /\ authReq[c].op = "code" /\ authReq[c].at = "clear"
    /\ codes' = [k \in DOMAIN codes |->
          IF codes[k].uid = authReq[c].u /\ codes[k].purpose = authReq[c].purpose
          THEN [codes[k] EXCEPT !.consumed = TRUE] ELSE codes[k]]
    /\ Goes(c, [authReq[c] EXCEPT !.at = "insert"])
    /\ UNCHANGED <<users, refresh, idTokens, revocations, gate, authClock, authCrashes, half>>

CodeInsert(c) ==
    /\ authReq[c].op = "code" /\ authReq[c].at = "insert" /\ Len(codes) < MaxCodes
    /\ codes' = Append(codes, [uid |-> authReq[c].u, purpose |-> authReq[c].purpose,
                               exp |-> authClock + CodeTTL, consumed |-> FALSE, attempts |-> 0])
    /\ Ends(c)
    /\ UNCHANGED <<users, refresh, idTokens, revocations, gate, authClock, authCrashes, half>>

\* A code is presented: the account's row is read, then the newest live code ...
CodeShown(c, h, purpose, right) ==
    /\ Starts(c) /\ Offered(purpose)
    /\ \E u \in ByIdentifier(h) :
          /\ LiveCode(u, purpose) # {}
          /\ LET k == CHOOSE k \in LiveCode(u, purpose) : \A l \in LiveCode(u, purpose) : l <= k
             IN Goes(c, [op |-> "burn", purpose |-> purpose, u |-> u, k |-> k, right |-> right,
                         attempts |-> codes[k].attempts, row |-> users[u], since |-> authClock])
    /\ UNCHANGED <<users, refresh, idTokens, codes, revocations, gate, authClock, authCrashes, half>>

\* What a good code was for: a reset, or an address verified and a session.
AfterCode(r) ==
    IF r.purpose = "reset"
    THEN [op |-> "revoke", how |-> "reset", u |-> r.u, at |-> "epoch", since |-> r.since]
    ELSE [op |-> "verified", u |-> r.u, ce |-> r.row.epoch, since |-> r.since]

\* Faulty: the last guess allowed is not the last.
CodeBurnOver(c) ==
    /\ authReq[c].op = "burn"
    /\ LET r == authReq[c]
           spent == r.right \/ r.attempts >= MaxGuesses
       IN /\ codes' = IF spent THEN [codes EXCEPT ![r.k].consumed = TRUE]
                      ELSE [codes EXCEPT ![r.k].attempts = r.attempts + 1]
          /\ IF ~r.right \/ r.row.disabled THEN Ends(c)
             ELSE Goes(c, AfterCode(r))
    /\ UNCHANGED <<users, refresh, idTokens, revocations, gate, authClock, authCrashes, half>>

\* ... and it is burnt, or the guess is counted; then what it was for goes on.
CodeBurn(c) ==
    /\ authReq[c].op = "burn"
    /\ LET r == authReq[c]
           spent == r.right \/ r.attempts + 1 >= MaxGuesses
       IN /\ codes' = IF spent THEN [codes EXCEPT ![r.k].consumed = TRUE]
                      ELSE [codes EXCEPT ![r.k].attempts = r.attempts + 1]
          /\ IF ~r.right \/ r.row.disabled THEN Ends(c)
             ELSE Goes(c, AfterCode(r))
    /\ UNCHANGED <<users, refresh, idTokens, revocations, gate, authClock, authCrashes, half>>

\* The address is marked verified, and a session issued from the row read at the start.
SetEmailVerified(c) ==
    /\ authReq[c].op = "verified"
    /\ users' = MarkVerified(authReq[c].u)
    /\ Goes(c, [op |-> "issue", u |-> authReq[c].u, ce |-> authReq[c].ce, since |-> authReq[c].since])
    /\ UNCHANGED <<refresh, idTokens, codes, revocations, gate, authClock, authCrashes, half>>

-----------------------------------------------------------------------------
\* Disabling, deleting and resetting: the epoch, the refresh tokens, the revocation
\* record (the record before the tokens when the account is deleted, then its row).

Revoke(c, u, how) ==
    /\ Starts(c) /\ Known(u)
    /\ Goes(c, [op |-> "revoke", how |-> how, u |-> u, at |-> "epoch", since |-> authClock])
    /\ UNCHANGED <<users, refresh, idTokens, codes, revocations, gate, authClock, authCrashes, half>>

At2(c, at) == Goes(c, [authReq[c] EXCEPT !.at = at])

\* The account's new epoch; a disabled account is not reset.
RevokeEpoch(c, pw) ==
    /\ authReq[c].op = "revoke" /\ authReq[c].at = "epoch"
    /\ LET r == authReq[c]
       IN IF ~Known(r.u) \/ (r.how = "reset" /\ users[r.u].disabled)
          THEN Ends(c) /\ UNCHANGED users
          ELSE /\ users[r.u].epoch < MaxEpoch
               /\ users' = [users EXCEPT ![r.u] =
                     [users[r.u] EXCEPT !.epoch = @ + 1,
                                        !.disabled = @ \/ r.how = "disable",
                                        !.pw = IF r.how = "reset" THEN pw ELSE @,
                                        !.verified = @ \/ r.how = "reset"]]
               /\ At2(c, IF r.how = "delete" THEN "record" ELSE "tokens")
    /\ UNCHANGED <<refresh, idTokens, codes, revocations, gate, authClock, authCrashes, half>>

\* Faulty: only the tokens of the present epoch are revoked.
RevokeTokensNew(c) ==
    /\ authReq[c].op = "revoke" /\ authReq[c].at = "tokens"
    /\ refresh' = [k \in DOMAIN refresh |->
          IF refresh[k].uid = authReq[c].u /\ refresh[k].made = EpochOf(authReq[c].u)
          THEN [refresh[k] EXCEPT !.revoked = TRUE] ELSE refresh[k]]
    /\ At2(c, IF authReq[c].how = "delete" THEN "row" ELSE "record")
    /\ UNCHANGED <<users, idTokens, codes, revocations, gate, authClock, authCrashes, half>>

RevokeTokens(c) ==
    /\ authReq[c].op = "revoke" /\ authReq[c].at = "tokens"
    /\ RevokeRefreshOf(authReq[c].u)
    /\ At2(c, IF authReq[c].how = "delete" THEN "row" ELSE "record")
    /\ UNCHANGED <<users, idTokens, codes, revocations, gate, authClock, authCrashes, half>>

RevokeRecord(c) ==
    /\ authReq[c].op = "revoke" /\ authReq[c].at = "record"
    /\ RecordRevocation(authReq[c].u)
    /\ IF authReq[c].how = "delete" THEN At2(c, "tokens") ELSE Ends(c)
    /\ UNCHANGED <<users, refresh, idTokens, codes, gate, authClock, authCrashes, half>>

RevokeRow(c) ==
    /\ authReq[c].op = "revoke" /\ authReq[c].at = "row"
    /\ users' = [u \in DOMAIN users \ {authReq[c].u} |-> users[u]]
    /\ Ends(c)
    /\ UNCHANGED <<refresh, idTokens, codes, revocations, gate, authClock, authCrashes, half>>

Enable(u) ==
    /\ Known(u) /\ users[u].disabled
    /\ users' = [users EXCEPT ![u].disabled = FALSE]
    /\ UNCHANGED <<refresh, idTokens, codes, revocations, gate, authReq, authClock, authCrashes, half>>

\* Turning the gate on takes in the accounts that predate it, never one that signed up
\* under it.
SaveGate ==
    /\ gate' = ~gate
    /\ users' = IF gate' THEN [u \in DOMAIN users |->
                                 [users[u] EXCEPT !.verified = @ \/ ~users[u].pending]]
                ELSE users
    /\ UNCHANGED <<refresh, idTokens, codes, revocations, authReq, authClock, authCrashes, half>>

\* Time passes; no handler runs for longer than the slack.
AuthTick ==
    /\ authClock < MaxAuthClock
    /\ \A c \in AuthClients : authReq[c] # NoAuth => authClock < authReq[c].since + Slack
    /\ authClock' = authClock + 1
    /\ UNCHANGED <<users, refresh, idTokens, codes, revocations, gate, authReq, authCrashes, half>>

\* A crash loses the requests; a revocation past its first statement stays half done.
Begun(c) == authReq[c].op = "revoke" /\ authReq[c].at # "epoch"

AuthCrash ==
    /\ authCrashes < MaxAuthCrashes /\ authCrashes' = authCrashes + 1
    /\ half' = half \cup {authReq[c].u : c \in {d \in AuthClients : Begun(d)}}
    /\ authReq' = [c \in AuthClients |-> NoAuth]
    /\ UNCHANGED <<users, refresh, idTokens, codes, revocations, gate, authClock>>

-----------------------------------------------------------------------------
AuthNext ==
    \/ \E c \in AuthClients :
          \/ \E h \in Handles, pw \in Passwords, b \in BOOLEAN : CreateUser(c, h, pw, b)
          \/ \E h \in Handles, pw \in Passwords : SignIn(c, h, pw)
          \/ Issue(c)
          \/ \E k \in 1..MaxTokens : RotateRefresh(c, k)
          \/ Reread(c)
          \/ \E k \in 1..MaxTokens : SignOut(c, k)
          \/ \E h \in Handles, p \in Purposes : CodeStart(c, h, p)
          \/ CodeLook(c)
          \/ CodeClear(c)
          \/ CodeInsert(c)
          \/ \E h \in Handles, p \in Purposes, right \in BOOLEAN : CodeShown(c, h, p, right)
          \/ CodeBurn(c)
          \/ SetEmailVerified(c)
          \/ \E u \in Uids, how \in {"disable", "delete"} : Revoke(c, u, how)
          \/ \E pw \in Passwords : RevokeEpoch(c, pw)
          \/ RevokeTokens(c)
          \/ RevokeRecord(c)
          \/ RevokeRow(c)
    \/ \E u \in Uids : Enable(u)
    \/ SaveGate
    \/ AuthTick
    \/ AuthCrash

AuthSpec == AuthInit /\ [][AuthNext]_AuthVars

-----------------------------------------------------------------------------
AuthTyped ==
    /\ \A u \in DOMAIN users : u \in Uids /\ users[u] \in UserRow
    /\ idTokens \subseteq IdentityClaims
    /\ \A u \in DOMAIN revocations : u \in Uids /\ revocations[u] \in Revocation
    /\ \A k \in DOMAIN codes : codes[k].attempts < MaxGuesses
    /\ gate \in BOOLEAN /\ half \subseteq Uids

Settled(u) == u \notin half /\ \A c \in AuthClients : Begun(c) => authReq[c].u # u

\* An identity token minted from a row read before a disable, a delete or a reset moved
\* the account's epoch never verifies again once that is done: not for a handler that was
\* in between, and not when the record is forgotten (recordRevocation, RevokedEpoch,
\* VerifyIdentity).
RevokedStayDead ==
    \A t \in idTokens : t.ce < EpochOf(t.sub) /\ Settled(t.sub) => ~Verifies(t)

\* A refresh token recorded before the account was disabled, deleted or reset is revoked
\* once that is done; that of a deleted account finds no account (SetDisabled,
\* DeleteUser, SetPassword).
SessionsRevoked ==
    \A k \in DOMAIN refresh :
       Known(refresh[k].uid) /\ Settled(refresh[k].uid)
          /\ refresh[k].made < EpochOf(refresh[k].uid) => refresh[k].revoked

\* A refresh token is exchanged at most once (RotateRefresh's transaction).
RefreshedOnce == \A k \in DOMAIN refresh : refresh[k].swapped <= 1

\* What the comment on DeleteUser says of "a deleted user's identity tokens": none that
\* was minted outlives the account.
DeletedStaysOut ==
    \A t \in idTokens : t.sub \in DOMAIN revocations /\ ~Known(t.sub) /\ Settled(t.sub) => ~Verifies(t)

\* What the comment on SetPassword says: "a reset must invalidate sessions minted with
\* the old credential".
OldCredentialEnds ==
    \A k \in DOMAIN refresh :
       Settled(refresh[k].uid) /\ refresh[k].proved < EpochOf(refresh[k].uid) => ~Live(k)

\* A session that was revoked stays dead, with all its tokens, and a refresh token buys one pair.
SessionsHold == AuthTyped /\ RevokedStayDead /\ SessionsRevoked /\ RefreshedOnce

=============================================================================
