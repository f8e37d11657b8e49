---------------------------- MODULE ClientsProofs ----------------------------
(***************************************************************************)
(* What clients hold, for every value of the constants: the sessions of an *)
(* account (AuthInv) and the sockets of a channel instance (HubInv).  The  *)
(* two share no state; each part is an inductive invariant, one lemma per  *)
(* action, and the theorem.                                                *)
(***************************************************************************)
EXTENDS IdentitySessions, ChannelHub, FiniteSetTheorems, WellFoundedInduction, TLAPS

-----------------------------------------------------------------------------
(* Accounts and their sessions *)

RefreshRow == [uid : Uids, exp : Nat, revoked : BOOLEAN, swapped : {0, 1}, made : Nat, proved : Nat]
CodeRow == [uid : Uids, purpose : Purposes, exp : Nat, consumed : BOOLEAN, attempts : Nat]

\* Accounts and records of revocation share one numbering without gaps, so that a new
\* account's number was never used.
Numbered ==
    /\ \A u \in DOMAIN users : users[u] \in UserRow
    /\ \E n \in 0..MaxUsers : DOMAIN users \cup DOMAIN revocations = 1..n

\* A record of revocation is never ahead of its account.
RecordsBehind ==
    \A u \in DOMAIN revocations :
       /\ revocations[u] \in Revocation /\ revocations[u].at <= authClock
       /\ Known(u) => revocations[u].epoch <= users[u].epoch

RefreshOk ==
    /\ refresh \in Seq(RefreshRow)
    /\ \A k \in DOMAIN refresh : refresh[k].swapped = 1 => refresh[k].revoked

CodesOk == codes \in Seq(CodeRow) /\ \A k \in DOMAIN codes : codes[k].attempts < MaxGuesses

\* What an epoch below the one on record was read in has its end within the window.
TokensOk ==
    \A t \in idTokens :
       /\ t \in IdentityClaims /\ t.exp <= authClock + AccessTTL
       /\ t.sub \in DOMAIN revocations /\ t.ce < revocations[t.sub].epoch =>
             t.exp <= revocations[t.sub].at + Window

\* What a request in flight carries.
ReqShape(r) ==
    /\ r.op \in {"issue", "verified"} => r.u \in Uids /\ r.ce \in Nat
    /\ r.op = "reread" => r.u \in Uids
    /\ r.op = "code" => /\ r = [op |-> r.op, purpose |-> r.purpose, u |-> r.u, at |-> r.at, since |-> r.since]
                        /\ r.u \in Uids /\ r.purpose \in Purposes
    /\ r.op = "burn" => r.u \in Uids /\ r.row \in UserRow /\ r.attempts \in Nat
    /\ r.op = "revoke" => /\ r = [op |-> r.op, how |-> r.how, u |-> r.u, at |-> r.at, since |-> r.since]
                          /\ r.u \in Uids /\ (r.at = "row" => r.how = "delete")

\* No handler runs for longer than the slack, and one that will mint from a row of an epoch below
\* the one on record read it before the record was made.
MintsFrom(r) == IF r.op = "burn" THEN r.row.epoch ELSE r.ce
ReqTimely(r, rev, now) ==
    r.op # "none" =>
       /\ r.since \in Nat /\ r.since <= now /\ now <= r.since + Slack
       /\ r.op \in {"issue", "verified", "burn"} /\ r.u \in DOMAIN rev /\ MintsFrom(r) < rev[r.u].epoch =>
             r.since <= rev[r.u].at

ReqsOk ==
    /\ DOMAIN authReq = AuthClients
    /\ \A c \in AuthClients : ReqShape(authReq[c]) /\ ReqTimely(authReq[c], revocations, authClock)

\* What a revocation under way is still to do.
Under(r) == r.op = "revoke" /\ r.at # "epoch"
ToRecord(r, u) ==
    /\ Under(r) /\ r.u = u
    /\ r.at = "record" \/ (r.at = "tokens" /\ r.how # "delete")
ToRevoke(r, u) ==
    /\ Under(r) /\ r.u = u
    /\ r.at = "tokens" \/ (r.at = "record" /\ r.how = "delete")

\* One that is under way has its account or the record, and deletes what is on record.
UnderOk ==
    \A c \in AuthClients : Under(authReq[c]) =>
       /\ authReq[c].u \in DOMAIN users \cup DOMAIN revocations
       /\ authReq[c].how = "delete" /\ authReq[c].at # "record" => authReq[c].u \in DOMAIN revocations

\* An account's epoch is on record, and the refresh tokens of earlier ones are revoked, or someone
\* is about to see to it.
EpochsRecorded ==
    \A u \in DOMAIN users \ half :
       \/ users[u].epoch = 0
       \/ u \in DOMAIN revocations /\ revocations[u].epoch = users[u].epoch
       \/ \E c \in AuthClients : ToRecord(authReq[c], u)

RefreshEnded ==
    \A k \in DOMAIN refresh :
       refresh[k].uid \in DOMAIN users \ half /\ refresh[k].made < users[refresh[k].uid].epoch =>
          refresh[k].revoked \/ \E c \in AuthClients : ToRevoke(authReq[c], refresh[k].uid)

AuthNumbers == authClock \in Nat /\ gate \in BOOLEAN /\ half \subseteq Uids

AuthInv ==
    /\ Numbered /\ RecordsBehind /\ RefreshOk /\ CodesOk /\ TokensOk /\ ReqsOk
    /\ UnderOk /\ EpochsRecorded /\ RefreshEnded /\ AuthNumbers

LEMMA AuthConstants ==
    /\ AccessTTL \in Nat /\ RefreshTTL \in Nat /\ CodeTTL \in Nat /\ Slack \in Nat /\ Window \in Nat
    /\ AccessTTL + Slack <= Window /\ MaxGuesses \in Nat /\ MaxGuesses > 0
    /\ MaxUsers \in Nat /\ MaxAuthClock \in Nat
  BY AuthAssumption

LEMMA EpochTyped ==
    ASSUME AuthInv, NEW u
    PROVE  EpochOf(u) \in Nat
  BY DEF AuthInv, Numbered, RecordsBehind, EpochOf, Known, UserRow, Revocation

LEMMA Accounts ==
    ASSUME AuthInv
    PROVE  /\ \A u \in DOMAIN users : u \in Uids /\ users[u] \in UserRow /\ users[u].epoch \in Nat
           /\ \A u \in DOMAIN revocations : u \in Uids /\ revocations[u].epoch \in Nat /\ revocations[u].at \in Nat
<1>1. PICK n \in 0..MaxUsers : DOMAIN users \cup DOMAIN revocations = 1..n
  BY DEF AuthInv, Numbered
<1>2. \A u \in DOMAIN users \cup DOMAIN revocations : u \in Uids
  BY <1>1, AuthConstants DEF Uids
<1>. QED
  BY <1>2 DEF AuthInv, Numbered, RecordsBehind, UserRow, Revocation

\* A new account's number is the next one, which nobody has had.
LEMMA Fresh ==
    ASSUME AuthInv, Born < MaxUsers
    PROVE  /\ Born \in Nat /\ Born + 1 \in Uids /\ Born + 1 \in 0..MaxUsers
           /\ Born + 1 \notin DOMAIN users /\ Born + 1 \notin DOMAIN revocations
           /\ (DOMAIN users \cup {Born + 1}) \cup DOMAIN revocations = 1..(Born + 1)
<1>1. PICK n \in 0..MaxUsers : DOMAIN users \cup DOMAIN revocations = 1..n
  BY DEF AuthInv, Numbered
<1>2. n \in Nat /\ Cardinality(1..n) = IF 1 > n THEN 0 ELSE (n - 1) + 1
  BY <1>1, AuthConstants, FS_Interval
<1>3. Born = n
  <2>1. Born = Cardinality(1..n)
    BY <1>1 DEF Born
  <2>. QED
    BY <1>2, <2>1
<1>4. n + 1 \notin 1..n /\ (1..n) \cup {n + 1} = 1..(n + 1) /\ n + 1 \in 1..MaxUsers
  BY <1>2, <1>3, AuthConstants
<1>. QED
  BY <1>1, <1>2, <1>3, <1>4, AuthConstants DEF Uids

\* The requests that are revocations under way stay as they are.
Aside ==
    /\ DOMAIN authReq' = AuthClients
    /\ \A d \in AuthClients :
          \/ authReq'[d] = authReq[d]
          \/ /\ ~Under(authReq[d]) /\ ~Under(authReq'[d])
             /\ ReqShape(authReq'[d]) /\ ReqTimely(authReq'[d], revocations, authClock)

\* The accounts keep their epochs.
SameAccounts ==
    /\ DOMAIN users' = DOMAIN users
    /\ \A u \in DOMAIN users : users'[u] \in UserRow /\ users'[u].epoch = users[u].epoch
    /\ UNCHANGED <<revocations, half, authClock>>

\* A refresh token is of its account's epoch, or revoked, or was there.
RefreshGrows ==
    \A k \in DOMAIN refresh' :
       \/ refresh'[k].made = EpochOf(refresh'[k].uid)
       \/ refresh'[k].revoked
       \/ /\ k \in DOMAIN refresh
          /\ refresh'[k].uid = refresh[k].uid /\ refresh'[k].made = refresh[k].made
          /\ refresh[k].revoked => refresh'[k].revoked

LEMMA AsideKeeps ==
    ASSUME AuthInv, Aside, SameAccounts
    PROVE  /\ Numbered' /\ RecordsBehind' /\ ReqsOk' /\ UnderOk' /\ EpochsRecorded'
           /\ authClock' \in Nat /\ half' \subseteq Uids
<1>1. DOMAIN users' = DOMAIN users /\ revocations' = revocations /\ half' = half /\ authClock' = authClock
  BY DEF SameAccounts
<1>2. Numbered' /\ RecordsBehind'
  BY <1>1 DEF AuthInv, Numbered, RecordsBehind, SameAccounts, Known
<1>3. ReqsOk'
  BY <1>1 DEF AuthInv, ReqsOk, Aside
<1>4. \A d \in AuthClients : Under(authReq[d]) \/ Under(authReq'[d]) => authReq'[d] = authReq[d]
  BY DEF Aside
<1>5. UnderOk'
  BY <1>1, <1>4 DEF AuthInv, UnderOk
<1>6. EpochsRecorded'
  <2> SUFFICES ASSUME NEW u \in DOMAIN users \ half
               PROVE  \/ users'[u].epoch = 0
                      \/ u \in DOMAIN revocations /\ revocations[u].epoch = users'[u].epoch
                      \/ \E c \in AuthClients : ToRecord(authReq'[c], u)
    BY <1>1 DEF EpochsRecorded
  <2>1. users'[u].epoch = users[u].epoch
    BY DEF SameAccounts
  <2>2. \A d \in AuthClients : ToRecord(authReq[d], u) => ToRecord(authReq'[d], u)
    BY <1>4 DEF ToRecord
  <2>. QED
    BY <2>1, <2>2 DEF AuthInv, EpochsRecorded
<1>. QED
  BY <1>1, <1>2, <1>3, <1>5, <1>6 DEF AuthInv, AuthNumbers

LEMMA AsideRefresh ==
    ASSUME AuthInv, Aside, SameAccounts, RefreshGrows
    PROVE  RefreshEnded'
<1> SUFFICES ASSUME NEW k \in DOMAIN refresh', refresh'[k].uid \in DOMAIN users \ half,
                    refresh'[k].made < users'[refresh'[k].uid].epoch, ~refresh'[k].revoked
             PROVE  \E c \in AuthClients : ToRevoke(authReq'[c], refresh'[k].uid)
  BY DEF RefreshEnded, SameAccounts
<1>1. users'[refresh'[k].uid].epoch = users[refresh'[k].uid].epoch /\ users[refresh'[k].uid].epoch \in Nat
  BY Accounts DEF SameAccounts
<1>2. EpochOf(refresh'[k].uid) = users[refresh'[k].uid].epoch
  BY DEF EpochOf, Known
<1>3. /\ k \in DOMAIN refresh /\ refresh'[k].uid = refresh[k].uid
      /\ refresh'[k].made = refresh[k].made /\ ~refresh[k].revoked
  BY <1>1, <1>2 DEF RefreshGrows
<1>4. PICK c \in AuthClients : ToRevoke(authReq[c], refresh[k].uid)
  BY <1>1, <1>3 DEF AuthInv, RefreshEnded
<1>5. authReq'[c] = authReq[c]
  BY <1>4 DEF Aside, ToRevoke
<1>. QED
  BY <1>3, <1>4, <1>5

\* A step of anything but a revocation.
LEMMA AsideStep ==
    ASSUME AuthInv, Aside, SameAccounts, RefreshGrows, RefreshOk', CodesOk', TokensOk', gate' \in BOOLEAN
    PROVE  AuthInv'
  BY AsideKeeps, AsideRefresh DEF AuthInv, AuthNumbers

LEMMA SameRefresh ==
    ASSUME AuthInv, refresh' = refresh
    PROVE  RefreshGrows /\ RefreshOk'
  BY DEF AuthInv, RefreshGrows, RefreshOk

LEMMA SameCodes ==
    ASSUME AuthInv, codes' = codes
    PROVE  CodesOk'
  BY DEF AuthInv, CodesOk

LEMMA SameTokens ==
    ASSUME AuthInv, UNCHANGED <<idTokens, revocations, authClock>>
    PROVE  TokensOk'
  BY DEF AuthInv, TokensOk

LEMMA SameUsers ==
    ASSUME AuthInv, UNCHANGED <<users, revocations, half, authClock>>
    PROVE  SameAccounts
  BY Accounts DEF SameAccounts

LEMMA NoAuthOk == NoAuth.op = "none" /\ ~Under(NoAuth) /\ ReqShape(NoAuth)
                  /\ ReqTimely(NoAuth, revocations, authClock)
  BY DEF NoAuth, Under, ReqShape, ReqTimely

\* One client's request that is not a revocation under way becomes another.
LEMMA AsideGoes ==
    ASSUME AuthInv, NEW c \in AuthClients, NEW q, Goes(c, q), ~Under(authReq[c]), ~Under(q),
           ReqShape(q), ReqTimely(q, revocations, authClock)
    PROVE  Aside
<1>1. DOMAIN authReq' = AuthClients /\ \A d \in AuthClients : authReq'[d] = IF d = c THEN q ELSE authReq[d]
  BY DEF AuthInv, ReqsOk, Goes
<1>. QED
  BY <1>1 DEF Aside

LEMMA AsideEnds ==
    ASSUME AuthInv, NEW c \in AuthClients, Ends(c), ~Under(authReq[c])
    PROVE  Aside
<1>1. DOMAIN authReq' = AuthClients /\ \A d \in AuthClients : authReq'[d] = IF d = c THEN NoAuth ELSE authReq[d]
  BY DEF AuthInv, ReqsOk, Goes, Ends
<1>. QED
  BY <1>1, NoAuthOk DEF Aside

LEMMA AsideStays ==
    ASSUME AuthInv, authReq' = authReq
    PROVE  Aside
  BY DEF AuthInv, ReqsOk, Aside

\* A request that begins.
LEMMA NowTimely ==
    ASSUME AuthInv, NEW r, r.since = authClock,
           r.op \in {"issue", "verified", "burn"} => r.u \in DOMAIN users /\ MintsFrom(r) = users[r.u].epoch
    PROVE  ReqTimely(r, revocations, authClock)
<1>1. authClock \in Nat /\ authClock <= authClock + Slack
  BY AuthConstants DEF AuthInv, AuthNumbers
<1>2. r.op \in {"issue", "verified", "burn"} /\ r.u \in DOMAIN revocations
         => ~ (MintsFrom(r) < revocations[r.u].epoch)
  <2> SUFFICES ASSUME r.op \in {"issue", "verified", "burn"}, r.u \in DOMAIN revocations
               PROVE  ~ (MintsFrom(r) < revocations[r.u].epoch)
    OBVIOUS
  <2>1. revocations[r.u].epoch <= users[r.u].epoch /\ MintsFrom(r) = users[r.u].epoch
    BY DEF AuthInv, RecordsBehind, Known
  <2>2. users[r.u].epoch \in Nat /\ revocations[r.u].epoch \in Nat
    BY Accounts
  <2>. QED
    BY <2>1, <2>2
<1>. QED
  BY <1>1, <1>2 DEF ReqTimely

-----------------------------------------------------------------------------
\* Requests that mint, and codes.

LEMMA SignInKeeps ==
    ASSUME AuthInv, NEW c \in AuthClients, NEW h \in Handles, NEW pw \in Passwords, SignIn(c, h, pw)
    PROVE  AuthInv'
<1>1. PICK u \in DOMAIN users : Goes(c, [op |-> "issue", u |-> u, ce |-> users[u].epoch, since |-> authClock])
  BY DEF SignIn, ByIdentifier
<1> DEFINE q == [op |-> "issue", u |-> u, ce |-> users[u].epoch, since |-> authClock]
<1>2. ReqShape(q) /\ ~Under(q) /\ q.since = authClock /\ q.u = u /\ MintsFrom(q) = users[u].epoch
  BY Accounts DEF ReqShape, Under, MintsFrom
<1> HIDE DEF q
<1>3. ReqTimely(q, revocations, authClock)
  BY <1>2, NowTimely
<1>4. ~Under(authReq[c])
  BY NoAuthOk DEF SignIn, Starts
<1>5. Aside
  BY <1>1, <1>2, <1>3, <1>4, AsideGoes DEF q
<1>. QED
  BY <1>5, AsideStep, SameUsers, SameRefresh, SameCodes, SameTokens DEF SignIn, AuthInv, AuthNumbers

LEMMA NewRefresh ==
    ASSUME AuthInv, NEW r \in RefreshRow, r.swapped = 0, r.made = EpochOf(r.uid), refresh' = Append(refresh, r)
    PROVE  RefreshGrows /\ RefreshOk'
<1>1. /\ refresh \in Seq(RefreshRow) /\ refresh' \in Seq(RefreshRow)
      /\ \A k \in DOMAIN refresh' : (k \in DOMAIN refresh /\ refresh'[k] = refresh[k]) \/ refresh'[k] = r
  BY DEF AuthInv, RefreshOk
<1>2. RefreshGrows
  BY <1>1 DEF RefreshGrows
<1>3. RefreshOk'
  BY <1>1 DEF AuthInv, RefreshOk
<1>. QED
  BY <1>2, <1>3

\* What a request that took a row of an account may mint now.
LEMMA MintOk ==
    ASSUME AuthInv, NEW t \in IdentityClaims, t.exp <= authClock + AccessTTL,
           t.sub \in DOMAIN revocations /\ t.ce < revocations[t.sub].epoch
              => t.exp <= revocations[t.sub].at + Window,
           idTokens' \subseteq idTokens \cup {t}, UNCHANGED <<revocations, authClock>>
    PROVE  TokensOk'
  BY DEF AuthInv, TokensOk

LEMMA IssueKeeps ==
    ASSUME AuthInv, NEW c \in AuthClients, Issue(c)
    PROVE  AuthInv'
<1> DEFINE q == authReq[c]
           t == [sub |-> q.u, ce |-> q.ce, exp |-> authClock + AccessTTL]
           r == [uid |-> q.u, exp |-> authClock + RefreshTTL, revoked |-> FALSE,
                 swapped |-> 0, made |-> EpochOf(q.u), proved |-> q.ce]
<1>1. q.op = "issue" /\ q.u \in Uids /\ q.ce \in Nat /\ ReqTimely(q, revocations, authClock)
  BY DEF Issue, AuthInv, ReqsOk, ReqShape
<1>2. Aside
  <2>1. ~Under(authReq[c])
    BY <1>1 DEF Under
  <2>. QED
    BY <2>1, AsideEnds DEF Issue
<1>3. refresh' = Append(refresh, r) /\ idTokens' = idTokens \cup {t}
  BY DEF Issue, IssueTokens
<1>4. authClock \in Nat /\ AccessTTL \in Nat /\ RefreshTTL \in Nat /\ Slack \in Nat /\ Window \in Nat
      /\ AccessTTL + Slack <= Window
  BY AuthConstants DEF AuthInv, AuthNumbers
<1> HIDE DEF q
<1>5. r \in RefreshRow /\ r.swapped = 0 /\ r.made = EpochOf(r.uid)
  BY <1>1, <1>4, EpochTyped DEF RefreshRow
<1>6. RefreshGrows /\ RefreshOk'
  <2> HIDE DEF r
  <2>. QED
    BY <1>3, <1>5, NewRefresh
<1>7. t \in IdentityClaims /\ t.exp = authClock + AccessTTL /\ t.sub = q.u /\ t.ce = q.ce
  BY <1>1, <1>4 DEF IdentityClaims
<1> HIDE DEF t
<1>8. q.u \in DOMAIN revocations /\ q.ce < revocations[q.u].epoch => t.exp <= revocations[q.u].at + Window
  <2> SUFFICES ASSUME q.u \in DOMAIN revocations, q.ce < revocations[q.u].epoch
               PROVE  t.exp <= revocations[q.u].at + Window
    OBVIOUS
  <2>1. q.since \in Nat /\ q.since <= revocations[q.u].at /\ authClock <= q.since + Slack
    BY <1>1 DEF ReqTimely, MintsFrom
  <2>2. revocations[q.u].at \in Nat
    BY Accounts
  <2>. QED
    BY <1>4, <1>7, <2>1, <2>2
<1>9. TokensOk'
  BY <1>3, <1>4, <1>7, <1>8, MintOk DEF Issue
<1>. QED
  BY <1>2, <1>6, <1>9, AsideStep, SameUsers, SameCodes DEF Issue, AuthInv, AuthNumbers

LEMMA RereadKeeps ==
    ASSUME AuthInv, NEW c \in AuthClients, Reread(c)
    PROVE  AuthInv'
<1> DEFINE q == authReq[c]
           u == q.u
           t == [sub |-> u, ce |-> users[u].epoch, exp |-> q.since + AccessTTL]
<1>1. q.op = "reread" /\ u \in Uids /\ q.since \in Nat /\ q.since <= authClock /\ authClock \in Nat
  BY DEF Reread, AuthInv, ReqsOk, ReqShape, ReqTimely, AuthNumbers
<1>2. Aside
  <2>1. ~Under(authReq[c])
    BY <1>1 DEF Under
  <2>. QED
    BY <2>1, AsideEnds DEF Reread
<1>3. TokensOk'
  <2>1. CASE idTokens' = idTokens
    BY <2>1, SameTokens DEF Reread
  <2>2. CASE Known(u) /\ idTokens' = idTokens \cup {t}
    <3>1. u \in DOMAIN users /\ users[u].epoch \in Nat
      BY <2>2, Accounts DEF Known
    <3> HIDE DEF q, u
    <3>2. q.since + AccessTTL \in Nat /\ q.since + AccessTTL <= authClock + AccessTTL
      BY <1>1, AuthConstants
    <3>3. t \in IdentityClaims /\ t.exp <= authClock + AccessTTL /\ t.sub = u /\ t.ce = users[u].epoch
      BY <1>1, <3>1, <3>2 DEF IdentityClaims
    <3>4. u \in DOMAIN revocations => ~ (users[u].epoch < revocations[u].epoch)
      BY <3>1, Accounts DEF AuthInv, RecordsBehind, Known
    <3> HIDE DEF t
    <3>. QED
      BY <2>2, <3>3, <3>4, MintOk DEF Reread
  <2>. QED
    BY <2>1, <2>2 DEF Reread
<1>. QED
  BY <1>2, <1>3, AsideStep, SameUsers, SameRefresh, SameCodes DEF Reread, AuthInv, AuthNumbers

LEMMA RotateKeeps ==
    ASSUME AuthInv, NEW c \in AuthClients, NEW k, RotateRefresh(c, k)
    PROVE  AuthInv'
<1> DEFINE old == refresh[k]
           spent == [old EXCEPT !.revoked = TRUE, !.swapped = old.swapped + 1]
           r == [old EXCEPT !.exp = authClock + RefreshTTL, !.made = EpochOf(old.uid)]
           rest == [refresh EXCEPT ![k] = spent]
           q == [op |-> "reread", u |-> old.uid, since |-> authClock]
<1>1. k \in DOMAIN refresh /\ ~old.revoked /\ refresh \in Seq(RefreshRow)
  BY DEF RotateRefresh, Live, AuthInv, RefreshOk
<1>2. old \in RefreshRow
  BY <1>1
<1>3. old.swapped = 0 /\ old.uid \in Uids
  BY <1>1, <1>2 DEF AuthInv, RefreshOk, RefreshRow
<1>4. refresh' = Append(rest, r) /\ Goes(c, q)
  BY DEF RotateRefresh
<1>5. EpochOf(old.uid) \in Nat /\ authClock + RefreshTTL \in Nat
  BY EpochTyped, AuthConstants DEF AuthInv, AuthNumbers
<1> HIDE DEF old
<1>6. spent \in RefreshRow /\ spent.revoked
  <2>1. old.swapped + 1 = 1
    BY <1>3
  <2>2. spent = [old EXCEPT !.revoked = TRUE, !.swapped = 1]
    BY <2>1
  <2> HIDE DEF spent
  <2>. QED
    BY <1>2, <2>2 DEF RefreshRow
<1>7. r \in RefreshRow /\ r.uid = old.uid /\ r.made = EpochOf(old.uid) /\ r.swapped = 0
  BY <1>2, <1>3, <1>5 DEF RefreshRow
<1> HIDE DEF spent, r
<1>8. /\ rest \in Seq(RefreshRow) /\ DOMAIN rest = DOMAIN refresh
      /\ \A l \in DOMAIN refresh : rest[l] = IF l = k THEN spent ELSE refresh[l]
  BY <1>1, <1>6
<1> HIDE DEF rest
<1>9. /\ refresh' \in Seq(RefreshRow)
      /\ \A l \in DOMAIN refresh' : (l \in DOMAIN refresh /\ refresh'[l] = refresh[l])
                                    \/ refresh'[l] = spent \/ refresh'[l] = r
  BY <1>4, <1>7, <1>8
<1>10. RefreshGrows
  BY <1>6, <1>7, <1>9 DEF RefreshGrows
<1>11. RefreshOk'
  BY <1>6, <1>7, <1>9 DEF AuthInv, RefreshOk
<1>12. Aside
  <2>1. ReqShape(q) /\ ~Under(q) /\ q.since = authClock /\ q.op = "reread"
    BY <1>3 DEF ReqShape, Under
  <2> HIDE DEF q
  <2>2. ReqTimely(q, revocations, authClock)
    BY <2>1, NowTimely
  <2>3. ~Under(authReq[c])
    BY NoAuthOk DEF RotateRefresh, Starts
  <2>. QED
    BY <1>4, <2>1, <2>2, <2>3, AsideGoes
<1>. QED
  BY <1>10, <1>11, <1>12, AsideStep, SameUsers, SameCodes, SameTokens DEF RotateRefresh, AuthInv, AuthNumbers

LEMMA SignOutKeeps ==
    ASSUME AuthInv, NEW c \in AuthClients, NEW k, SignOut(c, k)
    PROVE  AuthInv'
<1> DEFINE old == refresh[k]
           spent == [old EXCEPT !.revoked = TRUE]
<1>1. k \in DOMAIN refresh /\ refresh \in Seq(RefreshRow) /\ refresh' = [refresh EXCEPT ![k] = spent]
  BY DEF SignOut, RevokeRefresh, AuthInv, RefreshOk
<1>2. old \in RefreshRow
  BY <1>1
<1>3. spent \in RefreshRow /\ spent.revoked
  BY <1>2 DEF RefreshRow
<1> HIDE DEF spent
<1>4. /\ refresh' \in Seq(RefreshRow)
      /\ \A l \in DOMAIN refresh' : (l \in DOMAIN refresh /\ refresh'[l] = refresh[l]) \/ refresh'[l] = spent
  BY <1>1, <1>3
<1>5. RefreshGrows /\ RefreshOk'
  BY <1>3, <1>4 DEF RefreshGrows, AuthInv, RefreshOk
<1>. QED
  BY <1>5, AsideStep, AsideStays, SameUsers, SameCodes, SameTokens DEF SignOut, AuthInv, AuthNumbers

\* A request that goes on is as timely as it was.
LEMMA StillTimely ==
    ASSUME NEW r, NEW q, NEW rev, NEW now, ReqTimely(r, rev, now), r.op # "none", q.since = r.since,
           q.op \in {"issue", "verified", "burn"} =>
              r.op \in {"issue", "verified", "burn"} /\ q.u = r.u /\ MintsFrom(q) = MintsFrom(r)
    PROVE  ReqTimely(q, rev, now)
  BY DEF ReqTimely

LEMMA RequestOf ==
    ASSUME AuthInv, NEW c \in AuthClients
    PROVE  ReqShape(authReq[c]) /\ ReqTimely(authReq[c], revocations, authClock)
  BY DEF AuthInv, ReqsOk

\* A set of naturals that is not empty has a least element, and one with a bound a greatest.
LEMMA LeastExists ==
    ASSUME NEW S \in SUBSET Nat, S # {}
    PROVE  \E k \in S : \A i \in S : k <= i
<1> DEFINE R == OpToRel(<, Nat)
<1>1. IsWellFoundedOn(R, Nat)
  BY NatLessThanWellFounded
<1>2. \A x, y \in Nat : x < y => <<x, y>> \in R
  BY DEF OpToRel
<1> HIDE DEF R
<1>3. PICK k \in S : \A i \in S : ~ (<<i, k>> \in R)
  BY <1>1, WFMin
<1>4. \A i \in S : ~ (i < k)
  BY <1>2, <1>3
<1>. QED
  BY <1>4

LEMMA GreatestExists ==
    ASSUME NEW m \in Nat, NEW S \in SUBSET (1..m), S # {}
    PROVE  \E k \in S : \A i \in S : i <= k
<1> DEFINE T == {j \in Nat : m - j \in S}
<1>1. \A i \in S : i \in Nat /\ i <= m
  OBVIOUS
<1>2. T # {}
  <2>1. PICK i \in S : TRUE
    OBVIOUS
  <2>2. m - i \in Nat /\ m - (m - i) = i
    BY <1>1
  <2>. QED
    BY <2>2
<1>3. T \in SUBSET Nat
  OBVIOUS
<1>4. PICK j \in T : \A l \in T : j <= l
  <2> HIDE DEF T
  <2>. QED
    BY <1>2, <1>3, LeastExists
<1>5. ASSUME NEW i \in S
      PROVE  i <= m - j
  <2>1. m - i \in Nat /\ m - (m - i) = i
    BY <1>1
  <2>2. m - i \in T
    BY <2>1
  <2>3. j \in Nat /\ j <= m - i
    BY <1>4, <2>2
  <2>. QED
    BY <1>1, <2>3
<1>. QED
  BY <1>4, <1>5

\* A step of codes and of one client's request, and of nothing else.
CodesOnly == UNCHANGED <<users, refresh, idTokens, revocations, gate, authClock, half>>

LEMMA CodesStep ==
    ASSUME AuthInv, Aside, CodesOnly, CodesOk'
    PROVE  AuthInv'
  BY AsideStep, SameUsers, SameRefresh, SameTokens DEF CodesOnly, AuthInv, AuthNumbers

LEMMA CodeStartKeeps ==
    ASSUME AuthInv, NEW c \in AuthClients, NEW h, NEW purpose \in Purposes, CodeStart(c, h, purpose)
    PROVE  AuthInv'
<1>1. PICK u \in DOMAIN users :
         Goes(c, [op |-> "code", purpose |-> purpose, u |-> u, at |-> "look", since |-> authClock])
  BY DEF CodeStart, ByIdentifier
<1> DEFINE q == [op |-> "code", purpose |-> purpose, u |-> u, at |-> "look", since |-> authClock]
<1>2. ReqShape(q) /\ ~Under(q) /\ q.since = authClock /\ q.op = "code"
  BY Accounts DEF ReqShape, Under
<1> HIDE DEF q
<1>3. ReqTimely(q, revocations, authClock)
  BY <1>2, NowTimely
<1>4. ~Under(authReq[c])
  BY NoAuthOk DEF CodeStart, Starts
<1>5. Aside
  BY <1>1, <1>2, <1>3, <1>4, AsideGoes DEF q
<1>. QED
  BY <1>5, CodesStep, SameCodes DEF CodeStart, CodesOnly

\* A code request goes on.
LEMMA CodeGoes ==
    ASSUME AuthInv, NEW c \in AuthClients, authReq[c].op = "code", NEW at,
           Goes(c, [authReq[c] EXCEPT !.at = at])
    PROVE  Aside
<1> DEFINE r == authReq[c]
           q == [r EXCEPT !.at = at]
<1>1. ReqShape(r) /\ ReqTimely(r, revocations, authClock) /\ r.op = "code"
  BY RequestOf
<1>2. r = [op |-> r.op, purpose |-> r.purpose, u |-> r.u, at |-> r.at, since |-> r.since]
  BY <1>1 DEF ReqShape
<1>3. q = [op |-> "code", purpose |-> r.purpose, u |-> r.u, at |-> at, since |-> r.since]
  BY <1>1, <1>2
<1>4. Goes(c, q)
  OBVIOUS
<1> HIDE DEF r, q
<1>5. ReqShape(q) /\ ~Under(q) /\ q.since = r.since /\ q.op = "code"
  BY <1>1, <1>3 DEF ReqShape, Under
<1>6. ReqTimely(q, revocations, authClock)
  BY <1>1, <1>5, StillTimely
<1>7. ~Under(authReq[c])
  BY DEF Under
<1>. QED
  BY <1>4, <1>5, <1>6, <1>7, AsideGoes

LEMMA CodeKeeps ==
    ASSUME AuthInv, NEW c \in AuthClients, CodeLook(c) \/ CodeClear(c) \/ CodeInsert(c)
    PROVE  AuthInv'
<1> DEFINE r == authReq[c]
<1>0. r.op = "code" /\ r.u \in Uids /\ r.purpose \in Purposes /\ ~Under(r)
  BY RequestOf DEF CodeLook, CodeClear, CodeInsert, ReqShape, Under
<1>00. codes \in Seq(CodeRow) /\ \A k \in DOMAIN codes : codes[k] \in CodeRow /\ codes[k].attempts < MaxGuesses
  BY DEF AuthInv, CodesOk
<1>1. CASE CodeLook(c)
  <2>1. Aside
    BY <1>0, <1>1, AsideEnds, CodeGoes DEF CodeLook
  <2>. QED
    BY <1>1, <2>1, CodesStep, SameCodes DEF CodeLook, CodesOnly
<1>2. CASE CodeClear(c)
  <2>1. Aside
    BY <1>0, <1>2, CodeGoes DEF CodeClear
  <2>2. \A x \in CodeRow : /\ [x EXCEPT !.consumed = TRUE] \in CodeRow
                           /\ [x EXCEPT !.consumed = TRUE].attempts = x.attempts
    BY DEF CodeRow
  <2>3. /\ DOMAIN codes' = DOMAIN codes
        /\ codes' = [k \in DOMAIN codes |-> codes'[k]]
        /\ \A k \in DOMAIN codes : codes'[k] = codes[k] \/ codes'[k] = [codes[k] EXCEPT !.consumed = TRUE]
    BY <1>2 DEF CodeClear
  <2>4. \A k \in DOMAIN codes : codes'[k] \in CodeRow /\ codes'[k].attempts < MaxGuesses
    BY <1>00, <2>2, <2>3
  <2>5. CodesOk'
    BY <1>00, <2>3, <2>4 DEF CodesOk
  <2>. QED
    BY <1>2, <2>1, <2>5, CodesStep DEF CodeClear, CodesOnly
<1>3. CASE CodeInsert(c)
  <2>1. Aside
    BY <1>0, <1>3, AsideEnds DEF CodeInsert
  <2> DEFINE x == [uid |-> r.u, purpose |-> r.purpose, exp |-> authClock + CodeTTL,
                   consumed |-> FALSE, attempts |-> 0]
  <2>2. codes' = Append(codes, x)
    BY <1>3 DEF CodeInsert
  <2>3. authClock + CodeTTL \in Nat
    BY AuthConstants DEF AuthInv, AuthNumbers
  <2> HIDE DEF r
  <2>4. x \in CodeRow /\ x.attempts < MaxGuesses
    BY <1>0, <2>3, AuthConstants DEF CodeRow
  <2> HIDE DEF x
  <2>5. CodesOk'
    BY <1>00, <2>2, <2>4 DEF CodesOk
  <2>. QED
    BY <1>3, <2>1, <2>5, CodesStep DEF CodeInsert, CodesOnly
<1>. QED
  BY <1>1, <1>2, <1>3

LEMMA CodeShownKeeps ==
    ASSUME AuthInv, NEW c \in AuthClients, NEW h, NEW purpose, NEW right, CodeShown(c, h, purpose, right)
    PROVE  AuthInv'
<1>1. PICK u \in DOMAIN users :
         /\ LiveCode(u, purpose) # {}
         /\ LET k == CHOOSE k \in LiveCode(u, purpose) : \A l \in LiveCode(u, purpose) : l <= k
            IN Goes(c, [op |-> "burn", purpose |-> purpose, u |-> u, k |-> k, right |-> right,
                        attempts |-> codes[k].attempts, row |-> users[u], since |-> authClock])
  BY DEF CodeShown, ByIdentifier
<1> DEFINE good == LiveCode(u, purpose)
           k == CHOOSE k \in good : \A l \in good : l <= k
           q == [op |-> "burn", purpose |-> purpose, u |-> u, k |-> k, right |-> right,
                 attempts |-> codes[k].attempts, row |-> users[u], since |-> authClock]
<1>2. good \in SUBSET (1..Len(codes)) /\ Len(codes) \in Nat /\ good # {}
  BY <1>1 DEF LiveCode, AuthInv, CodesOk
<1>3. Goes(c, q)
  BY <1>1
<1> HIDE DEF good
<1>4. k \in good
  <2>1. \E m \in good : \A l \in good : l <= m
    BY <1>2, GreatestExists
  <2>. QED
    BY <2>1
<1> HIDE DEF k
<1>5. codes[k].attempts \in Nat
  <2>1. k \in DOMAIN codes /\ codes \in Seq(CodeRow)
    BY <1>2, <1>4 DEF AuthInv, CodesOk
  <2>2. codes[k] \in CodeRow
    BY <2>1
  <2>. QED
    BY <2>2 DEF CodeRow
<1>6. ReqShape(q) /\ ~Under(q) /\ q.since = authClock /\ q.u = u /\ MintsFrom(q) = users[u].epoch
  BY <1>5, Accounts DEF ReqShape, Under, MintsFrom
<1> HIDE DEF q
<1>7. ReqTimely(q, revocations, authClock)
  BY <1>6, NowTimely
<1>8. ~Under(authReq[c])
  BY NoAuthOk DEF CodeShown, Starts
<1>9. Aside
  BY <1>3, <1>6, <1>7, <1>8, AsideGoes
<1>. QED
  BY <1>9, CodesStep, SameCodes DEF CodeShown, CodesOnly

LEMMA Remade ==
    ASSUME NEW S, NEW s \in Seq(S), NEW t, t = [l \in DOMAIN s |-> t[l]], \A l \in DOMAIN s : t[l] \in S
    PROVE  t \in Seq(S)
  OBVIOUS

LEMMA PutCode ==
    ASSUME AuthInv, NEW k, NEW x, codes' = [codes EXCEPT ![k] = x],
           k \in DOMAIN codes => x \in CodeRow /\ x.attempts < MaxGuesses
    PROVE  CodesOk'
<1>1. codes \in Seq(CodeRow) /\ \A l \in DOMAIN codes : codes[l] \in CodeRow /\ codes[l].attempts < MaxGuesses
  BY DEF AuthInv, CodesOk
<1>2. codes' = [l \in DOMAIN codes |-> codes'[l]] /\ DOMAIN codes' = DOMAIN codes
  OBVIOUS
<1>3. \A l \in DOMAIN codes : codes'[l] = IF l = k THEN x ELSE codes[l]
  OBVIOUS
<1>4. \A l \in DOMAIN codes : codes'[l] \in CodeRow /\ codes'[l].attempts < MaxGuesses
  BY <1>1, <1>3
<1>5. codes' \in Seq(CodeRow)
  BY <1>1, <1>2, <1>4, Remade, Zenon
<1>. QED
  BY <1>2, <1>4, <1>5, Zenon DEF CodesOk

LEMMA CodeBurnKeeps ==
    ASSUME AuthInv, NEW c \in AuthClients, CodeBurn(c)
    PROVE  AuthInv'
<1> DEFINE r == authReq[c]
           q == AfterCode(r)
<1>1. /\ r.op = "burn" /\ r.u \in Uids /\ r.row \in UserRow /\ r.attempts \in Nat
      /\ ReqTimely(r, revocations, authClock)
  BY RequestOf DEF CodeBurn, ReqShape
<1>2. ~Under(r)
  BY <1>1 DEF Under
<1>3. Ends(c) \/ Goes(c, q)
  BY DEF CodeBurn
<1>4. \/ codes' = [codes EXCEPT ![r.k] = [codes[r.k] EXCEPT !.consumed = TRUE]]
      \/ r.attempts + 1 < MaxGuesses
         /\ codes' = [codes EXCEPT ![r.k] = [codes[r.k] EXCEPT !.attempts = r.attempts + 1]]
  <2>1. r.attempts + 1 \in Nat /\ MaxGuesses \in Nat
    BY <1>1, AuthConstants
  <2>. QED
    BY <2>1 DEF CodeBurn
<1>5. CodesOk'
  <2>1. codes \in Seq(CodeRow) /\ \A k \in DOMAIN codes : codes[k] \in CodeRow /\ codes[k].attempts < MaxGuesses
    BY DEF AuthInv, CodesOk
  <2>3. \A x \in CodeRow : [x EXCEPT !.consumed = TRUE] \in CodeRow
                           /\ [x EXCEPT !.consumed = TRUE].attempts = x.attempts
    BY DEF CodeRow
  <2>4. \A x \in CodeRow, n \in Nat : [x EXCEPT !.attempts = n] \in CodeRow
                                      /\ [x EXCEPT !.attempts = n].attempts = n
    BY DEF CodeRow
  <2>5. r.attempts + 1 \in Nat
    BY <1>1
  <2> DEFINE k == r.k
  <2>6. CASE codes' = [codes EXCEPT ![k] = [codes[k] EXCEPT !.consumed = TRUE]]
    <3>1. k \in DOMAIN codes => /\ [codes[k] EXCEPT !.consumed = TRUE] \in CodeRow
                                /\ [codes[k] EXCEPT !.consumed = TRUE].attempts < MaxGuesses
      BY <2>1, <2>3
    <3> HIDE DEF k
    <3>. QED
      BY <2>6, <3>1, PutCode
  <2>7. CASE /\ r.attempts + 1 < MaxGuesses
             /\ codes' = [codes EXCEPT ![k] = [codes[k] EXCEPT !.attempts = r.attempts + 1]]
    <3>1. k \in DOMAIN codes => /\ [codes[k] EXCEPT !.attempts = r.attempts + 1] \in CodeRow
                                /\ [codes[k] EXCEPT !.attempts = r.attempts + 1].attempts < MaxGuesses
      BY <2>1, <2>4, <2>5, <2>7
    <3> HIDE DEF k, r
    <3>. QED
      BY <2>7, <3>1, PutCode
  <2>. QED
    BY <1>4, <2>6, <2>7
<1>6. ASSUME Goes(c, q)
      PROVE  Aside
  <2> HIDE DEF r
  <2>1. r.row.epoch \in Nat
    BY <1>1 DEF UserRow
  <2>2. ReqShape(q) /\ ~Under(q) /\ q.since = r.since
    BY <1>1, <2>1 DEF ReqShape, Under, AfterCode
  <2>3. q.op \in {"issue", "verified", "burn"} => q.u = r.u /\ MintsFrom(q) = MintsFrom(r)
    BY <1>1 DEF AfterCode, MintsFrom
  <2> HIDE DEF q
  <2>4. ReqTimely(q, revocations, authClock)
    BY <1>1, <2>2, <2>3, StillTimely
  <2>. QED
    BY <1>2, <1>6, <2>2, <2>4, AsideGoes DEF r
<1>7. Aside
  BY <1>2, <1>3, <1>6, AsideEnds
<1>. QED
  BY <1>5, <1>7, CodesStep DEF CodeBurn, CodesOnly

-----------------------------------------------------------------------------
\* Accounts.

\* A step of the accounts' flags, and perhaps of a request.
FlagsOnly == UNCHANGED <<refresh, idTokens, codes, revocations, authClock, half>> /\ gate' \in BOOLEAN

LEMMA FlagsStep ==
    ASSUME AuthInv, Aside, FlagsOnly, DOMAIN users' = DOMAIN users,
           \A u \in DOMAIN users : users'[u] \in UserRow /\ users'[u].epoch = users[u].epoch
    PROVE  AuthInv'
<1>1. SameAccounts
  BY DEF SameAccounts, FlagsOnly
<1>. QED
  BY <1>1, AsideStep, SameRefresh, SameCodes, SameTokens DEF FlagsOnly

LEMMA VerifiedKeeps ==
    ASSUME AuthInv, NEW c \in AuthClients, SetEmailVerified(c)
    PROVE  AuthInv'
<1> DEFINE r == authReq[c]
           q == [op |-> "issue", u |-> r.u, ce |-> r.ce, since |-> r.since]
<1>1. r.op = "verified" /\ r.u \in Uids /\ r.ce \in Nat /\ ReqTimely(r, revocations, authClock)
  BY RequestOf DEF SetEmailVerified, ReqShape
<1>2. Goes(c, q) /\ users' = MarkVerified(r.u) /\ FlagsOnly
  BY DEF SetEmailVerified, FlagsOnly, AuthInv, AuthNumbers
<1>3. Aside
  <2> HIDE DEF r
  <2>1. ReqShape(q) /\ ~Under(q) /\ q.since = r.since /\ q.u = r.u /\ MintsFrom(q) = MintsFrom(r)
    BY <1>1 DEF ReqShape, Under, MintsFrom
  <2>2. ~Under(r)
    BY <1>1 DEF Under
  <2> HIDE DEF q
  <2>3. ReqTimely(q, revocations, authClock)
    BY <1>1, <2>1, StillTimely
  <2>. QED
    BY <1>2, <2>1, <2>2, <2>3, AsideGoes DEF r
<1>4. \A u \in DOMAIN users : /\ [users[u] EXCEPT !.verified = TRUE] \in UserRow
                              /\ [users[u] EXCEPT !.verified = TRUE].epoch = users[u].epoch
  BY Accounts DEF UserRow
<1>5. /\ DOMAIN users' = DOMAIN users
      /\ \A u \in DOMAIN users : users'[u] = users[u] \/ users'[u] = [users[u] EXCEPT !.verified = TRUE]
  <2> HIDE DEF r
  <2>. QED
    BY <1>2 DEF MarkVerified
<1>6. \A u \in DOMAIN users : users'[u] \in UserRow /\ users'[u].epoch = users[u].epoch
  BY <1>4, <1>5, Accounts
<1>. QED
  BY <1>2, <1>3, <1>5, <1>6, FlagsStep

LEMMA EnableKeeps ==
    ASSUME AuthInv, NEW u, Enable(u)
    PROVE  AuthInv'
<1>1. u \in DOMAIN users /\ users' = [users EXCEPT ![u] = [users[u] EXCEPT !.disabled = FALSE]]
  BY DEF Enable, Known
<1>2. /\ [users[u] EXCEPT !.disabled = FALSE] \in UserRow
      /\ [users[u] EXCEPT !.disabled = FALSE].epoch = users[u].epoch
  BY <1>1, Accounts DEF UserRow
<1>3. /\ DOMAIN users' = DOMAIN users
      /\ \A v \in DOMAIN users : users'[v] \in UserRow /\ users'[v].epoch = users[v].epoch
  BY <1>1, <1>2, Accounts
<1>. QED
  BY <1>3, AsideStays, FlagsStep DEF Enable, FlagsOnly, AuthInv, AuthNumbers

LEMMA GateKeeps ==
    ASSUME AuthInv, SaveGate
    PROVE  AuthInv'
<1>1. \A v \in DOMAIN users :
         /\ [users[v] EXCEPT !.verified = users[v].verified \/ ~users[v].pending] \in UserRow
         /\ [users[v] EXCEPT !.verified = users[v].verified \/ ~users[v].pending].epoch = users[v].epoch
  BY Accounts DEF UserRow
<1>2. /\ DOMAIN users' = DOMAIN users
      /\ \A v \in DOMAIN users :
            \/ users'[v] = users[v]
            \/ users'[v] = [users[v] EXCEPT !.verified = users[v].verified \/ ~users[v].pending]
  BY DEF SaveGate
<1>3. \A v \in DOMAIN users : users'[v] \in UserRow /\ users'[v].epoch = users[v].epoch
  BY <1>1, <1>2, Accounts
<1>4. gate' \in BOOLEAN
  BY DEF SaveGate
<1>. QED
  BY <1>2, <1>3, <1>4, AsideStays, FlagsStep DEF SaveGate, FlagsOnly

LEMMA CreateKeeps ==
    ASSUME AuthInv, NEW c \in AuthClients, NEW h \in Handles, NEW pw \in Passwords, NEW b \in BOOLEAN,
           CreateUser(c, h, pw, b)
    PROVE  AuthInv'
<1> DEFINE n == Born + 1
           row == [handle |-> h, pw |-> pw, disabled |-> FALSE, verified |-> FALSE,
                   pending |-> b /\ gate, epoch |-> 0]
           q == IF gate THEN [op |-> "code", purpose |-> "verify", u |-> n, at |-> "look", since |-> authClock]
                ELSE [op |-> "issue", u |-> n, ce |-> 0, since |-> authClock]
<1>1. /\ Born < MaxUsers /\ users' = Put(users, n, row) /\ (authReq' = authReq \/ Goes(c, q))
      /\ UNCHANGED <<refresh, idTokens, codes, revocations, gate, authClock, half>> /\ authReq[c].op = "none"
  BY NoAuthOk DEF CreateUser, NewUser, Starts
<1>2. /\ n \in Uids /\ n \in 0..MaxUsers /\ n \notin DOMAIN users /\ n \notin DOMAIN revocations
      /\ (DOMAIN users \cup {n}) \cup DOMAIN revocations = 1..n
  BY <1>1, Fresh
<1>3. row \in UserRow /\ row.epoch = 0
  BY DEF UserRow, AuthInv, AuthNumbers
<1>4. Aside
  <2>1. ReqShape(q) /\ ~Under(q)
    BY <1>2 DEF ReqShape, Under, Purposes
  <2>2. q.since = authClock /\ (q.op \in {"issue", "verified", "burn"} => q.u = n)
    OBVIOUS
  <2> HIDE DEF q, n
  <2>3. authClock \in Nat /\ authClock <= authClock + Slack
    BY AuthConstants DEF AuthInv, AuthNumbers
  <2>4. ReqTimely(q, revocations, authClock)
    BY <1>2, <2>2, <2>3 DEF ReqTimely
  <2>5. ~Under(authReq[c])
    BY <1>1 DEF Under
  <2>. QED
    BY <1>1, <2>1, <2>4, <2>5, AsideGoes, AsideStays
<1> HIDE DEF row, q, n
<1>5. /\ DOMAIN users' = DOMAIN users \cup {n} /\ users'[n] = row
      /\ \A u \in DOMAIN users : users'[u] = users[u] /\ u # n
  BY <1>1, <1>2 DEF Put
<1>6. Numbered'
  <2>1. \A u \in DOMAIN users' : users'[u] \in UserRow
    BY <1>3, <1>5, Accounts
  <2>. QED
    BY <1>1, <1>2, <1>5, <2>1 DEF Numbered
<1>7. RecordsBehind'
  BY <1>1, <1>2, <1>5 DEF AuthInv, RecordsBehind, Known
<1>8. RefreshOk' /\ CodesOk' /\ TokensOk' /\ AuthNumbers'
  BY <1>1 DEF AuthInv, RefreshOk, CodesOk, TokensOk, AuthNumbers
<1>9. ReqsOk'
  BY <1>1, <1>4 DEF AuthInv, ReqsOk, Aside
<1>10. \A d \in AuthClients : Under(authReq[d]) \/ Under(authReq'[d]) => authReq'[d] = authReq[d]
  BY <1>4 DEF Aside
<1>11. UnderOk'
  BY <1>1, <1>5, <1>10 DEF AuthInv, UnderOk
<1>12. EpochsRecorded'
  <2>1. \A d \in AuthClients, u \in DOMAIN users : ToRecord(authReq[d], u) => ToRecord(authReq'[d], u)
    BY <1>10 DEF ToRecord
  <2>. QED
    BY <1>1, <1>3, <1>5, <2>1 DEF AuthInv, EpochsRecorded
<1>13. RefreshEnded'
  <2>1. \A d \in AuthClients, u \in DOMAIN users : ToRevoke(authReq[d], u) => ToRevoke(authReq'[d], u)
    BY <1>10 DEF ToRevoke
  <2> SUFFICES ASSUME NEW k \in DOMAIN refresh, refresh[k].uid \in DOMAIN users' \ half,
                      refresh[k].made < users'[refresh[k].uid].epoch
               PROVE  refresh[k].revoked \/ \E d \in AuthClients : ToRevoke(authReq'[d], refresh[k].uid)
    BY <1>1 DEF RefreshEnded
  <2>2. refresh[k].made \in Nat
    <3>1. refresh[k] \in RefreshRow
      BY DEF AuthInv, RefreshOk
    <3>. QED
      BY <3>1 DEF RefreshRow
  <2>3. refresh[k].uid # n
    BY <1>3, <1>5, <2>2
  <2>. QED
    BY <1>5, <2>1, <2>3 DEF AuthInv, RefreshEnded
<1>. QED
  BY <1>6, <1>7, <1>8, <1>9, <1>11, <1>12, <1>13 DEF AuthInv

-----------------------------------------------------------------------------
\* Revocations.

LEMMA RevokeKeeps ==
    ASSUME AuthInv, NEW c \in AuthClients, NEW u, NEW how, Revoke(c, u, how)
    PROVE  AuthInv'
<1> DEFINE q == [op |-> "revoke", how |-> how, u |-> u, at |-> "epoch", since |-> authClock]
<1>1. u \in Uids /\ Goes(c, q)
  BY Accounts DEF Revoke, Known
<1>2. ReqShape(q) /\ ~Under(q) /\ q.since = authClock /\ q.op = "revoke"
  BY <1>1 DEF ReqShape, Under
<1> HIDE DEF q
<1>3. ReqTimely(q, revocations, authClock)
  BY <1>2, NowTimely
<1>4. ~Under(authReq[c])
  BY NoAuthOk DEF Revoke, Starts
<1>5. Aside
  BY <1>1, <1>2, <1>3, <1>4, AsideGoes
<1>. QED
  BY <1>5, CodesStep, SameCodes DEF Revoke, CodesOnly

\* A revocation goes on from where it is.
LEMMA RevokeGoes ==
    ASSUME AuthInv, NEW c \in AuthClients, authReq[c].op = "revoke", NEW at, NEW q,
           at = "row" => authReq[c].how = "delete",
           q = [authReq[c] EXCEPT !.at = at]
    PROVE  /\ q.op = "revoke" /\ q.at = at /\ q.u = authReq[c].u /\ q.how = authReq[c].how
           /\ ReqShape(q) /\ q.since = authReq[c].since /\ authReq[c].u \in Uids
<1> DEFINE r == authReq[c]
<1>1. ReqShape(r) /\ r.op = "revoke"
  BY RequestOf
<1> HIDE DEF r
<1>2. r = [op |-> r.op, how |-> r.how, u |-> r.u, at |-> r.at, since |-> r.since] /\ r.u \in Uids
  BY <1>1 DEF ReqShape
<1>3. q = [r EXCEPT !.at = at]
  BY DEF r
<1>4. q = [op |-> "revoke", how |-> r.how, u |-> r.u, at |-> at, since |-> r.since]
  BY <1>1, <1>2, <1>3
<1>5. ReqShape(q)
  BY <1>2, <1>4 DEF ReqShape, r
<1>. QED
  BY <1>2, <1>4, <1>5 DEF r

LEMMA RevokeTimely ==
    ASSUME NEW r, NEW q, NEW rev, NEW now, ReqTimely(r, rev, now), r.op = "revoke",
           q.op = "revoke", q.since = r.since
    PROVE  ReqTimely(q, rev, now)
  BY DEF ReqTimely

LEMMA EpochKeeps ==
    ASSUME AuthInv, NEW c \in AuthClients, NEW pw \in Passwords, RevokeEpoch(c, pw)
    PROVE  AuthInv'
<1> DEFINE r == authReq[c]
           u == r.u
           at == IF r.how = "delete" THEN "record" ELSE "tokens"
           q == [r EXCEPT !.at = at]
           old == users[u]
           row == [old EXCEPT !.epoch = old.epoch + 1,
                              !.disabled = old.disabled \/ r.how = "disable",
                              !.pw = IF r.how = "reset" THEN pw ELSE old.pw,
                              !.verified = old.verified \/ r.how = "reset"]
<1>1. /\ r.op = "revoke" /\ r.at = "epoch" /\ ~Under(r)
      /\ UNCHANGED <<refresh, idTokens, codes, revocations, gate, authClock, half>>
  BY DEF RevokeEpoch, Under
<1>2. CASE Ends(c) /\ users' = users
  BY <1>1, <1>2, AsideEnds, CodesStep, SameCodes DEF CodesOnly
<1>3. CASE u \in DOMAIN users /\ users' = [users EXCEPT ![u] = row] /\ Goes(c, q)
  <2>1. old \in UserRow /\ old.epoch \in Nat
    BY <1>3, Accounts
  <2>2. row \in UserRow /\ row.epoch = old.epoch + 1
    <3> DEFINE n == old.epoch + 1
               d == old.disabled \/ r.how = "disable"
               p == IF r.how = "reset" THEN pw ELSE old.pw
               v == old.verified \/ r.how = "reset"
    <3>1. n \in Nat /\ d \in BOOLEAN /\ p \in Passwords /\ v \in BOOLEAN
      BY <2>1 DEF UserRow
    <3>2. row = [old EXCEPT !.epoch = n, !.disabled = d, !.pw = p, !.verified = v]
      OBVIOUS
    <3>3. n = old.epoch + 1
      OBVIOUS
    <3> HIDE DEF n, d, p, v, old, row
    <3>4. row \in UserRow /\ row.epoch = n
      BY <2>1, <3>1, <3>2 DEF UserRow
    <3>. QED
      BY <3>3, <3>4
  <2>3. /\ q.op = "revoke" /\ q.at = at /\ q.u = u /\ q.how = r.how /\ ReqShape(q)
        /\ q.since = r.since
    <3>1. at # "row"
      OBVIOUS
    <3>2. q = [authReq[c] EXCEPT !.at = at]
      OBVIOUS
    <3> HIDE DEF q, at
    <3>. QED
      BY <1>1, <3>1, <3>2, RevokeGoes
  <2>4. ReqTimely(q, revocations, authClock)
    <3>1. ReqTimely(r, revocations, authClock)
      BY RequestOf
    <3> HIDE DEF r, q
    <3>. QED
      BY <1>1, <2>3, <3>1, RevokeTimely
  <2>5. Under(q) /\ ToRecord(q, u) /\ ToRevoke(q, u)
        /\ (q.how = "delete" => q.at = "record")
    <3>. HIDE DEF q, r
    <3>. QED
      BY <2>3 DEF Under, ToRecord, ToRevoke
  <2> HIDE DEF q, row, r, u
  <2>6. DOMAIN users' = DOMAIN users /\ \A v \in DOMAIN users : users'[v] = IF v = u THEN row ELSE users[v]
    BY <1>3
  <2>7. DOMAIN authReq' = AuthClients /\ \A d \in AuthClients : authReq'[d] = IF d = c THEN q ELSE authReq[d]
    BY <1>3 DEF AuthInv, ReqsOk, Goes
  <2>8. \A d \in AuthClients : Under(authReq[d]) => authReq'[d] = authReq[d]
    BY <1>1, <2>7 DEF r
  <2>9. Numbered'
    <3>1. \A v \in DOMAIN users' : users'[v] \in UserRow
      BY <2>2, <2>6, Accounts
    <3>. QED
      BY <1>1, <2>6, <3>1 DEF AuthInv, Numbered
  <2>10. RecordsBehind'
    <3>1. \A v \in DOMAIN users : users[v].epoch \in Nat /\ users'[v].epoch \in Nat
                                   /\ users[v].epoch <= users'[v].epoch
      BY <2>1, <2>2, <2>6, Accounts
    <3>2. \A v \in DOMAIN revocations : revocations[v].epoch \in Nat
      BY Accounts
    <3>3. \A v \in DOMAIN revocations : v \in DOMAIN users => revocations[v].epoch <= users'[v].epoch
      BY <3>1, <3>2 DEF AuthInv, RecordsBehind, Known
    <3>. QED
      BY <1>1, <2>6, <3>3 DEF AuthInv, RecordsBehind, Known
  <2>11. RefreshOk' /\ CodesOk' /\ TokensOk' /\ AuthNumbers'
    BY <1>1 DEF AuthInv, RefreshOk, CodesOk, TokensOk, AuthNumbers
  <2>12. ReqsOk'
    BY <1>1, <2>3, <2>4, <2>7 DEF AuthInv, ReqsOk
  <2>13. UnderOk'
    BY <1>1, <1>3, <2>3, <2>5, <2>6, <2>7 DEF AuthInv, UnderOk
  <2>14. EpochsRecorded'
    <3> SUFFICES ASSUME NEW v \in DOMAIN users \ half
                 PROVE  \/ users'[v].epoch = 0
                        \/ v \in DOMAIN revocations /\ revocations[v].epoch = users'[v].epoch
                        \/ \E d \in AuthClients : ToRecord(authReq'[d], v)
      BY <1>1, <2>6 DEF EpochsRecorded
    <3>1. CASE v = u
      BY <2>5, <2>7, <3>1
    <3>2. CASE v # u
      <4>1. \A d \in AuthClients : ToRecord(authReq[d], v) => ToRecord(authReq'[d], v)
        BY <2>8 DEF ToRecord
      <4>. QED
        BY <2>6, <3>2, <4>1 DEF AuthInv, EpochsRecorded
    <3>. QED
      BY <3>1, <3>2
  <2>15. RefreshEnded'
    <3> SUFFICES ASSUME NEW k \in DOMAIN refresh, refresh[k].uid \in DOMAIN users \ half,
                        refresh[k].made < users'[refresh[k].uid].epoch
                 PROVE  refresh[k].revoked \/ \E d \in AuthClients : ToRevoke(authReq'[d], refresh[k].uid)
      BY <1>1, <2>6 DEF RefreshEnded
    <3>1. CASE refresh[k].uid = u
      BY <2>5, <2>7, <3>1
    <3>2. CASE refresh[k].uid # u
      <4>1. \A d \in AuthClients : ToRevoke(authReq[d], refresh[k].uid) => ToRevoke(authReq'[d], refresh[k].uid)
        BY <2>8 DEF ToRevoke
      <4>. QED
        BY <2>6, <3>2, <4>1 DEF AuthInv, RefreshEnded
    <3>. QED
      BY <3>1, <3>2
  <2>. QED
    BY <2>9, <2>10, <2>11, <2>12, <2>13, <2>14, <2>15 DEF AuthInv
<1>4. ASSUME Known(u), ~(r.how = "reset" /\ users[u].disabled)
      PROVE  users' = [users EXCEPT ![u] = row] /\ At2(c, at)
  <2>1. At2(c, at)
    BY <1>4 DEF RevokeEpoch
  <2>2. users' = [users EXCEPT ![u] = row]
    BY <1>4, Zenon DEF RevokeEpoch
  <2>. QED
    BY <2>1, <2>2
<1>5. ASSUME ~ (Known(u) /\ ~(r.how = "reset" /\ users[u].disabled))
      PROVE  Ends(c) /\ users' = users
  BY <1>5 DEF RevokeEpoch
<1>. QED
  BY <1>2, <1>3, <1>4, <1>5 DEF At2, Known

LEMMA TokensKeep ==
    ASSUME AuthInv, NEW c \in AuthClients, RevokeTokens(c)
    PROVE  AuthInv'
<1> DEFINE r == authReq[c]
           u == r.u
           at == IF r.how = "delete" THEN "row" ELSE "record"
           q == [r EXCEPT !.at = at]
<1>1. /\ r.op = "revoke" /\ r.at = "tokens" /\ Under(r)
      /\ UNCHANGED <<users, idTokens, codes, revocations, gate, authClock, half>>
      /\ RevokeRefreshOf(u) /\ Goes(c, q)
  BY DEF RevokeTokens, Under, At2
<1>2. /\ q.op = "revoke" /\ q.at = at /\ q.u = u /\ q.how = r.how /\ ReqShape(q)
      /\ q.since = r.since
  <2>1. at = "row" => r.how = "delete"
    OBVIOUS
  <2>2. q = [authReq[c] EXCEPT !.at = at]
    OBVIOUS
  <2> HIDE DEF q, at
  <2>. QED
    BY <1>1, <2>1, <2>2, RevokeGoes
<1>3. ReqTimely(q, revocations, authClock)
  <2>1. ReqTimely(r, revocations, authClock)
    BY RequestOf
  <2> HIDE DEF r, q
  <2>. QED
    BY <1>1, <1>2, <2>1, RevokeTimely
<1>4. /\ u \in DOMAIN users \cup DOMAIN revocations
      /\ q.how = "delete" => u \in DOMAIN revocations
  <2>1. u \in DOMAIN users \cup DOMAIN revocations /\ (r.how = "delete" => u \in DOMAIN revocations)
    BY <1>1 DEF AuthInv, UnderOk
  <2> HIDE DEF q, r, u
  <2>. QED
    BY <1>2, <2>1
<1>5. \A v : ToRecord(r, v) => ToRecord(q, v)
  <2> HIDE DEF q, r
  <2>. QED
    BY <1>1, <1>2 DEF Under, ToRecord, u
<1> HIDE DEF q, r, u
<1>6. DOMAIN authReq' = AuthClients /\ \A d \in AuthClients : authReq'[d] = IF d = c THEN q ELSE authReq[d]
  BY <1>1 DEF AuthInv, ReqsOk, Goes
<1>7. /\ refresh \in Seq(RefreshRow) /\ DOMAIN refresh' = DOMAIN refresh
      /\ refresh' = [k \in DOMAIN refresh |-> refresh'[k]]
      /\ \A k \in DOMAIN refresh : refresh'[k] = IF refresh[k].uid = u
                                                 THEN [refresh[k] EXCEPT !.revoked = TRUE] ELSE refresh[k]
  BY <1>1 DEF RevokeRefreshOf, AuthInv, RefreshOk
<1>8. \A k \in DOMAIN refresh :
         /\ refresh'[k] \in RefreshRow /\ refresh'[k].uid = refresh[k].uid /\ refresh'[k].made = refresh[k].made
         /\ (refresh[k].revoked \/ refresh[k].uid = u) => refresh'[k].revoked
         /\ refresh'[k].swapped = refresh[k].swapped
  <2>1. \A k \in DOMAIN refresh : refresh[k] \in RefreshRow
    BY <1>7
  <2>2. \A x \in RefreshRow :
           /\ [x EXCEPT !.revoked = TRUE] \in RefreshRow /\ [x EXCEPT !.revoked = TRUE].uid = x.uid
           /\ [x EXCEPT !.revoked = TRUE].made = x.made /\ [x EXCEPT !.revoked = TRUE].revoked
           /\ [x EXCEPT !.revoked = TRUE].swapped = x.swapped
    BY DEF RefreshRow
  <2>. QED
    BY <1>7, <2>1, <2>2
<1>9. RefreshOk'
  <2>1. refresh' \in Seq(RefreshRow)
    BY <1>7, <1>8, Remade, Zenon
  <2>. QED
    BY <1>7, <1>8, <2>1 DEF AuthInv, RefreshOk
<1>10. Numbered' /\ RecordsBehind' /\ CodesOk' /\ TokensOk' /\ AuthNumbers'
  BY <1>1 DEF AuthInv, Numbered, RecordsBehind, CodesOk, TokensOk, AuthNumbers, Known
<1>11. ReqsOk'
  BY <1>1, <1>2, <1>3, <1>6 DEF AuthInv, ReqsOk
<1>12. UnderOk'
  BY <1>1, <1>2, <1>4, <1>6 DEF AuthInv, UnderOk
<1>13. EpochsRecorded'
  <2>1. \A d \in AuthClients, v \in DOMAIN users : ToRecord(authReq[d], v) => ToRecord(authReq'[d], v)
    BY <1>5, <1>6 DEF r
  <2>. QED
    BY <1>1, <2>1 DEF AuthInv, EpochsRecorded
<1>14. RefreshEnded'
  <2> SUFFICES ASSUME NEW k \in DOMAIN refresh, refresh[k].uid \in DOMAIN users \ half,
                      refresh[k].made < users[refresh[k].uid].epoch, ~refresh'[k].revoked
               PROVE  \E d \in AuthClients : ToRevoke(authReq'[d], refresh[k].uid)
    BY <1>1, <1>7, <1>8 DEF RefreshEnded
  <2>1. refresh[k].uid # u /\ ~refresh[k].revoked
    BY <1>8
  <2>2. PICK d \in AuthClients : ToRevoke(authReq[d], refresh[k].uid)
    BY <2>1 DEF AuthInv, RefreshEnded
  <2>3. d # c
    BY <2>1, <2>2 DEF ToRevoke, u, r
  <2>. QED
    BY <1>6, <2>2, <2>3
<1>. QED
  BY <1>9, <1>10, <1>11, <1>12, <1>13, <1>14 DEF AuthInv

LEMMA RecordKeeps ==
    ASSUME AuthInv, NEW c \in AuthClients, RevokeRecord(c)
    PROVE  AuthInv'
<1> DEFINE r == authReq[c]
           u == r.u
           q == IF r.how = "delete" THEN [r EXCEPT !.at = "tokens"] ELSE NoAuth
           rec == [epoch |-> users[u].epoch, at |-> authClock]
<1>1. /\ r.op = "revoke" /\ r.at = "record" /\ Under(r)
      /\ UNCHANGED <<users, refresh, idTokens, codes, gate, authClock, half>>
      /\ RecordRevocation(u) /\ Goes(c, q)
  BY DEF RevokeRecord, Under, At2, Ends
<1>2. /\ ReqShape(q) /\ ReqTimely(q, revocations, authClock)
      /\ ~Under(q) \/ (Under(q) /\ q.u = u /\ r.how = "delete")
      /\ r.how = "delete" => ToRevoke(q, u)
      /\ q.op \notin {"issue", "verified", "burn"}
  <2>1. CASE r.how = "delete"
    <3> DEFINE p == [r EXCEPT !.at = "tokens"]
    <3>1. p = [authReq[c] EXCEPT !.at = "tokens"] /\ q = p
      BY <2>1
    <3> HIDE DEF p, q
    <3>2. /\ p.op = "revoke" /\ p.at = "tokens" /\ p.u = u /\ p.how = r.how /\ ReqShape(p)
          /\ p.since = r.since
      BY <1>1, <3>1, RevokeGoes
    <3>3. ReqTimely(r, revocations, authClock)
      BY RequestOf
    <3> HIDE DEF r, u
    <3>4. ReqTimely(p, revocations, authClock)
      BY <1>1, <3>2, <3>3, RevokeTimely
    <3>. QED
      BY <2>1, <3>1, <3>2, <3>4 DEF Under, ToRevoke
  <2>2. CASE r.how # "delete"
    <3>1. q = NoAuth
      BY <2>2
    <3> HIDE DEF q, r
    <3>. QED
      BY <2>2, <3>1, NoAuthOk
  <2>. QED
    BY <2>1, <2>2
<1>3. u \in DOMAIN users \cup DOMAIN revocations
  BY <1>1 DEF AuthInv, UnderOk
<1> HIDE DEF q
<1>4. DOMAIN authReq' = AuthClients /\ \A d \in AuthClients : authReq'[d] = IF d = c THEN q ELSE authReq[d]
  BY <1>1 DEF AuthInv, ReqsOk, Goes
<1>5. \/ u \notin DOMAIN users /\ revocations' = revocations
      \/ /\ u \in DOMAIN users /\ DOMAIN revocations' = DOMAIN revocations \cup {u}
         /\ revocations'[u] = rec /\ \A v \in DOMAIN revocations : v # u => revocations'[v] = revocations[v]
  BY <1>1 DEF RecordRevocation, Put, Known
<1>6. u \in DOMAIN revocations' /\ DOMAIN users \cup DOMAIN revocations' = DOMAIN users \cup DOMAIN revocations
  BY <1>3, <1>5
<1>7. authClock \in Nat /\ AccessTTL \in Nat /\ Window \in Nat /\ AccessTTL <= Window
  <2>1. AccessTTL \in Nat /\ Window \in Nat /\ Slack \in Nat /\ AccessTTL + Slack <= Window
    BY AuthConstants
  <2>. QED
    BY <2>1 DEF AuthInv, AuthNumbers
<1>8. u \in DOMAIN users => rec \in Revocation /\ rec.epoch = users[u].epoch /\ rec.at = authClock
  BY <1>7, Accounts DEF Revocation
<1> HIDE DEF rec, r, u
<1>9. Numbered' /\ RefreshOk' /\ CodesOk' /\ AuthNumbers'
  BY <1>1, <1>6 DEF AuthInv, Numbered, RefreshOk, CodesOk, AuthNumbers
<1>10. RecordsBehind'
  <2>1. CASE revocations' = revocations
    BY <1>1, <2>1 DEF AuthInv, RecordsBehind, Known
  <2>2. CASE /\ u \in DOMAIN users /\ DOMAIN revocations' = DOMAIN revocations \cup {u}
             /\ revocations'[u] = rec /\ \A v \in DOMAIN revocations : v # u => revocations'[v] = revocations[v]
    <3>1. users[u].epoch \in Nat
      BY <2>2, Accounts
    <3>2. rec \in Revocation /\ rec.at <= authClock /\ rec.epoch <= users[u].epoch
      BY <1>7, <1>8, <2>2, <3>1
    <3>. QED
      BY <1>1, <2>2, <3>2 DEF AuthInv, RecordsBehind, Known
  <2>. QED
    BY <1>5, <2>1, <2>2
<1>11. TokensOk'
  <2> SUFFICES ASSUME NEW t \in idTokens
               PROVE  /\ t \in IdentityClaims /\ t.exp <= authClock + AccessTTL
                      /\ t.sub \in DOMAIN revocations' /\ t.ce < revocations'[t.sub].epoch =>
                            t.exp <= revocations'[t.sub].at + Window
    BY <1>1 DEF TokensOk
  <2>1. t \in IdentityClaims /\ t.exp <= authClock + AccessTTL
    BY DEF AuthInv, TokensOk
  <2>2. CASE t.sub = u /\ u \in DOMAIN users
    <3>1. revocations'[u].at = authClock
      BY <1>5, <1>8, <2>2
    <3>2. t.exp <= authClock + Window
      BY <1>7, <2>1 DEF IdentityClaims
    <3>. QED
      BY <2>1, <2>2, <3>1, <3>2
  <2>3. CASE ~ (t.sub = u /\ u \in DOMAIN users)
    <3>1. t.sub \in DOMAIN revocations' => t.sub \in DOMAIN revocations /\ revocations'[t.sub] = revocations[t.sub]
      BY <1>5, <2>3
    <3>. QED
      BY <2>1, <3>1 DEF AuthInv, TokensOk
  <2>. QED
    BY <2>2, <2>3
<1>12. ReqsOk'
  <2> SUFFICES ASSUME NEW d \in AuthClients
               PROVE  ReqShape(authReq'[d]) /\ ReqTimely(authReq'[d], revocations', authClock)
    BY <1>1, <1>4 DEF ReqsOk
  <2>1. ReqShape(authReq'[d]) /\ ReqTimely(authReq'[d], revocations, authClock)
    BY <1>2, <1>4, RequestOf
  <2> DEFINE x == authReq'[d]
  <2> HIDE DEF x
  <2>2. ASSUME x.op # "none", x.u \in DOMAIN revocations', MintsFrom(x) < revocations'[x.u].epoch,
               x.op \in {"issue", "verified", "burn"}
        PROVE  x.since <= revocations'[x.u].at
    <3>1. x.since <= authClock
      BY <2>1, <2>2 DEF ReqTimely, x
    <3>2. CASE x.u = u /\ u \in DOMAIN users
      BY <1>5, <1>8, <3>1, <3>2
    <3>3. CASE ~ (x.u = u /\ u \in DOMAIN users)
      <4>1. x.u \in DOMAIN revocations /\ revocations'[x.u] = revocations[x.u]
        BY <1>5, <2>2, <3>3
      <4>. QED
        BY <2>1, <2>2, <4>1 DEF ReqTimely, x
    <3>. QED
      BY <3>2, <3>3
  <2>. QED
    BY <2>1, <2>2 DEF ReqTimely, x
<1>13. UnderOk'
  <2> SUFFICES ASSUME NEW d \in AuthClients, Under(authReq'[d])
               PROVE  /\ authReq'[d].u \in DOMAIN users \cup DOMAIN revocations'
                      /\ authReq'[d].how = "delete" /\ authReq'[d].at # "record"
                            => authReq'[d].u \in DOMAIN revocations'
    BY <1>1 DEF UnderOk
  <2>1. CASE d = c
    BY <1>2, <1>4, <1>6, <2>1
  <2>2. CASE d # c
    <3>1. DOMAIN revocations \subseteq DOMAIN revocations'
      BY <1>5
    <3>. QED
      BY <1>4, <1>6, <2>2, <3>1 DEF AuthInv, UnderOk
  <2>. QED
    BY <2>1, <2>2
<1>14. EpochsRecorded'
  <2> SUFFICES ASSUME NEW v \in DOMAIN users \ half
               PROVE  \/ users[v].epoch = 0
                      \/ v \in DOMAIN revocations' /\ revocations'[v].epoch = users[v].epoch
                      \/ \E d \in AuthClients : ToRecord(authReq'[d], v)
    BY <1>1 DEF EpochsRecorded
  <2>1. CASE v = u
    BY <1>5, <1>8, <2>1
  <2>2. CASE v # u
    <3>1. v \in DOMAIN revocations => v \in DOMAIN revocations' /\ revocations'[v] = revocations[v]
      BY <1>5, <2>2
    <3>2. \A d \in AuthClients : ToRecord(authReq[d], v) => d # c
      BY <2>2 DEF ToRecord, u, r
    <3>. QED
      BY <1>4, <3>1, <3>2 DEF AuthInv, EpochsRecorded
  <2>. QED
    BY <2>1, <2>2
<1>15. RefreshEnded'
  <2>1. \A d \in AuthClients, v \in DOMAIN users : ToRevoke(authReq[d], v) => ToRevoke(authReq'[d], v)
    <3>1. ASSUME NEW v \in DOMAIN users, ToRevoke(authReq[c], v)
          PROVE  ToRevoke(q, v)
      <4>1. v = u /\ r.how = "delete"
        BY <1>1, <3>1 DEF ToRevoke, u, r
      <4>. QED
        BY <1>2, <4>1
    <3>. QED
      BY <1>4, <3>1
  <2>. QED
    BY <1>1, <2>1 DEF AuthInv, RefreshEnded
<1>. QED
  BY <1>9, <1>10, <1>11, <1>12, <1>13, <1>14, <1>15 DEF AuthInv

LEMMA RowKeeps ==
    ASSUME AuthInv, NEW c \in AuthClients, RevokeRow(c)
    PROVE  AuthInv'
<1> DEFINE r == authReq[c]
           u == r.u
<1>1. /\ r.op = "revoke" /\ r.at = "row" /\ Under(r) /\ Ends(c)
      /\ UNCHANGED <<refresh, idTokens, codes, revocations, gate, authClock, half>>
      /\ users' = [v \in DOMAIN users \ {u} |-> users[v]]
  BY DEF RevokeRow, Under
<1>2. u \in DOMAIN revocations
  BY <1>1, RequestOf DEF AuthInv, UnderOk, ReqShape
<1>3. DOMAIN authReq' = AuthClients /\ \A d \in AuthClients : authReq'[d] = IF d = c THEN NoAuth ELSE authReq[d]
  BY <1>1 DEF AuthInv, ReqsOk, Goes, Ends
<1>4. /\ \A v : ~ToRecord(r, v) /\ ~ToRevoke(r, v)
      /\ \A v : ~ToRecord(NoAuth, v) /\ ~ToRevoke(NoAuth, v)
  BY <1>1, NoAuthOk DEF ToRecord, ToRevoke
<1> HIDE DEF r, u
<1>5. DOMAIN users' = DOMAIN users \ {u} /\ \A v \in DOMAIN users' : users'[v] = users[v]
  BY <1>1
<1>6. DOMAIN users' \cup DOMAIN revocations = DOMAIN users \cup DOMAIN revocations
  BY <1>2, <1>5
<1>7. Numbered'
  <2>1. \A v \in DOMAIN users' : users'[v] \in UserRow
    BY <1>5, Accounts
  <2>. QED
    BY <1>1, <1>6, <2>1 DEF AuthInv, Numbered
<1>8. RecordsBehind'
  BY <1>1, <1>5 DEF AuthInv, RecordsBehind, Known
<1>9. RefreshOk' /\ CodesOk' /\ TokensOk' /\ AuthNumbers'
  BY <1>1 DEF AuthInv, RefreshOk, CodesOk, TokensOk, AuthNumbers
<1>10. ReqsOk'
  BY <1>1, <1>3, NoAuthOk DEF AuthInv, ReqsOk
<1>11. UnderOk'
  BY <1>1, <1>3, <1>6, NoAuthOk DEF AuthInv, UnderOk
<1>12. \A d \in AuthClients, v \in DOMAIN users : /\ ToRecord(authReq[d], v) => ToRecord(authReq'[d], v)
                                                  /\ ToRevoke(authReq[d], v) => ToRevoke(authReq'[d], v)
  BY <1>3, <1>4 DEF r
<1>13. EpochsRecorded'
  BY <1>1, <1>5, <1>12 DEF AuthInv, EpochsRecorded
<1>14. RefreshEnded'
  BY <1>1, <1>5, <1>12 DEF AuthInv, RefreshEnded
<1>. QED
  BY <1>7, <1>8, <1>9, <1>10, <1>11, <1>13, <1>14 DEF AuthInv

-----------------------------------------------------------------------------
\* Time, crashes and the start.

LEMMA TickKeeps ==
    ASSUME AuthInv, AuthTick
    PROVE  AuthInv'
<1>1. /\ UNCHANGED <<users, refresh, idTokens, codes, revocations, gate, authReq, half>>
      /\ authClock' = authClock + 1 /\ authClock \in Nat
  BY DEF AuthTick, AuthInv, AuthNumbers
<1>2. Numbered' /\ RefreshOk' /\ CodesOk' /\ UnderOk' /\ EpochsRecorded' /\ RefreshEnded' /\ AuthNumbers'
  BY <1>1 DEF AuthInv, Numbered, RefreshOk, CodesOk, UnderOk, EpochsRecorded, RefreshEnded, AuthNumbers
<1>3. RecordsBehind'
  BY <1>1, Accounts DEF AuthInv, RecordsBehind, Known
<1>4. TokensOk'
  <2>1. \A t \in idTokens : t.exp <= authClock + AccessTTL => t.exp <= authClock' + AccessTTL
    BY <1>1, AuthConstants DEF AuthInv, TokensOk, IdentityClaims
  <2>. QED
    BY <1>1, <2>1 DEF AuthInv, TokensOk
<1>5. ReqsOk'
  <2> SUFFICES ASSUME NEW c \in AuthClients
               PROVE  ReqShape(authReq[c]) /\ ReqTimely(authReq[c], revocations, authClock + 1)
    BY <1>1 DEF AuthInv, ReqsOk
  <2>1. ReqShape(authReq[c]) /\ ReqTimely(authReq[c], revocations, authClock)
    BY RequestOf
  <2>2. authReq[c].op # "none" => authClock < authReq[c].since + Slack
    BY NoAuthOk DEF AuthTick
  <2> DEFINE r == authReq[c]
  <2> HIDE DEF r
  <2>3. r.op # "none" => r.since \in Nat /\ r.since <= authClock + 1 /\ authClock + 1 <= r.since + Slack
    BY <1>1, <2>1, <2>2, AuthConstants DEF ReqTimely, r
  <2>. QED
    BY <2>1, <2>3 DEF ReqTimely, r
<1>. QED
  BY <1>2, <1>3, <1>4, <1>5 DEF AuthInv

LEMMA CrashKeeps ==
    ASSUME AuthInv, AuthCrash
    PROVE  AuthInv'
<1>1. /\ UNCHANGED <<users, refresh, idTokens, codes, revocations, gate, authClock>>
      /\ half' = half \cup {authReq[c].u : c \in {d \in AuthClients : Begun(d)}}
      /\ DOMAIN authReq' = AuthClients /\ \A c \in AuthClients : authReq'[c] = NoAuth
  BY DEF AuthCrash
<1>2. Numbered' /\ RecordsBehind' /\ RefreshOk' /\ CodesOk' /\ TokensOk'
  BY <1>1 DEF AuthInv, Numbered, RecordsBehind, RefreshOk, CodesOk, TokensOk, Known
<1>3. ReqsOk' /\ UnderOk'
  BY <1>1, NoAuthOk DEF ReqsOk, UnderOk
<1>4. AuthNumbers'
  <2>1. \A c \in AuthClients : Begun(c) => authReq[c].u \in Uids
    BY RequestOf DEF Begun, ReqShape
  <2>. QED
    BY <1>1, <2>1 DEF AuthInv, AuthNumbers
<1>5. \A u : u \notin half' => /\ u \notin half
                               /\ \A c \in AuthClients : ~ToRecord(authReq[c], u) /\ ~ToRevoke(authReq[c], u)
  BY <1>1 DEF Begun, ToRecord, ToRevoke, Under
<1>6. EpochsRecorded'
  BY <1>1, <1>5 DEF AuthInv, EpochsRecorded
<1>7. RefreshEnded'
  BY <1>1, <1>5 DEF AuthInv, RefreshEnded
<1>. QED
  BY <1>2, <1>3, <1>4, <1>6, <1>7 DEF AuthInv

LEMMA InitAuth ==
    ASSUME AuthInit
    PROVE  AuthInv
<1>1. DOMAIN users = {} /\ DOMAIN revocations = {} /\ DOMAIN refresh = {} /\ DOMAIN codes = {}
      /\ refresh \in Seq(RefreshRow) /\ codes \in Seq(CodeRow) /\ idTokens = {} /\ half = {}
      /\ gate = FALSE /\ authClock = 1
  BY DEF AuthInit, None
<1>2. DOMAIN authReq = AuthClients /\ \A c \in AuthClients : authReq[c] = NoAuth
  BY DEF AuthInit
<1>3. Numbered
  <2>1. 0 \in 0..MaxUsers /\ 1..0 = {}
    BY AuthConstants
  <2>. QED
    BY <1>1, <2>1 DEF Numbered
<1>4. RecordsBehind /\ RefreshOk /\ CodesOk /\ TokensOk /\ AuthNumbers /\ EpochsRecorded /\ RefreshEnded
  BY <1>1 DEF RecordsBehind, RefreshOk, CodesOk, TokensOk, AuthNumbers, EpochsRecorded, RefreshEnded
<1>5. ReqsOk /\ UnderOk
  BY <1>2, NoAuthOk DEF ReqsOk, UnderOk
<1>. QED
  BY <1>3, <1>4, <1>5 DEF AuthInv

LEMMA AuthStutters ==
    ASSUME AuthInv, UNCHANGED AuthVars
    PROVE  AuthInv'
<1>1. Aside /\ SameAccounts
  BY AsideStays, SameUsers DEF AuthVars
<1>. QED
  BY <1>1, AsideStep, SameRefresh, SameCodes, SameTokens DEF AuthVars, AuthInv, AuthNumbers

LEMMA AuthStep ==
    ASSUME AuthInv, [AuthNext]_AuthVars
    PROVE  AuthInv'
<1>1. ASSUME NEW c \in AuthClients, NEW h \in Handles, NEW pw \in Passwords, NEW b \in BOOLEAN,
             CreateUser(c, h, pw, b)
      PROVE  AuthInv'
  BY <1>1, CreateKeeps
<1>2. ASSUME NEW c \in AuthClients, NEW h \in Handles, NEW pw \in Passwords, SignIn(c, h, pw)
      PROVE  AuthInv'
  BY <1>2, SignInKeeps
<1>3. ASSUME NEW c \in AuthClients, Issue(c)
      PROVE  AuthInv'
  BY <1>3, IssueKeeps
<1>4. ASSUME NEW c \in AuthClients, NEW k \in 1..MaxTokens, RotateRefresh(c, k)
      PROVE  AuthInv'
  BY <1>4, RotateKeeps
<1>5. ASSUME NEW c \in AuthClients, Reread(c)
      PROVE  AuthInv'
  BY <1>5, RereadKeeps
<1>6. ASSUME NEW c \in AuthClients, NEW k \in 1..MaxTokens, SignOut(c, k)
      PROVE  AuthInv'
  BY <1>6, SignOutKeeps
<1>7. ASSUME NEW c \in AuthClients, NEW h \in Handles, NEW p \in Purposes, CodeStart(c, h, p)
      PROVE  AuthInv'
  BY <1>7, CodeStartKeeps
<1>8. ASSUME NEW c \in AuthClients, CodeLook(c) \/ CodeClear(c) \/ CodeInsert(c)
      PROVE  AuthInv'
  BY <1>8, CodeKeeps
<1>9. ASSUME NEW c \in AuthClients, NEW h \in Handles, NEW p \in Purposes, NEW right \in BOOLEAN,
             CodeShown(c, h, p, right)
      PROVE  AuthInv'
  BY <1>9, CodeShownKeeps
<1>10. ASSUME NEW c \in AuthClients, CodeBurn(c)
       PROVE  AuthInv'
  BY <1>10, CodeBurnKeeps
<1>11. ASSUME NEW c \in AuthClients, SetEmailVerified(c)
       PROVE  AuthInv'
  BY <1>11, VerifiedKeeps
<1>12. ASSUME NEW c \in AuthClients, NEW u \in Uids, NEW how \in {"disable", "delete"}, Revoke(c, u, how)
       PROVE  AuthInv'
  BY <1>12, RevokeKeeps
<1>13. ASSUME NEW c \in AuthClients, NEW pw \in Passwords, RevokeEpoch(c, pw)
       PROVE  AuthInv'
  BY <1>13, EpochKeeps
<1>14. ASSUME NEW c \in AuthClients, RevokeTokens(c)
       PROVE  AuthInv'
  BY <1>14, TokensKeep
<1>15. ASSUME NEW c \in AuthClients, RevokeRecord(c)
       PROVE  AuthInv'
  BY <1>15, RecordKeeps
<1>16. ASSUME NEW c \in AuthClients, RevokeRow(c)
       PROVE  AuthInv'
  BY <1>16, RowKeeps
<1>17. ASSUME NEW u \in Uids, Enable(u)
       PROVE  AuthInv'
  BY <1>17, EnableKeeps
<1>. QED
  BY <1>1, <1>2, <1>3, <1>4, <1>5, <1>6, <1>7, <1>8, <1>9, <1>10, <1>11, <1>12, <1>13, <1>14, <1>15,
     <1>16, <1>17, GateKeeps, TickKeeps, CrashKeeps, AuthStutters DEF AuthNext

\* What it was for: an epoch that moved on, with nobody at work on it and no crash in between, is
\* the one on record, and what was read before it ends within the window.
LEMMA DeadStay ==
    ASSUME AuthInv, NEW t \in idTokens, t.ce < EpochOf(t.sub), Settled(t.sub)
    PROVE  ~Verifies(t)
<1> DEFINE u == t.sub
<1>1. t \in IdentityClaims /\ t.ce \in Nat /\ t.exp \in Nat
  BY DEF AuthInv, TokensOk, IdentityClaims
<1>2. u \in DOMAIN revocations /\ t.ce < revocations[u].epoch
  <2>1. CASE u \in DOMAIN users
    <3>1. EpochOf(u) = users[u].epoch /\ users[u].epoch \in Nat
      BY <2>1, Accounts DEF EpochOf, Known
    <3>2. u \in DOMAIN users \ half /\ \A c \in AuthClients : ~ToRecord(authReq[c], u)
      BY <2>1 DEF Settled, Begun, ToRecord, Under
    <3>3. u \in DOMAIN revocations /\ revocations[u].epoch = users[u].epoch
      BY <1>1, <3>1, <3>2 DEF AuthInv, EpochsRecorded
    <3>. QED
      BY <3>1, <3>3
  <2>2. CASE u \notin DOMAIN users
    BY <1>1, <2>2 DEF EpochOf, Known
  <2>. QED
    BY <2>1, <2>2
<1>3. t.exp <= revocations[u].at + Window
  BY <1>2 DEF AuthInv, TokensOk
<1>4. revocations[u].at + Window \in Nat /\ authClock \in Nat
  BY <1>2, Accounts, AuthConstants DEF AuthInv, AuthNumbers
<1> HIDE DEF u
<1>5. CASE t.exp > authClock
  <2>1. revocations[u].at + Window >= authClock
    BY <1>1, <1>3, <1>4, <1>5
  <2>. QED
    BY <1>2, <2>1 DEF Verifies, Revoked, RevokedEpoch, u
<1>. QED
  BY <1>5 DEF Verifies, VerifyIdentity

LEMMA AuthHolds ==
    ASSUME AuthInv
    PROVE  SessionsHold
<1>1. AuthTyped
  BY Accounts DEF AuthInv, TokensOk, CodesOk, AuthNumbers, AuthTyped, RecordsBehind
<1>2. RevokedStayDead
  BY DeadStay DEF RevokedStayDead
<1>3. SessionsRevoked
  <2> SUFFICES ASSUME NEW k \in DOMAIN refresh, Known(refresh[k].uid), Settled(refresh[k].uid),
                      refresh[k].made < EpochOf(refresh[k].uid)
               PROVE  refresh[k].revoked
    BY DEF SessionsRevoked
  <2>1. /\ refresh[k].uid \in DOMAIN users \ half
        /\ \A c \in AuthClients : ~ToRevoke(authReq[c], refresh[k].uid)
    BY DEF Settled, Begun, ToRevoke, Under, Known
  <2>. QED
    BY <2>1 DEF AuthInv, RefreshEnded, EpochOf
<1>4. RefreshedOnce
  <2>1. \A k \in DOMAIN refresh : refresh[k] \in RefreshRow
    BY DEF AuthInv, RefreshOk
  <2>. QED
    BY <2>1 DEF RefreshedOnce, RefreshRow
<1>. QED
  BY <1>1, <1>2, <1>3, <1>4 DEF SessionsHold

\* Whatever the interleaving of handlers and wherever a crash falls: an identity token of an epoch
\* that was ended never verifies again, its refresh tokens are revoked, and one is exchanged once
\* (SetDisabled, DeleteUser, SetPassword, recordRevocation, RotateRefresh).
THEOREM SessionsKept == AuthSpec => []SessionsHold
<1>1. AuthInit => AuthInv
  BY InitAuth
<1>2. AuthInv /\ [AuthNext]_AuthVars => AuthInv'
  BY AuthStep
<1>3. AuthInv => SessionsHold
  BY AuthHolds
<1>. QED
  BY <1>1, <1>2, <1>3, PTL DEF AuthSpec

-----------------------------------------------------------------------------
(* Sockets and rooms *)

Pids == EndUsers \cup PresenceIds \cup {NoOne}
Pass == [channels : SUBSET Channels, exp : Int, pub : {"none", "http", "ws", "all"},
         pid : Pids, sub : EndUsers \cup {NoOne}, ce : Nat]
ConnRow == [at : {"opening", "subscribing", "unsubscribing", "publishing", "open", "leaving"},
            tok : Pass, todo : Seq(Channels), subscribed : SUBSET Channels, pid : Pids, ok : BOOLEAN]
Message == [type : {"message"}, ch : Channels, n : Nat, from : Actors]

\* An end user's token names what its patterns permit, and ends with its identity.
PassOk(t, now) ==
    /\ t \in Pass
    /\ t.sub # NoOne => t.channels \subseteq Permitted[t.sub] /\ t.exp <= now + IdentityTTL

PassesOk ==
    /\ \A t \in minted : PassOk(t, hubClock)
    /\ ident \in [EndUsers -> [exp : Nat, ce : Nat]] /\ epoch \in [EndUsers -> Nat]
    /\ \A u \in EndUsers : ident[u].exp <= hubClock + IdentityTTL

\* A connection is in the rooms its own list names, all of its token, and is about to join none but.
OpensWithin(q) == q.at = "opening" => \A i \in DOMAIN q.todo : q.todo[i] \in q.tok.channels
ConnsOk ==
    /\ rooms \in [Channels -> SUBSET Sockets] /\ DOMAIN conn = Sockets
    /\ \A s \in Sockets : conn[s] # NoConn =>
          /\ conn[s] \in ConnRow /\ PassOk(conn[s].tok, hubClock) /\ OpensWithin(conn[s])
          /\ conn[s].subscribed \subseteq conn[s].tok.channels
    /\ \A s \in Sockets, ch \in Channels : s \in rooms[ch] <=> conn[s] # NoConn /\ ch \in conn[s].subscribed

\* A message in hand is of the sender, goes to connections whose token names the channel, and is
\* later than all they had from that sender.
ReachOk(f, t) ==
    /\ f.ch \in conn[t].tok.channels
    /\ \A i \in DOMAIN inbox[t] : inbox[t][i].from = f.from => inbox[t][i].n < f.n
CastsOk ==
    /\ DOMAIN cast = Actors
    /\ \A a \in Actors : cast[a] # NoCast =>
          /\ cast[a] = [frame |-> cast[a].frame, to |-> cast[a].to]
          /\ cast[a].to \subseteq Sockets /\ \A t \in cast[a].to : conn[t] # NoConn
          /\ cast[a].frame.type = "message" =>
                /\ cast[a].frame \in Message /\ cast[a].frame.from = a /\ cast[a].frame.n <= published
                /\ \A t \in cast[a].to : ReachOk(cast[a].frame, t)

InboxesOk ==
    /\ inbox \in [Sockets -> Seq(Message)]
    /\ \A s \in Sockets : \A i \in DOMAIN inbox[s] :
          /\ inbox[s][i].n <= published
          /\ conn[s] # NoConn => inbox[s][i].ch \in conn[s].tok.channels
          /\ \A j \in DOMAIN inbox[s] : i < j /\ inbox[s][i].from = inbox[s][j].from => inbox[s][i].n < inbox[s][j].n

RosterOk ==
    /\ announced \in [Channels -> SUBSET (EndUsers \cup PresenceIds)]
    /\ RosterAnnounced

HubNumbers ==
    /\ published \in 0..MaxPublishes /\ hubClock \in 0..MaxHubClock
    /\ live \in [Publishers -> Seq(Channels)]

HubInv == PassesOk /\ ConnsOk /\ CastsOk /\ InboxesOk /\ RosterOk /\ HubNumbers

LEMMA HubConstants ==
    /\ IsFiniteSet(Sockets) /\ IsFiniteSet(Channels) /\ Permitted \in [EndUsers -> SUBSET Channels]
    /\ NoOne \notin EndUsers /\ NoOne \notin PresenceIds
    /\ PerIdentity \in Nat /\ PerIdentity > 0
    /\ MaxTTL \in Nat /\ DefaultTTL \in Nat /\ IdentityTTL \in Nat
    /\ MaxPublishes \in Nat /\ MaxHubClock \in Nat
    /\ \A a \in TokenAsks : /\ a.channels \in SUBSET Channels /\ a.ttl \in Int
                            /\ a.publish \in {"none", "http", "ws", "all"} /\ a.pid \in Pids
    /\ \A w \in LiveWrites : \A i \in DOMAIN w : w[i].part \in Channels \cup {NoOne}
  BY HubAssumption DEF Pids

LEMMA RowIsConn == \A q \in ConnRow : q # NoConn /\ q.at # "none"
<1>1. NoConn.at = "none"
  BY DEF NoConn
<1>2. \A q \in ConnRow : q.at # "none"
  BY DEF ConnRow
<1>. QED
  BY <1>1, <1>2

LEMMA NoConnIs ==
    ASSUME HubInv, NEW s \in Sockets
    PROVE  conn[s].at = "none" <=> conn[s] = NoConn
  BY RowIsConn DEF HubInv, ConnsOk, NoConn

\* Sequences that a set is laid out in.
LEMMA LaidOut ==
    ASSUME NEW S, IsFiniteSet(S), NEW q \in SetToSeqs(S)
    PROVE  q \in Seq(S)
<1>1. Cardinality(S) \in Nat
  BY FS_CardinalityType
<1>2. q \in [1..Cardinality(S) -> S]
  BY DEF SetToSeqs
<1>. QED
  BY <1>1, <1>2

LEMMA LaidOutOnce ==
    ASSUME NEW S, IsFiniteSet(S)
    PROVE  SetToSeq(S) \in Seq(S)
<1>1. Cardinality(S) \in Nat /\ ExistsBijection(1..Cardinality(S), S)
  BY FS_CardinalityType
<1>2. PICK f \in [1..Cardinality(S) -> S] : IsInjective(f)
  BY <1>1 DEF ExistsBijection, Bijection, Injection
<1>3. SetToSeq(S) \in [1..Cardinality(S) -> S]
  BY <1>2, Zenon DEF SetToSeq
<1>. QED
  BY <1>1, <1>3

LEMMA Asked ==
    ASSUME NEW asked \in ChannelLists
    PROVE  asked \in Seq(Channels)
<1>1. PICK c \in SUBSET Channels : asked \in SetToSeqs(c)
  BY DEF ChannelLists
<1>2. IsFiniteSet(c)
  BY HubConstants, FS_Subset
<1>3. asked \in Seq(c)
  BY <1>1, <1>2, LaidOut
<1>. QED
  BY <1>3

\* A connection stays on its channels, and of its token.
ConnStays ==
    /\ DOMAIN conn' = Sockets
    /\ \A s \in Sockets :
          \/ conn'[s] = conn[s]
          \/ /\ conn[s] # NoConn /\ conn'[s] # NoConn /\ conn'[s] \in ConnRow /\ OpensWithin(conn'[s])
             /\ conn'[s].tok = conn[s].tok /\ conn'[s].pid = conn[s].pid
             /\ conn'[s].subscribed = conn[s].subscribed

LEMMA RoomsKeep ==
    ASSUME HubInv, ConnStays, UNCHANGED <<rooms, announced, hubClock>>
    PROVE  ConnsOk' /\ RosterOk'
<1>1. ConnsOk'
  BY DEF HubInv, ConnsOk, ConnStays
<1>2. \A ch \in Channels : \A s \in rooms[ch] : s \in Sockets /\ conn'[s].pid = conn[s].pid /\ conn'[s].tok = conn[s].tok
  BY DEF HubInv, ConnsOk, ConnStays
<1>3. \A ch \in Channels : Members(ch)' = Members(ch)
  BY <1>2 DEF Members
<1>4. \A ch \in Channels, u \in EndUsers : HeldBy(u, ch)' = HeldBy(u, ch)
  BY <1>2 DEF HeldBy
<1>5. RosterAnnounced'
  BY <1>3, <1>4 DEF HubInv, RosterOk, RosterAnnounced
<1>. QED
  BY <1>1, <1>5 DEF HubInv, RosterOk

\* Connections stay, each of its token.
PassesStay ==
    \A s \in Sockets : (conn'[s] = NoConn <=> conn[s] = NoConn) /\ conn'[s].tok = conn[s].tok

LEMMA CastsKeep ==
    ASSUME HubInv, PassesStay, UNCHANGED <<cast, inbox, published>>
    PROVE  CastsOk' /\ InboxesOk'
<1>1. CastsOk'
  BY DEF HubInv, CastsOk, ReachOk, PassesStay
<1>2. InboxesOk'
  BY DEF HubInv, InboxesOk, PassesStay
<1>. QED
  BY <1>1, <1>2

LEMMA StaysOf ==
    ASSUME ConnStays
    PROVE  PassesStay
  BY DEF ConnStays, PassesStay

\* A step of one goroutine that changes only what it is at.
LEMMA ConnStep ==
    ASSUME HubInv, ConnStays,
           UNCHANGED <<rooms, cast, inbox, minted, ident, epoch, hubClock, published, live, announced>>
    PROVE  HubInv'
<1>1. PassesOk' /\ HubNumbers'
  BY DEF HubInv, PassesOk, HubNumbers
<1>. QED
  BY <1>1, RoomsKeep, CastsKeep, StaysOf DEF HubInv

LEMMA ConnSame ==
    ASSUME HubInv, conn' = conn
    PROVE  ConnStays
  BY DEF HubInv, ConnsOk, ConnStays

LEMMA ConnGoes ==
    ASSUME HubInv, NEW s \in Sockets, conn[s] # NoConn, NEW q \in ConnRow, OpensWithin(q),
           q.tok = conn[s].tok, q.pid = conn[s].pid, q.subscribed = conn[s].subscribed,
           conn' = [conn EXCEPT ![s] = q]
    PROVE  ConnStays
<1>1. DOMAIN conn' = Sockets /\ \A x \in Sockets : conn'[x] = IF x = s THEN q ELSE conn[x]
  BY DEF HubInv, ConnsOk
<1>. QED
  BY <1>1, RowIsConn DEF ConnStays

-----------------------------------------------------------------------------
\* Tokens, time, and the lists of the live bridge.

\* A step of none of the connections.
LEMMA NoConnStep ==
    ASSUME HubInv, PassesOk', HubNumbers',
           UNCHANGED <<rooms, conn, cast, inbox, hubClock, published, announced>>
    PROVE  HubInv'
  BY ConnSame, RoomsKeep, CastsKeep, StaysOf DEF HubInv

LEMMA HubSignInKeeps ==
    ASSUME HubInv, NEW u \in EndUsers, HubSignIn(u)
    PROVE  HubInv'
<1> DEFINE i == [exp |-> hubClock + IdentityTTL, ce |-> epoch[u]]
<1>1. hubClock \in Nat /\ IdentityTTL \in Nat /\ epoch[u] \in Nat
  BY HubConstants DEF HubInv, HubNumbers, PassesOk
<1>2. i \in [exp : Nat, ce : Nat] /\ i.exp = hubClock + IdentityTTL
  BY <1>1
<1> HIDE DEF i
<1>3. ident' = [ident EXCEPT ![u] = i]
  BY DEF HubSignIn, i
<1>4. PassesOk'
  BY <1>1, <1>2, <1>3 DEF HubInv, PassesOk, HubSignIn
<1>5. HubNumbers'
  BY DEF HubInv, HubNumbers, HubSignIn
<1>. QED
  BY <1>4, <1>5, NoConnStep DEF HubSignIn

LEMMA HubRevokeKeeps ==
    ASSUME HubInv, NEW u \in EndUsers, HubRevoke(u)
    PROVE  HubInv'
<1>1. PassesOk' /\ HubNumbers'
  BY DEF HubInv, PassesOk, HubNumbers, HubRevoke
<1>. QED
  BY <1>1, NoConnStep DEF HubRevoke

LEMMA ClampWhole == \A ttl \in Int : ClampTTL(ttl) \in Int
  BY HubConstants DEF ClampTTL

LEMMA MintKeeps ==
    ASSUME HubInv, NEW a \in TokenAsks, Mint(a)
    PROVE  HubInv'
<1>1. hubClock \in Nat /\ IdentityTTL \in Nat /\ hubClock + ClampTTL(a.ttl) \in Int
  <2>1. hubClock \in Nat /\ IdentityTTL \in Nat
    BY HubConstants DEF HubInv, HubNumbers
  <2>2. ClampTTL(a.ttl) \in Int
    BY HubConstants, ClampWhole
  <2>. QED
    BY <2>1, <2>2
<1>2. /\ a.channels \in SUBSET Channels /\ a.publish \in {"none", "http", "ws", "all"} /\ a.pid \in Pids
  BY HubConstants
<1>3. PassOk(KeyClaims(a), hubClock)
  <2> DEFINE t == KeyClaims(a)
  <2>1. t \in Pass /\ t.sub = NoOne
    BY <1>1, <1>2 DEF KeyClaims, Pass
  <2> HIDE DEF t
  <2>. QED
    BY <2>1 DEF PassOk, t
<1>4. ASSUME NEW u \in EndUsers, a.channels \subseteq Permitted[u]
      PROVE  PassOk(UserClaims(a, u), hubClock)
  <2> DEFINE t == UserClaims(a, u)
             asked == hubClock + ClampTTL(a.ttl)
             exp == IF ident[u].exp < asked THEN ident[u].exp ELSE asked
  <2>1. ident[u].exp \in Nat /\ ident[u].ce \in Nat /\ ident[u].exp <= hubClock + IdentityTTL
    BY DEF HubInv, PassesOk
  <2>2. asked \in Int
    BY <1>1
  <2> HIDE DEF asked
  <2>3. exp \in Int /\ exp <= hubClock + IdentityTTL
    BY <1>1, <2>1, <2>2
  <2>4. t = [channels |-> a.channels, exp |-> exp, pub |-> "none", pid |-> u, sub |-> u, ce |-> ident[u].ce]
    BY DEF UserClaims, asked
  <2> HIDE DEF exp, t
  <2>5. t \in Pass /\ t.sub = u /\ t.channels = a.channels /\ t.exp = exp
    BY <1>2, <2>1, <2>3, <2>4 DEF Pass, Pids
  <2>6. PassOk(t, hubClock)
    BY <1>4, <2>3, <2>5 DEF PassOk
  <2>. QED
    BY <2>6 DEF t
<1>5. PassesOk'
  <2>1. \A t \in minted' : PassOk(t, hubClock)
    BY <1>3, <1>4 DEF Mint, HubInv, PassesOk
  <2>. QED
    BY <2>1 DEF HubInv, PassesOk, Mint
<1>6. HubNumbers'
  BY DEF HubInv, HubNumbers, Mint
<1>. QED
  BY <1>5, <1>6, NoConnStep DEF Mint

LEMMA PassLasts ==
    ASSUME NEW t, NEW now \in Nat, PassOk(t, now)
    PROVE  PassOk(t, now + 1)
<1>1. t.exp \in Int /\ IdentityTTL \in Nat
  BY HubConstants DEF PassOk, Pass
<1>. QED
  BY <1>1 DEF PassOk

LEMMA HubTickKeeps ==
    ASSUME HubInv, HubTick
    PROVE  HubInv'
<1>1. hubClock \in Nat /\ hubClock' = hubClock + 1 /\ hubClock' \in 0..MaxHubClock
  BY HubConstants DEF HubTick, HubInv, HubNumbers
<1>2. UNCHANGED <<rooms, conn, cast, inbox, minted, ident, epoch, published, live, announced>>
  BY DEF HubTick
<1>3. PassesOk'
  <2>1. \A t \in minted : PassOk(t, hubClock + 1)
    BY <1>1, PassLasts DEF HubInv, PassesOk
  <2>2. \A u \in EndUsers : ident[u].exp <= hubClock + 1 + IdentityTTL
    BY <1>1, HubConstants DEF HubInv, PassesOk
  <2>. QED
    BY <1>1, <1>2, <2>1, <2>2 DEF HubInv, PassesOk
<1>4. ConnsOk'
  <2>1. \A s \in Sockets : conn[s] # NoConn => PassOk(conn[s].tok, hubClock + 1)
    BY <1>1, PassLasts DEF HubInv, ConnsOk
  <2>. QED
    BY <1>1, <1>2, <2>1 DEF HubInv, ConnsOk
<1>5. CastsOk' /\ InboxesOk'
  BY <1>2, ConnSame, CastsKeep, StaysOf
<1>6. RosterOk'
  BY <1>2 DEF HubInv, RosterOk, RosterAnnounced, Members, HeldBy
<1>7. HubNumbers'
  BY <1>1, <1>2 DEF HubInv, HubNumbers
<1>. QED
  BY <1>3, <1>4, <1>5, <1>6, <1>7 DEF HubInv

LEMMA EmitLiveKeeps ==
    ASSUME HubInv, NEW p \in Publishers, NEW docs \in LiveWrites, EmitLive(p, docs)
    PROVE  HubInv'
<1> DEFINE parts == {docs[i].part : i \in DOMAIN docs} \ {NoOne}
<1>1. DOMAIN LiveGroups(docs) = parts
  BY DEF LiveGroups
<1>2. parts \in SUBSET Channels
  BY HubConstants
<1>3. IsFiniteSet(parts)
  BY <1>2, HubConstants, FS_Subset
<1> HIDE DEF parts
<1>4. PICK order \in SetToSeqs(parts) : live' = [live EXCEPT ![p] = order]
  BY <1>1 DEF EmitLive
<1>5. order \in Seq(Channels)
  <2>1. order \in Seq(parts)
    BY <1>3, LaidOut
  <2>. QED
    BY <1>2, <2>1
<1>6. PassesOk' /\ HubNumbers'
  BY <1>4, <1>5 DEF HubInv, PassesOk, HubNumbers, EmitLive
<1>. QED
  BY <1>6, NoConnStep DEF EmitLive

-----------------------------------------------------------------------------
\* What a socket's goroutine does by itself.

\* A connection that is at something, and changes no more than that.
LEMMA RowOf ==
    ASSUME HubInv, NEW s \in Sockets, conn[s].at # "none"
    PROVE  /\ conn[s] # NoConn /\ conn[s] \in ConnRow /\ PassOk(conn[s].tok, hubClock)
           /\ OpensWithin(conn[s]) /\ conn[s].subscribed \subseteq conn[s].tok.channels
           /\ conn[s].tok.channels \subseteq Channels
<1>1. conn[s] # NoConn
  BY DEF NoConn
<1>2. conn[s] \in ConnRow /\ conn[s].tok \in Pass
  BY <1>1 DEF HubInv, ConnsOk, PassOk
<1>. QED
  BY <1>1, <1>2 DEF HubInv, ConnsOk, Pass

LEMMA AcknowledgeKeeps ==
    ASSUME HubInv, NEW s \in Sockets, Acknowledge(s)
    PROVE  HubInv'
<1> DEFINE q == [conn[s] EXCEPT !.at = "open"]
<1>1. conn[s].at # "none" /\ conn' = [conn EXCEPT ![s] = q]
  BY DEF Acknowledge
<1>2. conn[s] \in ConnRow /\ conn[s] # NoConn
  BY <1>1, RowOf
<1>3. /\ q \in ConnRow /\ q.at = "open" /\ q.tok = conn[s].tok /\ q.pid = conn[s].pid
      /\ q.subscribed = conn[s].subscribed
  BY <1>2 DEF ConnRow
<1> HIDE DEF q
<1>4. OpensWithin(q)
  BY <1>3 DEF OpensWithin
<1>. QED
  BY <1>1, <1>2, <1>3, <1>4, ConnGoes, ConnStep DEF Acknowledge

LEMMA ReadFailsKeeps ==
    ASSUME HubInv, NEW s \in Sockets, ReadFails(s)
    PROVE  HubInv'
<1> DEFINE q == [conn[s] EXCEPT !.at = "leaving"]
<1>1. conn[s].at # "none" /\ conn' = [conn EXCEPT ![s] = q]
  BY DEF ReadFails
<1>2. conn[s] \in ConnRow /\ conn[s] # NoConn
  BY <1>1, RowOf
<1>3. /\ q \in ConnRow /\ q.at = "leaving" /\ q.tok = conn[s].tok /\ q.pid = conn[s].pid
      /\ q.subscribed = conn[s].subscribed
  BY <1>2 DEF ConnRow
<1> HIDE DEF q
<1>4. OpensWithin(q)
  BY <1>3 DEF OpensWithin
<1>. QED
  BY <1>1, <1>2, <1>3, <1>4, ConnGoes, ConnStep DEF ReadFails

LEMMA WriteBreaksKeeps ==
    ASSUME HubInv, NEW s \in Sockets, WriteBreaks(s)
    PROVE  HubInv'
<1> DEFINE q == [conn[s] EXCEPT !.ok = FALSE]
<1>1. conn[s].at # "none" /\ conn' = [conn EXCEPT ![s] = q]
  BY DEF WriteBreaks
<1>2. conn[s] \in ConnRow /\ conn[s] # NoConn /\ OpensWithin(conn[s])
  BY <1>1, RowOf
<1>3. /\ q \in ConnRow /\ q.at = conn[s].at /\ q.todo = conn[s].todo /\ q.tok = conn[s].tok
      /\ q.pid = conn[s].pid /\ q.subscribed = conn[s].subscribed
  BY <1>2 DEF ConnRow
<1> HIDE DEF q
<1>4. OpensWithin(q)
  BY <1>2, <1>3 DEF OpensWithin
<1>. QED
  BY <1>1, <1>2, <1>3, <1>4, ConnGoes, ConnStep DEF WriteBreaks

LEMMA HandleFrameKeeps ==
    ASSUME HubInv, NEW s \in Sockets, NEW at \in {"subscribing", "unsubscribing"}, NEW chs \in ChannelLists,
           HandleFrame(s, at, chs)
    PROVE  HubInv'
<1> DEFINE q == [conn[s] EXCEPT !.at = at, !.todo = chs]
<1>1. conn[s].at # "none" /\ conn' = [conn EXCEPT ![s] = q]
  BY DEF HandleFrame, Reads
<1>2. conn[s] \in ConnRow /\ conn[s] # NoConn
  BY <1>1, RowOf
<1>3. /\ q \in ConnRow /\ q.at = at /\ q.tok = conn[s].tok /\ q.pid = conn[s].pid
      /\ q.subscribed = conn[s].subscribed
  <2>1. chs \in Seq(Channels)
    BY Asked
  <2>. QED
    BY <1>2, <2>1 DEF ConnRow
<1> HIDE DEF q
<1>4. OpensWithin(q)
  BY <1>3 DEF OpensWithin
<1>. QED
  BY <1>1, <1>2, <1>3, <1>4, ConnGoes, ConnStep DEF HandleFrame

-----------------------------------------------------------------------------
\* Connections open and close.

\* Nobody enters or leaves a room.
LEMMA RosterKeeps ==
    ASSUME HubInv, UNCHANGED <<rooms, announced>>,
           \A ch \in Channels : \A x \in rooms[ch] : conn'[x].pid = conn[x].pid /\ conn'[x].tok = conn[x].tok
    PROVE  RosterOk'
<1>1. \A ch \in Channels : Members(ch)' = Members(ch)
  BY DEF Members
<1>2. \A ch \in Channels, u \in EndUsers : HeldBy(u, ch)' = HeldBy(u, ch)
  BY DEF HeldBy
<1>3. RosterAnnounced'
  BY <1>1, <1>2 DEF HubInv, RosterOk, RosterAnnounced
<1>. QED
  BY <1>3 DEF HubInv, RosterOk

LEMMA UpgradeKeeps ==
    ASSUME HubInv, NEW s \in Sockets, NEW t \in minted, NEW asked \in Seq(Channels), Upgrade(s, t, asked)
    PROVE  HubInv'
<1> DEFINE pid == IF PresenceOn THEN t.pid ELSE NoOne
           q == [at |-> "opening", tok |-> t, todo |-> asked, subscribed |-> {}, pid |-> pid, ok |-> TRUE]
<1>1. /\ conn' = [conn EXCEPT ![s] = q] /\ inbox' = [inbox EXCEPT ![s] = <<>>]
      /\ UNCHANGED <<rooms, cast, minted, ident, epoch, hubClock, published, live, announced>>
      /\ ToSet(asked) \subseteq t.channels
  BY DEF Upgrade, Admits
<1>2. conn[s] = NoConn
  BY NoConnIs DEF Upgrade
<1>3. t \in Pass /\ PassOk(t, hubClock)
  BY DEF HubInv, PassesOk, PassOk
<1>4. pid \in Pids
  BY <1>3 DEF Pass, Pids
<1> HIDE DEF pid
<1>5. q \in ConnRow /\ q.tok = t /\ q.subscribed = {} /\ OpensWithin(q)
  <2>1. \A i \in DOMAIN asked : asked[i] \in t.channels
    BY <1>1 DEF ToSet
  <2>2. q \in ConnRow
    BY <1>3, <1>4 DEF ConnRow
  <2>. QED
    BY <2>1, <2>2 DEF OpensWithin
<1> HIDE DEF q
<1>6. DOMAIN conn' = Sockets /\ \A x \in Sockets : conn'[x] = IF x = s THEN q ELSE conn[x]
  BY <1>1 DEF HubInv, ConnsOk
<1>7. \A ch \in Channels : s \notin rooms[ch]
  BY <1>2 DEF HubInv, ConnsOk
<1>8. PassesOk' /\ HubNumbers'
  BY <1>1 DEF HubInv, PassesOk, HubNumbers
<1>9. ConnsOk'
  <2>1. \A x \in Sockets : conn'[x] # NoConn =>
           /\ conn'[x] \in ConnRow /\ PassOk(conn'[x].tok, hubClock) /\ OpensWithin(conn'[x])
           /\ conn'[x].subscribed \subseteq conn'[x].tok.channels
    BY <1>3, <1>5, <1>6 DEF HubInv, ConnsOk
  <2>2. \A x \in Sockets, ch \in Channels : x \in rooms[ch] <=> conn'[x] # NoConn /\ ch \in conn'[x].subscribed
    BY <1>2, <1>5, <1>6, <1>7 DEF HubInv, ConnsOk
  <2>. QED
    BY <1>1, <1>6, <2>1, <2>2 DEF HubInv, ConnsOk
<1>10. inbox' \in [Sockets -> Seq(Message)] /\ inbox'[s] = <<>> /\ \A x \in Sockets : x # s => inbox'[x] = inbox[x]
  BY <1>1 DEF HubInv, InboxesOk
<1>11. InboxesOk'
  BY <1>1, <1>6, <1>10 DEF HubInv, InboxesOk
<1>12. CastsOk'
  <2>1. \A a \in Actors : cast[a] # NoCast => cast[a].to \subseteq Sockets /\ s \notin cast[a].to
    BY <1>2 DEF HubInv, CastsOk
  <2>2. \A a \in Actors : cast[a] # NoCast => \A x \in cast[a].to :
           conn'[x] # NoConn /\ conn'[x] = conn[x] /\ inbox'[x] = inbox[x]
    BY <1>6, <1>10, <2>1 DEF HubInv, CastsOk
  <2>. QED
    BY <1>1, <2>2 DEF HubInv, CastsOk, ReachOk
<1>13. RosterOk'
  <2>1. \A ch \in Channels : \A x \in rooms[ch] : conn'[x] = conn[x]
    BY <1>6, <1>7 DEF HubInv, ConnsOk
  <2>. QED
    BY <1>1, <2>1, RosterKeeps
<1>. QED
  BY <1>8, <1>9, <1>11, <1>12, <1>13 DEF HubInv

LEMMA CloseKeeps ==
    ASSUME HubInv, NEW s \in Sockets, CloseSocket(s)
    PROVE  HubInv'
<1>1. /\ conn' = [conn EXCEPT ![s] = NoConn] /\ inbox' = [inbox EXCEPT ![s] = <<>>]
      /\ cast' = [x \in Actors |-> IF cast[x].to \subseteq {s} THEN NoCast ELSE [cast[x] EXCEPT !.to = cast[x].to \ {s}]]
      /\ UNCHANGED <<rooms, minted, ident, epoch, hubClock, published, live, announced>>
      /\ conn[s].subscribed = {}
  BY DEF CloseSocket
<1>2. DOMAIN conn' = Sockets /\ \A x \in Sockets : conn'[x] = IF x = s THEN NoConn ELSE conn[x]
  BY <1>1 DEF HubInv, ConnsOk
<1>3. \A ch \in Channels : s \notin rooms[ch]
  BY <1>1 DEF HubInv, ConnsOk
<1>4. PassesOk' /\ HubNumbers'
  BY <1>1 DEF HubInv, PassesOk, HubNumbers
<1>5. ConnsOk'
  <2>1. \A x \in Sockets : conn'[x] # NoConn =>
           /\ conn'[x] \in ConnRow /\ PassOk(conn'[x].tok, hubClock) /\ OpensWithin(conn'[x])
           /\ conn'[x].subscribed \subseteq conn'[x].tok.channels
    BY <1>2 DEF HubInv, ConnsOk
  <2>2. \A x \in Sockets, ch \in Channels : x \in rooms[ch] <=> conn'[x] # NoConn /\ ch \in conn'[x].subscribed
    BY <1>2, <1>3 DEF HubInv, ConnsOk
  <2>. QED
    BY <1>1, <1>2, <2>1, <2>2 DEF HubInv, ConnsOk
<1>6. inbox' \in [Sockets -> Seq(Message)] /\ inbox'[s] = <<>> /\ \A x \in Sockets : x # s => inbox'[x] = inbox[x]
  BY <1>1 DEF HubInv, InboxesOk
<1>7. InboxesOk'
  BY <1>1, <1>2, <1>6 DEF HubInv, InboxesOk
<1>8. CastsOk'
  <2>1. DOMAIN cast' = Actors
    BY <1>1
  <2>2. ASSUME NEW a \in Actors, cast'[a] # NoCast
        PROVE  /\ cast[a] # NoCast /\ cast'[a] = [frame |-> cast[a].frame, to |-> cast[a].to \ {s}]
               /\ cast'[a].frame = cast[a].frame /\ cast'[a].to = cast[a].to \ {s}
    <3>1. ~ (cast[a].to \subseteq {s}) /\ cast'[a] = [cast[a] EXCEPT !.to = cast[a].to \ {s}]
      BY <1>1, <2>2
    <3>2. cast[a] # NoCast
      BY <3>1 DEF NoCast
    <3>3. cast[a] = [frame |-> cast[a].frame, to |-> cast[a].to]
      BY <3>2 DEF HubInv, CastsOk
    <3>4. cast'[a] = [frame |-> cast[a].frame, to |-> cast[a].to \ {s}]
      BY <3>1, <3>3
    <3>. QED
      BY <3>2, <3>4
  <2>3. ASSUME NEW a \in Actors, cast'[a] # NoCast
        PROVE  /\ cast'[a].to \subseteq Sockets
               /\ \A x \in cast'[a].to : conn'[x] # NoConn /\ conn'[x] = conn[x] /\ inbox'[x] = inbox[x] /\ x \in cast[a].to
    <3>1. cast[a] # NoCast /\ cast'[a].to = cast[a].to \ {s}
      BY <2>2, <2>3
    <3>2. cast[a].to \subseteq Sockets /\ \A x \in cast[a].to : conn[x] # NoConn
      BY <3>1 DEF HubInv, CastsOk
    <3>. QED
      BY <1>2, <1>6, <3>1, <3>2
  <2>. QED
    BY <1>1, <2>1, <2>2, <2>3 DEF HubInv, CastsOk, ReachOk
<1>9. RosterOk'
  <2>1. \A ch \in Channels : \A x \in rooms[ch] : conn'[x] = conn[x]
    BY <1>2, <1>3 DEF HubInv, ConnsOk
  <2>. QED
    BY <1>1, <2>1, RosterKeeps
<1>. QED
  BY <1>4, <1>5, <1>7, <1>8, <1>9 DEF HubInv

-----------------------------------------------------------------------------
\* A socket enters a room or leaves it.

LEMMA TailWithin ==
    ASSUME NEW q \in Seq(Channels), q # <<>>
    PROVE  /\ Head(q) \in Channels /\ Tail(q) \in Seq(Channels) /\ 1 \in DOMAIN q /\ Head(q) = q[1]
           /\ \A i \in DOMAIN Tail(q) : i + 1 \in DOMAIN q /\ Tail(q)[i] = q[i + 1]
  OBVIOUS

\* One connection's list and room change together.
LEMMA MoveKeeps ==
    ASSUME HubInv, NEW s \in Sockets, NEW ch \in Channels, conn[s].at # "none",
           NEW q \in ConnRow, q.tok = conn[s].tok, q.pid = conn[s].pid, OpensWithin(q),
           q.subscribed \subseteq q.tok.channels, NEW room \in SUBSET Sockets,
           \A c \in Channels : c # ch => (c \in q.subscribed <=> c \in conn[s].subscribed),
           \A x \in Sockets : x # s => (x \in room <=> x \in rooms[ch]),
           s \in room <=> ch \in q.subscribed,
           conn' = [conn EXCEPT ![s] = q], rooms' = [rooms EXCEPT ![ch] = room], hubClock' = hubClock
    PROVE  /\ ConnsOk' /\ PassesStay
           /\ \A x \in Sockets : conn'[x].pid = conn[x].pid /\ conn'[x].tok = conn[x].tok
           /\ rooms'[ch] = room /\ \A c \in Channels : c # ch => rooms'[c] = rooms[c]
<1>1. conn[s] # NoConn /\ conn[s] \in ConnRow /\ PassOk(conn[s].tok, hubClock)
  BY RowOf
<1>2. DOMAIN conn' = Sockets /\ \A x \in Sockets : conn'[x] = IF x = s THEN q ELSE conn[x]
  BY DEF HubInv, ConnsOk
<1>3. rooms \in [Channels -> SUBSET Sockets]
  BY DEF HubInv, ConnsOk
<1>4. rooms' \in [Channels -> SUBSET Sockets] /\ rooms'[ch] = room /\ \A c \in Channels : c # ch => rooms'[c] = rooms[c]
  BY <1>3
<1>5. q # NoConn
  BY RowIsConn
<1>6. \A x \in Sockets : conn'[x] # NoConn =>
         /\ conn'[x] \in ConnRow /\ PassOk(conn'[x].tok, hubClock) /\ OpensWithin(conn'[x])
         /\ conn'[x].subscribed \subseteq conn'[x].tok.channels
  BY <1>1, <1>2 DEF HubInv, ConnsOk
<1>7. \A x \in Sockets, c \in Channels : x \in rooms'[c] <=> conn'[x] # NoConn /\ c \in conn'[x].subscribed
  <2>1. ASSUME NEW c \in Channels
        PROVE  s \in rooms'[c] <=> conn'[s] # NoConn /\ c \in conn'[s].subscribed
    <3>1. s \in rooms[c] <=> c \in conn[s].subscribed
      BY <1>1 DEF HubInv, ConnsOk
    <3>. QED
      BY <1>2, <1>4, <1>5, <3>1
  <2>2. ASSUME NEW x \in Sockets, NEW c \in Channels, x # s
        PROVE  x \in rooms'[c] <=> conn'[x] # NoConn /\ c \in conn'[x].subscribed
    <3>1. x \in rooms[c] <=> conn[x] # NoConn /\ c \in conn[x].subscribed
      BY DEF HubInv, ConnsOk
    <3>. QED
      BY <1>2, <1>4, <2>2, <3>1
  <2>. QED
    BY <2>1, <2>2
<1>8. ConnsOk'
  BY <1>2, <1>4, <1>6, <1>7 DEF ConnsOk
<1>9. PassesStay
  BY <1>1, <1>2, <1>5 DEF PassesStay
<1>. QED
  BY <1>2, <1>4, <1>8, <1>9

\* Who is told is connected.
LEMMA AnnounceKeeps ==
    ASSUME HubInv, NEW s \in Sockets, NEW event \in {"join", "leave"}, NEW ch \in Channels,
           NEW targets, targets \subseteq rooms[ch], Announces(event, s, ch, targets),
           PassesStay, UNCHANGED <<inbox, published>>
    PROVE  CastsOk' /\ InboxesOk'
<1> DEFINE f == [type |-> event, ch |-> ch, id |-> conn[s].pid]
           d == IF targets = {} THEN NoCast ELSE [frame |-> f, to |-> targets]
<1>1. f.type # "message"
  OBVIOUS
<1>2. cast' = [cast EXCEPT ![s] = d]
  BY DEF Announces, Casts
<1> HIDE DEF f
<1>3. d # NoCast => d = [frame |-> d.frame, to |-> d.to] /\ d.frame = f /\ d.to = targets
  OBVIOUS
<1> HIDE DEF d
<1>4. DOMAIN cast' = Actors /\ \A a \in Actors : cast'[a] = IF a = s THEN d ELSE cast[a]
  BY <1>2 DEF HubInv, CastsOk, Actors
<1>5. targets \subseteq Sockets /\ \A x \in targets : conn'[x] # NoConn
  BY DEF HubInv, ConnsOk, PassesStay
<1>6. ASSUME NEW a \in Actors, cast'[a] # NoCast
      PROVE  /\ cast'[a] = [frame |-> cast'[a].frame, to |-> cast'[a].to]
             /\ cast'[a].to \subseteq Sockets /\ \A x \in cast'[a].to : conn'[x] # NoConn
             /\ cast'[a].frame.type = "message" =>
                   /\ cast'[a].frame \in Message /\ cast'[a].frame.from = a /\ cast'[a].frame.n <= published
                   /\ \A x \in cast'[a].to : ReachOk(cast[a].frame, x)' /\ cast'[a] = cast[a]
  <2>1. CASE a = s
    BY <1>1, <1>3, <1>4, <1>5, <1>6, <2>1
  <2>2. CASE a # s
    <3>1. cast'[a] = cast[a] /\ cast[a] # NoCast
      BY <1>4, <1>6, <2>2
    <3>. QED
      BY <3>1 DEF HubInv, CastsOk, ReachOk, PassesStay
  <2>. QED
    BY <2>1, <2>2
<1>7. CastsOk'
  BY <1>4, <1>6 DEF CastsOk
<1>8. InboxesOk'
  BY DEF HubInv, InboxesOk, PassesStay
<1>. QED
  BY <1>7, <1>8

LEMMA JoinKeeps ==
    ASSUME HubInv, NEW s \in Sockets, conn[s].at # "none", conn[s].todo # <<>>, NEW ch \in Channels,
           ch = Head(conn[s].todo), ch \in conn[s].tok.channels, MayJoin(s, ch), Join(s, ch),
           UNCHANGED <<inbox, minted, ident, epoch, hubClock, published, live>>
    PROVE  HubInv'
<1> DEFINE sub == conn[s].subscribed \cup {ch}
           todo == Tail(conn[s].todo)
           room == rooms[ch] \cup {s}
           q == [conn[s] EXCEPT !.subscribed = sub, !.todo = todo]
           pid == conn[s].pid
           new == pid # NoOne /\ pid \notin Members(ch)
<1>1. conn[s] # NoConn /\ conn[s] \in ConnRow /\ conn[s].subscribed \subseteq conn[s].tok.channels
      /\ conn[s].tok.channels \subseteq Channels /\ OpensWithin(conn[s])
  BY RowOf
<1>2. conn[s].todo \in Seq(Channels) /\ pid \in Pids /\ rooms[ch] \subseteq Sockets
  BY <1>1 DEF ConnRow, HubInv, ConnsOk
<1>3. conn' = [conn EXCEPT ![s] = q] /\ rooms' = [rooms EXCEPT ![ch] = room]
  BY DEF Join
<1>4. /\ todo \in Seq(Channels) /\ sub \subseteq Channels /\ sub \subseteq conn[s].tok.channels /\ room \subseteq Sockets
      /\ conn[s].at = "opening" => \A i \in DOMAIN todo : todo[i] \in conn[s].tok.channels
  BY <1>1, <1>2, TailWithin DEF OpensWithin
<1>5. /\ \A c \in Channels : c # ch => (c \in sub <=> c \in conn[s].subscribed)
      /\ \A x \in Sockets : x # s => (x \in room <=> x \in rooms[ch])
      /\ s \in room /\ ch \in sub /\ \A x \in room : x = s \/ x \in rooms[ch]
      /\ rooms[ch] \subseteq room
  OBVIOUS
<1> HIDE DEF sub, todo, room
<1>6. /\ q \in ConnRow /\ q.at = conn[s].at /\ q.todo = todo /\ q.subscribed = sub
      /\ q.tok = conn[s].tok /\ q.pid = pid
  BY <1>1, <1>4 DEF ConnRow
<1> HIDE DEF q
<1>7. /\ ConnsOk' /\ PassesStay
      /\ \A x \in Sockets : conn'[x].pid = conn[x].pid /\ conn'[x].tok = conn[x].tok
      /\ rooms'[ch] = room /\ \A c \in Channels : c # ch => rooms'[c] = rooms[c]
  <2>1. /\ ch \in Channels /\ conn[s].at # "none" /\ q.subscribed \subseteq q.tok.channels /\ room \in SUBSET Sockets
        /\ OpensWithin(q) /\ hubClock' = hubClock
    BY <1>2, <1>4, <1>6 DEF OpensWithin
  <2>2. /\ \A c \in Channels : c # ch => (c \in q.subscribed <=> c \in conn[s].subscribed)
        /\ s \in room <=> ch \in q.subscribed
    BY <1>5, <1>6
  <2>3. \A x \in Sockets : x # s => (x \in room <=> x \in rooms[ch])
    BY <1>5
  <2>. QED
    BY <1>3, <1>6, <2>1, <2>2, <2>3, MoveKeeps, ZenonT(60)
<1>8. \A c \in Channels : \A x \in rooms[c] : x \in Sockets
  BY DEF HubInv, ConnsOk
<1>9. \A c \in Channels : c # ch => Members(c)' = Members(c) /\ \A u : HeldBy(u, c)' = HeldBy(u, c)
  BY <1>7, <1>8 DEF Members, HeldBy
<1>10. Members(ch)' = Members(ch) \cup ({pid} \ {NoOne})
  BY <1>5, <1>7, <1>8 DEF Members
<1>11. IF new
       THEN /\ announced' = [announced EXCEPT ![ch] = announced[ch] \cup {pid}]
            /\ Announces("join", s, ch, rooms[ch])
       ELSE UNCHANGED <<cast, announced>>
  BY DEF Join
<1>12. announced \in [Channels -> SUBSET (EndUsers \cup PresenceIds)] /\ RosterAnnounced
  BY DEF HubInv, RosterOk
<1>13. /\ announced' \in [Channels -> SUBSET (EndUsers \cup PresenceIds)]
       /\ \A c \in Channels : announced'[c] = Members(c)'
  <2>1. CASE new
    <3>1. pid \in EndUsers \cup PresenceIds
      BY <1>2, <2>1 DEF Pids
    <3>2. announced' = [announced EXCEPT ![ch] = announced[ch] \cup {pid}]
      BY <1>11, <2>1
    <3>3. announced' \in [Channels -> SUBSET (EndUsers \cup PresenceIds)]
      BY <1>12, <3>1, <3>2
    <3>4. \A c \in Channels : announced'[c] = IF c = ch THEN announced[ch] \cup {pid} ELSE announced[c]
      BY <1>12, <3>2
    <3>. QED
      BY <1>9, <1>10, <1>12, <2>1, <3>3, <3>4 DEF RosterAnnounced
  <2>2. CASE ~new
    BY <1>9, <1>10, <1>11, <1>12, <2>2 DEF RosterAnnounced
  <2>. QED
    BY <2>1, <2>2
<1>14. ASSUME NEW u \in EndUsers
       PROVE  Cardinality(HeldBy(u, ch)') <= PerIdentity
  <2>1. Cardinality(HeldBy(u, ch)) <= PerIdentity
    BY <1>12 DEF RosterAnnounced
  <2>2. CASE conn[s].tok.sub = u /\ s \notin rooms[ch]
    <3>1. u # NoOne
      BY HubConstants
    <3>2. Cardinality(HeldBy(u, ch)) < PerIdentity
      BY <2>2, <3>1 DEF MayJoin
    <3>3. HeldBy(u, ch)' = HeldBy(u, ch) \cup {s}
      BY <1>5, <1>7, <1>8, <2>2 DEF HeldBy
    <3>4. IsFiniteSet(HeldBy(u, ch)) /\ s \notin HeldBy(u, ch)
      <4>1. HeldBy(u, ch) \in SUBSET Sockets
        BY <1>8 DEF HeldBy
      <4>2. IsFiniteSet(HeldBy(u, ch))
        BY <4>1, HubConstants, FS_Subset
      <4>. QED
        BY <2>2, <4>2 DEF HeldBy
    <3>5. Cardinality(HeldBy(u, ch)) \in Nat
      BY <3>4, FS_CardinalityType
    <3>6. Cardinality(HeldBy(u, ch) \cup {s}) = Cardinality(HeldBy(u, ch)) + 1
      BY <3>4, FS_AddElement
    <3>7. Cardinality(HeldBy(u, ch)') = Cardinality(HeldBy(u, ch)) + 1
      BY <3>3, <3>6, Zenon
    <3> DEFINE m == Cardinality(HeldBy(u, ch))
    <3> HIDE DEF m
    <3>8. m + 1 <= PerIdentity
      BY <3>2, <3>5, HubConstants DEF m
    <3>. QED
      BY <3>7, <3>8 DEF m
  <2>3. CASE ~ (conn[s].tok.sub = u /\ s \notin rooms[ch])
    <3>1. HeldBy(u, ch)' = HeldBy(u, ch)
      BY <1>5, <1>7, <1>8, <2>3 DEF HeldBy
    <3>. QED
      BY <2>1, <3>1
  <2>. QED
    BY <2>2, <2>3
<1>15. RosterOk'
  BY <1>9, <1>12, <1>13, <1>14 DEF RosterOk, RosterAnnounced
<1>16. CastsOk' /\ InboxesOk'
  <2>1. CASE new
    BY <1>7, <1>11, <2>1, AnnounceKeeps
  <2>2. CASE ~new
    BY <1>7, <1>11, <2>2, CastsKeep
  <2>. QED
    BY <2>1, <2>2
<1>17. PassesOk' /\ HubNumbers'
  BY DEF HubInv, PassesOk, HubNumbers
<1>. QED
  BY <1>7, <1>15, <1>16, <1>17 DEF HubInv

LEMMA LeaveKeeps ==
    ASSUME HubInv, NEW s \in Sockets, conn[s].at \in {"unsubscribing", "leaving"}, NEW ch \in conn[s].subscribed,
           NEW todo \in Seq(Channels), Leave(s, ch, todo),
           UNCHANGED <<inbox, minted, ident, epoch, hubClock, published, live>>
    PROVE  HubInv'
<1> DEFINE sub == conn[s].subscribed \ {ch}
           room == rooms[ch] \ {s}
           q == [conn[s] EXCEPT !.subscribed = sub, !.todo = todo]
           pid == conn[s].pid
           last == pid # NoOne /\ LastOf(s, ch)
<1>1. conn[s] # NoConn /\ conn[s] \in ConnRow /\ conn[s].subscribed \subseteq conn[s].tok.channels
      /\ conn[s].tok.channels \subseteq Channels
  BY RowOf
<1>2. ch \in Channels /\ rooms[ch] \subseteq Sockets /\ s \in rooms[ch]
  BY <1>1 DEF HubInv, ConnsOk
<1>3. conn' = [conn EXCEPT ![s] = q] /\ rooms' = [rooms EXCEPT ![ch] = room]
  BY DEF Leave
<1>4. sub \subseteq Channels /\ sub \subseteq conn[s].tok.channels /\ room \subseteq Sockets /\ conn[s].at # "opening"
  BY <1>1, <1>2
<1>5. /\ \A c \in Channels : c # ch => (c \in sub <=> c \in conn[s].subscribed)
      /\ \A x \in Sockets : x # s => (x \in room <=> x \in rooms[ch])
      /\ s \notin room /\ ch \notin sub /\ room \subseteq rooms[ch] /\ room = rooms[ch] \ {s}
  OBVIOUS
<1> HIDE DEF sub, room
<1>6. /\ q \in ConnRow /\ q.at = conn[s].at /\ q.todo = todo /\ q.subscribed = sub
      /\ q.tok = conn[s].tok /\ q.pid = pid
  BY <1>1, <1>4 DEF ConnRow
<1> HIDE DEF q
<1>7. /\ ConnsOk' /\ PassesStay
      /\ \A x \in Sockets : conn'[x].pid = conn[x].pid /\ conn'[x].tok = conn[x].tok
      /\ rooms'[ch] = room /\ \A c \in Channels : c # ch => rooms'[c] = rooms[c]
  <2>1. /\ ch \in Channels /\ conn[s].at # "none" /\ q.subscribed \subseteq q.tok.channels /\ room \in SUBSET Sockets
        /\ OpensWithin(q) /\ hubClock' = hubClock
    BY <1>2, <1>4, <1>6 DEF OpensWithin
  <2>2. /\ \A c \in Channels : c # ch => (c \in q.subscribed <=> c \in conn[s].subscribed)
        /\ s \in room <=> ch \in q.subscribed
    BY <1>5, <1>6
  <2>3. \A x \in Sockets : x # s => (x \in room <=> x \in rooms[ch])
    BY <1>5
  <2>. QED
    BY <1>3, <1>6, <2>1, <2>2, <2>3, MoveKeeps, Zenon
<1>8. \A c \in Channels : \A x \in rooms[c] : x \in Sockets
  BY DEF HubInv, ConnsOk
<1>9. \A c \in Channels : c # ch => Members(c)' = Members(c) /\ \A u : HeldBy(u, c)' = HeldBy(u, c)
  BY <1>7, <1>8 DEF Members, HeldBy
<1>10. Members(ch)' = Members(ch) \ (IF last THEN {pid} ELSE {})
  <2>1. Members(ch)' = {conn[x].pid : x \in room} \ {NoOne}
    BY <1>5, <1>7, <1>8, <1>2 DEF Members
  <2>2. Members(ch) = ({conn[x].pid : x \in room} \cup {pid}) \ {NoOne}
    BY <1>2, <1>5 DEF Members
  <2>3. LastOf(s, ch) <=> pid \notin {conn[x].pid : x \in room}
    BY <1>5 DEF LastOf
  <2>. QED
    BY <2>1, <2>2, <2>3
<1>11. IF last
       THEN /\ announced' = [announced EXCEPT ![ch] = announced[ch] \ {pid}]
            /\ Announces("leave", s, ch, room)
       ELSE UNCHANGED <<cast, announced>>
  BY DEF Leave, room
<1>12. announced \in [Channels -> SUBSET (EndUsers \cup PresenceIds)] /\ RosterAnnounced
  BY DEF HubInv, RosterOk
<1>13. /\ announced' \in [Channels -> SUBSET (EndUsers \cup PresenceIds)]
       /\ \A c \in Channels : announced'[c] = Members(c)'
  <2>1. CASE last
    <3>1. announced' = [announced EXCEPT ![ch] = announced[ch] \ {pid}]
      BY <1>11, <2>1
    <3>2. announced' \in [Channels -> SUBSET (EndUsers \cup PresenceIds)]
      BY <1>12, <3>1
    <3>3. \A c \in Channels : announced'[c] = IF c = ch THEN announced[ch] \ {pid} ELSE announced[c]
      BY <1>12, <3>1
    <3>. QED
      BY <1>2, <1>9, <1>10, <1>12, <2>1, <3>2, <3>3 DEF RosterAnnounced
  <2>2. CASE ~last
    BY <1>9, <1>10, <1>11, <1>12, <2>2 DEF RosterAnnounced
  <2>. QED
    BY <2>1, <2>2
<1>14. ASSUME NEW u \in EndUsers
       PROVE  Cardinality(HeldBy(u, ch)') <= PerIdentity
  <2>1. Cardinality(HeldBy(u, ch)) <= PerIdentity
    BY <1>2, <1>12 DEF RosterAnnounced
  <2>2. HeldBy(u, ch)' \in SUBSET HeldBy(u, ch) /\ HeldBy(u, ch) \in SUBSET Sockets
    BY <1>2, <1>5, <1>7, <1>8 DEF HeldBy
  <2>3. IsFiniteSet(HeldBy(u, ch))
    BY <2>2, HubConstants, FS_Subset
  <2>4. IsFiniteSet(HeldBy(u, ch)') /\ Cardinality(HeldBy(u, ch)') <= Cardinality(HeldBy(u, ch))
    BY <2>2, <2>3, FS_Subset
  <2>5. Cardinality(HeldBy(u, ch)') \in Nat /\ Cardinality(HeldBy(u, ch)) \in Nat
    BY <2>3, <2>4, FS_CardinalityType
  <2>. QED
    BY <2>1, <2>4, <2>5, HubConstants
<1>15. RosterOk'
  BY <1>9, <1>12, <1>13, <1>14 DEF RosterOk, RosterAnnounced
<1>16. CastsOk' /\ InboxesOk'
  <2>1. CASE last
    BY <1>2, <1>5, <1>7, <1>11, <2>1, AnnounceKeeps
  <2>2. CASE ~last
    BY <1>7, <1>11, <2>2, CastsKeep
  <2>. QED
    BY <2>1, <2>2
<1>17. PassesOk' /\ HubNumbers'
  BY DEF HubInv, PassesOk, HubNumbers
<1>. QED
  BY <1>7, <1>15, <1>16, <1>17 DEF HubInv

LEMMA DropsHead ==
    ASSUME HubInv, NEW s \in Sockets, conn[s].at # "none", conn[s].todo # <<>>,
           conn' = [conn EXCEPT ![s].todo = Tail(conn[s].todo)]
    PROVE  ConnStays
<1> DEFINE todo == Tail(conn[s].todo)
           q == [conn[s] EXCEPT !.todo = todo]
<1>1. conn[s] # NoConn /\ conn[s] \in ConnRow /\ OpensWithin(conn[s])
  BY RowOf
<1>2. conn[s].todo \in Seq(Channels) /\ conn' = [conn EXCEPT ![s] = q]
  BY <1>1 DEF ConnRow
<1>3. todo \in Seq(Channels) /\ \A i \in DOMAIN todo : i + 1 \in DOMAIN conn[s].todo /\ todo[i] = conn[s].todo[i + 1]
  BY <1>2, TailWithin
<1> HIDE DEF todo
<1>4. /\ q \in ConnRow /\ q.at = conn[s].at /\ q.todo = todo /\ q.subscribed = conn[s].subscribed
      /\ q.tok = conn[s].tok /\ q.pid = conn[s].pid
  BY <1>1, <1>3 DEF ConnRow
<1> HIDE DEF q
<1>5. OpensWithin(q)
  BY <1>1, <1>3, <1>4 DEF OpensWithin
<1>. QED
  BY <1>1, <1>2, <1>4, <1>5, ConnGoes

LEMMA JoinNextKeeps ==
    ASSUME HubInv, NEW s \in Sockets, JoinNext(s)
    PROVE  HubInv'
<1> DEFINE ch == Head(conn[s].todo)
<1>1. /\ conn[s].at \in {"opening", "subscribing"} /\ conn[s].at # "none" /\ conn[s].todo # <<>>
      /\ UNCHANGED <<inbox, minted, ident, epoch, hubClock, published, live>>
  BY DEF JoinNext
<1>2. conn[s] \in ConnRow /\ OpensWithin(conn[s])
  BY <1>1, RowOf
<1>3. ch \in Channels /\ (conn[s].at = "opening" => ch \in conn[s].tok.channels)
  <2>1. conn[s].todo \in Seq(Channels)
    BY <1>2 DEF ConnRow
  <2>. QED
    BY <1>1, <1>2, <2>1, TailWithin DEF OpensWithin
<1>4. \/ Join(s, ch) /\ MayJoin(s, ch) /\ ch \in conn[s].tok.channels
      \/ conn' = [conn EXCEPT ![s].todo = Tail(conn[s].todo)] /\ UNCHANGED <<rooms, cast, announced>>
  BY <1>1, <1>3 DEF JoinNext, Join
<1>5. CASE Join(s, ch) /\ MayJoin(s, ch) /\ ch \in conn[s].tok.channels
  BY <1>1, <1>3, <1>5, JoinKeeps
<1>6. CASE conn' = [conn EXCEPT ![s].todo = Tail(conn[s].todo)] /\ UNCHANGED <<rooms, cast, announced>>
  BY <1>1, <1>6, DropsHead, ConnStep
<1>. QED
  BY <1>4, <1>5, <1>6

LEMMA UnsubscribeNextKeeps ==
    ASSUME HubInv, NEW s \in Sockets, UnsubscribeNext(s)
    PROVE  HubInv'
<1> DEFINE ch == Head(conn[s].todo)
<1>1. /\ conn[s].at = "unsubscribing" /\ conn[s].at # "none" /\ conn[s].todo # <<>>
      /\ UNCHANGED <<inbox, minted, ident, epoch, hubClock, published, live>>
  BY DEF UnsubscribeNext
<1>2. Tail(conn[s].todo) \in Seq(Channels)
  <2>1. conn[s] \in ConnRow
    BY <1>1, RowOf
  <2>2. conn[s].todo \in Seq(Channels)
    BY <2>1 DEF ConnRow
  <2>. QED
    BY <1>1, <2>2, TailWithin
<1>3. \/ ch \in conn[s].subscribed /\ Leave(s, ch, Tail(conn[s].todo))
      \/ conn' = [conn EXCEPT ![s].todo = Tail(conn[s].todo)] /\ UNCHANGED <<rooms, cast, announced>>
  BY DEF UnsubscribeNext
<1>4. CASE ch \in conn[s].subscribed /\ Leave(s, ch, Tail(conn[s].todo))
  BY <1>1, <1>2, <1>4, LeaveKeeps
<1>5. CASE conn' = [conn EXCEPT ![s].todo = Tail(conn[s].todo)] /\ UNCHANGED <<rooms, cast, announced>>
  BY <1>1, <1>5, DropsHead, ConnStep
<1>. QED
  BY <1>3, <1>4, <1>5

LEMMA CleanupKeeps ==
    ASSUME HubInv, NEW s \in Sockets, Cleanup(s)
    PROVE  HubInv'
<1>1. PICK ch \in conn[s].subscribed : Leave(s, ch, <<>>)
  BY DEF Cleanup
<1>2. <<>> \in Seq(Channels)
  OBVIOUS
<1>. QED
  BY <1>1, <1>2, LeaveKeeps DEF Cleanup

-----------------------------------------------------------------------------
\* Messages.

LEMMA FanoutKeeps ==
    ASSUME HubInv, NEW a \in Actors, NEW ch \in Channels, Fanout(a, ch), ConnStays, inbox' = inbox
    PROVE  CastsOk' /\ InboxesOk' /\ published' \in 0..MaxPublishes
<1> DEFINE f == [type |-> "message", ch |-> ch, n |-> published + 1, from |-> a]
           to == rooms[ch]
           d == IF to = {} THEN NoCast ELSE [frame |-> f, to |-> to]
<1>1. published \in Nat /\ published' = published + 1 /\ published' \in 0..MaxPublishes
  BY HubConstants DEF Fanout, HubInv, HubNumbers
<1>2. cast' = [cast EXCEPT ![a] = d]
  BY DEF Fanout, Casts
<1>3. f \in Message /\ f.ch = ch /\ f.n = published + 1 /\ f.from = a
  BY <1>1 DEF Message
<1> HIDE DEF f
<1>4. to \subseteq Sockets /\ \A x \in to : conn[x] # NoConn /\ ch \in conn[x].tok.channels
  BY DEF HubInv, ConnsOk
<1> HIDE DEF to
<1>5. d # NoCast => d = [frame |-> d.frame, to |-> d.to] /\ d.frame = f /\ d.to = to
  OBVIOUS
<1> HIDE DEF d
<1>6. DOMAIN cast' = Actors /\ \A x \in Actors : cast'[x] = IF x = a THEN d ELSE cast[x]
  BY <1>2 DEF HubInv, CastsOk
<1>7. PassesStay
  BY StaysOf
<1>8. \A x \in Sockets : inbox[x] \in Seq(Message) /\ \A i \in DOMAIN inbox[x] : inbox[x][i].n \in Nat /\ inbox[x][i].n <= published
  <2>1. \A x \in Sockets : inbox[x] \in Seq(Message) /\ \A i \in DOMAIN inbox[x] : inbox[x][i].n <= published
    BY DEF HubInv, InboxesOk
  <2>2. \A x \in Sockets : \A i \in DOMAIN inbox[x] : inbox[x][i] \in Message
    BY <2>1
  <2>. QED
    BY <2>1, <2>2 DEF Message
<1>9. \A x \in to : /\ f.ch \in conn'[x].tok.channels
                   /\ \A i \in DOMAIN inbox'[x] : inbox'[x][i].n < f.n
  BY <1>1, <1>3, <1>4, <1>7, <1>8 DEF PassesStay
<1>10. ASSUME NEW b \in Actors, cast'[b] # NoCast
       PROVE  /\ cast'[b] = [frame |-> cast'[b].frame, to |-> cast'[b].to]
              /\ cast'[b].to \subseteq Sockets /\ \A x \in cast'[b].to : conn'[x] # NoConn
              /\ cast'[b].frame.type = "message" =>
                    /\ cast'[b].frame \in Message /\ cast'[b].frame.from = b /\ cast'[b].frame.n <= published'
                    /\ \A x \in cast'[b].to : ReachOk(cast[b].frame, x)'
  <2>1. CASE b = a
    <3>1. cast'[b] = d /\ d.frame = f /\ d.to = to /\ d = [frame |-> d.frame, to |-> d.to]
      BY <1>5, <1>6, <1>10, <2>1
    <3>2. cast'[b].frame = f /\ cast'[b].to = to /\ f.n <= published'
      BY <1>1, <1>3, <3>1
    <3>3. \A x \in cast'[b].to : ReachOk(cast[b].frame, x)'
      BY <1>9, <3>2 DEF ReachOk
    <3>. QED
      BY <1>3, <1>4, <1>7, <2>1, <3>1, <3>2, <3>3 DEF PassesStay
  <2>2. CASE b # a
    <3>1. cast'[b] = cast[b] /\ cast[b] # NoCast
      BY <1>6, <1>10, <2>2
    <3>2. cast[b].frame.type = "message" => cast[b].frame.n <= published'
      <4>1. cast[b].frame.type = "message" => cast[b].frame \in Message /\ cast[b].frame.n <= published
        BY <3>1 DEF HubInv, CastsOk
      <4>. QED
        BY <1>1, <4>1 DEF Message
    <3>3. /\ cast[b] = [frame |-> cast[b].frame, to |-> cast[b].to]
          /\ cast[b].to \subseteq Sockets /\ \A x \in cast[b].to : conn[x] # NoConn
          /\ cast[b].frame.type = "message" =>
                /\ cast[b].frame \in Message /\ cast[b].frame.from = b
                /\ \A x \in cast[b].to : ReachOk(cast[b].frame, x)
      BY <3>1 DEF HubInv, CastsOk
    <3>. QED
      BY <1>7, <3>1, <3>2, <3>3 DEF PassesStay, ReachOk
  <2>. QED
    BY <2>1, <2>2
<1>11. CastsOk'
  BY <1>6, <1>10 DEF CastsOk
<1>12. InboxesOk'
  <2>1. \A x \in Sockets : \A i \in DOMAIN inbox[x] : inbox[x][i].n <= published'
    BY <1>1, <1>8
  <2>. QED
    BY <1>7, <2>1 DEF HubInv, InboxesOk, PassesStay
<1>. QED
  BY <1>1, <1>11, <1>12

LEMMA PublishStep ==
    ASSUME HubInv, NEW a \in Actors, NEW ch \in Channels, Fanout(a, ch), ConnStays,
           live' \in [Publishers -> Seq(Channels)],
           UNCHANGED <<rooms, inbox, minted, ident, epoch, hubClock, announced>>
    PROVE  HubInv'
<1>1. PassesOk'
  BY DEF HubInv, PassesOk
<1>2. HubNumbers'
  BY FanoutKeeps DEF HubInv, HubNumbers
<1>. QED
  BY <1>1, <1>2, RoomsKeep, FanoutKeeps DEF HubInv

LEMMA FramePublishKeeps ==
    ASSUME HubInv, NEW s \in Sockets, NEW ch \in Channels, FramePublish(s, ch)
    PROVE  HubInv'
<1> DEFINE q == [conn[s] EXCEPT !.at = "publishing"]
<1>1. conn[s].at # "none" /\ conn' = [conn EXCEPT ![s] = q]
  BY DEF FramePublish, Reads
<1>2. conn[s] \in ConnRow /\ conn[s] # NoConn
  BY <1>1, RowOf
<1>3. /\ q \in ConnRow /\ q.at = "publishing" /\ q.tok = conn[s].tok /\ q.pid = conn[s].pid
      /\ q.subscribed = conn[s].subscribed
  BY <1>2 DEF ConnRow
<1> HIDE DEF q
<1>4. OpensWithin(q)
  BY <1>3 DEF OpensWithin
<1>5. ConnStays
  BY <1>1, <1>2, <1>3, <1>4, ConnGoes
<1>6. live' \in [Publishers -> Seq(Channels)] /\ s \in Actors
  BY DEF HubInv, HubNumbers, FramePublish, Actors
<1>. QED
  BY <1>5, <1>6, PublishStep DEF FramePublish

LEMMA PublishHttpKeeps ==
    ASSUME HubInv, NEW p \in Publishers, NEW ch \in Channels, PublishHttp(p, ch)
    PROVE  HubInv'
<1>1. live' \in [Publishers -> Seq(Channels)] /\ p \in Actors
  BY DEF HubInv, HubNumbers, PublishHttp, Actors
<1>. QED
  BY <1>1, ConnSame, PublishStep DEF PublishHttp

LEMMA EmitNextKeeps ==
    ASSUME HubInv, NEW p \in Publishers, EmitNext(p)
    PROVE  HubInv'
<1>1. live \in [Publishers -> Seq(Channels)] /\ p \in Actors /\ live[p] # <<>>
  BY DEF HubInv, HubNumbers, EmitNext, Actors
<1>2. Head(live[p]) \in Channels /\ Tail(live[p]) \in Seq(Channels)
  BY <1>1, TailWithin
<1>3. live' \in [Publishers -> Seq(Channels)]
  BY <1>1, <1>2 DEF EmitNext
<1>. QED
  BY <1>1, <1>2, <1>3, ConnSame, PublishStep DEF EmitNext

LEMMA SendKeeps ==
    ASSUME HubInv, NEW a \in Actors, NEW t \in Sockets, Send(a, t)
    PROVE  HubInv'
<1> DEFINE f == cast[a].frame
           to == cast[a].to \ {t}
           d == IF to = {} THEN NoCast ELSE [frame |-> f, to |-> to]
<1>1. /\ t \in cast[a].to /\ cast' = [cast EXCEPT ![a] = d]
      /\ inbox' = inbox \/ (f.type = "message" /\ inbox' = [inbox EXCEPT ![t] = Append(inbox[t], f)])
      /\ UNCHANGED <<rooms, conn, minted, ident, epoch, hubClock, published, live, announced>>
  BY DEF Send, Casts
<1>2. cast[a] # NoCast
  BY <1>1 DEF NoCast
<1>3. /\ cast[a].to \subseteq Sockets /\ \A x \in cast[a].to : conn[x] # NoConn
      /\ f.type = "message" => f \in Message /\ f.from = a /\ f.n <= published /\ \A x \in cast[a].to : ReachOk(f, x)
  BY <1>2 DEF HubInv, CastsOk
<1>4. DOMAIN cast' = Actors /\ \A x \in Actors : cast'[x] = IF x = a THEN d ELSE cast[x]
  BY <1>1 DEF HubInv, CastsOk
<1>5. inbox \in [Sockets -> Seq(Message)]
  BY DEF HubInv, InboxesOk
<1>6. \A x \in Sockets : x # t => inbox'[x] = inbox[x]
  BY <1>1, <1>5
<1>7. \/ inbox'[t] = inbox[t]
      \/ f.type = "message" /\ inbox'[t] = Append(inbox[t], f)
  BY <1>1, <1>5
<1> DEFINE old == inbox[t]
           new == inbox'[t]
<1>8. /\ inbox' \in [Sockets -> Seq(Message)] /\ new \in Seq(Message) /\ old \in Seq(Message)
      /\ \A i \in DOMAIN new : \/ i \in DOMAIN old /\ new[i] = old[i]
                               \/ /\ f.type = "message" /\ new[i] = f
                                  /\ \A j \in DOMAIN new : i # j => j \in DOMAIN old /\ new[j] = old[j] /\ ~ (i < j)
  <2>1. CASE inbox' = inbox
    BY <1>5, <2>1
  <2>2. CASE f.type = "message" /\ inbox' = [inbox EXCEPT ![t] = Append(inbox[t], f)]
    <3>1. f \in Message /\ old \in Seq(Message) /\ new = Append(old, f)
      BY <1>3, <1>5, <2>2
    <3>2. new \in Seq(Message) /\ inbox' \in [Sockets -> Seq(Message)]
      BY <1>5, <2>2, <3>1
    <3> HIDE DEF old, new, f
    <3>3. \A i \in DOMAIN new : (i \in DOMAIN old /\ new[i] = old[i]) \/ (i = Len(old) + 1 /\ new[i] = f)
      BY <3>1
    <3>4. \A i, j \in DOMAIN new : i = Len(old) + 1 /\ i # j => j \in DOMAIN old /\ new[j] = old[j] /\ ~ (i < j)
      BY <3>1
    <3>. QED
      BY <2>2, <3>1, <3>2, <3>3, <3>4
  <2>. QED
    BY <1>1, <2>1, <2>2
<1> HIDE DEF new, old
<1>9. InboxesOk'
  <2>1. ASSUME NEW i \in DOMAIN new
        PROVE  /\ new[i].n <= published /\ (conn[t] # NoConn => new[i].ch \in conn[t].tok.channels)
               /\ \A j \in DOMAIN new : i < j /\ new[i].from = new[j].from => new[i].n < new[j].n
    <3>1. \A k \in DOMAIN old :
             /\ old[k].n <= published /\ (conn[t] # NoConn => old[k].ch \in conn[t].tok.channels)
             /\ \A j \in DOMAIN old : k < j /\ old[k].from = old[j].from => old[k].n < old[j].n
      BY DEF HubInv, InboxesOk, old
    <3>2. f.type = "message" => f.ch \in conn[t].tok.channels /\ \A k \in DOMAIN old : old[k].from = f.from => old[k].n < f.n
      BY <1>1, <1>3 DEF ReachOk, old
    <3> HIDE DEF f
    <3>3. CASE i \in DOMAIN old /\ new[i] = old[i]
      <4>1. ASSUME NEW j \in DOMAIN new, i < j, new[i].from = new[j].from
            PROVE  new[i].n < new[j].n
        <5>1. CASE j \in DOMAIN old /\ new[j] = old[j]
          BY <3>1, <3>3, <4>1, <5>1
        <5>2. CASE f.type = "message" /\ new[j] = f
          BY <3>2, <3>3, <4>1, <5>2
        <5>. QED
          BY <1>8, <5>1, <5>2
      <4>. QED
        BY <3>1, <3>3, <4>1
    <3>4. CASE /\ f.type = "message" /\ new[i] = f
               /\ \A j \in DOMAIN new : i # j => j \in DOMAIN old /\ new[j] = old[j] /\ ~ (i < j)
      <4>1. i \in Nat
        BY <1>8
      <4>2. \A j \in DOMAIN new : ~ (i < j)
        BY <3>4, <4>1
      <4>. QED
        BY <1>3, <3>2, <3>4, <4>2 DEF f
    <3>. QED
      BY <1>8, <3>3, <3>4
  <2>2. ASSUME NEW x \in Sockets, x # t
        PROVE  \A i \in DOMAIN inbox'[x] :
                  /\ inbox'[x][i].n <= published
                  /\ conn[x] # NoConn => inbox'[x][i].ch \in conn[x].tok.channels
                  /\ \A j \in DOMAIN inbox'[x] :
                        i < j /\ inbox'[x][i].from = inbox'[x][j].from => inbox'[x][i].n < inbox'[x][j].n
    BY <1>6, <2>2 DEF HubInv, InboxesOk
  <2>3. \A x \in Sockets : \A i \in DOMAIN inbox'[x] :
           /\ inbox'[x][i].n <= published
           /\ conn[x] # NoConn => inbox'[x][i].ch \in conn[x].tok.channels
           /\ \A j \in DOMAIN inbox'[x] :
                 i < j /\ inbox'[x][i].from = inbox'[x][j].from => inbox'[x][i].n < inbox'[x][j].n
    BY <2>1, <2>2 DEF new
  <2>. QED
    BY <1>1, <1>8, <2>3 DEF InboxesOk
<1>10. CastsOk'
  <2>1. ASSUME NEW b \in Actors, cast'[b] # NoCast
        PROVE  /\ cast'[b] = [frame |-> cast'[b].frame, to |-> cast'[b].to]
               /\ cast[b] # NoCast /\ cast'[b].frame = cast[b].frame /\ cast'[b].to \subseteq cast[b].to
               /\ b = a => t \notin cast'[b].to
    <3>1. CASE b = a
      <4>1. cast'[b] = d /\ d # NoCast
        BY <1>4, <2>1, <3>1
      <4>2. cast'[b] = [frame |-> f, to |-> to]
        BY <4>1
      <4>. QED
        BY <1>2, <3>1, <4>2
    <3>2. CASE b # a
      <4>1. cast'[b] = cast[b]
        BY <1>4, <3>2
      <4>. QED
        BY <2>1, <3>2, <4>1 DEF HubInv, CastsOk
    <3>. QED
      BY <3>1, <3>2
  <2>2. ASSUME NEW b \in Actors, cast'[b] # NoCast, cast[b].frame.type = "message"
        PROVE  \A x \in cast'[b].to : /\ cast[b].frame.ch \in conn[x].tok.channels
                                      /\ \A i \in DOMAIN inbox'[x] : inbox'[x][i].from = cast[b].frame.from
                                                                       => inbox'[x][i].n < cast[b].frame.n
    <3> SUFFICES ASSUME NEW x \in cast'[b].to
                 PROVE  /\ cast[b].frame.ch \in conn[x].tok.channels
                        /\ \A i \in DOMAIN inbox'[x] : inbox'[x][i].from = cast[b].frame.from
                                                         => inbox'[x][i].n < cast[b].frame.n
      OBVIOUS
    <3>1. x \in cast[b].to /\ cast[b] # NoCast /\ (b = a => x # t)
      BY <2>1, <2>2
    <3>2. x \in Sockets /\ ReachOk(cast[b].frame, x) /\ cast[b].frame.from = b
      BY <2>2, <3>1 DEF HubInv, CastsOk
    <3>3. CASE x # t
      BY <1>6, <3>2, <3>3 DEF ReachOk
    <3>4. CASE x = t
      <4>1. b # a
        BY <3>1, <3>4
      <4>2. ASSUME NEW i \in DOMAIN new, new[i].from = b
            PROVE  i \in DOMAIN old /\ new[i] = old[i]
        <5>1. f.type = "message" => f.from # b
          BY <1>3, <4>1
        <5> HIDE DEF f
        <5>. QED
          BY <1>8, <4>2, <5>1
      <4>. QED
        BY <3>2, <3>4, <4>2 DEF ReachOk, new, old
    <3>. QED
      BY <3>3, <3>4
  <2>3. ASSUME NEW b \in Actors, cast'[b] # NoCast
        PROVE  /\ cast'[b] = [frame |-> cast'[b].frame, to |-> cast'[b].to]
               /\ cast'[b].to \subseteq Sockets /\ \A x \in cast'[b].to : conn[x] # NoConn
               /\ cast'[b].frame.type = "message" =>
                     /\ cast'[b].frame \in Message /\ cast'[b].frame.from = b /\ cast'[b].frame.n <= published
                     /\ \A x \in cast'[b].to : ReachOk(cast[b].frame, x)'
    <3>1. /\ cast'[b] = [frame |-> cast'[b].frame, to |-> cast'[b].to]
          /\ cast[b] # NoCast /\ cast'[b].frame = cast[b].frame /\ cast'[b].to \subseteq cast[b].to
      BY <2>1, <2>3
    <3>2. /\ cast[b].to \subseteq Sockets /\ \A x \in cast[b].to : conn[x] # NoConn
          /\ cast[b].frame.type = "message" =>
                cast[b].frame \in Message /\ cast[b].frame.from = b /\ cast[b].frame.n <= published
      BY <3>1 DEF HubInv, CastsOk
    <3>3. cast[b].frame.type = "message" => \A x \in cast'[b].to : ReachOk(cast[b].frame, x)'
      BY <1>1, <2>2, <2>3, <3>1 DEF ReachOk
    <3>. QED
      BY <3>1, <3>2, <3>3
  <2>. QED
    BY <1>1, <1>4, <2>3 DEF CastsOk
<1>11. PassesOk' /\ HubNumbers' /\ ConnsOk' /\ RosterOk'
  BY <1>1, ConnSame, RoomsKeep DEF HubInv, PassesOk, HubNumbers
<1>. QED
  BY <1>9, <1>10, <1>11 DEF HubInv

-----------------------------------------------------------------------------
\* The hub.

LEMMA InitHub ==
    ASSUME HubInit
    PROVE  HubInv
<1>1. PassesOk
  <2>1. ident \in [EndUsers -> [exp : Nat, ce : Nat]] /\ epoch \in [EndUsers -> Nat]
        /\ \A u \in EndUsers : ident[u].exp = 0
    BY DEF HubInit
  <2>. QED
    BY <2>1, HubConstants DEF HubInit, PassesOk
<1>2. ConnsOk
  BY DEF HubInit, ConnsOk
<1>3. CastsOk
  BY DEF HubInit, CastsOk
<1>4. InboxesOk
  BY DEF HubInit, InboxesOk
<1>5. RosterOk
  <2>1. \A ch \in Channels : Members(ch) = {} /\ announced[ch] = {}
    BY DEF HubInit, Members
  <2>2. \A ch \in Channels, u \in EndUsers : HeldBy(u, ch) = {}
    BY DEF HubInit, HeldBy
  <2>3. \A ch \in Channels, u \in EndUsers : Cardinality(HeldBy(u, ch)) <= PerIdentity
    <3>1. Cardinality({}) = 0
      BY FS_EmptySet
    <3>2. \A ch \in Channels, u \in EndUsers : Cardinality(HeldBy(u, ch)) = 0
      BY <2>2, <3>1, Zenon
    <3>. QED
      BY <3>2, HubConstants
  <2>4. announced \in [Channels -> SUBSET (EndUsers \cup PresenceIds)]
    BY DEF HubInit
  <2>. QED
    BY <2>1, <2>3, <2>4 DEF RosterOk, RosterAnnounced
<1>6. HubNumbers
  BY HubConstants DEF HubInit, HubNumbers
<1>. QED
  BY <1>1, <1>2, <1>3, <1>4, <1>5, <1>6 DEF HubInv

LEMMA HubStutters ==
    ASSUME HubInv, UNCHANGED HubVars
    PROVE  HubInv'
  BY ConnSame, ConnStep DEF HubVars

LEMMA GoesOnKeeps ==
    ASSUME HubInv, NEW s \in Sockets, SocketGoesOn(s)
    PROVE  HubInv'
<1>1. s \in Actors
  BY DEF Actors
<1>. QED
  BY <1>1, JoinNextKeeps, UnsubscribeNextKeeps, AcknowledgeKeeps, ReadFailsKeeps, CleanupKeeps, CloseKeeps,
     SendKeeps DEF SocketGoesOn, Expires

LEMMA ActsKeeps ==
    ASSUME HubInv, NEW s \in Sockets, SocketActs(s)
    PROVE  HubInv'
<1>1. ASSUME NEW t \in minted, NEW asked \in ChannelLists,
             Upgrade(s, t, IF asked = <<>> THEN SetToSeq(t.channels) ELSE asked)
      PROVE  HubInv'
  <2> DEFINE list == IF asked = <<>> THEN SetToSeq(t.channels) ELSE asked
  <2>1. t.channels \in SUBSET Channels
    BY DEF HubInv, PassesOk, PassOk, Pass
  <2>2. SetToSeq(t.channels) \in Seq(Channels)
    <3>1. IsFiniteSet(t.channels)
      BY <2>1, HubConstants, FS_Subset
    <3>2. SetToSeq(t.channels) \in Seq(t.channels)
      BY <3>1, LaidOutOnce
    <3>. QED
      BY <2>1, <3>2
  <2>3. list \in Seq(Channels)
    BY <2>2, Asked
  <2>4. Upgrade(s, t, list)
    BY <1>1
  <2> HIDE DEF list
  <2>. QED
    BY <2>3, <2>4, UpgradeKeeps
<1>2. ASSUME NEW chs \in ChannelLists, HandleFrame(s, "subscribing", chs) \/ HandleFrame(s, "unsubscribing", chs)
      PROVE  HubInv'
  BY <1>2, HandleFrameKeeps
<1>3. ASSUME NEW ch \in Channels, FramePublish(s, ch)
      PROVE  HubInv'
  BY <1>3, FramePublishKeeps
<1>4. ASSUME ReadFails(s) \/ WriteBreaks(s)
      PROVE  HubInv'
  BY <1>4, ReadFailsKeeps, WriteBreaksKeeps
<1>. QED
  BY <1>1, <1>2, <1>3, <1>4 DEF SocketActs

LEMMA PublisherKeeps ==
    ASSUME HubInv, NEW p \in Publishers, PublisherActs(p)
    PROVE  HubInv'
<1>1. p \in Actors
  BY DEF Actors
<1>. QED
  BY <1>1, PublishHttpKeeps, EmitLiveKeeps, EmitNextKeeps, SendKeeps DEF PublisherActs

LEMMA HubStep ==
    ASSUME HubInv, [HubNext]_HubVars
    PROVE  HubInv'
<1>1. ASSUME HubTokens
      PROVE  HubInv'
  BY <1>1, HubTickKeeps, MintKeeps, HubSignInKeeps, HubRevokeKeeps DEF HubTokens
<1>. QED
  BY <1>1, GoesOnKeeps, ActsKeeps, PublisherKeeps, HubStutters DEF HubNext

LEMMA HubHolds ==
    ASSUME HubInv
    PROVE  SocketsHold
<1>1. HubTyped
  <2>1. \A s \in Sockets : conn[s].at # "none" => conn[s].subscribed \subseteq Channels
    BY RowOf
  <2>2. \A a \in Actors : cast[a].to \subseteq Sockets
    <3>1. NoCast.to = {}
      BY DEF NoCast
    <3>. QED
      BY <3>1 DEF HubInv, CastsOk
  <2>. QED
    BY <2>1, <2>2 DEF HubInv, ConnsOk, RosterOk, HubNumbers, HubTyped
<1>2. StaysInScope
  <2> SUFFICES ASSUME NEW s \in Sockets, conn[s].at # "none"
               PROVE  /\ conn[s].subscribed = {ch \in Channels : s \in rooms[ch]}
                      /\ \A i \in DOMAIN inbox[s] : inbox[s][i].ch \in conn[s].tok.channels
                      /\ conn[s].tok.sub # NoOne => /\ conn[s].tok.channels \subseteq Permitted[conn[s].tok.sub]
                                                   /\ conn[s].tok.exp <= hubClock + IdentityTTL
                      /\ \A i, j \in DOMAIN inbox[s] :
                            i < j /\ inbox[s][i].from = inbox[s][j].from => inbox[s][i].n < inbox[s][j].n
    BY DEF StaysInScope
  <2>1. conn[s] # NoConn /\ PassOk(conn[s].tok, hubClock) /\ conn[s].subscribed \subseteq Channels
    BY RowOf
  <2>2. conn[s].subscribed = {ch \in Channels : s \in rooms[ch]}
    BY <2>1 DEF HubInv, ConnsOk
  <2>. QED
    BY <2>1, <2>2 DEF HubInv, InboxesOk, PassOk
<1>. QED
  BY <1>1, <1>2 DEF HubInv, RosterOk, SocketsHold

\* Whatever sockets open, close, subscribe and publish in whatever order: what was announced of a
\* room is who is in it, no end user holds more sockets there than it may, and a socket is sent
\* messages of its token's channels only, each sender's in order (Hub.join, Hub.leave, Publish).
THEOREM SocketsKept == HubSpec => []SocketsHold
<1>1. HubInit => HubInv
  BY InitHub
<1>2. HubInv /\ [HubNext]_HubVars => HubInv'
  BY HubStep
<1>3. HubInv => SocketsHold
  BY HubHolds
<1>. QED
  BY <1>1, <1>2, <1>3, PTL DEF HubSpec

=============================================================================
