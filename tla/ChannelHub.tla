------------------------------ MODULE ChannelHub ------------------------------
(***************************************************************************)
(* One channel instance: minting subscriber tokens, upgrading a request to *)
(* a socket, the hub's rooms, presence announcements, and the fan-out of   *)
(* what is published over HTTP, over a socket, or by the datastore's live  *)
(* bridge.                                                                 *)
(* Source: cli/internal/channel/{hub,routes,limits,jwt,wsauth}.go,         *)
(* cli/internal/datastore/live.go.                                         *)
(*                                                                         *)
(* A room's membership changes under the hub's lock; what is sent because  *)
(* of it is sent after the lock, one socket at a time, by the goroutine of *)
(* the socket or request that caused it.  Signatures are taken as sound: a *)
(* token is the claims that were minted.                                   *)
(***************************************************************************)
EXTENDS Integers, Sequences, FiniteSets, SequencesExt

CONSTANTS
    Sockets,       \* WebSocket connections
    Publishers,    \* HTTP publish requests, one after another each
    Channels,
    EndUsers,      \* users of the auth instance
    Permitted,     \* end user -> the channels its patterns allow
    PresenceIds,   \* what an org key may bind as a presence id
    NoOne,         \* no presence id, no end user
    TokenAsks,     \* the mint requests: channels, ttl, publish mode, presence id
    MaxTTL, DefaultTTL, IdentityTTL,
    PerIdentity,   \* maxConnectionsPerIdentity
    PresenceOn,    \* the instance's presence flag
    LiveWrites,    \* committed writes the bridge hears of: sequences of documents
    MaxHubTokens, MaxPublishes, MaxHubClock   \* bounds

ASSUME HubAssumption ==
    /\ IsFiniteSet(Sockets) /\ IsFiniteSet(Channels)
    /\ Permitted \in [EndUsers -> SUBSET Channels]
    /\ NoOne \notin EndUsers \cup PresenceIds
    /\ PerIdentity \in Nat \ {0} /\ PresenceOn \in BOOLEAN
    /\ MaxTTL \in Nat \ {0} /\ DefaultTTL \in 1..MaxTTL /\ IdentityTTL \in Nat \ {0}
    /\ \A a \in TokenAsks :
          /\ a.channels \in (SUBSET Channels) \ {{}} /\ a.ttl \in Int
          /\ a.publish \in {"none", "http", "ws", "all"} /\ a.pid \in PresenceIds \cup {NoOne}
    /\ \A w \in LiveWrites : \A i \in DOMAIN w : w[i].part \in Channels \cup {NoOne}
    /\ MaxHubTokens \in Nat /\ MaxPublishes \in Nat /\ MaxHubClock \in Nat

VARIABLES
    rooms,      \* Hub.rooms: channel -> the sockets on it
    conn,       \* socket -> its connection and what its goroutine is at
    cast,       \* socket or publisher -> the frame it is sending and to whom still
    inbox,      \* socket -> the messages its client was sent
    minted,     \* the tokens given out
    ident,      \* end user -> its identity token
    epoch,      \* end user -> its credential epoch
    hubClock,
    published,  \* how many messages were published
    live,       \* publisher -> the channels its write's events are still to go to
    announced   \* channel -> members whose join was announced and whose leave was not

HubVars == <<rooms, conn, cast, inbox, minted, ident, epoch, hubClock, published, live, announced>>

NoConn == [at |-> "none"]
NoCast == [to |-> {}]
Actors == Sockets \cup Publishers

HubInit ==
    /\ rooms = [ch \in Channels |-> {}] /\ announced = [ch \in Channels |-> {}]
    /\ conn = [s \in Sockets |-> NoConn] /\ inbox = [s \in Sockets |-> <<>>]
    /\ cast = [a \in Actors |-> NoCast]
    /\ minted = {} /\ hubClock = 0 /\ published = 0
    /\ live = [p \in Publishers |-> <<>>]
    /\ ident = [u \in EndUsers |-> [exp |-> 0, ce |-> 0]] /\ epoch = [u \in EndUsers |-> 0]

Idle(a) == cast[a].to = {}

-----------------------------------------------------------------------------
\* Tokens.

ClampTTL(ttl) == IF ttl <= 0 THEN DefaultTTL ELSE IF ttl > MaxTTL THEN MaxTTL ELSE ttl

\* An identity token that is neither expired nor of an earlier epoch (identity.Service).
Resolves(u) == ident[u].exp > hubClock /\ ident[u].ce >= epoch[u]

HubSignIn(u) ==
    /\ ~Resolves(u) /\ hubClock + IdentityTTL <= MaxHubClock
    /\ ident' = [ident EXCEPT ![u] = [exp |-> hubClock + IdentityTTL, ce |-> epoch[u]]]
    /\ UNCHANGED <<rooms, conn, cast, inbox, minted, epoch, hubClock, published, live, announced>>

HubRevoke(u) ==
    /\ epoch[u] = 0
    /\ epoch' = [epoch EXCEPT ![u] = 1]
    /\ UNCHANGED <<rooms, conn, cast, inbox, minted, ident, hubClock, published, live, announced>>

\* A token for the app's own key: what it asks for.
KeyClaims(a) ==
    [channels |-> a.channels, exp |-> hubClock + ClampTTL(a.ttl), pub |-> a.publish,
     pid |-> a.pid, sub |-> NoOne, ce |-> 0]

\* For an end user: subscribe only, its own presence id, and no longer than its identity.
UserClaims(a, u) ==
    LET exp == hubClock + ClampTTL(a.ttl)
    IN [channels |-> a.channels, exp |-> IF ident[u].exp < exp THEN ident[u].exp ELSE exp,
        pub |-> "none", pid |-> u, sub |-> u, ce |-> ident[u].ce]

Mint(a) ==
    /\ Cardinality(minted) < MaxHubTokens
    /\ \/ minted' = minted \cup {KeyClaims(a)}
       \/ \E u \in EndUsers :
             Resolves(u) /\ a.channels \subseteq Permitted[u]
             /\ minted' = minted \cup {UserClaims(a, u)}
    /\ UNCHANGED <<rooms, conn, cast, inbox, ident, epoch, hubClock, published, live, announced>>

Verified(t) == t.exp > hubClock
CanPublish(t, transport) == t.pub \in {"all", transport}
TokenDead(t) == t.sub # NoOne /\ t.ce < epoch[t.sub]

-----------------------------------------------------------------------------
\* The hub, under its lock.

Members(ch) == {conn[s].pid : s \in rooms[ch]} \ {NoOne}
HeldBy(u, ch) == {s \in rooms[ch] : conn[s].tok.sub = u}

\* Faulty: the socket that joins is not counted.
MayJoinOver(s, ch) ==
    LET u == conn[s].tok.sub
    IN u = NoOne \/ s \in rooms[ch] \/ Cardinality(HeldBy(u, ch)) <= PerIdentity

MayJoin(s, ch) ==
    LET u == conn[s].tok.sub
    IN u = NoOne \/ s \in rooms[ch] \/ Cardinality(HeldBy(u, ch)) < PerIdentity

Casts(a, frame, targets) ==
    cast' = [cast EXCEPT ![a] = IF targets = {} THEN NoCast ELSE [frame |-> frame, to |-> targets]]

\* The frame of a change of presence, for the sockets that are there after it.
Announces(event, s, ch, targets) ==
    Casts(s, [type |-> event, ch |-> ch, id |-> conn[s].pid], targets)

Join(s, ch) ==
    IF ~MayJoin(s, ch)
    THEN conn' = [conn EXCEPT ![s].todo = Tail(@)] /\ UNCHANGED <<rooms, cast, announced>>
    ELSE /\ rooms' = [rooms EXCEPT ![ch] = @ \cup {s}]
         /\ conn' = [conn EXCEPT ![s].subscribed = @ \cup {ch}, ![s].todo = Tail(@)]
         /\ IF conn[s].pid # NoOne /\ conn[s].pid \notin Members(ch)
            THEN /\ announced' = [announced EXCEPT ![ch] = @ \cup {conn[s].pid}]
                 /\ Announces("join", s, ch, rooms[ch])
            ELSE UNCHANGED <<cast, announced>>

\* Faulty: any socket of the member that leaves takes it from the roster.
LastOfAny(s, ch) == TRUE

\* Whether the member's last socket leaves with this one.
LastOf(s, ch) == conn[s].pid \notin {conn[o].pid : o \in rooms[ch] \ {s}}

Leave(s, ch, todo) ==
    /\ rooms' = [rooms EXCEPT ![ch] = @ \ {s}]
    /\ conn' = [conn EXCEPT ![s].subscribed = @ \ {ch}, ![s].todo = todo]
    /\ IF conn[s].pid # NoOne /\ LastOf(s, ch)
       THEN /\ announced' = [announced EXCEPT ![ch] = @ \ {conn[s].pid}]
            /\ Announces("leave", s, ch, rooms[ch] \ {s})
       ELSE UNCHANGED <<cast, announced>>

\* The message goes to the sockets in the room as it is now.
Fanout(a, ch) ==
    /\ published < MaxPublishes /\ published' = published + 1
    /\ Casts(a, [type |-> "message", ch |-> ch, n |-> published + 1, from |-> a], rooms[ch])

-----------------------------------------------------------------------------
\* A socket: its goroutine joins, acknowledges, reads frames and cleans up.

\* Faulty: what is asked for is not held against the token.
AdmitsAny(t, asked) == Verified(t) /\ ~TokenDead(t)

\* The checks of an upgrade; with no channel named, all of the token's are asked for.
Admits(t, asked) == Verified(t) /\ ~TokenDead(t) /\ asked \subseteq t.channels

Upgrade(s, t, asked) ==
    /\ conn[s].at = "none"
    /\ Admits(t, ToSet(asked))
    /\ conn' = [conn EXCEPT ![s] = [at |-> "opening", tok |-> t, todo |-> asked,
                    subscribed |-> {}, pid |-> IF PresenceOn THEN t.pid ELSE NoOne, ok |-> TRUE]]
    /\ inbox' = [inbox EXCEPT ![s] = <<>>]
    /\ UNCHANGED <<rooms, cast, minted, ident, epoch, hubClock, published, live, announced>>

\* One channel of the list it is at; a subscribe looks at what the token allows.
JoinNext(s) ==
    /\ conn[s].at \in {"opening", "subscribing"} /\ Idle(s) /\ conn[s].todo # <<>>
    /\ LET ch == Head(conn[s].todo)
       IN IF conn[s].at = "opening" \/ (ch \in conn[s].tok.channels \ conn[s].subscribed)
          THEN Join(s, ch)
          ELSE conn' = [conn EXCEPT ![s].todo = Tail(@)] /\ UNCHANGED <<rooms, cast, announced>>
    /\ UNCHANGED <<inbox, minted, ident, epoch, hubClock, published, live>>

UnsubscribeNext(s) ==
    /\ conn[s].at = "unsubscribing" /\ Idle(s) /\ conn[s].todo # <<>>
    /\ LET ch == Head(conn[s].todo)
       IN IF ch \in conn[s].subscribed THEN Leave(s, ch, Tail(conn[s].todo))
          ELSE conn' = [conn EXCEPT ![s].todo = Tail(@)] /\ UNCHANGED <<rooms, cast, announced>>
    /\ UNCHANGED <<inbox, minted, ident, epoch, hubClock, published, live>>

\* The subscribed frame, or the published one; then the next frame is read.
Acknowledge(s) ==
    /\ conn[s].at \in {"opening", "subscribing", "unsubscribing", "publishing"}
    /\ Idle(s) /\ conn[s].todo = <<>>
    /\ conn' = [conn EXCEPT ![s].at = "open"]
    /\ UNCHANGED <<rooms, cast, inbox, minted, ident, epoch, hubClock, published, live, announced>>

\* Faulty: a socket once open is read from for good.
ReadsOn(s) == conn[s].at = "open"

\* A frame is read before the token expires: the read deadline.
Reads(s) == conn[s].at = "open" /\ hubClock < conn[s].tok.exp

HandleFrame(s, at, chs) ==
    /\ Reads(s)
    /\ conn' = [conn EXCEPT ![s].at = at, ![s].todo = chs]
    /\ UNCHANGED <<rooms, cast, inbox, minted, ident, epoch, hubClock, published, live, announced>>

FramePublish(s, ch) ==
    /\ Reads(s)
    /\ conn[s].tok.pub \in {"ws", "all"} /\ ch \in conn[s].tok.channels
    /\ conn' = [conn EXCEPT ![s].at = "publishing"]
    /\ Fanout(s, ch)
    /\ UNCHANGED <<rooms, inbox, minted, ident, epoch, hubClock, live, announced>>

\* The read fails: the client went, or the token expired.
ReadFails(s) ==
    /\ conn[s].at = "open"
    /\ conn' = [conn EXCEPT ![s].at = "leaving"]
    /\ UNCHANGED <<rooms, cast, inbox, minted, ident, epoch, hubClock, published, live, announced>>

Expires(s) == conn[s].at = "open" /\ hubClock >= conn[s].tok.exp /\ ReadFails(s)

Cleanup(s) ==
    /\ conn[s].at = "leaving" /\ Idle(s)
    /\ \E ch \in conn[s].subscribed : Leave(s, ch, <<>>)
    /\ UNCHANGED <<inbox, minted, ident, epoch, hubClock, published, live>>

\* What is still being sent to a closed connection goes nowhere; the socket may be
\* another connection next.
CloseSocket(s) ==
    /\ conn[s].at = "leaving" /\ Idle(s) /\ conn[s].subscribed = {}
    /\ conn' = [conn EXCEPT ![s] = NoConn]
    /\ inbox' = [inbox EXCEPT ![s] = <<>>]
    /\ cast' = [x \in Actors |-> IF cast[x].to \subseteq {s} THEN NoCast ELSE [cast[x] EXCEPT !.to = @ \ {s}]]
    /\ UNCHANGED <<rooms, minted, ident, epoch, hubClock, published, live, announced>>

\* A write that times out leaves the socket unable to be written to, and open.
WriteBreaks(s) ==
    /\ conn[s].at # "none" /\ conn[s].ok
    /\ conn' = [conn EXCEPT ![s].ok = FALSE]
    /\ UNCHANGED <<rooms, cast, inbox, minted, ident, epoch, hubClock, published, live, announced>>

\* One send of the frame in hand.
Send(a, t) ==
    /\ t \in cast[a].to
    /\ Casts(a, cast[a].frame, cast[a].to \ {t})
    /\ inbox' = IF conn[t].at # "none" /\ conn[t].ok /\ cast[a].frame.type = "message"
                THEN [inbox EXCEPT ![t] = Append(@, cast[a].frame)] ELSE inbox
    /\ UNCHANGED <<rooms, conn, minted, ident, epoch, hubClock, published, live, announced>>

-----------------------------------------------------------------------------
\* Publishing over HTTP, with the org's key or a publish token.

PublishHttp(p, ch) ==
    /\ Idle(p) /\ live[p] = <<>>
    /\ \/ TRUE
       \/ \E t \in minted : Verified(t) /\ CanPublish(t, "http") /\ ch \in t.channels
    /\ Fanout(p, ch)
    /\ UNCHANGED <<rooms, conn, inbox, minted, ident, epoch, hubClock, live, announced>>

\* The live bridge: one event for each channel a committed write's documents fall in,
\* naming the keys; a document without the field falls in none.
LiveGroups(docs) ==
    LET parts == {docs[i].part : i \in DOMAIN docs} \ {NoOne}
    IN [ch \in parts |-> {docs[i].key : i \in {j \in DOMAIN docs : docs[j].part = ch}}]

EmitLive(p, docs) ==
    /\ Idle(p) /\ live[p] = <<>>
    /\ \E order \in SetToSeqs(DOMAIN LiveGroups(docs)) : live' = [live EXCEPT ![p] = order]
    /\ UNCHANGED <<rooms, conn, cast, inbox, minted, ident, epoch, hubClock, published, announced>>

EmitNext(p) ==
    /\ Idle(p) /\ live[p] # <<>>
    /\ Fanout(p, Head(live[p]))
    /\ live' = [live EXCEPT ![p] = Tail(@)]
    /\ UNCHANGED <<rooms, conn, inbox, minted, ident, epoch, hubClock, announced>>

HubTick ==
    /\ hubClock < MaxHubClock /\ hubClock' = hubClock + 1
    /\ UNCHANGED <<rooms, conn, cast, inbox, minted, ident, epoch, published, live, announced>>

-----------------------------------------------------------------------------
\* The lists of channels a request or a frame may name.
ChannelLists == UNION {SetToSeqs(c) : c \in SUBSET Channels}

HubTokens == HubTick \/ (\E a \in TokenAsks : Mint(a))
             \/ \E u \in EndUsers : HubSignIn(u) \/ HubRevoke(u)

\* What the goroutine of a socket does next, whatever its client does.
SocketGoesOn(s) ==
    \/ JoinNext(s) \/ UnsubscribeNext(s) \/ Acknowledge(s) \/ Expires(s)
    \/ Cleanup(s) \/ CloseSocket(s)
    \/ \E t \in Sockets : Send(s, t)

SocketActs(s) ==
    \/ \E t \in minted, asked \in ChannelLists :
          Upgrade(s, t, IF asked = <<>> THEN SetToSeq(t.channels) ELSE asked)
    \/ \E chs \in ChannelLists :
          HandleFrame(s, "subscribing", chs) \/ HandleFrame(s, "unsubscribing", chs)
    \/ \E ch \in Channels : FramePublish(s, ch)
    \/ ReadFails(s) \/ WriteBreaks(s)

PublisherActs(p) ==
    \/ \E ch \in Channels : PublishHttp(p, ch)
    \/ \E docs \in LiveWrites : EmitLive(p, docs)
    \/ EmitNext(p)
    \/ \E t \in Sockets : Send(p, t)

HubNext ==
    \/ HubTokens
    \/ \E s \in Sockets : SocketGoesOn(s) \/ SocketActs(s)
    \/ \E p \in Publishers : PublisherActs(p)

HubSpec == HubInit /\ [][HubNext]_HubVars

-----------------------------------------------------------------------------
HubTyped ==
    /\ rooms \in [Channels -> SUBSET Sockets] /\ announced \in [Channels -> SUBSET (EndUsers \cup PresenceIds)]
    /\ \A s \in Sockets : conn[s].at # "none" => conn[s].subscribed \subseteq Channels
    /\ \A a \in Actors : cast[a].to \subseteq Sockets
    /\ published \in 0..MaxPublishes /\ hubClock \in 0..MaxHubClock

\* What was announced of a channel is who is on it: a member is announced with its
\* first socket and leaves with its last, however sockets of one member come and go,
\* and no end user holds more than PerIdentity of them (Hub.join, Hub.leave).
RosterAnnounced ==
    \A ch \in Channels :
       /\ announced[ch] = Members(ch)
       /\ \A u \in EndUsers : Cardinality(HeldBy(u, ch)) <= PerIdentity

\* A socket is on the channels its own list says, is sent messages of channels its token
\* names and no others, each sender's in the order they were published; an end user's
\* token names channels its patterns permit and lasts no longer than its identity token
\* may (tokens, subscribe, handleFrame, Publish).
StaysInScope ==
    \A s \in Sockets : conn[s].at # "none" =>
       /\ conn[s].subscribed = {ch \in Channels : s \in rooms[ch]}
       /\ \A i \in DOMAIN inbox[s] : inbox[s][i].ch \in conn[s].tok.channels
       /\ conn[s].tok.sub # NoOne => /\ conn[s].tok.channels \subseteq Permitted[conn[s].tok.sub]
                                    /\ conn[s].tok.exp <= hubClock + IdentityTTL
       /\ \A i, j \in DOMAIN inbox[s] :
             i < j /\ inbox[s][i].from = inbox[s][j].from => inbox[s][i].n < inbox[s][j].n

\* The sockets of an account that was revoked end: none can be opened with its tokens, and
\* one that is open leaves its rooms when its token expires, whatever its client sends.
RevokedLeaves ==
    \A s \in Sockets :
       (conn[s].at # "none" /\ TokenDead(conn[s].tok))
         ~> \A ch \in Channels : s \in rooms[ch] => ~TokenDead(conn[s].tok)

\* The roster is what was announced, and a socket gets only what its token is for.
SocketsHold == HubTyped /\ RosterAnnounced /\ StaysInScope

=============================================================================
