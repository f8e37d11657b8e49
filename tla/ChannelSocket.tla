---------------------------- MODULE ChannelSocket ----------------------------
(***************************************************************************)
(* The managed channel subscriber of the client libraries, in Go, in       *)
(* JavaScript and in Python, against the server of its connection: dialing *)
(* with a fresh token, subscribing, publishing, losing the connection and  *)
(* dialing again.                                                          *)
(* Source: go/socket.go, js/src/channel/socket.ts,                         *)
(* python/src/altengine/socket.py; the server's side of a connection is    *)
(* cli/internal/channel/routes.go (see ChannelHub).                        *)
(*                                                                         *)
(* The three are one protocol; where they differ the definition says so.   *)
(* Frames travel in order both ways on a link.  A link is lost by the      *)
(* network, by the server, or by the keepalive that heard nothing; backoff *)
(* is a timer that fires some time later.                                  *)
(***************************************************************************)
EXTENDS Integers, Sequences, FiniteSets, SequencesExt

CONSTANTS
    Langs,        \* the libraries: a subset of {"go", "js", "python"}
    Topics,       \* the channels of every token
    Initial,      \* the Channels option; {} when it is not given
    MaxLinks, MaxCalls   \* bounds

ASSUME SocketAssumption ==
    /\ Langs \subseteq {"go", "js", "python"} /\ Initial \subseteq Topics
    /\ MaxLinks \in Nat /\ MaxCalls \in Nat

VARIABLES
    lang,
    state,      \* the state the application sees
    cur,        \* the link in use; 0 is none
    links,      \* every connection so far
    desired, explicit, closed,
    dials,      \* how many dials wait for a token, by what began them
    timers,     \* reconnects that wait for their time
    calls,      \* the application's calls
    pendingSubs, pendingPubs    \* calls that wait for an ack, oldest first

SocketVars == <<lang, state, cur, links, desired, explicit, closed, dials, timers, calls,
                pendingSubs, pendingPubs>>

SocketInit ==
    /\ lang \in Langs /\ state = "idle" /\ cur = 0 /\ links = <<>>
    /\ desired = Initial /\ explicit = (Initial # {}) /\ closed = FALSE
    /\ dials = [by \in {"connect", "timer"} |-> 0] /\ timers = 0
    /\ calls = <<>> /\ pendingSubs = <<>> /\ pendingPubs = <<>>

Live == DOMAIN links

\* JavaScript looks at the link itself, the others at what they know of it.
IsOpen == cur # 0 /\ (IF lang = "js" THEN links[cur].up = "open" ELSE state = "open")
Connecting == \E l \in Live : links[l].up = "connecting"
Dialing == dials["connect"] + dials["timer"]
RoomToDial == Len(links) + Dialing < MaxLinks

\* The ends of calls.
Settle(k, how) == calls' = [calls EXCEPT ![k].at = how]
FailPending ==
    /\ calls' = [k \in DOMAIN calls |->
          IF k \in ToSet(pendingSubs) \cup ToSet(pendingPubs) /\ calls[k].at = "waiting"
          THEN [calls[k] EXCEPT !.at = "failed"] ELSE calls[k]]
    /\ pendingSubs' = <<>> /\ pendingPubs' = <<>>

-----------------------------------------------------------------------------
\* Connecting.  A dial gets a token, then opens a link.

\* Go and Python hold no connection until one is open; JavaScript holds it while it opens.
Connected == cur # 0 /\ (lang = "js" => links[cur].up \in {"connecting", "open"})

Connect ==
    /\ RoomToDial
    /\ IF Connected
       THEN closed' = (closed /\ lang # "js") /\ UNCHANGED <<state, dials>>
       ELSE closed' = FALSE /\ state' = "connecting" /\ dials' = [dials EXCEPT !["connect"] = @ + 1]
    /\ UNCHANGED <<lang, cur, links, desired, explicit, timers, calls, pendingSubs, pendingPubs>>

\* Faulty: the channels the socket was made with are asked for again.
TargetInitial == IF Initial # {} THEN Initial ELSE Topics

\* The channels the URL asks for: the desired ones if any were named, else the token's.
Target == IF explicit /\ desired # {} THEN desired ELSE Topics

Taken(by) == dials[by] > 0 /\ dials' = [dials EXCEPT ![by] = @ - 1]

\* `missed` is a history: the channels whose mentions may not have reached the link in order.
DialToken(by) ==
    /\ Taken(by)
    /\ links' = Append(links, [up |-> "connecting", by |-> by, asked |-> Target, sub |-> {},
                               all |-> ~explicit \/ desired = {}, missed |-> {},
                               refused |-> {}, in |-> <<>>, out |-> <<>>])
    /\ cur' = IF lang = "js" THEN Len(links) + 1 ELSE cur
    /\ UNCHANGED <<lang, state, desired, explicit, closed, timers, calls, pendingSubs, pendingPubs>>

\* Another try, unless the socket was closed.
Reconnects ==
    IF closed THEN UNCHANGED <<state, timers>>
    ELSE state' = "reconnecting" /\ timers' = timers + 1

\* What a failed dial does next: a reconnect tries again (Python forgets a connection made
\* meanwhile, Go keeps it), and so does a first dial in JavaScript; in Go a first one ends
\* closed, and in Python it only raises.
DialFailed(by) ==
    CASE lang = "js" -> Reconnects /\ UNCHANGED <<cur, calls, pendingSubs, pendingPubs>>
      [] lang = "python" /\ by = "timer" -> Reconnects /\ cur' = 0 /\ FailPending
      [] lang = "go" /\ by = "timer" /\ cur = 0 -> Reconnects /\ FailPending /\ UNCHANGED cur
      [] OTHER ->
           /\ state' = IF lang = "go" /\ by = "connect" THEN "closed" ELSE state
           /\ UNCHANGED <<cur, timers, calls, pendingSubs, pendingPubs>>

DialNoToken(by) ==
    /\ Taken(by) /\ DialFailed(by)
    /\ UNCHANGED <<lang, links, desired, explicit, closed>>

\* The link opens, whatever was closed meanwhile; the server joins what was asked for,
\* except what it refuses, and says so.
Ack(l, sub, refused) == [type |-> "subscribed", channels |-> sub, refused |-> refused]

DialOpens(l) ==
    /\ links[l].up = "connecting"
    /\ \E refused \in SUBSET links[l].asked :
          links' = [links EXCEPT ![l] =
             [@ EXCEPT !.up = "open", !.sub = links[l].asked \ refused, !.refused = refused,
                       !.out = <<Ack(l, links[l].asked \ refused, refused)>>]]
    /\ cur' = (IF lang = "js" THEN cur ELSE l) /\ state' = "open"
    /\ UNCHANGED <<lang, desired, explicit, closed, dials, timers, calls, pendingSubs, pendingPubs>>

DialRefused(l) ==
    /\ links[l].up = "connecting"
    /\ links' = [links EXCEPT ![l].up = "lost"]
    /\ IF lang = "js" THEN FailPending /\ Reconnects /\ UNCHANGED cur ELSE DialFailed(links[l].by)
    /\ UNCHANGED <<lang, desired, explicit, closed, dials>>

-----------------------------------------------------------------------------
\* Losing the connection.

\* What was on its way is gone.
Cut(link) == [link EXCEPT !.up = "broken", !.sub = {}, !.in = <<>>, !.out = <<>>]

LinkLost(l) ==
    /\ links[l].up = "open"
    /\ links' = [links EXCEPT ![l] = Cut(@)]
    /\ UNCHANGED <<lang, state, cur, desired, explicit, closed, dials, timers, calls,
                   pendingSubs, pendingPubs>>

\* Faulty: calls that wait are left to the next link.
OnDisconnectKeeps(l) ==
    /\ links[l].up = "broken"
    /\ links' = [links EXCEPT ![l].up = "lost"]
    /\ cur' = 0 /\ Reconnects
    /\ UNCHANGED <<lang, desired, explicit, closed, dials, calls, pendingSubs, pendingPubs>>

\* The reader notices: Go and Python look at whether the link was replaced, JavaScript does not.
OnDisconnect(l) ==
    /\ links[l].up = "broken"
    /\ links' = [links EXCEPT ![l].up = "lost"]
    /\ IF lang # "js" /\ cur # l
       THEN UNCHANGED <<state, cur, timers, calls, pendingSubs, pendingPubs>>
       ELSE /\ FailPending
            /\ cur' = IF lang = "js" THEN cur ELSE 0
            /\ Reconnects
    /\ UNCHANGED <<lang, desired, explicit, closed, dials>>

\* JavaScript dials whatever happened meanwhile; the others look again.
TimerFires ==
    /\ timers > 0 /\ timers' = timers - 1
    /\ IF lang # "js" /\ (closed \/ cur # 0)
       THEN UNCHANGED <<dials, state>>
       ELSE /\ RoomToDial
            /\ dials' = [dials EXCEPT !["timer"] = @ + 1]
            /\ state' = IF lang = "js" THEN "reconnecting" ELSE state
    /\ UNCHANGED <<lang, cur, links, desired, explicit, closed, calls, pendingSubs, pendingPubs>>

\* Closing: the link in use, what waits, and the timer (JavaScript), the reconnecting task
\* (Python).  A dial that runs is not told in Go, nor in JavaScript before it has its token.
Close ==
    /\ state # "idle"
    /\ closed' = TRUE /\ state' = "closed" /\ cur' = 0
    /\ FailPending
    /\ links' = [l \in Live |->
          IF (l = cur /\ links[l].up \in {"open", "connecting"})
             \/ (lang = "python" /\ links[l].by = "timer" /\ links[l].up = "connecting")
          THEN Cut(links[l])
          ELSE links[l]]
    /\ timers' = CASE lang = "js" -> IF timers > 0 THEN timers - 1 ELSE 0
                   [] lang = "python" -> 0
                   [] OTHER -> timers
    /\ dials' = [dials EXCEPT !["timer"] = IF lang = "python" THEN 0 ELSE @]
    /\ UNCHANGED <<lang, desired, explicit>>

-----------------------------------------------------------------------------
\* The application's calls.

Frame(op, chs, k) == [type |-> op, channels |-> chs, call |-> k]

\* What a call that mentions channels makes of the links: one that is opening was asked for
\* others, and in Go two frames may be written in either order.
Overtaken(op, chs) ==
    {ch \in chs : \E k \in DOMAIN calls : /\ ~calls[k].sent /\ calls[k].on = cur /\ calls[k].op # op
                                         /\ ch \in calls[k].chs}
Told(op, chs) ==
    [l \in Live |->
       CASE links[l].up = "connecting" -> [links[l] EXCEPT !.missed = @ \cup chs]
         [] links[l].up = "open" /\ l = cur ->
              [links[l] EXCEPT !.missed = @ \cup Overtaken(op, chs),
                               !.in = IF lang # "go" /\ IsOpen THEN Append(@, Frame(op, chs, Len(calls) + 1)) ELSE @]
         [] OTHER -> links[l]]

\* A call's frame is written at once in JavaScript and Python, in Go after the lock, when
\* other callers may come first.
Called(op, chs, at) ==
    /\ calls' = Append(calls, [op |-> op, chs |-> chs, at |-> at, on |-> cur, sent |-> lang # "go" \/ ~IsOpen])
    /\ links' = Told(op, chs)

\* A subscribe that finds no open link is done: the channels are asked for when one opens.
Subscribe(chs) ==
    /\ Len(calls) < MaxCalls
    /\ desired' = desired \cup chs /\ explicit' = TRUE
    /\ Called("subscribe", chs, IF IsOpen THEN "waiting" ELSE "done")
    /\ pendingSubs' = IF IsOpen THEN Append(pendingSubs, Len(calls) + 1) ELSE pendingSubs
    /\ UNCHANGED <<lang, state, cur, closed, dials, timers, pendingPubs>>

\* Nobody waits for the answer to an unsubscribe.
Unsubscribe(chs) ==
    /\ Len(calls) < MaxCalls
    /\ desired' = desired \ chs /\ explicit' = TRUE
    /\ Called("unsubscribe", chs, "done")
    /\ UNCHANGED <<lang, state, cur, closed, dials, timers, pendingSubs, pendingPubs>>

Publish ==
    /\ Len(calls) < MaxCalls /\ IsOpen
    /\ Called("publish", {}, "waiting")
    /\ pendingPubs' = Append(pendingPubs, Len(calls) + 1)
    /\ UNCHANGED <<lang, state, cur, desired, explicit, closed, dials, timers, pendingSubs>>

SendFrame(k) ==
    /\ ~calls[k].sent
    /\ IF links[calls[k].on].up = "open"
       THEN /\ links' = [links EXCEPT ![calls[k].on].in = Append(@, Frame(calls[k].op, calls[k].chs, k))]
            /\ calls' = [calls EXCEPT ![k].sent = TRUE]
       ELSE calls' = [calls EXCEPT ![k] = [@ EXCEPT !.sent = TRUE, !.at = "failed"]] /\ UNCHANGED links
    /\ UNCHANGED <<lang, state, cur, desired, explicit, closed, dials, timers, pendingSubs, pendingPubs>>

-----------------------------------------------------------------------------
\* The server reads a frame and answers it (handleFrame).

Answered(link, sub, refused, frame) ==
    [link EXCEPT !.in = Tail(@), !.sub = sub, !.refused = refused, !.out = Append(@, frame)]
Answer(l, sub, refused, frame) == links' = [links EXCEPT ![l] = Answered(@, sub, refused, frame)]

ServerReads(l) ==
    /\ links[l].up = "open" /\ links[l].in # <<>>
    /\ LET f == Head(links[l].in)
           has == links[l].sub
       IN CASE f.type = "subscribe" ->
                 \E no \in SUBSET (f.channels \ has) :
                    LET sub == has \cup (f.channels \ no)
                    IN Answer(l, sub, (links[l].refused \cup no) \ sub, Ack(l, sub, no))
            [] f.type = "unsubscribe" ->
                 Answer(l, has \ f.channels, links[l].refused \ f.channels,
                        Ack(l, has \ f.channels, {}))
            [] OTHER ->
                 \E type \in {"published", "error"} :
                    Answer(l, has, links[l].refused, [type |-> type, call |-> f.call])
    /\ UNCHANGED <<lang, state, cur, desired, explicit, closed, dials, timers, calls,
                   pendingSubs, pendingPubs>>

\* Faulty: any ack is taken for the oldest one's.
CoversAny(f, k) == TRUE

\* Whether an ack is the oldest subscribe's: JavaScript counts what was refused as answered.
Covers(f, k) == calls[k].chs \subseteq f.channels \cup (IF lang = "js" THEN f.refused ELSE {})

Pops(pending, k) == IF calls[k].at = "waiting" THEN Settle(k, pending) ELSE UNCHANGED calls

\* The client reads a frame, on the link in use or on one it no longer remembers.
HandleFrame(l) ==
    /\ links[l].up = "open" /\ links[l].out # <<>>
    /\ links' = [links EXCEPT ![l].out = Tail(@)]
    /\ LET f == Head(links[l].out)
       IN CASE f.type = "subscribed" /\ pendingSubs # <<>> /\ Covers(f, Head(pendingSubs)) ->
                 /\ Pops("ok", Head(pendingSubs))
                 /\ pendingSubs' = Tail(pendingSubs) /\ UNCHANGED pendingPubs
            [] f.type = "published" /\ pendingPubs # <<>> ->
                 /\ Pops("ok", Head(pendingPubs))
                 /\ pendingPubs' = Tail(pendingPubs) /\ UNCHANGED pendingSubs
            [] f.type = "error" /\ pendingPubs # <<>> ->
                 /\ Pops("failed", Head(pendingPubs))
                 /\ pendingPubs' = Tail(pendingPubs) /\ UNCHANGED pendingSubs
            [] f.type = "error" /\ pendingPubs = <<>> /\ pendingSubs # <<>> ->
                 /\ Pops("failed", Head(pendingSubs))
                 /\ pendingSubs' = Tail(pendingSubs) /\ UNCHANGED pendingPubs
            [] OTHER -> UNCHANGED <<calls, pendingSubs, pendingPubs>>
    /\ UNCHANGED <<lang, state, cur, desired, explicit, closed, dials, timers>>

-----------------------------------------------------------------------------
AppActs ==
    \/ Connect
    \/ Close
    \/ \E ch \in Topics : Subscribe({ch}) \/ Unsubscribe({ch})
    \/ Publish

LinkGoesOn(l) == ServerReads(l) \/ HandleFrame(l) \/ OnDisconnect(l)

SocketNext ==
    \/ AppActs
    \/ \E by \in {"connect", "timer"} : DialToken(by) \/ DialNoToken(by)
    \/ \E l \in Live : DialOpens(l) \/ DialRefused(l) \/ LinkLost(l) \/ LinkGoesOn(l)
    \/ \E k \in DOMAIN calls : SendFrame(k)
    \/ TimerFires

SocketSpec == SocketInit /\ [][SocketNext]_SocketVars

\* An application that does not connect or close while a dial or a timer is under way.
Polite == /\ closed' # closed => Dialing = 0 /\ timers = 0 /\ ~Connecting
          /\ dials'["connect"] > dials["connect"] =>
                Dialing = 0 /\ timers = 0 /\ \A l \in Live : links[l].up = "lost"

PoliteSpec == SocketInit /\ [][SocketNext /\ Polite]_SocketVars

-----------------------------------------------------------------------------
SocketTyped ==
    /\ lang \in Langs /\ state \in {"idle", "connecting", "open", "reconnecting", "closed"}
    /\ cur \in 0..Len(links) /\ desired \subseteq Topics /\ timers \in Nat
    /\ dials \in [{"connect", "timer"} -> Nat] /\ \A l \in Live : links[l].sub \subseteq Topics

\* Nothing is on its way between the application, the client and the server.
AtRest ==
    /\ IsOpen /\ links[cur].up = "open" /\ ~Connecting /\ Dialing = 0 /\ timers = 0
    /\ links[cur].in = <<>> /\ links[cur].out = <<>> /\ \A k \in DOMAIN calls : calls[k].sent

\* Once nothing is on its way, the server has the socket on every channel the application
\* asked for and did not give up, through lost links and reconnects, and on no other: all
\* but what the server refused, what was asked while the link was opening or (in Go) beside
\* a call that gave it up, and a link opened naming no channels (Subscribe, Unsubscribe, target).
DesiredAtRest ==
    AtRest /\ explicit =>
       LET link == links[cur]
       IN /\ desired \ (link.refused \cup link.missed) \subseteq link.sub
          /\ ~link.all => link.sub \ link.missed \subseteq desired

\* A call is answered for itself: a subscribe that returned had the server's word for its
\* channels, and the acks of publishes are given out in the order they were sent.
AnswersOwn ==
    [][\A k \in DOMAIN calls :
         lang # "go" /\ calls[k].at = "waiting" /\ calls'[k].at = "ok" =>
            \E l \in Live :
               /\ links[l].out # <<>> /\ links'[l].out # links[l].out
               /\ LET f == Head(links[l].out)
                  IN IF calls[k].op = "publish" THEN f.call = k
                     ELSE calls[k].chs \subseteq f.channels \cup f.refused]_SocketVars

\* Through lost links and reconnects the server comes to have the channels the application
\* asked for, and a call is answered for itself.
SocketKeeps == [](SocketTyped /\ DesiredAtRest) /\ AnswersOwn

Waits(k) == k \in DOMAIN calls /\ calls[k].at = "waiting"
Owed(k) == Waits(k) /\ (lang = "js" \/ calls[k].op = "publish")

\* Every publish returns, by an ack or when the link is lost, and in JavaScript so does every
\* subscribe, refused channels being answered too (handleFrame, onDisconnect).
CallsReturn == \A k \in 1..MaxCalls : Owed(k) ~> ~Waits(k)

\* A channel that was given up stays so: the doc of Unsubscribe says it leaves the
\* subscription and the resubscribe set.
UnsubscribedStays ==
    AtRest => \A ch \in Topics :
       (/\ \E k \in DOMAIN calls : calls[k].op = "unsubscribe" /\ ch \in calls[k].chs
        /\ ch \notin desired \cup links[cur].missed)
          => ch \notin links[cur].sub

\* A socket that was closed is not open: the doc of Close says it stops reconnecting and
\* closes the connection.
ClosedStaysClosed == closed => \A l \in Live : links[l].up # "open"

=============================================================================
