------------------------------ MODULE MCClients -----------------------------
(***************************************************************************)
(* What clients do to the server: end users' sessions, the sockets of a    *)
(* channel instance, and the saving of queues and reading of tasks.  These *)
(* share no state here: a behaviour is about one of them, and `part` says  *)
(* what happens in it.  "sessions" is sign-in, rotation and revocation by two *)
(* clients with a crash; "rotation" tokens rotated again and again; "codes" *)
(* the one-time codes and the verification gate; "roster" presence and expiry *)
(* of one end user's two sockets; "ended" one socket and a revoked account; *)
(* "fanout" messages and the live bridge while a second socket comes and   *)
(* goes; "targets", "letters" and "waits" settings saved by two requests at *)
(* once, of those fields; "tasks" tasks added, moved and read page by page. *)
(***************************************************************************)
EXTENDS IdentitySessions, ChannelHub, QueueAdmin

CONSTANTS s1, s2, ch1, ch2, user, member, none
VARIABLE part

MCPermitted == [x \in {user} |-> {ch1}]
MCTokenAsks == {[channels |-> {ch1, ch2}, ttl |-> 0, publish |-> "all", pid |-> none],
                [channels |-> {ch1}, ttl |-> 2, publish |-> "none", pid |-> member],
                [channels |-> {ch1}, ttl |-> 0, publish |-> "none", pid |-> none]}
MCLiveWrites == {<<[key |-> "k", part |-> ch1], [key |-> "l", part |-> ch2], [key |-> "m", part |-> none]>>}

MCDefaults == [mode |-> "push", target |-> "none", dlq |-> "none", min |-> 1, max |-> 8, doublings |-> 2,
               attempts |-> 6, age |-> 0]
MCPatches == {[target |-> "channel"], [target |-> "none"], [mode |-> "pull"], [mode |-> "push"],
              [dlq |-> "q2"], [dlq |-> "none"], [min |-> 3], [max |-> 2], [age |-> 12]}
MCTaskLists == {<<[name |-> "a", target |-> "function"], [name |-> "", target |-> "function"]>>,
                <<[name |-> "a", target |-> "function"], [name |-> "a", target |-> "webhook"]>>,
                <<[name |-> "", target |-> "none"]>>}

clientVars == <<part, AuthVars, HubVars, adminVars>>

Init == /\ part \in {"sessions", "rotation", "codes", "roster", "ended", "fanout",
                     "targets", "letters", "waits", "tasks"}
        /\ AuthInit /\ HubInit /\ AdminInit

\* The gate stays off and no code is asked for.
NoCodes == gate' = gate /\ \A c \in AuthClients : authReq'[c].op \notin {"code", "burn"}
SessionsPart == AuthNext /\ NoCodes /\ Len(refresh') <= 2

\* Nobody is disabled or deleted, and sign-in happens once.
RotationPart == /\ AuthNext /\ NoCodes /\ UNCHANGED authCrashes
                /\ \A c \in AuthClients : /\ authReq'[c].op # "revoke"
                                          /\ authReq'[c].op = "issue" => refresh' = <<>>

\* No crash, one session, no rotation, and of the revocations the resets that a code leads to.
CodesPart == /\ AuthNext /\ UNCHANGED authCrashes /\ authClock' <= 2 /\ Len(refresh') <= 1
             /\ \A c \in AuthClients : /\ authReq'[c].op # "reread"
                                       /\ authReq'[c].op = "revoke" => authReq'[c].how = "reset"
             /\ \A k \in DOMAIN refresh : refresh'[k].revoked =>
                   refresh[k].revoked \/ \E c \in AuthClients : authReq[c].op = "revoke"

\* Tokens that bind a member; nothing is published and every write arrives.
Silent == /\ published' = 0 /\ \A p \in Publishers : live'[p] = <<>>
          /\ \A s \in Sockets : conn'[s].at # "none" => conn'[s].ok
          /\ \A t \in minted' : t.pid # none
RosterPart == HubNext /\ Silent /\ hubClock' = 0 /\ UNCHANGED epoch
EndedPart == HubNext /\ Silent /\ conn'[s2].at = "none"

\* s2 comes after s1, which stays; tokens bind no member and do not expire, and of two messages
\* all writes arrive.
FanoutPart == /\ HubNext /\ UNCHANGED <<epoch, ident>> /\ hubClock' = 0
              /\ \A t \in minted' : t.pid = none
              /\ conn'[s1].at # "none" => conn'[s1].ok
              /\ conn'[s2].at # "none" /\ ~conn'[s2].ok => published' <= 1
              /\ conn'[s1].at \notin {"leaving", "subscribing"} /\ conn'[s2].at # "publishing"
              /\ conn'[s2].at # "none" => conn'[s1].at # "none"
              /\ \A s \in Sockets : /\ conn'[s].at # "unsubscribing"
                                    /\ conn'[s].at = "subscribing" => conn'[s].todo \in {<<>>, <<ch2>>}

\* What a part's patches are about, and who asks for what.
About == CASE part = "targets" -> {"target", "mode"} [] part = "letters" -> {"dlq"}
           [] part = "waits" -> {"min", "max", "age"} [] part = "tasks" -> {}
Patched == {p \in Patches : DOMAIN p \subseteq About}
AskPart ==
    \/ part = "targets" /\ \E v \in Savers, who \in {"publisher", "other"}, create \in BOOLEAN, p \in Patched :
          AskSave(v, who, "q2", create, p)
    \/ part = "letters" /\ \E v \in Savers, q \in QueueNames, create \in BOOLEAN, p \in Patched :
          AskSave(v, "console", q, create, p)
    \/ part = "waits" /\ \E p \in Patched : AskSave("v1", "console", "q1", FALSE, p)
    \/ part = "tasks" /\ saved["q2"] = Missing /\ AskSave("v1", "console", "q2", TRUE, [mode |-> "push"])

\* Everything is in one queue.  Tasks move only while they are read, and none is seen running.
TasksPart ==
    \/ \E list \in TaskLists, at \in RunTimes : AddList("other", "q2", list, at)
    \/ lister # NotListing /\ \E i \in TaskIds, state \in {"scheduled", "done"}, at \in RunTimes : TaskMoves(i, state, at)
    \/ \E state \in {"scheduled", "done", "any"} : StartsList("q2", state)
    \/ ListTasks \/ ListEnds

AdminPart ==
    \/ AskPart
    \/ \E v \in Savers : Saves(v)
    \/ DropQueue("q2")
    \/ part = "targets" /\ \E t \in targets : DropTarget(t)
    \/ part = "waits" /\ FailsAgain("q1")
    \/ part = "tasks" /\ TasksPart

Next == /\ UNCHANGED part
        /\ \/ /\ \/ part = "sessions" /\ SessionsPart
                 \/ part = "rotation" /\ RotationPart
                 \/ part = "codes" /\ CodesPart
              /\ UNCHANGED <<HubVars, adminVars>>
           \/ /\ \/ part = "roster" /\ RosterPart
                 \/ part = "ended" /\ EndedPart
                 \/ part = "fanout" /\ FanoutPart
              /\ UNCHANGED <<AuthVars, adminVars>>
           \/ part \in {"targets", "letters", "waits", "tasks"} /\ AdminPart /\ UNCHANGED <<AuthVars, HubVars>>

\* Time passes, and the goroutine of a socket goes on, whatever its client does.
Fairness == /\ WF_HubVars(part = "ended" /\ HubTick)
            /\ \A s \in Sockets : /\ WF_HubVars(part = "ended" /\ SocketGoesOn(s))
                                  /\ WF_HubVars(part = "ended" /\ Expires(s))

Spec == Init /\ [][Next]_clientVars /\ Fairness

-----------------------------------------------------------------------------
\* The sockets of a revoked account end.
AllEnd == part = "ended" => RevokedLeaves
=============================================================================
