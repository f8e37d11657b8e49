---------------------------- MODULE MailDelivery ----------------------------
(***************************************************************************)
(* What the mailbox does with a message it took in: mailbox/inbound.go     *)
(* (Ingest), mailbox/triggers.go (attempts, retries, the background loop,  *)
(* replay) and the parts of mailbox/store.go they call.                    *)
(*                                                                         *)
(* A message's route picks actions (a function, a channel, a webhook, a    *)
(* queue); each becomes a delivery row.  Three kinds of goroutine drive    *)
(* rows: the message's own, started as soon as it is stored; the loop,     *)
(* every few seconds; and a replay, in its caller's request.  What keeps   *)
(* them apart is a set of claims in memory.  The loop also removes what    *)
(* expired, a request may remove or keep a message at any time, and a      *)
(* crash forgets the goroutines and the claims and keeps the tables.  The  *)
(* bytes of a message are not followed: writing and deleting them is the   *)
(* step before the rows are written or deleted.                            *)
(***************************************************************************)
EXTENDS Integers, Sequences, FiniteSets, SequencesExt

CONSTANTS RouteChoices,     \* what the routes may pick: sequences of actions
          RetryAfter,       \* the waits before each retry
          Grace,            \* how long an untried delivery is left to its first attempt
          MailTTL,          \* settings.retentionDays
          KeepFor,          \* what a keep may ask for
          MaxMails, MaxReplays, MaxMailClock, MaxMailCrashes      \* bounds

ASSUME MailDeliveryAssumption ==
  /\ \A r \in RouteChoices : r \in Seq(ToSet(r)) /\ IsInjective(r)
  /\ RetryAfter \in Seq(Nat \ {0}) /\ Len(RetryAfter) > 0
  /\ Grace \in Nat /\ MailTTL \in Nat \ {0} /\ KeepFor \subseteq Nat \ {0}
  /\ {MaxMails, MaxReplays, MaxMailClock, MaxMailCrashes} \subseteq Nat

VARIABLES mailNow,     \* the clock
          routed,      \* what the current routes pick
          mails,       \* message table: id -> [received, expires]
          rows,        \* delivery table: <<id, action>> -> [status, attempts, next]
          inflight,    \* Service.inflight
          doing,       \* the goroutines
          mailTasks,   \* <<id, queue>> -> tasks a queue was given for a message
          tried,       \* ghost: rows attempted since they were last written afresh
          taken, replays, mailCrashes

mailVars == <<mailNow, routed, mails, rows, inflight, doing, mailTasks, tried,
              taken, replays, mailCrashes>>

MaxDeliveryAttempts == Len(RetryAfter) + 1
RouteActions == UNION {ToSet(r) : r \in RouteChoices}
MailIds == 1 .. MaxMails
Inline(i) == <<"inline", i>>
Loop      == <<"loop", 0>>
Replaying == <<"replay", 0>>
Remover   == <<"remove", 0>>
MailProcs == {Inline(i) : i \in MailIds} \cup {Loop, Replaying, Remover}

\* A goroutine between two pieces of work holds nothing.
Resting == [at |-> "idle", mail |-> 0, since |-> 0, todo |-> <<>>, results |-> <<>>, mine |-> {},
            ids |-> {}, due |-> {}]

Untried(acts) == [k \in DOMAIN acts |-> [action |-> acts[k], attempts |-> 0]]
RowsOf(i) == {r \in DOMAIN rows : r[1] = i}
Dropped(f, S) == [x \in DOMAIN f \ S |-> f[x]]
FreshRows(i, acts, at) == [r \in {<<i, a>> : a \in ToSet(acts)} |->
                             [status |-> "pending", attempts |-> 0, next |-> at]]
With(f, g) == [x \in DOMAIN f \cup DOMAIN g |-> IF x \in DOMAIN g THEN g[x] ELSE f[x]]
\* The clock stops at its bound: what is due past it is due there.
Soon(t) == IF t > MaxMailClock THEN MaxMailClock ELSE t

MailInit ==
  /\ mailNow = 0 /\ routed \in RouteChoices
  /\ mails = <<>> /\ rows = <<>> /\ inflight = {}
  /\ doing = [p \in MailProcs |-> Resting]
  /\ mailTasks = <<>> /\ tried = {} /\ taken = 0 /\ replays = 0 /\ mailCrashes = 0

-----------------------------------------------------------------------------
(* One attempt *)

\* Faulty: one attempt too many.
RetryAtOnceMore(attempts, now) == IF attempts > MaxDeliveryAttempts THEN 0
                                  ELSE Soon(now + RetryAfter[IF attempts < 1 \/ attempts > Len(RetryAfter)
                                                             THEN 1 ELSE attempts])

\* RetryAt: the wait grows with each failure; 0 when no attempt is left.
RetryAt(attempts, now) == IF attempts >= MaxDeliveryAttempts THEN 0
                          ELSE Soon(now + RetryAfter[IF attempts < 1 THEN 1 ELSE attempts])

\* What an action may answer: done, a failure worth a retry, or a target that is no longer there.
Outcomes == {"ok", "failed", "gone"}

Result(p, attempts, outcome, now) ==
  LET next == IF outcome = "failed" THEN RetryAt(attempts, now) ELSE 0
  IN  [action |-> p.action, attempts |-> attempts, next |-> next,
       status |-> CASE outcome = "ok" -> "ok" [] next = 0 -> "error" [] OTHER -> "pending"]

\* Faulty: the task is not named after the message.
TasksWithUnnamed(i, action) == [mailTasks EXCEPT ![<<i, action>>] = @ + 1]

\* EnqueueMail: the task is named per message and route, and a name in use still counts as queued.
TasksWith(i, action) == [mailTasks EXCEPT ![<<i, action>>] = 1]

\* enqueue: what an action on a queue leaves there.
Enqueued(i, action, outcome) ==
  IF action = "queue" /\ outcome = "ok" THEN TasksWith(i, action) ELSE mailTasks

\* attempt: the next delivery of the goroutine's list is run, with whatever comes of it.
Attempt(p) ==
  /\ doing[p].at = "trying"
  /\ \E k \in DOMAIN doing[p].todo, outcome \in Outcomes :
       LET d == doing[p].todo[k]
       IN  /\ \A j \in DOMAIN doing[p].todo : k <= j
           /\ doing' = [doing EXCEPT ![p].todo = Dropped(@, {k}),
                          ![p].results = Append(@, Result(d, d.attempts + 1, outcome, doing[p].since))]
           /\ tried' = tried \cup {<<doing[p].mail, d.action>>}
           /\ mailTasks' = Enqueued(doing[p].mail, d.action, outcome)
  /\ UNCHANGED <<mailNow, routed, mails, rows, inflight, taken, replays, mailCrashes>>

\* RecordDeliveries: one UPDATE per result; a row that is gone stays gone.
Record(p) ==
  /\ doing[p].at = "trying" /\ doing[p].todo = <<>> /\ doing[p].results # <<>>
  /\ LET r == Head(doing[p].results)
         k == <<doing[p].mail, r.action>>
     IN  rows' = IF k \notin DOMAIN rows THEN rows
                 ELSE [rows EXCEPT ![k] = [status |-> r.status, attempts |-> r.attempts, next |-> r.next]]
  /\ doing' = [doing EXCEPT ![p].results = Tail(@)]
  /\ UNCHANGED <<mailNow, routed, mails, inflight, mailTasks, tried, taken, replays, mailCrashes>>

Keys(i, acts) == {<<i, a>> : a \in acts}
\* Faulty: who is running what is not asked.
ClaimableAll(i, acts) == acts

\* claim: those of the actions nobody is running.
Claimable(i, acts) == {a \in acts : <<i, a>> \notin inflight}

\* The deferred release: the goroutine is over, or the loop goes on to the next message.
Release(p) ==
  /\ doing[p].at = "trying" /\ doing[p].todo = <<>> /\ doing[p].results = <<>>
  /\ inflight' = inflight \ Keys(doing[p].mail, doing[p].mine)
  /\ doing' = [doing EXCEPT ![p] = IF p = Loop
                 THEN [Resting EXCEPT !.at = "redriving", !.since = doing[p].since, !.due = doing[p].due]
                 ELSE Resting]
  /\ UNCHANGED <<mailNow, routed, mails, rows, mailTasks, tried, taken, replays, mailCrashes>>

Drives(p) == Attempt(p) \/ Record(p) \/ Release(p)

\* What is left of a list keeps its places.
Claimed(list, mine) == [k \in {j \in DOMAIN list : list[j].action \in mine} |-> list[k]]

\* claim and what follows it: the claimed part of the list is tried from now on.
Starts(p, i, list, now) ==
  LET mine == Claimable(i, {list[k].action : k \in DOMAIN list})
  IN  /\ inflight' = inflight \cup Keys(i, mine)
      /\ doing' = [doing EXCEPT ![p].at = "trying", ![p].mail = i, ![p].since = now, ![p].mine = mine,
                     ![p].todo = Claimed(list, mine)]

-----------------------------------------------------------------------------
(* A message comes in *)

\* Ingest up to the bytes: id and time are taken, the route is picked, the files are written.
IngestFiles(i) ==
  /\ i = taken + 1 /\ i \in MailIds
  /\ taken' = i
  /\ mailTasks' = With(mailTasks, [k \in {<<i, "queue">>} |-> 0])
  /\ doing' = [doing EXCEPT ![Inline(i)] = [Resting EXCEPT !.at = "filed", !.mail = i,
                 !.since = mailNow, !.todo = Untried(routed)]]
  /\ UNCHANGED <<mailNow, routed, mails, rows, inflight, tried, replays, mailCrashes>>

ActionsOf(list) == [k \in DOMAIN list |-> list[k].action]

\* StoreMessage: the row, its attachments and its deliveries in one transaction.
StoreMessage(i) ==
  LET me == doing[Inline(i)]
  IN  /\ me.at = "filed"
      /\ mails' = With(mails, [k \in {i} |-> [received |-> me.since, expires |-> me.since + MailTTL]])
      /\ rows' = With(rows, FreshRows(i, ActionsOf(me.todo), me.since))
      /\ doing' = [doing EXCEPT ![Inline(i)].at = "stored"]
      /\ UNCHANGED <<mailNow, routed, inflight, mailTasks, tried, taken, replays, mailCrashes>>

\* The message is read back and deliverAsync claims and starts; with nothing to do, or the message
\* already removed, it does not.
DeliverAsync(i) ==
  LET me == doing[Inline(i)]
  IN  /\ me.at = "stored"
      /\ IF i \in DOMAIN mails
         THEN Starts(Inline(i), i, me.todo, mailNow)
         ELSE doing' = [doing EXCEPT ![Inline(i)] = Resting] /\ UNCHANGED inflight
      /\ UNCHANGED <<mailNow, routed, mails, rows, mailTasks, tried, taken, replays, mailCrashes>>

-----------------------------------------------------------------------------
(* Removing: bytes first, then rows *)

RemoveFiles(p, i) ==
  /\ doing' = [doing EXCEPT ![p].at = "removing", ![p].mail = i]
  /\ UNCHANGED <<mailNow, routed, mails, rows, inflight, mailTasks, tried, taken, replays, mailCrashes>>

RemoveRows(p) ==
  /\ doing[p].at = "removing"
  /\ mails' = Dropped(mails, {doing[p].mail})
  /\ rows' = Dropped(rows, RowsOf(doing[p].mail))
  /\ doing' = [doing EXCEPT ![p] = IF p = Loop
                 THEN [doing[p] EXCEPT !.at = "expiring", !.ids = doing[p].ids \ {doing[p].mail}]
                 ELSE Resting]
  /\ UNCHANGED <<mailNow, routed, inflight, mailTasks, tried, taken, replays, mailCrashes>>

RemoveStarts(i) == doing[Remover].at = "idle" /\ i \in DOMAIN mails /\ RemoveFiles(Remover, i)

\* SetExpiry: one statement; without full access it may only extend.
SetExpiry(i, until, canShorten) ==
  /\ i \in DOMAIN mails
  /\ canShorten \/ mails[i].expires <= until
  /\ mails' = [mails EXCEPT ![i].expires = until]

Keep(i, days, canShorten) ==
  /\ SetExpiry(i, mailNow + days, canShorten)
  /\ UNCHANGED <<mailNow, routed, rows, inflight, doing, mailTasks, tried, taken, replays, mailCrashes>>

-----------------------------------------------------------------------------
(* The background loop *)

Expired(now) == {i \in DOMAIN mails : mails[i].expires <= now}

\* Tick, then Expire: which messages have passed their time is read once.
LoopStarts ==
  /\ doing[Loop].at = "idle"
  /\ doing' = [doing EXCEPT ![Loop].at = "expiring", ![Loop].since = mailNow, ![Loop].ids = Expired(mailNow)]
  /\ UNCHANGED <<mailNow, routed, mails, rows, inflight, mailTasks, tried, taken, replays, mailCrashes>>

LoopExpires ==
  /\ doing[Loop].at = "expiring"
  /\ \E i \in doing[Loop].ids :
       IF i \in DOMAIN mails THEN RemoveFiles(Loop, i)
       ELSE /\ doing' = [doing EXCEPT ![Loop].ids = @ \ {i}]
            /\ UNCHANGED <<mailNow, routed, mails, rows, inflight, mailTasks, tried, taken,
                           replays, mailCrashes>>

\* pastGrace: a delivery never tried belongs to its first attempt for a while.
PastGrace(i, now) == \/ i \notin DOMAIN mails
                     \/ now - mails[i].received >= Grace
                     \/ now = MaxMailClock
\* Faulty: a first attempt is never the loop's.
DueTried(now) == {r \in DOMAIN rows : /\ rows[r].status = "pending" /\ rows[r].next <= now
                                      /\ rows[r].attempts > 0}

\* DueDeliveries, without those left to their first attempt.
Due(now) == {r \in DOMAIN rows : /\ rows[r].status = "pending" /\ rows[r].next <= now
                                 /\ rows[r].attempts > 0 \/ PastGrace(r[1], now)}

LoopReads ==
  /\ doing[Loop].at = "expiring" /\ doing[Loop].ids = {}
  /\ LET due == Due(doing[Loop].since)
     IN  doing' = [doing EXCEPT ![Loop].at = IF due = {} THEN "idle" ELSE "redriving",
                     ![Loop].due = {[mail |-> r[1], action |-> r[2], attempts |-> rows[r].attempts] : r \in due}]
  /\ UNCHANGED <<mailNow, routed, mails, rows, inflight, mailTasks, tried, taken, replays, mailCrashes>>

\* One message of the pass: claimed, read, tried as it was read when the pass began.  A message that
\* is gone has its deliveries marked so.
LoopClaims ==
  /\ doing[Loop].at = "redriving"
  /\ \E i \in {d.mail : d \in doing[Loop].due} :
       LET mine == {d \in doing[Loop].due : d.mail = i}
           list == SetToSeq({[action |-> d.action, attempts |-> d.attempts] : d \in mine})
           rest == [doing EXCEPT ![Loop].due = @ \ mine]
           gone == {<<i, d.action>> : d \in mine} \cap DOMAIN rows
       IN  IF Claimable(i, {d.action : d \in mine}) = {} THEN doing' = rest /\ UNCHANGED <<rows, inflight>>
           ELSE IF i \in DOMAIN mails
           THEN /\ inflight' = inflight \cup Keys(i, Claimable(i, {d.action : d \in mine}))
                /\ doing' = [rest EXCEPT ![Loop].at = "trying", ![Loop].mail = i,
                               ![Loop].mine = Claimable(i, {d.action : d \in mine}),
                               ![Loop].todo = Claimed(list, Claimable(i, {d.action : d \in mine}))]
                /\ UNCHANGED rows
           ELSE /\ rows' = [r \in DOMAIN rows |-> IF r \in gone
                              THEN [rows[r] EXCEPT !.status = "error", !.next = 0] ELSE rows[r]]
                /\ doing' = rest /\ UNCHANGED inflight
  /\ UNCHANGED <<mailNow, routed, mails, mailTasks, tried, taken, replays, mailCrashes>>

LoopEnds ==
  /\ doing[Loop].at = "redriving" /\ doing[Loop].due = {}
  /\ doing' = [doing EXCEPT ![Loop] = Resting]
  /\ UNCHANGED <<mailNow, routed, mails, rows, inflight, mailTasks, tried, taken, replays, mailCrashes>>

-----------------------------------------------------------------------------
(* Replay *)

\* The message is read and the routes as they are now pick its actions.
ReplayReads(i) ==
  /\ doing[Replaying].at = "idle" /\ replays < MaxReplays /\ i \in DOMAIN mails
  /\ replays' = replays + 1
  /\ doing' = [doing EXCEPT ![Replaying].at = "replaying", ![Replaying].mail = i, ![Replaying].todo = Untried(routed)]
  /\ UNCHANGED <<mailNow, routed, mails, rows, inflight, mailTasks, tried, taken, mailCrashes>>

\* ResetDeliveries: one transaction replaces the rows.
ReplayResets ==
  LET me == doing[Replaying]
  IN  /\ me.at = "replaying"
      /\ rows' = With(Dropped(rows, RowsOf(me.mail)), FreshRows(me.mail, ActionsOf(me.todo), mailNow))
      /\ tried' = {k \in tried : k[1] # me.mail}
      /\ doing' = [doing EXCEPT ![Replaying].at = "reset"]
      /\ UNCHANGED <<mailNow, routed, mails, inflight, mailTasks, taken, replays, mailCrashes>>

\* deliverNow claims what it can and runs it in the caller's request.
ReplayClaims ==
  LET me == doing[Replaying]
  IN  /\ me.at = "reset"
      /\ Starts(Replaying, me.mail, me.todo, mailNow)
      /\ UNCHANGED <<mailNow, routed, mails, rows, mailTasks, tried, taken, replays, mailCrashes>>

-----------------------------------------------------------------------------
(* The rest of the world *)

\* A config save changes the routes; messages already stored keep their deliveries.
SaveRoutes ==
  /\ routed' \in RouteChoices \ {routed}
  /\ UNCHANGED <<mailNow, mails, rows, inflight, doing, mailTasks, tried, taken, replays, mailCrashes>>

MailTick ==
  /\ mailNow < MaxMailClock /\ mailNow' = mailNow + 1
  /\ UNCHANGED <<routed, mails, rows, inflight, doing, mailTasks, tried, taken, replays, mailCrashes>>

\* The process stops: tables and files stay, goroutines and claims go.
MailCrash ==
  /\ mailCrashes < MaxMailCrashes /\ mailCrashes' = mailCrashes + 1
  /\ doing' = [p \in MailProcs |-> Resting] /\ inflight' = {}
  /\ UNCHANGED <<mailNow, routed, mails, rows, mailTasks, tried, taken, replays>>

InlineGoesOn(i) == StoreMessage(i) \/ DeliverAsync(i) \/ Drives(Inline(i))
LoopGoesOn == LoopStarts \/ LoopExpires \/ RemoveRows(Loop) \/ LoopReads \/ LoopClaims \/ LoopEnds \/ Drives(Loop)
ReplayGoesOn == ReplayResets \/ ReplayClaims \/ Drives(Replaying)
RemoveGoesOn == RemoveRows(Remover)

MailRequests == \E i \in MailIds : \/ IngestFiles(i)
                                   \/ ReplayReads(i)
                                   \/ RemoveStarts(i)
                                   \/ \E days \in KeepFor, full \in BOOLEAN : Keep(i, days, full)

MailNext == \/ MailRequests
            \/ \E i \in MailIds : InlineGoesOn(i)
            \/ LoopGoesOn \/ ReplayGoesOn \/ RemoveGoesOn
            \/ SaveRoutes \/ MailTick \/ MailCrash

MailSpec == MailInit /\ [][MailNext]_mailVars
            /\ WF_mailVars(LoopGoesOn) /\ WF_mailVars(ReplayGoesOn) /\ WF_mailVars(RemoveGoesOn)
            /\ WF_mailVars(MailTick) /\ \A i \in MailIds : WF_mailVars(InlineGoesOn(i))

-----------------------------------------------------------------------------
(* Properties *)

MailTyped ==
  /\ mailNow \in 0 .. MaxMailClock /\ routed \in RouteChoices
  /\ DOMAIN mails \subseteq 1 .. taken
  /\ \A r \in DOMAIN rows : /\ r[1] \in MailIds /\ r[2] \in RouteActions
                            /\ rows[r].status \in {"pending", "ok", "error"}
                            /\ rows[r].attempts \in 0 .. MaxDeliveryAttempts
  /\ DOMAIN doing = MailProcs /\ inflight \subseteq MailIds \X RouteActions

\* No delivery is run by two goroutines at once, and none stays claimed by nobody: whatever the
\* goroutines of a message, the loop and a replay do around each other, what is in flight is exactly
\* what they hold, each delivery held once (claim and release in triggers.go).
HeldOnce ==
  LET holds(p) == Keys(doing[p].mail, doing[p].mine)
  IN  /\ inflight = UNION {holds(p) : p \in MailProcs}
      /\ \A p, q \in MailProcs : p # q => holds(p) \cap holds(q) = {}

\* A retried delivery to a queue is refused as a duplicate: however often it is attempted, after a
\* crash between the task and the row too, a message is one task (EnqueueMail's name).
QueuedOnce == \A k \in DOMAIN mailTasks : mailTasks[k] <= 1

\* One attempt at a delivery at a time, and one task for a message and a queue.
DeliversOnce == MailTyped /\ HeldOnce /\ QueuedOnce

\* No delivery is pending for ever: it ends ok or in error or goes with its message, though its first
\* attempt dies with the process, its message is removed under it or a replay starts it afresh.
DeliveriesEnd == \A i \in MailIds, a \in RouteActions :
  (<<i, a>> \in DOMAIN rows /\ rows[<<i, a>>].status = "pending")
    ~> (<<i, a>> \notin DOMAIN rows \/ rows[<<i, a>>].status # "pending")

\* What triggers.go says of Replay: the deliveries are replaced "with what the routes pick now and
\* attempted at once".  A delivery that stands as done was attempted since its row was last written.
ReplayAttempts == \A k \in DOMAIN rows : rows[k].status = "ok" => k \in tried
=============================================================================
