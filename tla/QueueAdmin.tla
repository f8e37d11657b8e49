------------------------------ MODULE QueueAdmin ------------------------------
(***************************************************************************)
(* What clients do to the queues of a tasks instance over HTTP: saving     *)
(* settings, which reads them, checks them and writes them in steps of its *)
(* own; deleting queues; adding lists of tasks; reading the tasks page by  *)
(* page; and the waits a queue's retry policy makes between attempts.      *)
(* Source: cli/internal/tasks/{routes,service,limits,store}.go.            *)
(*                                                                         *)
(* A store method holds the instance's lock and is one step.  What the     *)
(* engine does with a task is TaskQueue's: here a task just moves.         *)
(***************************************************************************)
EXTENDS Naturals, FiniteSets, Sequences

CONSTANTS
    QueueNames,   \* queue names
    DefaultQueue, \* the one that stays
    MaxQueues,
    Savers,       \* requests that save settings
    Defaults,     \* DefaultQueueSettings: [mode, target, dlq, min, max, doublings, attempts, age]
    Patches,      \* what a request may set: records of some of those fields
    TaskLists,    \* what an add may bring: sequences of [name, target]
    RunTimes,     \* when a task may be due
    MaxTaskIds,   \* bound: tasks
    TaskPage      \* limit of a list

\* The settings that are numbers.
Amounts == {"min", "max", "doublings", "attempts", "age"}

ASSUME QueueAssumption ==
    /\ DefaultQueue \in QueueNames /\ "none" \notin QueueNames /\ MaxQueues \in Nat \ {0}
    /\ MaxTaskIds \in Nat /\ TaskPage \in Nat \ {0} /\ RunTimes \subseteq Nat
    /\ \A list \in TaskLists : list \in Seq([name : STRING, target : STRING])
    /\ {"mode", "target"} \cup Amounts \subseteq DOMAIN Defaults /\ Defaults.mode \in {"push", "pull"}
    /\ Defaults.target = "none" /\ Defaults.dlq = "none" /\ Defaults.min <= Defaults.max
    /\ \A p \in Patches : "mode" \in DOMAIN p => p.mode \in {"push", "pull"}
    /\ \A p \in {Defaults} \cup Patches, f \in Amounts : f \in DOMAIN p => p[f] \in Nat

\* The console acts for the organization; an API key may hold write access to the channel, or not.
Asking == {"console", "publisher", "other"}

VARIABLES
    saved,   \* queue -> its settings, or Missing
    targets, \* the instances there are for a target to name: "function", "channel"
    saving,  \* each request: what it read and what it is about to write
    granted, \* history: <<queue, target>> asked for by somebody who may name that target
    rows,    \* task id -> its row, or NoTask
    lister,  \* a client that reads the tasks of a queue, page by page
    retried  \* a task that fails again and again: its queue, attempts, last wait, age

adminVars == <<saved, targets, saving, granted, rows, lister, retried>>

Missing == [mode |-> "missing"]
NotSaving == [step |-> "none"]
NoTask == [queue |-> "none"]
NotListing == [step |-> "none"]
NotRetried == [attempts |-> 0]

TaskIds == 1..MaxTaskIds
Existing == {q \in QueueNames : saved[q] # Missing}

AdminInit ==
    /\ saved = [q \in QueueNames |-> IF q = DefaultQueue THEN Defaults ELSE Missing]
    /\ targets = {"function", "channel"} /\ granted = {}
    /\ saving = [s \in Savers |-> NotSaving]
    /\ rows = [i \in TaskIds |-> NoTask] /\ lister = NotListing /\ retried = NotRetried

-----------------------------------------------------------------------------
(* Saving settings *)

\* mayTarget: a channel target is a publish.
MayName(who, target) == target = "channel" => who # "other"

AskSave(s, who, q, create, patch) ==
    /\ saving[s] = NotSaving
    /\ saving' = [saving EXCEPT ![s] = [step |-> "read", who |-> who, queue |-> q, create |-> create, patch |-> patch]]
    /\ UNCHANGED <<saved, targets, granted, rows, lister, retried>>

\* A field left out keeps the base's; a pull queue has no target.
Merged(base, patch) ==
    LET all == [f \in DOMAIN base |-> IF f \in DOMAIN patch THEN patch[f] ELSE base[f]]
    IN  IF all.mode = "pull" THEN [all EXCEPT !.target = "none"] ELSE all

\* ValidateQueueSettings and ValidateRetry.
Acceptable(q, s) == s.dlq # q /\ s.min <= s.max

\* Faulty: only a queue that is made has its target looked at.
AsksGrantAtCreate(a, base, s) == ~a.create \/ MayName(a.who, s.target)

\* The target of a new queue, or a changed one, must be one the caller may name.
AsksGrant(a, base, s) == a.create \/ s.target # base.target => MayName(a.who, s.target)

\* The settings as they are now, or the defaults, and the patch over them.
ReadSettings(s) ==
    /\ saving[s].step = "read"
    /\ LET a == saving[s]
           base == IF a.create THEN Defaults ELSE saved[a.queue] IN
       IF base = Missing \/ ~Acceptable(a.queue, Merged(base, a.patch)) \/ ~AsksGrant(a, base, Merged(base, a.patch))
       THEN saving' = [saving EXCEPT ![s] = NotSaving] /\ UNCHANGED granted
       ELSE LET new == Merged(base, a.patch)
                asks == a.create \/ new.target # base.target IN
            /\ saving' = [saving EXCEPT ![s] = [step |-> IF asks THEN "look" ELSE "put", queue |-> a.queue,
                                                create |-> a.create, settings |-> new]]
            /\ granted' = IF MayName(a.who, new.target) /\ asks THEN granted \cup {<<a.queue, new.target>>} ELSE granted
    /\ UNCHANGED <<saved, targets, rows, lister, retried>>

\* assertTargetExists: a function's or a channel's instance.
LookTarget(s) ==
    /\ saving[s].step = "look"
    /\ saving' = [saving EXCEPT ![s] = IF @.settings.target \in {"function", "channel"} \ targets
                                       THEN NotSaving ELSE [@ EXCEPT !.step = "put"]]
    /\ UNCHANGED <<saved, targets, granted, rows, lister, retried>>

\* Faulty: the dead-letter queue was looked up when the settings were read.
PutSettingsTrusting(s) ==
    /\ saving[s].step = "put"
    /\ LET a == saving[s]  old == saved[a.queue] IN
       saved' = IF a.create = (old = Missing) /\ (a.create => Cardinality(Existing) < MaxQueues)
                THEN [saved EXCEPT ![a.queue] = a.settings] ELSE saved
    /\ saving' = [saving EXCEPT ![s] = NotSaving]
    /\ UNCHANGED <<targets, granted, rows, lister, retried>>

\* PutQueue writes all the settings, if the queue is there still, or not there yet, there is
\* room for it, and its dead-letter queue exists.
PutSettings(s) ==
    /\ saving[s].step = "put"
    /\ LET a == saving[s]  old == saved[a.queue] IN
       saved' = IF /\ a.create = (old = Missing) /\ (a.create => Cardinality(Existing) < MaxQueues)
                   /\ a.settings.dlq \in Existing \cup {"none"}
                THEN [saved EXCEPT ![a.queue] = a.settings] ELSE saved
    /\ saving' = [saving EXCEPT ![s] = NotSaving]
    /\ UNCHANGED <<targets, granted, rows, lister, retried>>

\* A list read while its queue is emptied is promised nothing of the tasks that went.
Unlists(gone) == lister' = IF lister = NotListing THEN lister ELSE [lister EXCEPT !.kept = @ \ gone]

\* Not the default queue, nor one that dead letters go to.
DropQueue(q) ==
    /\ q \in Existing \ {DefaultQueue} /\ \A p \in Existing \ {q} : saved[p].dlq # q
    /\ saved' = [saved EXCEPT ![q] = Missing]
    /\ rows' = [i \in TaskIds |-> IF rows[i].queue = q THEN NoTask ELSE rows[i]]
    /\ Unlists({i \in TaskIds : rows[i].queue = q})
    /\ UNCHANGED <<targets, saving, granted, retried>>

\* An instance a target names is deleted.
DropTarget(t) ==
    /\ targets' = targets \ {t}
    /\ UNCHANGED <<saved, saving, granted, rows, lister, retried>>

-----------------------------------------------------------------------------
(* Adding tasks, and reading them *)

Row(q, task, at) == [queue |-> q, name |-> task.name, target |-> task.target, state |-> "scheduled", at |-> at]

\* Names stay taken while the row is there, those of the list itself too.
Fresh(q, list) ==
    {k \in DOMAIN list : \/ list[k].name = ""
                         \/ /\ \A i \in TaskIds : rows[i].queue = q => rows[i].name # list[k].name
                            /\ \A j \in 1..(k - 1) : list[j].name # list[k].name}

\* A task needs a target, its own or its queue's; a pull queue's has none.
Fits(s, task) == IF s.mode = "pull" THEN task.target = "none" ELSE task.target # "none" \/ s.target # "none"

\* The whole list is refused, or every task of it whose name is free is added.  Ids grow with
\* the milliseconds and fall anyhow within one.
AddList(who, q, list, at) ==
    /\ q \in Existing /\ \A k \in DOMAIN list : Fits(saved[q], list[k]) /\ MayName(who, list[k].target)
    /\ \E id \in [Fresh(q, list) -> {i \in TaskIds : rows[i] = NoTask}] :
          /\ \A k, l \in Fresh(q, list) : id[k] = id[l] => k = l
          /\ rows' = [i \in TaskIds |-> IF \E k \in Fresh(q, list) : id[k] = i
                                        THEN Row(q, list[CHOOSE k \in Fresh(q, list) : id[k] = i], at) ELSE rows[i]]
    /\ UNCHANGED <<saved, targets, saving, granted, lister, retried>>

\* The engine, a worker or another client: a task changes its state, or the time it is due.
TaskMoves(i, state, at) ==
    /\ rows[i] # NoTask /\ rows' = [rows EXCEPT ![i].state = state, ![i].at = at]
    /\ Unlists({i})
    /\ UNCHANGED <<saved, targets, saving, granted, retried>>

\* What a list in this state, or in any, has to show.
Shows(q, state) == {i \in TaskIds : rows[i].queue = q /\ state \in {"any", rows[i].state}}

StartsList(q, state) ==
    /\ lister = NotListing
    /\ lister' = [step |-> "ask", queue |-> q, state |-> state, after |-> <<>>, kept |-> Shows(q, state),
                  seen |-> {}, twice |-> {}]
    /\ UNCHANGED <<saved, targets, saving, granted, rows, retried>>

\* Waiting and running work soonest first, finished work latest first, and all of it newest first.
Earlier(state, a, b) ==
    \/ state \in {"scheduled", "running"} /\ (a[1] < b[1] \/ (a[1] = b[1] /\ a[2] < b[2]))
    \/ state = "done" /\ (a[1] > b[1] \/ (a[1] = b[1] /\ a[2] > b[2]))
    \/ state = "any" /\ a[2] > b[2]

Key(i) == <<rows[i].at, i>>

\* Faulty: the cursor is the time alone.
PastTime == {i \in Shows(lister.queue, lister.state) :
                lister.after # <<>> => Earlier(lister.state, lister.after, Key(i)) /\
                                       (lister.state = "any" \/ rows[i].at # lister.after[1])}

\* The tasks past the cursor, which is the time and the id of the last one shown.
Past == {i \in Shows(lister.queue, lister.state) :
            lister.after # <<>> => Earlier(lister.state, lister.after, Key(i))}

\* The first of them, and a cursor when there are more.
ListTasks ==
    /\ lister.step = "ask"
    /\ IF lister.queue \notin Existing THEN lister' = NotListing
       ELSE LET Goes(i, j) == Earlier(lister.state, Key(i), Key(j))
                past == Past
                page == {i \in past : Cardinality({j \in past : Goes(j, i)}) < TaskPage}
                last == CHOOSE i \in page : \A j \in page : j = i \/ Goes(j, i) IN
            lister' = [step |-> IF page = past THEN "done" ELSE "ask", queue |-> lister.queue, state |-> lister.state,
                       after |-> IF page = past THEN <<>> ELSE Key(last), kept |-> lister.kept,
                       seen |-> lister.seen \cup page, twice |-> lister.twice \cup (lister.seen \cap page)]
    /\ UNCHANGED <<saved, targets, saving, granted, rows, retried>>

ListEnds ==
    /\ lister.step = "done" /\ lister' = NotListing
    /\ UNCHANGED <<saved, targets, saving, granted, rows, retried>>

-----------------------------------------------------------------------------
(* NextAttemptAt *)

Shorter(a, b) == IF a < b THEN a ELSE b

\* math.Pow(2, n)
Power[n \in Nat] == IF n = 0 THEN 1 ELSE 2 * Power[n - 1]

\* Faulty: the first wait is doubled already.
WaitDoubled(s, n) ==
    LET d == Shorter(n, s.doublings)
        more == IF n - 1 > s.doublings THEN (n - 1 - s.doublings) * s.min * Power[s.doublings] ELSE 0
    IN  Shorter(s.min * Power[d] + more, s.max)

\* The wait after n failures: doubled so many times, then longer by the last step each time.
WaitAfter(s, n) ==
    LET d == Shorter(n - 1, s.doublings)
        more == IF n - 1 > s.doublings THEN (n - 1 - s.doublings) * s.min * Power[s.doublings] ELSE 0
    IN  Shorter(s.min * Power[d] + more, s.max)

\* An attempt fails, under the queue's policy of the day: the task waits, or is spent.
FailsAgain(q) ==
    /\ q \in Existing /\ (retried # NotRetried => retried.queue = q)
    /\ LET s == saved[q]
           n == retried.attempts + 1
           age == IF retried = NotRetried THEN 0 ELSE retried.age
           w == WaitAfter(s, n) IN
       retried' = IF n >= s.attempts \/ (s.age > 0 /\ age + w > s.age) THEN NotRetried
                  ELSE [attempts |-> n, queue |-> q, wait |-> w, age |-> age + w, policy |-> s]
    /\ UNCHANGED <<saved, targets, saving, granted, rows, lister>>

-----------------------------------------------------------------------------
Saves(s) == ReadSettings(s) \/ LookTarget(s) \/ PutSettings(s)

TasksChange ==
    \/ \E who \in Asking, q \in QueueNames, list \in TaskLists, at \in RunTimes : AddList(who, q, list, at)
    \/ \E i \in TaskIds, state \in {"scheduled", "running", "done"}, at \in RunTimes : TaskMoves(i, state, at)

Lists == \/ \E q \in QueueNames, state \in {"scheduled", "done", "any"} : StartsList(q, state)
         \/ ListTasks \/ ListEnds

AdminNext ==
    \/ \E s \in Savers : \/ \E who \in Asking, q \in QueueNames, create \in BOOLEAN, p \in Patches : AskSave(s, who, q, create, p)
                         \/ Saves(s)
    \/ \E q \in QueueNames : DropQueue(q) \/ FailsAgain(q)
    \/ \E t \in targets : DropTarget(t)
    \/ TasksChange \/ Lists

AdminSpec == AdminInit /\ [][AdminNext]_adminVars

-----------------------------------------------------------------------------
\* Every variable has its type, the default queue is there, and no name is held twice.
AdminTyped ==
    /\ \A q \in Existing : DOMAIN saved[q] = DOMAIN Defaults
    /\ DefaultQueue \in Existing /\ Cardinality(Existing) <= MaxQueues
    /\ \A i \in TaskIds : rows[i] # NoTask => rows[i].queue \in Existing
    /\ \A i, j \in TaskIds : rows[i] # NoTask /\ rows[j] # NoTask /\ rows[i].queue = rows[j].queue /\ rows[i].name # "" =>
          rows[i].name # rows[j].name \/ i = j

\* However saves and deletes of queues fall between each other's steps, a queue's settings are
\* as valid as if they had come at once: dead letters go to another queue there is, the longest
\* wait is no shorter than the shortest, and a pull queue has no target.
SettingsValid ==
    \A q \in Existing :
        /\ saved[q].dlq \in (Existing \ {q}) \cup {"none"}
        /\ saved[q].min <= saved[q].max
        /\ saved[q].mode = "pull" => saved[q].target = "none"

\* A queue publishes to a channel only when somebody with write access to it once asked for that.
TargetsGranted == \A q \in Existing : saved[q].target = "channel" => <<q, "channel">> \in granted

\* What a save leaves in force, whatever came between its reading and its writing.
SettingsHold == SettingsValid /\ TargetsGranted

\* A task that is neither moved nor deleted while a client reads the list page by page is shown
\* to it exactly once, whatever else is added, moved and deleted.
TasksListed ==
    lister.step = "done" => lister.kept \subseteq lister.seen \ lister.twice

\* Queues and rows have their types, and a list read page by page is whole.
TasksHold == AdminTyped /\ TasksListed

\* While a queue's policy stays, each wait is twice the one before, the first so many times, and
\* longer by the last step after that; no wait is longer than the longest, and none ends past
\* the age at which a task is given up.
WaitsStep ==
    [][retried.attempts > 0 /\ retried'.attempts > retried.attempts /\ retried'.policy = retried.policy =>
          LET s == retried.policy
              n == retried.attempts IN
          /\ retried'.wait = Shorter(s.max, IF n <= s.doublings THEN 2 * retried.wait ELSE retried.wait + s.min * Power[s.doublings])
          /\ s.age > 0 => retried'.age <= s.age]_adminVars

=============================================================================
