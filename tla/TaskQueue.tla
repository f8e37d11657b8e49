------------------------------ MODULE TaskQueue ------------------------------
(***************************************************************************)
(* One tasks instance of the emulator: its SQLite store (queues, tasks,    *)
(* attempts), the engine that sweeps and claims, the goroutine that        *)
(* delivers each claimed task, and the workers that lease pull tasks.      *)
(* Source: cli/internal/tasks/{store,service,deliver}.go.                  *)
(*                                                                         *)
(* Every store operation runs under the instance's lock, so each is one    *)
(* action; between two of them anything may happen, and the engine works   *)
(* from a snapshot of what is in flight that other goroutines outdate.     *)
(*                                                                         *)
(* Time is an adversary, not a number: a run time, a lease and a retention *)
(* each pass at some moment (BecomesDue, LeaseAges, KeepExpires).  A lease *)
(* has an edge: the millisecond lease_until itself, when a worker may      *)
(* still ack and the sweep may already take the task back.                 *)
(***************************************************************************)
EXTENDS Naturals, FiniteSets

CONSTANTS
    TaskId,         \* the ids NewTaskID can mint; also the bound on tasks
    QName,          \* queue names
    DefaultQueue,   \* the queue every instance has
    NoQ,            \* "no dead-letter queue"
    NoTask,         \* "not a dead-letter copy"
    Settings,       \* queue name -> the settings it may be given
    DefaultSettings,\* what the default queue starts with
    Answer,         \* what a target may answer
    OwnLimits,      \* the retry.maxAttempts a task may bring (0: its queue's)
    Old,            \* whether a retry may land past the task's maximum age
    Delivery,       \* identities for delivery goroutines
    MaxInflight,    \* deliveries in flight across the instance
    AttemptCap,     \* the largest maxAttempts a retry policy may have
    MaxDefers,      \* deferrals a task may ask for
    MaxLeases,      \* bound: lease calls in a behaviour
    MaxCrashes,     \* bound: restarts in a behaviour
    TornSettle      \* whether a restart may fall between a settle's statements

QueueSettings == [mode: {"push", "pull"}, paused: BOOLEAN, maxConcurrent: Nat \ {0},
                  maxAttempts: 1..AttemptCap, dlq: QName \cup {NoQ}, control: BOOLEAN]

Outcome == [kind: {"ok", "fail", "permanent", "timeout", "lost", "released"},
            ctl: {"none", "never", "retry", "defer"}, limit: 0..AttemptCap]

ASSUME BoundsAssumption ==
    /\ MaxInflight \in Nat /\ MaxDefers \in Nat /\ MaxLeases \in Nat
    /\ MaxCrashes \in Nat /\ AttemptCap \in Nat \ {0}
    /\ TornSettle \in BOOLEAN /\ Old \subseteq BOOLEAN

ASSUME NamesAssumption ==
    /\ DefaultQueue \in QName
    /\ NoQ \notin QName
    /\ NoTask \notin TaskId
    /\ IsFiniteSet(TaskId) /\ IsFiniteSet(Delivery)

ASSUME ValuesAssumption ==
    /\ Settings \in [QName -> SUBSET QueueSettings]
    /\ DefaultSettings \in QueueSettings
    /\ DefaultSettings.dlq = NoQ
    /\ Answer \subseteq {o \in Outcome : o.kind \in {"ok", "fail", "permanent"}}
    /\ OwnLimits \subseteq 0..AttemptCap

VARIABLES
    queue,     \* queue table: name -> settings, or NoQueue
    task,      \* task table: id -> row, or NoRow
    attempt,   \* attempt table: id -> attempt number -> what the record says
    minted,    \* ids already given out
    leases,    \* lease ids given out so far
    inflight,  \* Service.inflight: tasks whose delivery holds a slot
    running,   \* Service.running: queue -> deliveries in flight
    del,       \* the delivery goroutines
    eng,       \* the engine's pass: where it is, its snapshot, what it claimed
    crashes    \* restarts so far (for MaxCrashes)

vars == <<queue, task, attempt, minted, leases, inflight, running, del, eng, crashes>>

\* What a store operation leaves alone, and what a request leaves alone.
memory == <<inflight, running, del, eng, crashes>>
ids    == <<minted, leases>>

-----------------------------------------------------------------------------
(* Rows, attempts and goroutines *)

NoQueue == [mode |-> "none"]
NoRow   == [state |-> "none"]
Idle    == [phase |-> "idle"]

Held     == {"running", "leased"}
Finished == {"done", "failed", "cancelled"}

Row == [queue: QName, state: {"scheduled"} \cup Held \cup Finished,
        attempts: 0..AttemptCap, defers: 0..MaxDefers, max: 0..AttemptCap, due: {"later", "now"},
        lease: {"none", "live", "edge", "over"}, holder: 0..MaxLeases,
        keep: {"none", "kept", "expired"}, copyOf: TaskId \cup {NoTask}]

AttemptStatus == {"none", "running", "leased", "timeout", "closed", "noted"}

Claimed == [task: TaskId, attempt: 1..AttemptCap, queue: QName]

Goroutine == [phase: {"calling", "held", "leaving"},
              task: TaskId, attempt: 1..AttemptCap, queue: QName]

Pass == [pc: {"idle", "sweep", "claim", "start"}, busy: SUBSET TaskId,
         running: [QName -> Nat], claimed: SUBSET Claimed]

NoRecords == [n \in 1..AttemptCap |-> "none"]
NoPass    == [pc |-> "idle", busy |-> {}, running |-> [q \in QName |-> 0], claimed |-> {}]

Queues    == {q \in QName : queue[q] # NoQueue}
Rows      == {t \in TaskId : task[t] # NoRow}
RowsOf(q) == {t \in Rows : task[t].queue = q}
Active    == {d \in Delivery : del[d] # Idle}

NewRow(q, own, of) ==
    [queue |-> q, state |-> "scheduled", attempts |-> 0, defers |-> 0, max |-> own,
     due |-> "later", lease |-> "none", holder |-> 0, keep |-> "none", copyOf |-> of]

Plain(kind) == [kind |-> kind, ctl |-> "none", limit |-> 0]

Init ==
    /\ queue = [q \in QName |-> IF q = DefaultQueue THEN DefaultSettings ELSE NoQueue]
    /\ task = [t \in TaskId |-> NoRow]
    /\ attempt = [t \in TaskId |-> NoRecords]
    /\ minted = {} /\ leases = 0
    /\ inflight = {} /\ running = [q \in QName |-> 0]
    /\ del = [d \in Delivery |-> Idle]
    /\ eng = NoPass
    /\ crashes = 0

-----------------------------------------------------------------------------
(* Queues *)

\* A queue created or changed.  Its dead-letter queue exists, and is not itself.
PutQueue(q, s) ==
    /\ s \in Settings[q] /\ s # queue[q]
    /\ s.dlq # NoQ => s.dlq # q /\ s.dlq \in Queues
    /\ queue' = [queue EXCEPT ![q] = s]
    /\ UNCHANGED <<task, attempt, ids, memory>>

\* deleteTasks: rows and their attempt records, whatever their state.
DropRows(T) ==
    /\ task' = [t \in TaskId |-> IF t \in T THEN NoRow ELSE task[t]]
    /\ attempt' = [t \in TaskId |-> IF t \in T THEN NoRecords ELSE attempt[t]]

\* Faulty: a queue is deleted whether or not another dead-letters into it.
DeadLettersIgnored(q) == {}

DeadLettersInto(q) == {p \in Queues \ {q} : queue[p].dlq = q}

\* A queue another one dead-letters into stays, and so does the default one.
DeleteQueue(q) ==
    /\ q \in Queues \ {DefaultQueue}
    /\ DeadLettersInto(q) = {}
    /\ DropRows(RowsOf(q))
    /\ queue' = [queue EXCEPT ![q] = NoQueue]
    /\ UNCHANGED <<ids, memory>>

PurgeQueue(q) ==
    /\ q \in Queues
    /\ RowsOf(q) # {}
    /\ DropRows(RowsOf(q))
    /\ UNCHANGED <<queue, ids, memory>>

-----------------------------------------------------------------------------
(* Tasks *)

\* A task with a limit of its own, or 0 for its queue's.
Add(t, q, own) ==
    /\ q \in Queues
    /\ t \notin minted
    /\ task' = [task EXCEPT ![t] = NewRow(q, own, NoTask)]
    /\ minted' = minted \cup {t}
    /\ UNCHANGED <<queue, attempt, leases, memory>>

Ended(r, state) ==
    [r EXCEPT !.state = state, !.lease = "none", !.holder = 0, !.due = "later", !.keep = "kept"]

\* Only what waits or is leased is cancelled; a leased task's record stays open.
Cancel(t) ==
    /\ t \in Rows
    /\ task[t].state \in {"scheduled", "leased"}
    /\ task' = [task EXCEPT ![t] = Ended(@, "cancelled")]
    /\ UNCHANGED <<queue, attempt, ids, memory>>

\* Faulty: a task run again keeps the retention of its failed run.
RequeuedKeeping(r) ==
    [r EXCEPT !.state = "scheduled", !.attempts = 0, !.defers = 0, !.due = "now"]

\* Faulty: a task run again keeps the count of its attempts.
RequeuedSpent(r) ==
    [r EXCEPT !.state = "scheduled", !.defers = 0, !.due = "now", !.keep = "none"]

\* A failed or cancelled task starts over under its own id.
Requeued(r) ==
    [r EXCEPT !.state = "scheduled", !.attempts = 0, !.defers = 0, !.due = "now", !.keep = "none"]

\* Run now: what waits becomes due, what failed starts over.
RunAgain(t) ==
    /\ t \in Rows
    /\ task[t].state \in {"scheduled", "failed", "cancelled"}
    /\ task' = [task EXCEPT ![t] =
          IF @.state = "scheduled" THEN [@ EXCEPT !.due = "now"] ELSE Requeued(@)]
    /\ UNCHANGED <<queue, attempt, ids, memory>>

\* Run a finished task: its record is history, a copy runs.
RunCopy(t, new) ==
    /\ t \in Rows
    /\ task[t].state = "done"
    /\ new \notin minted
    /\ task' = [task EXCEPT ![new] = [NewRow(task[t].queue, task[t].max, NoTask) EXCEPT !.due = "now"]]
    /\ minted' = minted \cup {new}
    /\ UNCHANGED <<queue, attempt, leases, memory>>

-----------------------------------------------------------------------------
(* Settling an attempt: done, again, or failed and copied to the dead-letter *)
(* queue.                                                                    *)

SettingsOf(t) == queue[task[t].queue]

Limit(t) == IF task[t].max # 0 THEN task[t].max ELSE SettingsOf(t).maxAttempts

\* The control a target's answer carries counts only where the queue allows it.
Ctl(t, o)     == IF SettingsOf(t).control THEN o.ctl ELSE "none"
NewLimit(t, o) == IF SettingsOf(t).control /\ o.limit # 0 THEN o.limit ELSE Limit(t)
OwnLimit(t, o) == IF NewLimit(t, o) # Limit(t) THEN NewLimit(t, o) ELSE task[t].max

Deferred(t, o, old) == Ctl(t, o) = "defer" /\ task[t].defers < MaxDefers /\ ~old

Succeeded(t, o) == o.kind = "ok" /\ Ctl(t, o) \notin {"retry", "defer"}

Permanent(t, o) == \/ Ctl(t, o) \in {"never", "defer"}
                   \/ o.kind = "permanent" /\ Ctl(t, o) # "retry"

\* Faulty: one attempt too many.
AgainOnceMore(t, o, old) == ~Permanent(t, o) /\ ~old /\ task[t].attempts <= NewLimit(t, o)

Again(t, o, old) == ~Permanent(t, o) /\ ~old /\ task[t].attempts < NewLimit(t, o)

Verdict(t, o, old) ==
    CASE Deferred(t, o, old) -> "deferred"
      [] ~Deferred(t, o, old) /\ Succeeded(t, o) -> "done"
      [] ~Deferred(t, o, old) /\ ~Succeeded(t, o) /\ Again(t, o, old) -> "again"
      [] OTHER -> "failed"

Waiting(r) == [r EXCEPT !.state = "scheduled", !.lease = "none", !.holder = 0, !.due = "later"]

\* Faulty: deferrals are not counted.
DeferredRowUncounted(r) == [Waiting(r) EXCEPT !.attempts = @ - 1]

\* A deferral is not an attempt: the count goes back down.
DeferredRow(r) == [Waiting(r) EXCEPT !.attempts = @ - 1, !.defers = @ + 1]

SettledRow(t, o, old) ==
    LET r == [task[t] EXCEPT !.max = OwnLimit(t, o)]
        v == Verdict(t, o, old)
    IN  CASE v = "deferred" -> DeferredRow(r)
          [] v = "again"    -> Waiting(r)
          [] OTHER          -> Ended(r, v)

Closed(o) == IF o.kind = "timeout" THEN "timeout" ELSE "closed"

Close(t, o) == [attempt[t] EXCEPT ![task[t].attempts] = Closed(o)]

\* Faulty: only a target's own failure is dead-lettered, a lost attempt is not.
DeadLetteredUnlessLost(t, o, old) ==
    o.kind # "lost" /\ Verdict(t, o, old) = "failed" /\ SettingsOf(t).dlq \in Queues

\* Whether settling leaves a copy: a failure on a queue whose dead-letter queue
\* still exists.
DeadLettered(t, o, old) ==
    Verdict(t, o, old) = "failed" /\ SettingsOf(t).dlq \in Queues

Image(f) == {f[x] : x \in DOMAIN f}

\* settle, for each row of T at once (a sweep settles many): out[t] is its
\* outcome, aged the rows past their maximum age, copy the ids of the copies,
\* gone the records a sweep drops first.
Settle(T, out, aged, copy, gone) ==
    /\ DOMAIN copy = {t \in T : DeadLettered(t, out[t], t \in aged)}
    /\ \A x, y \in DOMAIN copy : copy[x] = copy[y] => x = y
    /\ task' = [t \in TaskId |->
          CASE t \in T -> SettledRow(t, out[t], t \in aged)
            [] t \in Image(copy) ->
                  LET of == CHOOSE x \in DOMAIN copy : copy[x] = t
                  IN  NewRow(SettingsOf(of).dlq, 0, of)
            [] t \in gone -> NoRow
            [] OTHER -> task[t]]
    /\ attempt' = [t \in TaskId |->
          CASE t \in T -> Close(t, out[t])
            [] t \in gone -> NoRecords
            [] OTHER -> attempt[t]]
    /\ minted' = minted \cup Image(copy)

\* Only a maximum age in force can make a row too old to be retried.
Ages(T) == {S \in SUBSET T : S = {} \/ TRUE \in Old}

Copies(T) == UNION {[S -> TaskId \ minted] : S \in SUBSET T}

-----------------------------------------------------------------------------
(* Workers of a pull queue *)

\* Scheduled tasks whose run time has come.
DueIn(q) == {t \in RowsOf(q) : task[t].state = "scheduled" /\ task[t].due = "now"}

\* attempts + 1, and the attempt's record is written over.
Take(T, state, holder) ==
    /\ task' = [t \in TaskId |->
          IF t \in T THEN [task[t] EXCEPT !.state = state, !.attempts = @ + 1, !.due = "later",
                                          !.lease = "live", !.holder = holder]
          ELSE task[t]]
    /\ attempt' = [t \in TaskId |->
          IF t \in T THEN [attempt[t] EXCEPT ![task[t].attempts + 1] = state] ELSE attempt[t]]

Lease(q, T) ==
    /\ leases < MaxLeases
    /\ q \in Queues
    /\ queue[q].mode = "pull" /\ ~queue[q].paused
    /\ T # {} /\ T \subseteq DueIn(q)
    /\ Take(T, "leased", leases + 1)
    /\ leases' = leases + 1
    /\ UNCHANGED <<queue, minted, memory>>

\* leased(): the lease named is this row's and its last millisecond is not over.
HeldBy(t, l) ==
    /\ t \in Rows
    /\ task[t].state = "leased" /\ task[t].holder = l
    /\ task[t].lease \in {"live", "edge"}

Ack(t, l) ==
    /\ HeldBy(t, l)
    /\ task' = [task EXCEPT ![t] = Ended(@, "done")]
    /\ attempt' = [attempt EXCEPT ![t][task[t].attempts] = "closed"]
    /\ UNCHANGED <<queue, ids, memory>>

Extend(t, l) ==
    /\ HeldBy(t, l)
    /\ task[t].lease = "edge"
    /\ task' = [task EXCEPT ![t].lease = "live"]
    /\ UNCHANGED <<queue, attempt, ids, memory>>

Release(t, l, aged, copy) ==
    /\ HeldBy(t, l)
    /\ Settle({t}, [x \in {t} |-> Plain("released")], aged, copy, {})
    /\ UNCHANGED <<queue, leases, memory>>

-----------------------------------------------------------------------------
(* The engine: one loop, one pass at a time *)

\* A pass starts: what is in flight, by task and by queue, as of now.
TickBegin ==
    /\ eng.pc = "idle"
    /\ eng' = [NoPass EXCEPT !.pc = "sweep", !.busy = inflight, !.running = running]
    /\ UNCHANGED <<queue, task, attempt, ids, inflight, running, del, crashes>>

Expired == {t \in Rows : task[t].keep = "expired"}

\* Faulty: the sweep takes back a row that is being delivered.
LostOrSlow == {t \in Rows : task[t].state \in Held /\ task[t].lease \in {"edge", "over"}}

\* Faulty: the sweep looks after workers' leases only.
LostLeases == {t \in Rows : task[t].state = "leased" /\ task[t].lease \in {"edge", "over"}}

\* Rows whose lease passed with nothing delivering them.
Lost == {t \in Rows : task[t].state \in Held /\ task[t].lease \in {"edge", "over"}} \ eng.busy

\* Finished records past their retention go; lost attempts are settled.
Housekeep(aged, copy) ==
    /\ eng.pc = "sweep"
    /\ Settle(Lost, [t \in Lost |-> Plain("lost")], aged, copy, Expired)
    /\ eng' = [eng EXCEPT !.pc = "claim"]
    /\ UNCHANGED <<queue, leases, inflight, running, del, crashes>>

\* Faulty: a retry is claimed beside the call it follows.
ClaimableBesideCall(q) == DueIn(q)

\* What a claim may take from a queue: due, and not behind a call still running.
Claimable(q) == DueIn(q) \ eng.busy

\* Faulty: only what this pass claims counts against the queue.
SlotsPerPass(q) == queue[q].maxConcurrent

\* A queue's free slots, by the pass's count of what is in flight.
Slots(q) == queue[q].maxConcurrent - eng.running[q]

\* Faulty: calls already in flight are not counted.
RoomPerPass == MaxInflight

Room == MaxInflight - Cardinality(eng.busy)

\* The engine claims due push work within the limits.  How many of a queue's due
\* tasks it takes also depends on the queue's token bucket (module RateBucket).
Claim(T) ==
    /\ eng.pc = "claim"
    /\ T # {} => Cardinality(T) <= Room
    /\ \A t \in T : /\ t \in Rows
                    /\ SettingsOf(t).mode = "push" /\ ~SettingsOf(t).paused
                    /\ t \in Claimable(task[t].queue)
    /\ \A q \in Queues : LET n == Cardinality({t \in T : task[t].queue = q})
                         IN  n > 0 => n <= Slots(q)
    /\ Take(T, "running", 0)
    /\ eng' = [eng EXCEPT !.pc = "start",
                 !.claimed = {[task |-> t, attempt |-> task[t].attempts + 1,
                               queue |-> task[t].queue] : t \in T}]
    /\ UNCHANGED <<queue, ids, inflight, running, del, crashes>>

\* start: the claimed task takes its slot and its goroutine.
Start(c, d) ==
    /\ eng.pc = "start"
    /\ c \in eng.claimed /\ del[d] = Idle
    /\ inflight' = inflight \cup {c.task}
    /\ running' = [running EXCEPT ![c.queue] = @ + 1]
    /\ del' = [del EXCEPT ![d] = [phase |-> "calling", task |-> c.task,
                                  attempt |-> c.attempt, queue |-> c.queue]]
    /\ eng' = [eng EXCEPT !.claimed = @ \ {c}]
    /\ UNCHANGED <<queue, task, attempt, ids, crashes>>

TickEnd ==
    /\ eng.pc = "start" /\ eng.claimed = {}
    /\ eng' = NoPass
    /\ UNCHANGED <<queue, task, attempt, ids, inflight, running, del, crashes>>

-----------------------------------------------------------------------------
(* A delivery's goroutine *)

Outcomes == Answer \cup {Plain("timeout")}

\* The row is still this delivery's attempt.
Current(d) ==
    /\ del[d].task \in Rows
    /\ task[del[d].task].state = "running"
    /\ task[del[d].task].attempts = del[d].attempt

\* The target answers, or its deadline passes and the call is held.
Deliver(d, o, aged, copy) ==
    /\ d \in Active /\ del[d].phase = "calling"
    /\ IF Current(d)
       THEN Settle({del[d].task}, [x \in {del[d].task} |-> o], aged, copy, {})
       ELSE copy = <<>> /\ aged = {} /\ UNCHANGED <<task, attempt, minted>>
    /\ del' = [del EXCEPT ![d].phase = IF o.kind = "timeout" THEN "held" ELSE "leaving"]
    /\ UNCHANGED <<queue, leases, inflight, running, eng, crashes>>

\* The held call returns, or its hold runs out: its attempt's record says so.
NoteLate(d) ==
    /\ d \in Active /\ del[d].phase = "held"
    /\ LET t == del[d].task
           n == del[d].attempt
       IN  attempt' = [attempt EXCEPT ![t][n] = IF @ = "none" THEN @ ELSE "noted"]
    /\ del' = [del EXCEPT ![d].phase = "leaving"]
    /\ UNCHANGED <<queue, task, ids, inflight, running, eng, crashes>>

\* Faulty: the task leaves the map of what is in flight, its queue keeps the slot.
LeaveSlotTaken(d) ==
    /\ d \in Active /\ del[d].phase = "leaving"
    /\ inflight' = inflight \ {del[d].task}
    /\ del' = [del EXCEPT ![d] = Idle]
    /\ UNCHANGED <<queue, task, attempt, ids, running, eng, crashes>>

\* Faulty: a goroutine whose task was purged returns without giving its slot back.
LeaveUnlessPurged(d) ==
    /\ d \in Active /\ del[d].phase = "leaving" /\ del[d].task \in Rows
    /\ inflight' = inflight \ {del[d].task}
    /\ running' = [running EXCEPT ![del[d].queue] = @ - 1]
    /\ del' = [del EXCEPT ![d] = Idle]
    /\ UNCHANGED <<queue, task, attempt, ids, eng, crashes>>

\* The slot is given back.
Leave(d) ==
    /\ d \in Active /\ del[d].phase = "leaving"
    /\ inflight' = inflight \ {del[d].task}
    /\ running' = [running EXCEPT ![del[d].queue] = @ - 1]
    /\ del' = [del EXCEPT ![d] = Idle]
    /\ UNCHANGED <<queue, task, attempt, ids, eng, crashes>>

-----------------------------------------------------------------------------
(* Time passes, the process restarts *)

BecomesDue(t) ==
    /\ t \in Rows /\ task[t].state = "scheduled" /\ task[t].due = "later"
    /\ task' = [task EXCEPT ![t].due = "now"]
    /\ UNCHANGED <<queue, attempt, ids, memory>>

LeaseAges(t) ==
    /\ t \in Rows /\ task[t].lease \in {"live", "edge"}
    /\ task' = [task EXCEPT ![t].lease = IF @ = "live" THEN "edge" ELSE "over"]
    /\ UNCHANGED <<queue, attempt, ids, memory>>

KeepExpires(t) ==
    /\ t \in Rows /\ task[t].keep = "kept"
    /\ task' = [task EXCEPT ![t].keep = "expired"]
    /\ UNCHANGED <<queue, attempt, ids, memory>>

\* The store is on disk; what is in flight is not.
Restart ==
    /\ crashes < MaxCrashes
    /\ crashes' = crashes + 1
    /\ inflight' = {} /\ running' = [q \in QName |-> 0]
    /\ del' = [d \in Delivery |-> Idle]
    /\ eng' = NoPass

Crash == Restart /\ UNCHANGED <<queue, task, attempt, ids>>

\* settle is several statements, each its own transaction: a restart between
\* them leaves the record closed and the row held, or the row failed with no copy.
CrashInSettle(d, o, old) ==
    /\ TornSettle
    /\ d \in Active /\ del[d].phase = "calling" /\ Current(d)
    /\ LET t == del[d].task
       IN  /\ Verdict(t, o, old) \in {"again", "failed"}
           /\ attempt' = [attempt EXCEPT ![t] = Close(t, o)]
           /\ \/ task' = [task EXCEPT ![t].max = OwnLimit(t, o)]
              \/ Verdict(t, o, old) = "failed" /\ task' = [task EXCEPT ![t] = SettledRow(t, o, old)]
    /\ Restart
    /\ UNCHANGED <<queue, ids>>

-----------------------------------------------------------------------------
Administer == \E q \in QName : \/ \E s \in Settings[q] : PutQueue(q, s)
                               \/ DeleteQueue(q) \/ PurgeQueue(q)

Request(t) == \/ \E q \in QName, own \in OwnLimits : Add(t, q, own)
              \/ Cancel(t) \/ RunAgain(t)
              \/ \E new \in TaskId : RunCopy(t, new)

Work == \/ \E q \in QName : \E T \in SUBSET DueIn(q) : Lease(q, T)
        \/ \E t \in Rows, l \in 1..leases :
              \/ Ack(t, l) \/ Extend(t, l)
              \/ \E aged \in Ages({t}), copy \in Copies({t}) : Release(t, l, aged, copy)

Sweep == \E aged \in Ages(Lost), copy \in Copies(Lost) : Housekeep(aged, copy)

Engine == \/ TickBegin \/ Sweep
          \/ \E T \in SUBSET {t \in Rows : task[t].due = "now"} : Claim(T)
          \/ \E c \in eng.claimed, d \in Delivery : Start(c, d)
          \/ TickEnd

Call(d) == d \in Active /\ \E o \in Outcomes, aged \in Ages({del[d].task}), 
                              copy \in Copies({del[d].task}) : Deliver(d, o, aged, copy)

Goroutines(d) == Call(d) \/ NoteLate(d) \/ Leave(d)

Time(t) == BecomesDue(t) \/ LeaseAges(t) \/ KeepExpires(t)

Failure == Crash \/ \E d \in Delivery, o \in Outcomes, old \in Old : CrashInSettle(d, o, old)

Next == \/ Administer
        \/ \E t \in TaskId : Request(t) \/ Time(t)
        \/ Work \/ Engine
        \/ \E d \in Delivery : Goroutines(d)
        \/ Failure

Spec == Init /\ [][Next]_vars

-----------------------------------------------------------------------------
(* Fairness: the loop ticks every second, a delivery has a deadline and a    *)
(* hold has a budget, and clocks advance.  A due task of an unpaused queue   *)
(* is claimed sooner or later: Claim takes the oldest run_at first, retries  *)
(* come back with a later one, and the token bucket refills.                 *)

ClaimOf(t) == \E T \in SUBSET {x \in Rows : task[x].due = "now"} : t \in T /\ Claim(T)

Fairness ==
    /\ WF_vars(Engine)
    /\ \A d \in Delivery : WF_vars(Goroutines(d))
    /\ \A t \in TaskId : WF_vars(BecomesDue(t)) /\ WF_vars(LeaseAges(t)) /\ SF_vars(ClaimOf(t))

FairSpec == Spec /\ Fairness

-----------------------------------------------------------------------------
(* Properties *)

\* Every variable has its type.  Also: an attempt's number never passes the
\* largest limit a policy may have, which the attempt table is indexed by.
TypeOK ==
    /\ queue \in [QName -> QueueSettings \cup {NoQueue}]
    /\ task \in [TaskId -> Row \cup {NoRow}]
    /\ attempt \in [TaskId -> [1..AttemptCap -> AttemptStatus]]
    /\ minted \subseteq TaskId /\ leases \in 0..MaxLeases
    /\ inflight \subseteq TaskId /\ running \in [QName -> Nat]
    /\ del \in [Delivery -> Goroutine \cup {Idle}]
    /\ eng \in Pass /\ crashes \in 0..MaxCrashes

\* The slots in Service.inflight and Service.running are those of the goroutines
\* there are, and no task has two of them.
SlotsMatch ==
    /\ inflight = {del[d].task : d \in Active}
    /\ \A d, e \in Active : del[d].task = del[e].task => d = e
    /\ \A q \in QName : running[q] = Cardinality({d \in Active : del[d].queue = q})

\* A target's answer always finds its own attempt: while a delivery is waited
\* for, its row is gone (purged) or still running at that attempt.  Nothing else
\* has settled it, retried it or handed it to a worker meanwhile.
AnswerFindsAttempt == \A d \in Active : del[d].phase = "calling" /\ del[d].task \in Rows => Current(d)

\* What is in flight across the instance, claims not yet started included,
\* stays within MaxInflight although the engine counts from a snapshot.
InflightBound == Cardinality(inflight \cup {c.task : c \in eng.claimed}) <= MaxInflight

\* A pass claims from a queue only up to its maxConcurrent, calls held past
\* their deadline included, whatever ended since the snapshot was taken.
ClaimRespectsCeiling ==
    [][eng.pc = "claim" /\ eng'.pc = "start" =>
          \A q \in Queues :
             LET mine == {c \in eng'.claimed : c.queue = q}
             IN  mine # {} => Cardinality(mine) + Cardinality({d \in Active : del[d].queue = q})
                                 <= queue[q].maxConcurrent]_vars

\* A task never overlaps itself: while a call that outran its deadline still
\* runs, no delivery has the task.  A worker may, once the queue is made a pull
\* queue: the runs keep a queue's mode.
NoSelfOverlap ==
    \A d \in Active : del[d].phase = "held" /\ del[d].task \in Rows
                         => task[del[d].task].state \notin Held

\* What a late target finally answered is noted on the attempt that timed out.
LateNoteOnTimeout ==
    [][\A t \in TaskId, n \in 1..AttemptCap :
          attempt'[t][n] = "noted" /\ attempt[t][n] # "noted" => attempt[t][n] = "timeout"]_vars

\* The sweep's retention drops finished tasks only, never one run again since.
RetentionDropsFinished ==
    [][eng.pc = "sweep" /\ eng'.pc = "claim" =>
          \A t \in Rows : task'[t] = NoRow => task[t].state \in Finished]_vars

\* Every task has its queue, and every dead-letter queue named exists.
NothingOrphaned ==
    /\ \A t \in Rows : task[t].queue \in Queues
    /\ \A q \in Queues : queue[q].dlq \in Queues \cup {NoQ}

\* A task that waits has attempts left.
WithinLimit == \A t \in Rows : task[t].state = "scheduled" => task[t].attempts < Limit(t)

\* An attempt that fails its task for good leaves one copy in the dead-letter
\* queue, in the same step, however the attempt ended.
DeadLetterKept ==
    [][\A t \in Rows :
          task[t].state \in Held /\ task'[t] # NoRow /\ task'[t].state = "failed"
             /\ SettingsOf(t).dlq # NoQ
          => \E c \in TaskId : /\ task[c] = NoRow /\ task'[c] # NoRow
                               /\ task'[c].copyOf = t /\ task'[c].queue = SettingsOf(t).dlq]_vars

\* A slot taken is given back: neither a silent target nor a restart keeps it.
SlotFreed == \A t \in TaskId : t \in inflight ~> t \notin inflight

\* An attempt whose lease passed with nobody at work on it is taken back.
LostRecovered ==
    \A t \in TaskId :
       (t \in Rows /\ task[t].state \in Held /\ task[t].lease = "over" /\ t \notin inflight)
          ~> ~(t \in Rows /\ task[t].state \in Held)

\* Every task waiting in a push queue ends: done, failed, cancelled or dropped,
\* however its targets answer, defer, time out or are lost to a restart.
TaskEnds ==
    \A t \in TaskId : (t \in Rows /\ task[t].state = "scheduled")
                         ~> (t \notin Rows \/ task[t].state \in Finished)

-----------------------------------------------------------------------------
(* The lifecycle of a task, and how the tables and goroutines show it *)

\* A call is at work on t: claimed and about to start, waited for, or held.
CallOn(t) == \/ \E c \in eng.claimed : c.task = t
             \/ \E d \in Active : del[d].task = t /\ del[d].phase \in {"calling", "held"}

LifeAt(t) ==
    CASE t \notin minted -> "unborn"
      [] t \in minted /\ t \notin Rows -> "gone"
      [] t \in Rows /\ task[t].state = "scheduled" -> "waiting"
      [] t \in Rows /\ task[t].state \in Held -> "held"
      [] OTHER -> "ended"

LifeBy(t) == IF CallOn(t) THEN "call"
             ELSE IF t \in Rows /\ task[t].state = "leased" THEN "worker" ELSE "nobody"

Life == [t \in TaskId |-> [at |-> LifeAt(t), by |-> LifeBy(t),
                           n |-> IF t \in Rows THEN task[t].attempts ELSE 0]]

Lifecycle == INSTANCE TaskLifecycle WITH Task <- TaskId, life <- Life

\* The tables, the engine and the goroutines keep every task's promise.
TaskPromise == Lifecycle!Spec

\* The engine's picture of what is in flight agrees with the deliveries there are: every slot is
\* one delivery's, and every answer waited for finds the attempt it belongs to.
EngineHolds == TypeOK /\ SlotsMatch /\ AnswerFindsAttempt

\* Whatever queues come and go: no task or dead-letter queue is left without its queue, and the
\* instance's limit on deliveries holds.
QueuesHold == NothingOrphaned /\ InflightBound

\* Calls that outlive their deadline stay apart from those that come after them: none of a task
\* runs beside another, no pass claims past the ceiling its settings give, and a late answer is
\* noted on the attempt that timed out only.
CallsApart == [][NoSelfOverlap']_vars /\ ClaimRespectsCeiling /\ LateNoteOnTimeout

\* A task that is given up leaves its copy in the dead-letter queue, and only finished tasks are
\* dropped for their age.
LettersKept == DeadLetterKept /\ RetentionDropsFinished

-----------------------------------------------------------------------------
(* What queues may become in an instance, which some properties depend on *)

\* The settings a queue may ever have.
Possible(q) == Settings[q] \cup (IF q = DefaultQueue THEN {DefaultSettings} ELSE {})

\* No queue changes between push and pull.
ModesFixed == \A q \in QName : \A r, s \in Possible(q) : r.mode = s.mode

\* No queue changes its limit on attempts, and an answer that asks for a deferral sets no limit.
LimitsFixed == /\ \A q \in QName : \A r, s \in Possible(q) : r.maxAttempts = s.maxAttempts
               /\ \A o \in Answer : o.ctl = "defer" => o.limit = 0

=============================================================================
