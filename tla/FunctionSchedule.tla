--------------------------- MODULE FunctionSchedule ---------------------------
(***************************************************************************)
(* The scheduler of functions: one loop that ticks on the minute, looks at *)
(* every function's next run, and starts the due ones, while deploys change*)
(* schedules, runs outlive their minute and the process restarts.          *)
(* Source: cli/internal/functions/{scheduler,cron}.go; the schedules are   *)
(* those Deploy stores (service.go).                                       *)
(*                                                                         *)
(* Cron is a set of minutes of a short hour, and a next run is kept as the *)
(* minutes until it, negative once it is overdue.  A tick only locks and   *)
(* starts goroutines: no minute passes between its waking and its end.     *)
(***************************************************************************)
EXTENDS Integers, FiniteSets

CONSTANTS
    Fn,          \* functions
    Hour,        \* minutes in the hour
    Schedules,   \* what a deploy may schedule a function for: sets of minutes
    MaxRuns,     \* maxRunsPerOrgPerTick
    Late,        \* bound: minutes a next run is followed past its time
    MaxRestarts  \* bound: restarts in a behaviour

Minutes == 0..(Hour - 1)

ASSUME ScheduleAssumption ==
    /\ Hour \in Nat \ {0} /\ MaxRuns \in Nat \ {0}
    /\ Late \in Nat \ {0} /\ MaxRestarts \in Nat
    /\ Schedules \subseteq SUBSET Minutes /\ {} \notin Schedules

VARIABLES
    minute,    \* the minute of the hour
    uptime,    \* minutes since the process started, as far as Late + 2
    sched,     \* function -> its schedule; {} when it has none, or is not served
    next,      \* schedState.next: minutes until the next run, or Unseen
    running,   \* schedState.running: the leases
    runs,      \* function -> invocations in progress
    unwaited,  \* runs the scheduler stopped waiting for
    tick,      \* the tick: where it is, the schedules it read, what is left of it
    restarts

scheduleVars == <<minute, uptime, sched, next, running, runs, unwaited, tick, restarts>>

Unseen == Hour + 1
Sleeping == [at |-> "asleep"]

ScheduleInit ==
    /\ minute = 0 /\ uptime = 0
    /\ sched = [f \in Fn |-> {}] /\ next = [f \in Fn |-> Unseen]
    /\ running = {} /\ runs = [f \in Fn |-> 0] /\ unwaited = {}
    /\ tick = Sleeping /\ restarts = 0

-----------------------------------------------------------------------------
\* Faulty: a minute matches its own occurrence.
SoonestNow(S) == CHOOSE k \in 0..Hour :
    (minute + k) % Hour \in S /\ \A j \in 0..(k - 1) : (minute + j) % Hour \notin S

\* Minutes until the schedule's next occurrence, this minute's excluded.
Soonest(S) == CHOOSE k \in 1..Hour :
    (minute + k) % Hour \in S /\ \A j \in 1..(k - 1) : (minute + j) % Hour \notin S

\* A deploy that changes the schedule, clears it, or brings a function into
\* service or out of it: the next run is left as it was.
Deploy(f, S) ==
    /\ sched[f] # S
    /\ sched' = [sched EXCEPT ![f] = S]
    /\ UNCHANGED <<minute, uptime, next, running, runs, unwaited, tick, restarts>>

-----------------------------------------------------------------------------
(* The tick *)

\* The functions there are, with the schedules they have now.
TickBegin ==
    /\ tick.at = "awake"
    /\ tick' = [at |-> "look", sched |-> sched, due |-> {},
                left |-> {f \in Fn : sched[f] # {}}]
    /\ UNCHANGED <<minute, uptime, sched, next, running, runs, unwaited, restarts>>

\* Faulty: a function first seen is due.
LookEager(f) ==
    /\ tick.at = "look" /\ f \in tick.left
    /\ next' = [next EXCEPT ![f] = IF @ = Unseen THEN 0 ELSE @]
    /\ tick' = [tick EXCEPT !.left = @ \ {f},
                  !.due = IF next'[f] <= 0 /\ f \notin running THEN @ \cup {f} ELSE @]
    /\ UNCHANGED <<minute, uptime, sched, running, runs, unwaited, restarts>>

\* First seen, a function is scheduled from now; then it is due when its time
\* has come and no run of it holds the lease.
Look(f) ==
    /\ tick.at = "look" /\ f \in tick.left
    /\ next' = [next EXCEPT ![f] = IF @ = Unseen THEN Soonest(tick.sched[f]) ELSE @]
    /\ tick' = [tick EXCEPT !.left = @ \ {f},
                  !.due = IF next[f] <= 0 /\ f \notin running THEN @ \cup {f} ELSE @]
    /\ UNCHANGED <<minute, uptime, sched, running, runs, unwaited, restarts>>

\* Faulty: the due functions are started in no order of theirs.
FirstAny(S) == {T \in SUBSET S : Cardinality(T) <= MaxRuns /\ (Cardinality(T) = MaxRuns \/ T = S)}

\* The most overdue of them, as many as a tick starts.
First(S) == {T \in SUBSET S :
    /\ Cardinality(T) <= MaxRuns /\ (Cardinality(T) = MaxRuns \/ T = S)
    /\ \A f \in T, g \in S \ T : next[f] <= next[g]}

Sort(T) ==
    /\ tick.at = "look" /\ tick.left = {}
    /\ T \in First(tick.due)
    /\ tick' = [tick EXCEPT !.at = "start", !.due = T]
    /\ UNCHANGED <<minute, uptime, sched, next, running, runs, unwaited, restarts>>

\* claim: still due and its lease still free.
MayClaim(f) == f \notin running /\ next[f] <= 0

\* The claim and the run it starts, one function at a time.
Start(f) ==
    /\ tick.at = "start" /\ f \in tick.due
    /\ tick' = [tick EXCEPT !.due = @ \ {f}]
    /\ IF MayClaim(f)
       THEN /\ next' = [next EXCEPT ![f] = Soonest(tick.sched[f])]
            /\ running' = running \cup {f}
            /\ runs' = [runs EXCEPT ![f] = @ + 1]
       ELSE UNCHANGED <<next, running, runs>>
    /\ UNCHANGED <<minute, uptime, sched, unwaited, restarts>>

TickEnd ==
    /\ tick.at = "start" /\ tick.due = {}
    /\ tick' = Sleeping
    /\ UNCHANGED <<minute, uptime, sched, next, running, runs, unwaited, restarts>>

-----------------------------------------------------------------------------
(* The runs *)

\* Past its timeout a run is not waited for, and keeps its lease.
Timeout(f) ==
    /\ f \in running \ unwaited
    /\ unwaited' = unwaited \cup {f}
    /\ UNCHANGED <<minute, uptime, sched, next, running, runs, tick, restarts>>

\* Faulty: a run that was not waited for to its end keeps the lease.
FinishWaited(f) ==
    /\ runs[f] > 0
    /\ runs' = [runs EXCEPT ![f] = @ - 1]
    /\ running' = IF f \in unwaited THEN running ELSE running \ {f}
    /\ UNCHANGED <<minute, uptime, sched, next, unwaited, tick, restarts>>

\* It ends, by itself or by the interpreter's own limit, and frees its function.
Finish(f) ==
    /\ runs[f] > 0
    /\ runs' = [runs EXCEPT ![f] = @ - 1]
    /\ running' = running \ {f}
    /\ unwaited' = unwaited \ {f}
    /\ UNCHANGED <<minute, uptime, sched, next, tick, restarts>>

-----------------------------------------------------------------------------
Closer(k) == IF k = Unseen THEN k ELSE IF k > -Late THEN k - 1 ELSE k

\* The minute turns; the scheduler wakes on it.
Minute ==
    /\ tick.at = "asleep"
    /\ minute' = (minute + 1) % Hour
    /\ uptime' = IF uptime > Late + 1 THEN uptime ELSE uptime + 1
    /\ next' = [f \in Fn |-> Closer(next[f])]
    /\ tick' = [at |-> "awake"]
    /\ UNCHANGED <<sched, running, runs, unwaited, restarts>>

\* Functions and schedules are on disk; next runs and leases are not.
SchedulerRestart ==
    /\ restarts < MaxRestarts /\ restarts' = restarts + 1
    /\ uptime' = 0
    /\ next' = [f \in Fn |-> Unseen]
    /\ running' = {} /\ runs' = [f \in Fn |-> 0] /\ unwaited' = {}
    /\ tick' = Sleeping
    /\ UNCHANGED <<minute, sched>>

SchedulerTick == \/ TickBegin \/ TickEnd
                 \/ \E f \in Fn : Look(f) \/ Start(f)
                 \/ \E T \in SUBSET Fn : Sort(T)

ScheduleNext == \/ \E f \in Fn, S \in Schedules \cup {{}} : Deploy(f, S)
                \/ SchedulerTick \/ Minute \/ SchedulerRestart
                \/ \E f \in Fn : Timeout(f) \/ Finish(f)

ScheduleSpec == ScheduleInit /\ [][ScheduleNext]_scheduleVars

\* The clock runs, the loop goes on, and an invocation has a wall-clock limit.
ScheduleFairSpec == ScheduleSpec /\ WF_scheduleVars(Minute) /\ WF_scheduleVars(SchedulerTick) /\ \A f \in Fn : WF_scheduleVars(Finish(f))

-----------------------------------------------------------------------------
Looking == [at: {"look", "start"}, sched: [Fn -> Schedules \cup {{}}], due: SUBSET Fn, left: SUBSET Fn]

\* Every variable has its type.
ScheduleTypeOK ==
    /\ minute \in Minutes /\ uptime \in 0..(Late + 2)
    /\ sched \in [Fn -> Schedules \cup {{}}]
    /\ next \in [Fn -> (-Late)..Hour \cup {Unseen}]
    /\ running \subseteq Fn /\ runs \in [Fn -> Nat] /\ unwaited \subseteq running
    /\ tick \in {Sleeping, [at |-> "awake"]} \cup Looking
    /\ restarts \in 0..MaxRestarts

\* A function never runs beside itself on a schedule, however long a run takes,
\* and its lease is held exactly while it runs.
OneAtATime == \A f \in Fn : runs[f] = (IF f \in running THEN 1 ELSE 0)

Starts(f) == runs'[f] > runs[f]

\* A run answers an occurrence later than the scheduler's first tick: starting
\* the process runs nothing by itself, nor what was due while it was down.
NotOnStartup == [][\A f \in Fn : Starts(f) => 1 - next[f] < uptime]_scheduleVars

\* A run answers every occurrence up to now: what a long run missed is skipped,
\* not queued behind it.
MissedAreSkipped ==
    [][\A f \in Fn : Starts(f) => next'[f] > 0]_scheduleVars

\* A function whose time has come runs, however many others are due with it and
\* however few of them a tick starts, unless it loses its schedule.
DueRuns ==
    \A f \in Fn :
       (sched[f] # {} /\ next[f] <= 0 /\ f \notin running)
          ~> (f \in running \/ sched[f] = {} \/ next[f] = Unseen)

\* The leases are those of the runs there are, one to a function.
RunsHold == ScheduleTypeOK /\ OneAtATime

\* No run answers an occurrence from before the scheduler's first tick, or one another run answered.
OnlyNewRuns == NotOnStartup /\ MissedAreSkipped

=============================================================================
