------------------------------- MODULE MCEngine -------------------------------
(***************************************************************************)
(* What the process keeps going by itself, and the database under it: the  *)
(* bucket that paces a queue, the scheduler of functions, and the writes   *)
(* of a datastore namespace.  They share no state, so a behaviour is about *)
(* one of them, and `part` says which.                                     *)
(***************************************************************************)
EXTENDS RateBucket, FunctionSchedule, DatastoreWrites

CONSTANTS f1, f2, u1, r1, r2
VARIABLE part

\* Half a token, one and a half and three tokens a second.
MCRates == {1, 3, 6}

\* Functions that run every minute, or once in the hour of three.
MCSchedules == {{0, 1, 2}, {1}}

Put(k, v) == [op |-> "put", key |-> k, val |-> v]

\* With a key, without one, and a named document after a drawn one.
MCBatches == {<<Put(1, "a")>>, <<Put(0, "a")>>, <<Put(0, "b"), Put(2, "a")>>}
MCTransactions == {<<[op |-> "check", key |-> 1, exists |-> FALSE], Put(1, "b")>>,
                   <<[op |-> "mutate", key |-> 2, val |-> "a", upsert |-> TRUE], [op |-> "delete", key |-> 1]>>}

engineVars == <<part, bucketVars, scheduleVars, writesVars>>

Init == /\ part \in {"rate", "schedule", "writes"}
        /\ BucketInit /\ (part # "rate" => rate = 1)
        /\ ScheduleInit /\ WritesInit

\* f2 keeps the first schedule it gets, and its runs do not outlive their timeout.
SchedulePart == ScheduleNext /\ sched'[f2] \in {sched[f2]} \cup (IF sched[f2] = {} THEN Schedules ELSE {}) /\ f2 \notin unwaited'

Next == /\ UNCHANGED part
        /\ \/ part = "rate" /\ BucketNext /\ UNCHANGED <<scheduleVars, writesVars>>
           \/ part = "schedule" /\ SchedulePart /\ UNCHANGED <<bucketVars, writesVars>>
           \/ part = "writes" /\ WritesNext /\ UNCHANGED <<bucketVars, scheduleVars>>

\* The fairness of each part, as its module gives it.
Fairness ==
    /\ WF_bucketVars(part = "rate" /\ BucketTick) /\ WF_bucketVars(part = "rate" /\ Leave)
    /\ WF_bucketVars(part = "rate" /\ BucketClaim)
    /\ WF_scheduleVars(part = "schedule" /\ Minute) /\ WF_scheduleVars(part = "schedule" /\ SchedulerTick)
    /\ \A f \in Fn : WF_scheduleVars(part = "schedule" /\ Finish(f))
    /\ \A r \in Request : /\ WF_writesVars(part = "writes" /\ Write(r))
                          /\ SF_writesVars(part = "writes" /\ Begin(r)) /\ SF_writesVars(part = "writes" /\ Spend(r))

Spec == Init /\ [][Next]_engineVars /\ Fairness

-----------------------------------------------------------------------------
\* A queue left alone keeps claiming, a function whose time has come runs, and a put returns.
AllMoves == (part = "rate" => Flows) /\ (part = "schedule" => DueRuns) /\ (part = "writes" => PutReturns)

=============================================================================
