---------------------------- MODULE ContainerJobs ----------------------------
(***************************************************************************)
(* One container instance's jobs: launching against the instance's limits, *)
(* the goroutine that runs each container under its deadline, cancelling,  *)
(* the recording of how a job ended, the bounded history and its pages.    *)
(* Source: cli/internal/container/{service,routes,blobjob,configcheck}.go. *)
(*                                                                         *)
(* Jobs are numbered as they are launched.  Time is in ticks, Second of    *)
(* them to a billable second, and money in whole units: the code's floats  *)
(* and their epsilon are exact numbers here.  The Docker daemon is a       *)
(* container per job that comes up after a while (the image is pulled) and *)
(* exits when it likes; a kill reaches it only while it is up.             *)
(***************************************************************************)
EXTENDS Integers, Sequences, FiniteSets, SequencesExt

CONSTANTS
    JobClients,    \* requests that may be in flight
    JobConfigs,    \* the configurations ValidateConfig lets an admin save
    JobImages,     \* images a launch may name
    Factor,        \* size -> how it scales billed seconds
    JobTimeouts,   \* timeouts a launch may ask for; 0 asks for the maximum
    Second,        \* ticks of a billable second, the shortest timeout
    SecondPrice, JobPrice,
    KeptJobs,      \* MaxKeptJobs
    JobPage,       \* the limit of a list request
    MaxLaunches, MaxJobClock   \* bounds

Sizes == DOMAIN Factor

ASSUME JobsAssumption ==
    /\ IsFiniteSet(JobClients)
    /\ Factor \in [Sizes -> Nat \ {0}]
    /\ Second \in Nat \ {0} /\ SecondPrice \in Nat \ {0} /\ JobPrice \in Nat
    /\ JobTimeouts \subseteq Nat
    /\ KeptJobs \in Nat \ {0} /\ JobPage \in Nat \ {0}
    /\ MaxLaunches \in Nat /\ MaxJobClock \in Nat \ {0}
    /\ \A c \in JobConfigs :
          /\ c.allowed \subseteq JobImages /\ c.onComplete \in BOOLEAN
          /\ c.maxTimeout \in Nat /\ c.maxTimeout >= Second
          /\ c.maxConcurrent \in Nat \ {0} /\ c.maxCost \in Nat \ {0}

VARIABLES
    jobCfg,     \* the instance's stored configuration
    jobs,       \* Store.jobs[instance]: newest last
    runner,     \* job -> its goroutine, its context and its container
    jobReq,     \* client -> the request it has in flight
    jobClock,
    told,       \* job -> completion calls made for it
    launched,   \* jobs launched so far
    walk        \* a client reading the list page by page

JobsVars == <<jobCfg, jobs, runner, jobReq, jobClock, told, launched, walk>>

NoReq == [op |-> "none"]
NoWalk == [at |-> "none"]
Ids == 1..MaxLaunches

\* What a job's record holds.
Job == [id : Ids, status : {"running", "done", "failed", "canceled"}, size : Sizes,
        timeout : Nat, hold : Nat, started : Nat, ended : Nat, cost : Nat]

JobsInit ==
    /\ jobCfg \in JobConfigs /\ jobs = <<>>
    /\ runner = [i \in Ids |-> [at |-> "none"]] /\ told = [i \in Ids |-> 0]
    /\ jobReq = [c \in JobClients |-> NoReq]
    /\ jobClock = 1 /\ launched = 0 /\ walk = NoWalk

-----------------------------------------------------------------------------
\* Prices.

CeilDiv(a, b) == (a + b - 1) \div b

\* Billable seconds: wall-clock time scaled by the size, rounded up.
RunSecondsFor(size, elapsed) ==
    IF elapsed <= 0 THEN 0 ELSE CeilDiv(elapsed * Factor[size], Second)

RunCost(seconds) == seconds * SecondPrice

WorstCaseHold(size, timeout) == RunCost(RunSecondsFor(size, timeout)) + JobPrice

\* Faulty: the second is divided before it is rounded down.
BudgetTimeoutRoundedLate(size, budget) ==
    IF budget <= JobPrice THEN 0
    ELSE CeilDiv((budget - JobPrice) * Second, SecondPrice * Factor[size])

\* The longest timeout whose worst case fits: whole seconds first, then the size.
MaxTimeoutForBudget(size, budget) ==
    IF budget <= JobPrice THEN 0
    ELSE (((budget - JobPrice) \div SecondPrice) * Second) \div Factor[size]

-----------------------------------------------------------------------------
\* The history.

Running(js) == {k \in DOMAIN js : js[k].status = "running"}
Held(id) == {k \in DOMAIN jobs : jobs[k].id = id}

\* The oldest finished jobs go until at most KeptJobs are left.
PruneFinished(js) ==
    LET excess == Len(js) - KeptJobs
        Goes(k) == js[k].status # "running"
                   /\ Cardinality({l \in 1..(k - 1) : js[l].status # "running"}) < excess
        kept == {k \in DOMAIN js : ~Goes(k)}
    IN [n \in 1..Cardinality(kept) |->
           js[CHOOSE k \in kept : Cardinality({l \in kept : l <= k}) = n]]

\* Faulty: two launches of one millisecond share it.
StartedNow == jobClock

\* started_at is the list's cursor, and is kept unique.
StartedAt == IF jobs # <<>> /\ jobClock <= Last(jobs).started
             THEN Last(jobs).started + 1 ELSE jobClock

-----------------------------------------------------------------------------
\* Requests.  Each works with the configuration it reads when it arrives.

Settings == jobCfg

SaveJobConfig ==
    /\ jobCfg' \in JobConfigs
    /\ UNCHANGED <<jobs, runner, jobReq, jobClock, told, launched, walk>>

\* Faulty: the per-job ceiling is not looked at.
MayLaunchUnpriced(image, size, timeout) ==
    image \in Settings.allowed /\ timeout >= Second /\ timeout <= Settings.maxTimeout

\* The checks a launch makes before it takes the store's lock.
MayLaunch(image, size, timeout) ==
    /\ image \in Settings.allowed
    /\ timeout >= Second /\ timeout <= Settings.maxTimeout
    /\ WorstCaseHold(size, timeout) <= Settings.maxCost

LaunchChecked(c, image, size, asked) ==
    LET timeout == IF asked = 0 THEN Settings.maxTimeout ELSE asked
    IN /\ jobReq[c] = NoReq
       /\ launched + Cardinality({d \in JobClients : jobReq[d].op = "launch"}) < MaxLaunches
       /\ MayLaunch(image, size, timeout)
       /\ jobReq' = [jobReq EXCEPT ![c] = [op |-> "launch", cfg |-> Settings, size |-> size,
                         timeout |-> timeout, hold |-> WorstCaseHold(size, timeout)]]
       /\ UNCHANGED <<jobCfg, jobs, runner, jobClock, told, launched, walk>>

\* Under the lock: the cap, the record, its place in the history; then the goroutine.
LaunchStored(c) ==
    /\ jobReq[c].op = "launch"
    /\ jobReq' = [jobReq EXCEPT ![c] = NoReq]
    /\ LET r == jobReq[c]
           id == launched + 1
           job == [id |-> id, status |-> "running", size |-> r.size, timeout |-> r.timeout,
                   hold |-> r.hold, started |-> StartedAt, ended |-> 0, cost |-> 0]
       IN IF Cardinality(Running(jobs)) >= r.cfg.maxConcurrent
          THEN UNCHANGED <<jobs, runner, launched>>
          ELSE /\ jobs' = PruneFinished(Append(jobs, job))
               /\ launched' = id
               /\ runner' = [runner EXCEPT ![id] =
                     [at |-> "start", cfg |-> r.cfg, ctx |-> "live", box |-> "none",
                      deadline |-> jobClock + r.timeout]]
    /\ UNCHANGED <<jobCfg, jobClock, told, walk>>

-----------------------------------------------------------------------------
\* Recording an ending.

\* The completion function is called once the ending is recorded, and not waited on
\* for a result.
Completion(id, cfg) == told' = [told EXCEPT ![id] = IF cfg.onComplete THEN @ + 1 ELSE @]

\* Faulty: the ending is recorded whatever the record says.
FinishAgain(id, cfg, status) ==
    IF Held(id) # {}
    THEN /\ jobs' = [jobs EXCEPT ![CHOOSE k \in Held(id) : TRUE].status = status,
                                 ![CHOOSE k \in Held(id) : TRUE].ended = jobClock]
         /\ Completion(id, cfg)
    ELSE UNCHANGED <<jobs, told>>

\* finish, by whoever gets there first; the completion call uses the caller's configuration.
Finish(id, cfg, status) ==
    IF \E k \in Held(id) : jobs[k].status = "running"
    THEN LET k == CHOOSE k \in Held(id) : TRUE
             job == jobs[k]
             now == jobClock - job.started
             elapsed == IF now > job.timeout THEN job.timeout ELSE now
             cost == RunCost(RunSecondsFor(job.size, elapsed)) + JobPrice
         IN /\ jobs' = [jobs EXCEPT ![k] = [job EXCEPT !.status = status, !.ended = jobClock,
                           !.cost = IF cost > job.hold THEN job.hold ELSE cost]]
            /\ Completion(id, cfg)
    ELSE UNCHANGED <<jobs, told>>

-----------------------------------------------------------------------------
\* The runner: docker run, the wait for it or for the context, and the ending.

At(i, at, box) == runner' = [runner EXCEPT ![i].at = at, ![i].box = box]

\* How a run that returned an error ended, by what the context says.
ErrorStatus(i) == IF runner[i].ctx = "canceled" THEN "canceled" ELSE "failed"

\* docker starts, or cannot.
RunStart(i) ==
    /\ runner[i].at = "start"
    /\ At(i, "select", "pulling") \/ At(i, ErrorStatus(i), "gone")
    /\ UNCHANGED <<jobCfg, jobs, jobReq, jobClock, told, launched, walk>>

\* The container comes up, and it exits (docker's own failures are exits too).
BoxUp(i) ==
    /\ runner[i].at # "none" /\ runner[i].box = "pulling"
    /\ runner' = [runner EXCEPT ![i].box = "up"]
    /\ UNCHANGED <<jobCfg, jobs, jobReq, jobClock, told, launched, walk>>

BoxExits(i) ==
    /\ runner[i].at # "none" /\ runner[i].box \in {"pulling", "up"}
    /\ runner' = [runner EXCEPT ![i].box = "gone"]
    /\ UNCHANGED <<jobCfg, jobs, jobReq, jobClock, told, launched, walk>>

\* The wait ends with the container and its exit code, or with the context: then docker
\* kill, which fails unheard when there is no container yet, and a wait for the client.
RunReturns(i) ==
    /\ runner[i].at = "select" /\ runner[i].box = "gone"
    /\ \E status \in {"done", "failed"} : At(i, status, "gone")
    /\ UNCHANGED <<jobCfg, jobs, jobReq, jobClock, told, launched, walk>>

\* Faulty: only the client is stopped.
RunKillsClient(i) ==
    /\ runner[i].at = "select" /\ runner[i].ctx # "live"
    /\ At(i, "killed", runner[i].box)
    /\ UNCHANGED <<jobCfg, jobs, jobReq, jobClock, told, launched, walk>>

RunKills(i) ==
    /\ runner[i].at = "select" /\ runner[i].ctx # "live"
    /\ At(i, "killed", IF runner[i].box = "up" THEN "gone" ELSE runner[i].box)
    /\ UNCHANGED <<jobCfg, jobs, jobReq, jobClock, told, launched, walk>>

RunWaited(i) ==
    /\ runner[i].at = "killed" /\ runner[i].box = "gone"
    /\ At(i, ErrorStatus(i), "gone")
    /\ UNCHANGED <<jobCfg, jobs, jobReq, jobClock, told, launched, walk>>

\* The ending is recorded, and the context is released.
RunRecords(i) ==
    /\ runner[i].at \in {"done", "failed", "canceled"}
    /\ Finish(i, runner[i].cfg, runner[i].at)
    /\ runner' = [runner EXCEPT ![i] = [@ EXCEPT !.at = "over", !.ctx = "canceled", !.deadline = 0]]
    /\ UNCHANGED <<jobCfg, jobReq, jobClock, launched, walk>>

\* Time passes; a context whose deadline is reached is done.
JobTick ==
    /\ jobClock < MaxJobClock
    /\ jobClock' = jobClock + 1
    /\ runner' = [i \in Ids |->
          IF runner[i].at # "none" /\ runner[i].ctx = "live" /\ runner[i].deadline <= jobClock'
          THEN [runner[i] EXCEPT !.ctx = "deadline"] ELSE runner[i]]
    /\ UNCHANGED <<jobCfg, jobs, jobReq, told, launched, walk>>

-----------------------------------------------------------------------------
\* Cancelling: the job is found under the lock, its context is cancelled after it,
\* and the ending is recorded in case the runner never will.

CancelFinds(c, id) ==
    /\ jobReq[c] = NoReq
    /\ \E k \in Held(id) : jobs[k].status = "running"
    /\ jobReq' = [jobReq EXCEPT ![c] = [op |-> "cancel", cfg |-> Settings, id |-> id]]
    /\ UNCHANGED <<jobCfg, jobs, runner, jobClock, told, launched, walk>>

CancelStops(c) ==
    /\ jobReq[c].op = "cancel"
    /\ LET i == jobReq[c].id
       IN runner' = IF runner[i].ctx = "live" THEN [runner EXCEPT ![i].ctx = "canceled"]
                    ELSE runner
    /\ jobReq' = [jobReq EXCEPT ![c] = [@ EXCEPT !.op = "canceled"]]
    /\ UNCHANGED <<jobCfg, jobs, jobClock, told, launched, walk>>

CancelRecords(c) ==
    /\ jobReq[c].op = "canceled"
    /\ Finish(jobReq[c].id, jobReq[c].cfg, "canceled")
    /\ jobReq' = [jobReq EXCEPT ![c] = NoReq]
    /\ UNCHANGED <<jobCfg, runner, jobClock, launched, walk>>

-----------------------------------------------------------------------------
\* The list, newest first: a page, and the cursor when more was found.

Listed(before) == {k \in DOMAIN jobs : before = 0 \/ jobs[k].started < before}

ListStart ==
    /\ walk = NoWalk /\ jobs # <<>>
    /\ walk' = [at |-> "walking", before |-> 0, seen |-> {}, twice |-> {},
                base |-> {jobs[k].id : k \in DOMAIN jobs}]
    /\ UNCHANGED <<jobCfg, jobs, runner, jobReq, jobClock, told, launched>>

ListPage ==
    /\ walk.at = "walking"
    /\ LET found == Listed(walk.before)
           newest == {k \in found : Cardinality({l \in found : l > k}) < JobPage}
           page == {jobs[k].id : k \in newest}
       IN walk' = [at |-> IF newest = found THEN "read" ELSE "walking", base |-> walk.base,
                   before |-> IF newest = found THEN 0 ELSE jobs[Min(newest)].started,
                   seen |-> walk.seen \cup page, twice |-> walk.twice \cup (walk.seen \cap page)]
    /\ UNCHANGED <<jobCfg, jobs, runner, jobReq, jobClock, told, launched>>

ListDone ==
    /\ walk.at = "read" /\ walk' = NoWalk
    /\ UNCHANGED <<jobCfg, jobs, runner, jobReq, jobClock, told, launched>>

-----------------------------------------------------------------------------
JobRuns(i) == RunStart(i) \/ RunReturns(i) \/ RunKills(i) \/ RunWaited(i) \/ RunRecords(i)
JobRequestGoesOn(c) == LaunchStored(c) \/ CancelStops(c) \/ CancelRecords(c)

JobLaunches ==
    \E c \in JobClients :
       \/ \E image \in JobImages, size \in Sizes, t \in JobTimeouts : LaunchChecked(c, image, size, t)
       \/ LaunchStored(c)

JobCancels ==
    \E c \in JobClients :
       \/ \E i \in Ids : CancelFinds(c, i)
       \/ CancelStops(c)
       \/ CancelRecords(c)

JobLists == ListStart \/ ListPage \/ ListDone

JobsNext ==
    \/ SaveJobConfig \/ JobLaunches \/ JobCancels \/ JobLists \/ JobTick
    \/ \E i \in Ids :
          \/ RunStart(i)
          \/ BoxUp(i)
          \/ BoxExits(i)
          \/ RunReturns(i)
          \/ RunKills(i)
          \/ RunWaited(i)
          \/ RunRecords(i)

JobsSpec == JobsInit /\ [][JobsNext]_JobsVars

-----------------------------------------------------------------------------
JobsTyped ==
    /\ jobCfg \in JobConfigs /\ jobs \in Seq(Job)
    /\ launched \in 0..MaxLaunches /\ jobClock \in 1..MaxJobClock
    /\ told \in [Ids -> Nat]

\* A job ends once, however a natural exit, a deadline and a cancel race: an ended
\* record never changes again, and its completion function is called at most once
\* and only for an ended job (finish, Cancel).
EndsOnce ==
    [][/\ \A k \in DOMAIN jobs : jobs[k].status # "running" =>
             \A l \in DOMAIN jobs' : jobs'[l].id = jobs[k].id => jobs'[l] = jobs[k]
       /\ \A i \in Ids : /\ told'[i] <= 1
                         /\ told'[i] > told[i] =>
                              \E l \in DOMAIN jobs' : jobs'[l].id = i /\ jobs'[l].status # "running"
      ]_JobsVars

\* No job costs more than the ceiling it was launched under, and the timeout that a
\* refusal for cost suggests would have been accepted (Launch, finish).
SpendBounded ==
    /\ \A k \in DOMAIN jobs : jobs[k].cost <= runner[jobs[k].id].cfg.maxCost
    /\ \A size \in Sizes : jobCfg.maxCost > JobPrice =>
          WorstCaseHold(size, MaxTimeoutForBudget(size, jobCfg.maxCost)) <= jobCfg.maxCost

\* A client that reads the list to its end has every job that was there when it
\* began and still is, and none twice (Launch's cursor, List).
ListComplete ==
    walk.at = "read" =>
       walk.twice = {} /\ \A i \in walk.base : Held(i) # {} => i \in walk.seen

\* A job whose context is done ends, unless it timed out and docker kill came before
\* its container was up; a cancelled one is recorded in any case (DockerRunner.Run,
\* Cancel).
JobEnds ==
    \A i \in Ids :
       (/\ runner[i].at \in {"start", "select"} /\ runner[i].ctx # "live"
        /\ \E k \in Held(i) : jobs[k].status = "running")
         ~> \/ \A k \in Held(i) : jobs[k].status # "running"
            \/ /\ runner[i].at = "killed" /\ runner[i].box = "pulling"
               /\ runner[i].ctx = "deadline"

\* What the comment on docker kill says: a job that is past its deadline is stopped.
TimedOutEnds ==
    \A i \in Ids : (runner[i].at = "select" /\ runner[i].ctx = "deadline")
         ~> (runner[i].at = "over")

\* What an organization's jobs may cost is bounded by the ceiling, whatever runs at once, and whoever
\* reads their list page by page gets every job that was there all along, once.
JobsHold == JobsTyped /\ SpendBounded /\ ListComplete

=============================================================================
