----------------------------- MODULE MCServices -----------------------------
(***************************************************************************)
(* Container jobs, their logs, blobs, triggers and the calls of the client *)
(* libraries.  These share no state, so a behaviour is about one of them:  *)
(* `part` says which, and within which bounds.  "jobs" is launches, ends    *)
(* and cancels under two configurations; "joblist" a client that reads the *)
(* list while jobs are launched and end; "log" the log buffer; "blob" two  *)
(* clients and a crash around one object; "bloblist" one client and two    *)
(* objects; "triggers" the tasks that writes of documents and objects add; *)
(* "calls" one library's calls against a server that limits their rate.    *)
(***************************************************************************)
EXTENDS ContainerJobs, JobLog, BlobUploads, TriggerChain, ApiCalls

CONSTANTS c1, c2, k1, k2, q1, q2
VARIABLE part

MCJobConfigs ==
    {[allowed |-> {"img"}, maxTimeout |-> 1, maxConcurrent |-> 1, maxCost |-> 3, onComplete |-> TRUE],
     [allowed |-> {"img"}, maxTimeout |-> 1, maxConcurrent |-> 2, maxCost |-> 3, onComplete |-> FALSE]}
MCFactor == [small |-> 1, large |-> 3]

MCSorts == {<<"go", "create">>, <<"js", "named">>, <<"js", "ack">>, <<"php", "once">>, <<"cli", "once">>}
MCGrants == {{<<"service", "full">>, <<"instance", "read">>}}

RuleOf(ops, q) == [ops |-> ops, queue |-> q]
MCRuleLists == {<<RuleOf({}, q1)>>, <<RuleOf({"create"}, q2), RuleOf({"create", "update"}, q1)>>}
MCKeyLists == {<<k1, k2, k1>>}

servicesVars == <<part, JobsVars, LogVars, BlobVars, triggerVars, apiVars>>

Init == /\ part \in {"jobs", "joblist", "log", "blob", "bloblist", "triggers", "calls"}
        /\ JobsInit /\ jobCfg.onComplete = (part # "joblist")
        /\ LogInit /\ BlobInit
        /\ TriggerInit /\ (part # "triggers" => Len(rules) = 1)
        /\ ApiInit /\ (part # "calls" => rpm = 0)

\* The configuration changes once, while the first job is there.
JobsPart == /\ JobsNext /\ UNCHANGED walk
            /\ jobCfg' = jobCfg \/ (launched = 1 /\ jobCfg.onComplete)
\* Nobody cancels and nothing takes longer than it may.
JobListPart == \/ JobLaunches \/ JobLists \/ JobTick
               \/ \E i \in Ids : RunStart(i) \/ BoxUp(i) \/ BoxExits(i) \/ RunReturns(i) \/ RunRecords(i)
BlobPart == BlobNext /\ reserved' <= 1 /\ \A c \in BlobClients : blobReq'[c].op \notin {"list", "listed"}
BlobListPart == BlobNext /\ UNCHANGED blobReq[c2] /\ UNCHANGED crashes

Next == /\ UNCHANGED part
        /\ \/ /\ \/ part = "jobs" /\ JobsPart
                 \/ part = "joblist" /\ JobListPart
              /\ UNCHANGED <<LogVars, BlobVars, triggerVars, apiVars>>
           \/ part = "log" /\ LogNext /\ UNCHANGED <<JobsVars, BlobVars, triggerVars, apiVars>>
           \/ /\ \/ part = "blob" /\ BlobPart
                 \/ part = "bloblist" /\ BlobListPart
              /\ UNCHANGED <<JobsVars, LogVars, triggerVars, apiVars>>
           \/ part = "triggers" /\ TriggerNext /\ UNCHANGED <<JobsVars, LogVars, BlobVars, apiVars>>
           \/ part = "calls" /\ ApiNext /\ UNCHANGED <<JobsVars, LogVars, BlobVars, triggerVars>>

\* Goroutines and requests run on; the reaper's timer comes round; a library ends an attempt by
\* its timeout and its pause by a timer.
Fairness == /\ \A i \in Ids : WF_JobsVars(part = "jobs" /\ RunStart(i)) /\ WF_JobsVars(part = "jobs" /\ JobRuns(i))
            /\ \A c \in JobClients : WF_JobsVars(part = "jobs" /\ JobRequestGoesOn(c))
            /\ WF_BlobVars(part = "blob" /\ Reap) /\ WF_BlobVars(part = "blob" /\ BlobTick)
            /\ \A w \in Writers : /\ WF_triggerVars(part = "triggers" /\ Commits(w))
                                  /\ WF_triggerVars(part = "triggers" /\ \E g \in Firings : Fires(w, g))
            /\ \A g \in Firings : WF_triggerVars(part = "triggers" /\ Adding(g))
            /\ WF_triggerVars(part = "triggers" /\ \E t \in DOMAIN added : Runs(t))
            /\ WF_apiVars(part = "calls" /\ Ticks)
            /\ \A c \in Callers : WF_apiVars(part = "calls" /\ CallGoesOn(c)) /\ WF_apiVars(part = "calls" /\ Resumes(c))

Spec == Init /\ [][Next]_servicesVars /\ Fairness

-----------------------------------------------------------------------------
\* A job whose context is done ends, a reservation does not stay for ever, functions that write
\* what triggers them stop, and a library's call comes back to its application.
WorkEnds == /\ (part = "jobs" => JobEnds) /\ (part = "blob" => ReservationEnds)
            /\ (part = "triggers" => ChainsEnd) /\ (part = "calls" => CallsReturn)
=============================================================================
