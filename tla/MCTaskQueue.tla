----------------------------- MODULE MCTaskQueue -----------------------------
(***************************************************************************)
(* Small instances of TaskQueue: a push queue whose settings are tuned, one*)
(* with a pull queue for its dead letters, one whose targets steer their   *)
(* own retries.  A .cfg picks its constants.                               *)
(***************************************************************************)
EXTENDS TaskQueue, TLC

CONSTANTS t1, t2, jobs, dead, d1, d2

Queue(mode, n, attempts) ==
    [mode |-> mode, paused |-> FALSE, maxConcurrent |-> n, maxAttempts |-> attempts,
     dlq |-> NoQ, control |-> FALSE]

Push    == Queue("push", 1, 2)
Pull    == Queue("pull", 1, 2)
Steered == [Push EXCEPT !.control = TRUE]
Double  == Queue("push", 2, 1)

\* What a queue may be changed to, in each instance.
NoChange  == [q \in QName |-> {}]
Tuned     == [q \in QName |-> {Push, [Push EXCEPT !.paused = TRUE], Queue("push", 2, 2)}]
Letters   == [q \in QName |-> IF q = dead THEN {Pull} ELSE {[Double EXCEPT !.dlq = dead], Double}]

Answers        == {Plain("ok"), Plain("fail")}
Refusals       == {Plain("ok"), Plain("permanent")}
SteeredAnswers == {Plain("ok"), Plain("fail"),
                   [kind |-> "fail", ctl |-> "defer", limit |-> 0],
                   [kind |-> "ok", ctl |-> "retry", limit |-> 0],
                   [kind |-> "permanent", ctl |-> "retry", limit |-> 0],
                   [kind |-> "fail", ctl |-> "never", limit |-> 0],
                   [kind |-> "fail", ctl |-> "none", limit |-> 3],
                   [kind |-> "fail", ctl |-> "none", limit |-> 1]}

Symmetry == Permutations(TaskId) \cup Permutations(Delivery)

-----------------------------------------------------------------------------
\* Whatever happens to its attempt, a task recovers: its slot comes free, a lost attempt is found,
\* and in the end it is done.
TaskRecovers == SlotFreed /\ LostRecovered /\ TaskEnds

=============================================================================
