---------------------------- MODULE TaskLifecycle ----------------------------
(***************************************************************************)
(* What a tasks instance promises about each task, whatever its queues,    *)
(* engine and workers do: an id is used once; an attempt begins only while *)
(* nobody is at work on the task, and counts; what has ended stays ended   *)
(* until it is run again, with its attempts back at zero; what was dropped *)
(* never comes back.  TaskQueue implements it while no queue changes mode. *)
(***************************************************************************)
EXTENDS Naturals

CONSTANTS Task

VARIABLES life   \* task -> where it stands, who is at work on it, attempts so far

At == {"unborn", "waiting", "held", "ended", "gone"}
By == {"nobody", "call", "worker"}

Unborn == [at |-> "unborn", by |-> "nobody", n |-> 0]

Init == life = [t \in Task |-> Unborn]

-----------------------------------------------------------------------------
\* Each relates a task's record l to the next one, m.

Born(l, m) == l = Unborn /\ m = [l EXCEPT !.at = "waiting"]

\* An attempt begins: a delivery's call, or a worker's lease.
Begin(l, m) ==
    /\ l.at = "waiting" /\ l.by = "nobody"
    /\ m.at = "held" /\ m.by \in {"call", "worker"} /\ m.n = l.n + 1

\* An attempt ends: retried, ended, or deferred, which is not an attempt.  A
\* call may still be running: its deadline only ended the wait for it.
Settle(l, m) ==
    /\ l.at = "held"
    /\ m.at \in {"waiting", "ended"} /\ m.n \in {l.n, l.n - 1}
    /\ m.by \in {"nobody", l.by} \ {"worker"}

\* The call returns, is given up on, or is lost with its process.
Return(l, m) == l.by = "call" /\ m = [l EXCEPT !.by = "nobody"]

Cancel(l, m) == l.at = "waiting" /\ m = [l EXCEPT !.at = "ended"]

RunAgain(l, m) == l.at = "ended" /\ m = [l EXCEPT !.at = "waiting", !.n = 0]

\* Purged, deleted with its queue, or past its retention.
Drop(l, m) ==
    /\ l.at \in {"waiting", "held", "ended"}
    /\ m.at = "gone" /\ m.n = 0
    /\ m.by \in {"nobody", l.by} \ {"worker"}

Step(l, m) == \/ Born(l, m) \/ Begin(l, m) \/ Settle(l, m) \/ Return(l, m)
              \/ Cancel(l, m) \/ RunAgain(l, m) \/ Drop(l, m)

\* One operation may move many tasks.
Next == /\ life' \in [Task -> [at: At, by: By, n: Nat]]
        /\ \A t \in Task : life'[t] = life[t] \/ Step(life[t], life'[t])

Spec == Init /\ [][Next]_life

=============================================================================
