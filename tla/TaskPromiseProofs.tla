-------------------------- MODULE TaskPromiseProofs --------------------------
(***************************************************************************)
(* What a tasks instance does to each task and each call, step by step:    *)
(* proofs that calls stay apart, that dead letters are kept, that a task   *)
(* waits only with attempts left, and that TaskQueue implements            *)
(* TaskLifecycle.                                                          *)
(***************************************************************************)
EXTENDS TaskQueueProofs

-----------------------------------------------------------------------------
(* What calls keep, in an instance whose queues do not change mode *)

OnlyMode(q, mode) == \A s \in Possible(q) : s.mode = mode

\* A delivery or a claim is of a push queue, and of its task's queue.
InPush(g) == /\ OnlyMode(g.queue, "push")
             /\ g.task \in Rows => task[g.task].queue = g.queue

QueuesPossible == \A q \in Queues : queue[q] \in Possible(q)

LeasedInPull == \A t \in Rows : task[t].state = "leased" => OnlyMode(task[t].queue, "pull")

\* A call that is no longer waited for leaves its task alone.
CallsOver == \A d \in Active : del[d].phase # "calling" /\ del[d].task \in Rows
                                  => task[del[d].task].state \notin Held

\* The record a held call will note itself on says that the attempt timed out.
RecordsTimedOut == \A d \in Active : del[d].phase = "held" /\ del[d].task \in Rows
                                        => attempt[del[d].task][del[d].attempt] = "timeout"

\* Records go with their row.
RecordsOfRows == \A t \in TaskId \ Rows : attempt[t] = NoRecords

CInv == /\ QueuesPossible /\ LeasedInPull /\ CallsOver /\ RecordsTimedOut /\ RecordsOfRows
        /\ \A d \in Active : InPush(del[d])
        /\ \A c \in eng.claimed : InPush(c)

\* The pass's count of a queue's calls covers those in flight until it claims.
SnapshotCounts == eng.pc \in {"sweep", "claim"} => \A q \in QName : running[q] <= eng.running[q]

\* An attempt under way by a call is one its task may have.
WithinInv ==
    /\ WithinLimit
    /\ \A d \in Active : del[d].phase = "calling" /\ del[d].task \in Rows
                            => del[d].attempt <= Limit(del[d].task)
    /\ \A c \in eng.claimed : c.task \in Rows => c.attempt <= Limit(c.task)

-----------------------------------------------------------------------------
(* What a step does to a task *)

Absent(t) == t \notin Rows /\ t \notin Rows' /\ (t \in minted' <=> t \in minted)

Born(t) == /\ t \notin minted /\ t \in minted' /\ t \in Rows'
           /\ task'[t].state = "scheduled" /\ task'[t].attempts = 0

Dropped(t) == t \in Rows /\ t \notin Rows'

Stays(t) == t \in Rows /\ t \in Rows' /\ task'[t].queue = task[t].queue

Kept(t) == Stays(t) /\ task'[t].state = task[t].state /\ task'[t].attempts = task[t].attempts

Begun(t) == /\ Stays(t)
            /\ task[t].state = "scheduled" /\ task'[t].state \in Held
            /\ task'[t].attempts = task[t].attempts + 1

Settled(t) == /\ Stays(t)
              /\ task[t].state \in Held /\ task'[t].state \in {"scheduled"} \cup Finished
              /\ task'[t].attempts \in {task[t].attempts, task[t].attempts - 1}

CalledOff(t) == /\ Stays(t)
                /\ task[t].state = "scheduled" /\ task'[t].state = "cancelled"
                /\ task'[t].attempts = task[t].attempts

Reset(t) == /\ Stays(t)
            /\ task[t].state \in Finished /\ task'[t].state = "scheduled"
            /\ task'[t].attempts = 0

Fate(t) == \/ Absent(t) \/ Born(t) \/ Dropped(t) \/ Kept(t)
           \/ Begun(t) \/ Settled(t) \/ CalledOff(t) \/ Reset(t)

\* Whoever is in the row of a task has been given out.
LEMMA RowsMinted ==
  ASSUME IInv
  PROVE  /\ \A t \in Rows : t \in TaskId /\ t \in minted /\ task[t] \in Row /\ task[t] # NoRow
         /\ \A t \in TaskId \ Rows : task[t] = NoRow
         /\ task \in [TaskId -> Row \cup {NoRow}]
  BY Typed DEF IInv, TypeOK, Known, Rows

\* A step that leaves the rows alone.
LEMMA FateSame ==
  ASSUME IInv, UNCHANGED <<task, minted>>
  PROVE  \A t \in TaskId : Absent(t) \/ Kept(t)
  BY DEF Absent, Kept, Stays, Rows

\* A step that changes one row.
LEMMA FateOne ==
  ASSUME IInv, NEW t \in Rows, NEW r \in Row, task' = [task EXCEPT ![t] = r], UNCHANGED minted
  PROVE  /\ task'[t] = r /\ t \in Rows'
         /\ \A x \in TaskId \ {t} : task'[x] = task[x] /\ (Absent(x) \/ Kept(x))
<1>1. t \in TaskId /\ task'[t] = r /\ r # NoRow
  BY RowsMinted, Distinct
<1>2. \A x \in TaskId \ {t} : task'[x] = task[x]
  BY RowsMinted
<1> QED
  BY <1>1, <1>2 DEF Absent, Kept, Stays, Rows

\* A step that adds one row.
LEMMA FateNew ==
  ASSUME IInv, NEW t \in TaskId \ minted, NEW r \in Row, task' = [task EXCEPT ![t] = r],
         r.state = "scheduled", r.attempts = 0, minted' = minted \cup {t}
  PROVE  \A x \in TaskId : Absent(x) \/ Kept(x) \/ Born(x)
<1>1. task'[t] = r /\ r # NoRow
  BY RowsMinted, Distinct
<1>2. Born(t)
  BY <1>1 DEF Born, Rows
<1>3. \A x \in TaskId \ {t} : task'[x] = task[x] /\ (x \in minted' <=> x \in minted)
  BY RowsMinted
<1>4. \A x \in TaskId \ {t} : Absent(x) \/ Kept(x)
  BY <1>3 DEF Absent, Kept, Stays, Rows
<1> QED
  BY <1>2, <1>4

\* A step that drops rows, and their records with them.
LEMMA FateDrop ==
  ASSUME IInv, NEW T \in SUBSET Rows, DropRows(T), UNCHANGED minted
  PROVE  /\ \A t \in TaskId : Absent(t) \/ Kept(t) \/ Dropped(t)
         /\ \A t \in Rows' : attempt'[t] = attempt[t]
         /\ RecordsOfRows => RecordsOfRows'
<1>1. \A t \in TaskId : /\ task'[t] = IF t \in T THEN NoRow ELSE task[t]
                        /\ attempt'[t] = IF t \in T THEN NoRecords ELSE attempt[t]
  BY DEF DropRows
<1> QED
  BY <1>1 DEF Absent, Kept, Dropped, Stays, Rows, RecordsOfRows

\* A step that takes rows for an attempt.
LEMMA FateTake ==
  ASSUME IInv, NEW T \in SUBSET Rows, \A t \in T : task[t].state = "scheduled",
         NEW state \in Held, NEW holder, Take(T, state, holder), UNCHANGED minted
  PROVE  /\ \A t \in T : Begun(t) /\ task'[t].state = state /\ task'[t].max = task[t].max
         /\ \A t \in TaskId \ T : Absent(t) \/ Kept(t)
         /\ \A t \in TaskId \ T : attempt'[t] = attempt[t] /\ task'[t] = task[t]
         /\ RecordsOfRows => RecordsOfRows'
<1> DEFINE r(t) == [task[t] EXCEPT !.state = state, !.attempts = @ + 1, !.due = "later",
                                   !.lease = "live", !.holder = holder]
<1>1. \A t \in TaskId : task'[t] = IF t \in T THEN r(t) ELSE task[t]
  BY DEF Take
<1>2. \A t \in TaskId \ T : attempt'[t] = attempt[t]
  BY DEF Take
<1>3. \A t \in T : /\ r(t).state = state /\ r(t).attempts = task[t].attempts + 1
                   /\ r(t).queue = task[t].queue /\ r(t).max = task[t].max /\ r(t) # NoRow
  <2> TAKE t \in T
  <2>1. task[t] \in Row
    BY RowsMinted
  <2>2. /\ r(t).state = state /\ r(t).attempts = task[t].attempts + 1
        /\ r(t).queue = task[t].queue /\ r(t).max = task[t].max
    BY <2>1 DEF Row
  <2>3. r(t).state # "none" /\ NoRow.state = "none"
    BY <2>2 DEF Held, NoRow
  <2> QED
    BY <2>2, <2>3
<1> HIDE DEF r
<1>4. \A t \in T : Begun(t) /\ task'[t].state = state /\ task'[t].max = task[t].max
  BY <1>1, <1>3 DEF Begun, Stays, Rows
<1>5. \A t \in TaskId \ T : Absent(t) \/ Kept(t)
  BY <1>1 DEF Absent, Kept, Stays, Rows
<1>6. RecordsOfRows => RecordsOfRows'
  <2> SUFFICES ASSUME RecordsOfRows, NEW t \in TaskId, t \notin Rows' PROVE attempt'[t] = NoRecords
    BY DEF RecordsOfRows
  <2>1. t \notin T /\ t \notin Rows
    BY <1>1, <1>4 DEF Begun, Stays, Rows
  <2> QED
    BY <1>2, <2>1 DEF RecordsOfRows
<1> QED
  BY <1>1, <1>2, <1>4, <1>5, <1>6

\* What settling makes of a row.
LEMMA SettledRowFate ==
  ASSUME IInv, NEW t \in Rows, task[t].state \in Held, NEW o \in Outcome, NEW old \in BOOLEAN
  PROVE  LET r == SettledRow(t, o, old)
         IN  /\ r \in Row /\ r.queue = task[t].queue /\ r.max = OwnLimit(t, o)
             /\ r.state \in {"scheduled"} \cup Finished
             /\ r.attempts \in {task[t].attempts, task[t].attempts - 1}
             /\ r.state = "scheduled" =>
                   \/ Deferred(t, o, old) /\ r.attempts = task[t].attempts - 1
                   \/ r.attempts = task[t].attempts /\ task[t].attempts < NewLimit(t, o)
             /\ r.state = "failed" => Verdict(t, o, old) = "failed"
             /\ Verdict(t, o, old) = "failed" => r.attempts = task[t].attempts /\ r.state = "failed"
<1> DEFINE r == [task[t] EXCEPT !.max = OwnLimit(t, o)]
<1>1. task[t] \in Row /\ OwnLimit(t, o) \in 0..AttemptCap
  BY RowsMinted, LimitType
<1>2. /\ r \in Row /\ r.attempts = task[t].attempts /\ r.max = OwnLimit(t, o)
      /\ r.queue = task[t].queue
  BY <1>1 DEF Row
<1>3. SettledRow(t, o, old) \in Row /\ SettledRow(t, o, old).queue = task[t].queue
  BY SettledRowType
<1> HIDE DEF r
<1>4. CASE Verdict(t, o, old) = "deferred"
  <2>1. SettledRow(t, o, old) = DeferredRow(r) /\ Deferred(t, o, old)
    BY <1>4 DEF SettledRow, r, Verdict
  <2>2. /\ DeferredRow(r).state = "scheduled" /\ DeferredRow(r).max = r.max
        /\ DeferredRow(r).attempts = r.attempts - 1
    BY <1>2 DEF DeferredRow, Waiting, Row
  <2> QED
    BY <1>2, <1>3, <1>4, <2>1, <2>2
<1>5. CASE Verdict(t, o, old) = "again"
  <2>1. SettledRow(t, o, old) = Waiting(r) /\ Again(t, o, old)
    BY <1>5 DEF SettledRow, r, Verdict
  <2>2. /\ Waiting(r).state = "scheduled" /\ Waiting(r).max = r.max
        /\ Waiting(r).attempts = r.attempts
    BY <1>2 DEF Waiting, Row
  <2> QED
    BY <1>2, <1>3, <1>5, <2>1, <2>2 DEF Again
<1>6. CASE Verdict(t, o, old) \in {"done", "failed"}
  <2>1. SettledRow(t, o, old) = Ended(r, Verdict(t, o, old))
    BY <1>6 DEF SettledRow, r
  <2>2. \A state : /\ Ended(r, state).state = state /\ Ended(r, state).max = r.max
                   /\ Ended(r, state).attempts = r.attempts
    BY <1>2 DEF Ended, Row
  <2> QED
    BY <1>2, <1>3, <1>6, <2>1, <2>2 DEF Finished
<1>7. Verdict(t, o, old) \in {"deferred", "again", "done", "failed"}
  BY DEF Verdict
<1> QED
  BY <1>4, <1>5, <1>6, <1>7

\* A step that settles the rows of T, copies some, and drops those of gone.
LEMMA FateSettle ==
  ASSUME IInv, NEW T \in SUBSET Rows, \A t \in T : task[t].state \in Held,
         NEW out \in [T -> Outcome], NEW aged, NEW copy \in Copies(T),
         NEW gone \in SUBSET Rows, T \cap gone = {}, Settle(T, out, aged, copy, gone)
  PROVE  /\ \A t \in T : /\ Settled(t) /\ task'[t] = SettledRow(t, out[t], t \in aged)
                         /\ attempt'[t] = Close(t, out[t])
         /\ DOMAIN copy = {t \in T : DeadLettered(t, out[t], t \in aged)}
         /\ \A t \in DOMAIN copy : /\ copy[t] \in TaskId \ minted /\ Born(copy[t])
                                   /\ task'[copy[t]] = NewRow(SettingsOf(t).dlq, 0, t)
         /\ \A t \in TaskId \ (T \cup Image(copy) \cup gone) : 
               task'[t] = task[t] /\ (Absent(t) \/ Kept(t))
         /\ \A t \in gone : Dropped(t)
         /\ \A t \in minted \ T : t \in Rows' => attempt'[t] = attempt[t]
         /\ (RecordsOfRows => RecordsOfRows') /\ minted \subseteq minted'
<1>1. /\ DOMAIN copy = {t \in T : DeadLettered(t, out[t], t \in aged)}
      /\ \A x, y \in DOMAIN copy : copy[x] = copy[y] => x = y
      /\ minted' = minted \cup Image(copy)
  BY DEF Settle
<1>2. /\ \A t \in DOMAIN copy : copy[t] \in TaskId \ minted
      /\ Image(copy) \subseteq TaskId \ minted /\ T \subseteq minted /\ gone \subseteq minted
      /\ T \subseteq TaskId /\ gone \subseteq TaskId
  BY RowsMinted DEF Copies, Image
<1> DEFINE Of(t) == CHOOSE x \in DOMAIN copy : copy[x] = t
           new(t) == NewRow(SettingsOf(Of(t)).dlq, 0, Of(t))
<1>3. \A t \in TaskId : task'[t] =
          CASE t \in T -> SettledRow(t, out[t], t \in aged)
            [] t \in Image(copy) -> new(t)
            [] t \in gone -> NoRow
            [] OTHER -> task[t]
  BY DEF Settle
<1>4. \A t \in DOMAIN copy : Of(copy[t]) = t /\ copy[t] \in Image(copy)
  BY <1>1 DEF Image
<1> HIDE DEF Of, new
<1>5. \A t \in T : task'[t] = SettledRow(t, out[t], t \in aged)
  BY <1>2, <1>3
<1>6. \A t \in Image(copy) : task'[t] = new(t)
  BY <1>2, <1>3
<1>7. \A t \in gone : task'[t] = NoRow
  BY <1>2, <1>3
<1>8. \A t \in TaskId \ (T \cup Image(copy) \cup gone) : task'[t] = task[t]
  BY <1>3
<1>9. \A t \in TaskId : attempt'[t] =
          CASE t \in T -> Close(t, out[t])
            [] t \in gone -> NoRecords
            [] OTHER -> attempt[t]
  BY DEF Settle
<1>10. \A t \in T : Settled(t)
  <2> TAKE t \in T
  <2> DEFINE o == out[t]
             old == t \in aged
  <2>1. t \in Rows /\ task[t].state \in Held /\ o \in Outcome /\ old \in BOOLEAN
    OBVIOUS
  <2>3. task'[t] = SettledRow(t, o, old)
    BY <1>5
  <2> HIDE DEF o, old
  <2>2. /\ task'[t] \in Row /\ task'[t].queue = task[t].queue
        /\ task'[t].state \in {"scheduled"} \cup Finished
        /\ task'[t].attempts \in {task[t].attempts, task[t].attempts - 1}
    BY <2>1, <2>3, SettledRowFate
  <2> QED
    BY <1>2, <2>1, <2>2, Distinct DEF Settled, Stays, Rows
<1>11. \A t \in DOMAIN copy : Born(copy[t]) /\ task'[copy[t]] = NewRow(SettingsOf(t).dlq, 0, t)
  <2> TAKE t \in DOMAIN copy
  <2>1. task'[copy[t]] = NewRow(SettingsOf(t).dlq, 0, t)
    BY <1>4, <1>6 DEF new
  <2>2. /\ NewRow(SettingsOf(t).dlq, 0, t).state = "scheduled"
        /\ NewRow(SettingsOf(t).dlq, 0, t).attempts = 0
        /\ NoRow.state = "none"
    BY DEF NewRow, NoRow
  <2>3. task'[copy[t]] # NoRow
    BY <2>1, <2>2
  <2> QED
    BY <1>1, <1>2, <1>4, <2>1, <2>2, <2>3 DEF Born, Rows
<1>12. \A t \in TaskId \ (T \cup Image(copy) \cup gone) : Absent(t) \/ Kept(t)
  BY <1>1, <1>8 DEF Absent, Kept, Stays, Rows
<1>13. \A t \in gone : Dropped(t)
  BY <1>7 DEF Dropped, Rows
<1>14. \A t \in minted \ T : t \in Rows' => attempt'[t] = attempt[t]
  BY <1>9, <1>13 DEF Dropped, Rows
<1>15. RecordsOfRows => RecordsOfRows'
  <2> SUFFICES ASSUME RecordsOfRows, NEW t \in TaskId, t \notin Rows' PROVE attempt'[t] = NoRecords
    BY DEF RecordsOfRows
  <2>1. t \notin T
    BY <1>10 DEF Settled, Stays
  <2>2. CASE t \in gone
    BY <1>9, <2>1, <2>2
  <2>3. CASE t \notin gone
    <3>1. t \notin Rows
      BY <1>2, <1>8, <2>1, <2>3, RowsMinted DEF Rows
    <3> QED
      BY <1>9, <2>1, <2>3, <3>1 DEF RecordsOfRows
  <2> QED
    BY <2>2, <2>3
<1> QED
  BY <1>1, <1>2, <1>5, <1>8, <1>9, <1>10, <1>11, <1>12, <1>13, <1>14, <1>15

-----------------------------------------------------------------------------
(* The fates of tasks, action by action *)

\* A copy of t waits in the dead-letter queue of t's queue.
Copied(t) == \E c \in TaskId : /\ task[c] = NoRow /\ task'[c] # NoRow
                               /\ task'[c].copyOf = t /\ task'[c].queue = SettingsOf(t).dlq

Lettered(t) == Settled(t) /\ task'[t].state = "failed" /\ SettingsOf(t).dlq # NoQ => Copied(t)

Fates == /\ \A t \in TaskId : Fate(t)
         /\ minted \subseteq minted'
         /\ RecordsOfRows => RecordsOfRows'

\* A task's records change only where an attempt begins or ends.
RecordsStay == \A t \in Rows' : t \in minted => attempt'[t] = attempt[t] \/ Begun(t) \/ Settled(t)

Letters == \A t \in Rows : Lettered(t)

\* A step that leaves rows, ids and records alone.
LEMMA QuietFates ==
  ASSUME IInv, UNCHANGED <<task, attempt, ids>>
  PROVE  Fates /\ RecordsStay /\ Letters /\ \A t \in TaskId : Absent(t) \/ Kept(t)
<1>1. \A t \in TaskId : Absent(t) \/ Kept(t)
  BY FateSame DEF ids
<1>2. RecordsOfRows => RecordsOfRows'
  BY DEF RecordsOfRows, Rows
<1>3. Letters
  BY DEF Letters, Lettered, Settled, Held, Finished
<1> QED
  BY <1>1, <1>2, <1>3 DEF Fates, Fate, RecordsStay, ids

\* A step that changes one row and no records.
LEMMA OneFates ==
  ASSUME IInv, NEW t \in Rows, NEW r \in Row, task' = [task EXCEPT ![t] = r],
         UNCHANGED <<attempt, ids>>, Kept(t) \/ Settled(t) \/ CalledOff(t) \/ Reset(t),
         r.state # "failed" \/ task[t].state \notin Held
  PROVE  /\ Fates /\ RecordsStay /\ Letters
         /\ \A x \in TaskId \ {t} : Absent(x) \/ Kept(x)
<1>1. /\ task'[t] = r /\ t \in Rows'
      /\ \A x \in TaskId \ {t} : task'[x] = task[x] /\ (Absent(x) \/ Kept(x))
  BY FateOne DEF ids
<1>2. Rows' = Rows
  BY <1>1, RowsMinted DEF Rows
<1>3. RecordsOfRows => RecordsOfRows'
  BY <1>2 DEF RecordsOfRows
<1>4. Letters
  <2> SUFFICES ASSUME NEW x \in Rows, Settled(x), task'[x].state = "failed"
      PROVE  FALSE
    BY DEF Letters, Lettered
  <2>1. x \in TaskId /\ task[x].state \in Held
    BY RowsMinted DEF Settled
  <2>2. x # t
    BY <1>1, <2>1
  <2> QED
    BY <1>1, <2>1, <2>2 DEF Held
<1> QED
  BY <1>1, <1>3, <1>4 DEF Fates, Fate, RecordsStay, ids

\* A step that adds one row and changes no records.
LEMMA NewFates ==
  ASSUME IInv, NEW t \in TaskId \ minted, NEW r \in Row, task' = [task EXCEPT ![t] = r],
         r.state = "scheduled", r.attempts = 0, minted' = minted \cup {t}, UNCHANGED attempt
  PROVE  Fates /\ RecordsStay /\ Letters /\ \A x \in TaskId : Absent(x) \/ Kept(x) \/ Born(x)
<1>1. \A x \in TaskId : Absent(x) \/ Kept(x) \/ Born(x)
  BY FateNew
<1>2. \A x \in TaskId : x \in Rows => x \in Rows'
  BY <1>1, RowsMinted DEF Absent, Kept, Born, Stays
<1>3. RecordsOfRows => RecordsOfRows'
  BY <1>2 DEF RecordsOfRows
<1>4. Letters
  BY <1>1, RowsMinted DEF Letters, Lettered, Settled, Kept, Absent, Born, Held, Finished
<1> QED
  BY <1>1, <1>3, <1>4 DEF Fates, Fate, RecordsStay

\* A step that drops rows.
LEMMA DropFates ==
  ASSUME IInv, NEW T \in SUBSET Rows, DropRows(T), UNCHANGED minted
  PROVE  /\ Fates /\ RecordsStay /\ Letters
         /\ \A t \in TaskId : Absent(t) \/ Kept(t) \/ Dropped(t)
<1>1. /\ \A t \in TaskId : Absent(t) \/ Kept(t) \/ Dropped(t)
      /\ \A t \in Rows' : attempt'[t] = attempt[t]
      /\ RecordsOfRows => RecordsOfRows'
  BY FateDrop
<1>2. Letters
  BY <1>1, RowsMinted DEF Letters, Lettered, Settled, Stays, Kept, Absent, Dropped, Held, Finished
<1> QED
  BY <1>1, <1>2 DEF Fates, Fate, RecordsStay

\* A step that takes rows for an attempt.
LEMMA TakeFates ==
  ASSUME IInv, NEW T \in SUBSET Rows, \A t \in T : task[t].state = "scheduled",
         NEW state \in Held, NEW holder, Take(T, state, holder), UNCHANGED minted
  PROVE  /\ Fates /\ RecordsStay /\ Letters
         /\ \A t \in T : Begun(t) /\ task'[t].state = state
         /\ \A t \in TaskId \ T : Absent(t) \/ Kept(t)
<1>1. /\ \A t \in T : Begun(t) /\ task'[t].state = state /\ task'[t].max = task[t].max
      /\ \A t \in TaskId \ T : Absent(t) \/ Kept(t)
      /\ \A t \in TaskId \ T : attempt'[t] = attempt[t] /\ task'[t] = task[t]
      /\ RecordsOfRows => RecordsOfRows'
  BY FateTake
<1>2. Letters
  BY <1>1, RowsMinted DEF Letters, Lettered, Settled, Kept, Absent, Begun, Held, Finished
<1>3. Rows' \subseteq TaskId
  BY DEF Rows
<1> QED
  BY <1>1, <1>2, <1>3 DEF Fates, Fate, RecordsStay

\* A step that settles rows and drops others.
LEMMA SettleFates ==
  ASSUME IInv, NEW T \in SUBSET Rows, \A t \in T : task[t].state \in Held,
         NEW out \in [T -> Outcome], NEW aged, NEW copy \in Copies(T),
         NEW gone \in SUBSET Rows, T \cap gone = {}, Settle(T, out, aged, copy, gone)
  PROVE  /\ Fates /\ RecordsStay /\ Letters
         /\ \A t \in T : Settled(t) /\ attempt'[t] = Close(t, out[t])
         /\ \A t \in TaskId \ T : Absent(t) \/ Kept(t) \/ Born(t) \/ Dropped(t)
<1>1. /\ \A t \in T : /\ Settled(t) /\ task'[t] = SettledRow(t, out[t], t \in aged)
                      /\ attempt'[t] = Close(t, out[t])
      /\ DOMAIN copy = {t \in T : DeadLettered(t, out[t], t \in aged)}
      /\ \A t \in DOMAIN copy : /\ copy[t] \in TaskId \ minted /\ Born(copy[t])
                                /\ task'[copy[t]] = NewRow(SettingsOf(t).dlq, 0, t)
      /\ \A t \in TaskId \ (T \cup Image(copy) \cup gone) :
            task'[t] = task[t] /\ (Absent(t) \/ Kept(t))
      /\ \A t \in gone : Dropped(t)
      /\ \A t \in minted \ T : t \in Rows' => attempt'[t] = attempt[t]
      /\ (RecordsOfRows => RecordsOfRows') /\ minted \subseteq minted'
  BY FateSettle
<1>2. \A t \in Image(copy) : Born(t)
  BY <1>1 DEF Image
<1>3. \A t \in TaskId : t \in T \/ Absent(t) \/ Kept(t) \/ Born(t) \/ Dropped(t)
  BY <1>1, <1>2
<1>4. Letters
  <2> SUFFICES ASSUME NEW t \in Rows, Settled(t), task'[t].state = "failed", SettingsOf(t).dlq # NoQ
      PROVE  Copied(t)
    BY DEF Letters, Lettered
  <2> DEFINE o == out[t]
             old == t \in aged
  <2>1. t \in T
    BY <1>3, RowsMinted DEF Settled, Stays, Kept, Absent, Born, Dropped, Held, Finished
  <2>2. task'[t] = SettledRow(t, o, old) /\ o \in Outcome /\ old \in BOOLEAN
    BY <1>1, <2>1
  <2>3. SettingsOf(t).dlq \in Queues
    BY RowsGood DEF IInv, NothingOrphaned, SettingsOf, GoodRow
  <2>4. (DeadLettered(t, o, old) => t \in DOMAIN copy)
    BY <1>1, <2>1
  <2> HIDE DEF o, old
  <2>5. Verdict(t, o, old) = "failed"
    BY <2>1, <2>2, SettledRowFate
  <2>6. t \in DOMAIN copy
    BY <2>3, <2>4, <2>5 DEF DeadLettered
  <2>7. /\ copy[t] \in TaskId \ minted /\ task'[copy[t]] = NewRow(SettingsOf(t).dlq, 0, t)
        /\ copy[t] \in Rows'
    BY <1>1, <2>6 DEF Born
  <2>8. task[copy[t]] = NoRow /\ task'[copy[t]] # NoRow
    BY <2>7, RowsMinted DEF Rows
  <2>9. /\ NewRow(SettingsOf(t).dlq, 0, t).copyOf = t
        /\ NewRow(SettingsOf(t).dlq, 0, t).queue = SettingsOf(t).dlq
    BY DEF NewRow
  <2> QED
    BY <2>7, <2>8, <2>9 DEF Copied
<1> QED
  BY <1>1, <1>3, <1>4 DEF Fates, Fate, RecordsStay

-----------------------------------------------------------------------------
(* What a step must show of its calls *)

\* Nobody is in flight on a task whose attempt begins, and a worker's is of a pull queue.
BeginsFree == \A t \in TaskId : Begun(t) =>
                 /\ t \notin inflight
                 /\ task'[t].state = "leased" => OnlyMode(task[t].queue, "pull")

\* A goroutine goes on with a call there was, claimed or under way.  It stops being waited for
\* only when its task is settled or gone; a held call finds its record as it left it.
CallGoesOn(d) ==
    /\ \/ \E e \in Active : del'[d].task = del[e].task /\ del'[d].queue = del[e].queue
       \/ \E c \in eng.claimed : del'[d].task = c.task /\ del'[d].queue = c.queue
    /\ del'[d].phase # "calling" =>
          /\ d \in Active /\ del'[d].task = del[d].task
          /\ del[d].phase # "calling" \/ Settled(del[d].task) \/ del[d].task \notin Rows
    /\ del'[d].phase = "held" /\ del'[d].task \in Rows' =>
          \/ /\ del[d].phase = "held" /\ del'[d].attempt = del[d].attempt
             /\ LET t == del[d].task
                IN  attempt'[t] = attempt[t] \/ Begun(t) \/ Settled(t)
          \/ attempt'[del'[d].task][del'[d].attempt] = "timeout"

\* A call's queue stays its task's.
LEMMA InPushStep ==
  ASSUME IInv, IInv', Fates, NEW g, NEW h, InPush(g), g.task \in minted,
         h.task = g.task, h.queue = g.queue
  PROVE  InPush(h)'
<1>1. OnlyMode(h.queue, "push")'
  BY DEF InPush, OnlyMode, Possible
<1>2. ASSUME h.task \in Rows' PROVE task'[h.task].queue = h.queue
  <2>1. g.task \in TaskId /\ Fate(g.task) /\ g.task \in minted /\ g.task \in Rows'
    BY <1>2, RowsMinted DEF IInv, TypeOK, Fates
  <2>2. g.task \in Rows /\ task'[g.task].queue = task[g.task].queue
    BY <2>1 DEF Fate, Absent, Born, Dropped, Kept, Begun, Settled, CalledOff, Reset, Stays
  <2> QED
    BY <2>2 DEF InPush
<1> QED
  BY <1>1, <1>2 DEF InPush

LEMMA CallsStep ==
  ASSUME IInv, IInv', CInv, Fates, BeginsFree, QueuesPossible',
         \A d \in Active' : CallGoesOn(d),
         \A c \in eng'.claimed : c \in eng.claimed \/ InPush(c)'
  PROVE  CInv'
<1>1. RecordsOfRows'
  BY DEF CInv, Fates
<1>2. LeasedInPull'
  <2> SUFFICES ASSUME NEW t \in Rows', task'[t].state = "leased"
      PROVE  OnlyMode(task'[t].queue, "pull")
    BY DEF LeasedInPull, OnlyMode, Possible
  <2>1. t \in TaskId /\ Fate(t)
    BY DEF Rows, Fates
  <2>2. Kept(t) \/ Begun(t)
    BY <2>1 DEF Fate, Absent, Born, Dropped, Settled, CalledOff, Reset, Finished
  <2>3. CASE Kept(t)
    BY <2>3 DEF Kept, Stays, CInv, LeasedInPull, OnlyMode, Possible
  <2>4. CASE Begun(t)
    BY <2>1, <2>4 DEF Begun, Stays, BeginsFree, OnlyMode, Possible
  <2> QED
    BY <2>2, <2>3, <2>4
<1>3. CallsOver'
  <2> SUFFICES ASSUME NEW d \in Active', del'[d].phase # "calling", del'[d].task \in Rows'
      PROVE  task'[del'[d].task].state \notin Held
    BY DEF CallsOver
  <2> DEFINE t == del[d].task
  <2>1. /\ d \in Active /\ del'[d].task = t
        /\ del[d].phase # "calling" \/ Settled(t) \/ t \notin Rows
    BY DEF CallGoesOn
  <2>2. t \in inflight /\ t \in minted /\ t \in TaskId /\ Fate(t) /\ t \in Rows'
    BY <2>1 DEF IInv, SlotsMatch, Known, TypeOK, Fates
  <2>3. ~Begun(t)
    BY <2>2 DEF BeginsFree
  <2>4. CASE Settled(t)
    BY <2>1, <2>4 DEF Settled, Held, Finished
  <2>5. CASE ~Settled(t)
    <3>1. t \in Rows /\ (Kept(t) \/ CalledOff(t) \/ Reset(t))
      BY <2>2, <2>3, <2>5 DEF Fate, Absent, Born, Dropped, Kept, CalledOff, Reset, Stays
    <3>2. task[t].state \notin Held
      BY <2>1, <2>5, <3>1 DEF CInv, CallsOver
    <3> QED
      BY <2>1, <3>1, <3>2 DEF Kept, CalledOff, Reset, Held
  <2> QED
    BY <2>4, <2>5
<1>4. RecordsTimedOut'
  <2> SUFFICES ASSUME NEW d \in Active', del'[d].phase = "held", del'[d].task \in Rows'
      PROVE  attempt'[del'[d].task][del'[d].attempt] = "timeout"
    BY DEF RecordsTimedOut
  <2> DEFINE t == del[d].task
  <2>1. d \in Active /\ del'[d].task = t
    BY DEF CallGoesOn
  <2>2. t \in inflight /\ t \in minted /\ t \in TaskId /\ Fate(t) /\ t \in Rows'
    BY <2>1 DEF IInv, SlotsMatch, Known, TypeOK, Fates
  <2>3. t \in Rows /\ ~Begun(t)
    BY <2>2 DEF BeginsFree, Fate, Absent, Born, Dropped, Kept, Settled, CalledOff, Reset, Stays
  <2> SUFFICES ASSUME /\ del[d].phase = "held" /\ del'[d].attempt = del[d].attempt
                      /\ attempt'[t] = attempt[t] \/ Begun(t) \/ Settled(t)
               PROVE  attempt'[t][del[d].attempt] = "timeout"
    BY <2>1 DEF CallGoesOn
  <2>4. ~Settled(t)
    BY <2>1, <2>3 DEF Settled, CInv, CallsOver
  <2> QED
    BY <2>1, <2>3, <2>4 DEF CInv, RecordsTimedOut
<1>5. ASSUME NEW d \in Active' PROVE InPush(del[d])'
  <2>1. PICK g \in {del[e] : e \in Active} \cup eng.claimed :
           del'[d].task = g.task /\ del'[d].queue = g.queue
    BY DEF CallGoesOn
  <2>2. InPush(g) /\ g.task \in minted
    BY DEF CInv, IInv, Known
  <2> QED
    BY <2>1, <2>2, InPushStep
<1>6. ASSUME NEW c \in eng'.claimed PROVE InPush(c)'
  <2>1. CASE c \in eng.claimed
    BY <2>1, InPushStep DEF CInv, IInv, Known
  <2> QED
    BY <2>1
<1> QED
  BY <1>1, <1>2, <1>3, <1>4, <1>5, <1>6 DEF CInv

-----------------------------------------------------------------------------
(* The lifecycle *)

\* A worker has no task that a call is at work on.
LEMMA CallOrWorker ==
  ASSUME IInv, CInv, NEW t \in Rows, CallOn(t)
  PROVE  task[t].state # "leased"
  BY DEF CallOn, IInv, ClaimsHold, AnswerFindsAttempt, Current, CInv, CallsOver, Held

\* Whose attempt may begin has no call on it.
LEMMA FreeToBegin ==
  ASSUME IInv, NEW t \in Rows, task[t].state = "scheduled", t \notin inflight
  PROVE  ~CallOn(t)
  BY DEF CallOn, IInv, ClaimsHold, SlotsMatch

\* A task that was never born has no call on it.
LEMMA CallOnMinted ==
  ASSUME IInv, NEW t, CallOn(t)
  PROVE  t \in minted
  BY DEF CallOn, IInv, Known

\* Where a task stands, who is at work on it, and how many attempts it had.
Stands(t) ==
    /\ Life[t] = [at |-> Life[t].at, by |-> Life[t].by, n |-> Life[t].n]
    /\ t \notin minted => t \notin Rows /\ Life[t].at = "unborn"
    /\ t \in minted /\ t \notin Rows => Life[t].at = "gone"
    /\ t \notin Rows => Life[t].n = 0
    /\ t \in Rows => Life[t].n = task[t].attempts
    /\ t \in Rows /\ task[t].state = "scheduled" => Life[t].at = "waiting"
    /\ t \in Rows /\ task[t].state \in Held => Life[t].at = "held"
    /\ t \in Rows /\ task[t].state \in Finished => Life[t].at = "ended"
    /\ CallOn(t) => Life[t].by = "call"
    /\ ~CallOn(t) /\ t \in Rows /\ task[t].state = "leased" => Life[t].by = "worker"
    /\ ~CallOn(t) /\ (t \in Rows => task[t].state # "leased") => Life[t].by = "nobody"
    /\ Life[t].n \in Nat /\ Life[t].at \in Lifecycle!At /\ Life[t].by \in Lifecycle!By

AllStand == \A t \in TaskId : Stands(t)

LEMMA LifeOf == IInv => AllStand
<1> SUFFICES ASSUME IInv, NEW t \in TaskId PROVE Stands(t)
  BY DEF AllStand
<1>1. Life[t] = [at |-> LifeAt(t), by |-> LifeBy(t), n |-> IF t \in Rows THEN task[t].attempts ELSE 0]
  BY DEF Life
<1>2. t \in Rows => /\ t \in minted /\ task[t].attempts \in Nat
                    /\ task[t].state \in {"scheduled"} \cup Held \cup Finished
  BY RowsMinted, BoundsAssumption DEF Row
<1>3. /\ t \notin minted => LifeAt(t) = "unborn"
      /\ t \in minted /\ t \notin Rows => LifeAt(t) = "gone"
      /\ t \in Rows /\ task[t].state = "scheduled" => LifeAt(t) = "waiting"
      /\ t \in Rows /\ task[t].state \in Held => LifeAt(t) = "held"
      /\ t \in Rows /\ task[t].state \in Finished => LifeAt(t) = "ended"
  BY <1>2 DEF LifeAt, Held, Finished
<1>4. LifeAt(t) \in Lifecycle!At
  BY <1>2, <1>3 DEF Lifecycle!At
<1>5. /\ CallOn(t) => LifeBy(t) = "call"
      /\ ~CallOn(t) /\ t \in Rows /\ task[t].state = "leased" => LifeBy(t) = "worker"
      /\ ~CallOn(t) /\ (t \in Rows => task[t].state # "leased") => LifeBy(t) = "nobody"
  BY DEF LifeBy
<1>6. LifeBy(t) \in Lifecycle!By
  BY DEF Lifecycle!By, LifeBy
<1> QED
  BY <1>1, <1>2, <1>3, <1>4, <1>5, <1>6 DEF Stands

\* A call stays on a task, returns, or begins.
CallMoves(t) == \/ (CallOn(t)' <=> CallOn(t)) /\ (Begun(t) => task'[t].state = "leased")
                \/ CallOn(t) /\ ~CallOn(t)' /\ (Absent(t) \/ Kept(t) \/ Settled(t))
                \/ CallOn(t)' /\ Begun(t)

\* Every step moves a task as the lifecycle allows.
LEMMA LifeMoves ==
  ASSUME IInv, IInv', CInv, CInv', Fates, BeginsFree, NEW t \in TaskId, CallMoves(t)
  PROVE  Life'[t] = Life[t] \/ Lifecycle!Step(Life[t], Life'[t])
<1> DEFINE l == Life[t]
           m == Life'[t]
<1>l. /\ l = [at |-> l.at, by |-> l.by, n |-> l.n]
      /\ t \notin minted => t \notin Rows /\ l.at = "unborn"
      /\ t \in minted /\ t \notin Rows => l.at = "gone"
      /\ t \notin Rows => l.n = 0
      /\ t \in Rows => l.n = task[t].attempts
      /\ t \in Rows /\ task[t].state = "scheduled" => l.at = "waiting"
      /\ t \in Rows /\ task[t].state \in Held => l.at = "held"
      /\ t \in Rows /\ task[t].state \in Finished => l.at = "ended"
      /\ CallOn(t) => l.by = "call"
      /\ ~CallOn(t) /\ t \in Rows /\ task[t].state = "leased" => l.by = "worker"
      /\ ~CallOn(t) /\ (t \in Rows => task[t].state # "leased") => l.by = "nobody"
  BY LifeOf DEF AllStand, Stands
<1>p. AllStand'
  BY LifeOf, PTL
<1>m. /\ m = [at |-> m.at, by |-> m.by, n |-> m.n]
      /\ t \in minted' /\ t \notin Rows' => m.at = "gone"
      /\ t \notin minted' => t \notin Rows' /\ m.at = "unborn"
      /\ t \notin Rows' => m.n = 0
      /\ t \in Rows' => m.n = task'[t].attempts
      /\ t \in Rows' /\ task'[t].state = "scheduled" => m.at = "waiting"
      /\ t \in Rows' /\ task'[t].state \in Held => m.at = "held"
      /\ t \in Rows' /\ task'[t].state \in Finished => m.at = "ended"
      /\ CallOn(t)' => m.by = "call"
      /\ ~CallOn(t)' /\ t \in Rows' /\ task'[t].state = "leased" => m.by = "worker"
      /\ ~CallOn(t)' /\ (t \in Rows' => task'[t].state # "leased") => m.by = "nobody"
  BY <1>p DEF AllStand, Stands
<1> HIDE DEF l, m
<1>1. CASE Absent(t)
  <2>1. CASE CallOn(t)' <=> CallOn(t)
    <3>1. m = l
      BY <1>l, <1>m, <1>1, <2>1 DEF Absent
    <3> QED
      BY <3>1 DEF l, m
  <2>2. CASE ~(CallOn(t)' <=> CallOn(t))
    <3>1. CallOn(t) /\ ~CallOn(t)'
      BY <1>1, <2>2 DEF CallMoves, Absent, Begun, Stays
    <3>2. Lifecycle!Return(l, m)
      BY <1>l, <1>m, <1>1, <3>1 DEF Absent, Lifecycle!Return
    <3> QED
      BY <3>2 DEF Lifecycle!Step, l, m
  <2> QED
    BY <2>1, <2>2 DEF l, m
<1>2. CASE Born(t)
  <2>1. ~CallOn(t)
    BY <1>2, CallOnMinted DEF Born
  <2>2. ~CallOn(t)'
    BY <1>2, <2>1 DEF CallMoves, Born, Begun, Stays, Held
  <2>3. Lifecycle!Born(l, m)
    BY <1>l, <1>m, <1>2, <2>1, <2>2 DEF Born, Lifecycle!Born, Lifecycle!Unborn
  <2> QED
    BY <2>3 DEF Lifecycle!Step, l, m
<1>3. CASE Dropped(t)
  <2>1. CallOn(t)' => CallOn(t)
    BY <1>3 DEF CallMoves, Dropped, Begun, Stays
  <2>2. t \in minted'
    BY <1>3, RowsMinted DEF Dropped, Fates
  <2>3. t \in Rows => task[t].state \in {"scheduled"} \cup Held \cup Finished
    BY RowsMinted DEF Row
  <2>4. l.at \in {"waiting", "held", "ended"}
    BY <1>l, <1>3, <2>3 DEF Dropped
  <2>5. m.by \in {"nobody", l.by} \ {"worker"}
    BY <1>l, <1>m, <1>3, <2>1 DEF Dropped
  <2>6. Lifecycle!Drop(l, m)
    BY <1>m, <1>3, <2>2, <2>4, <2>5 DEF Dropped, Lifecycle!Drop
  <2> QED
    BY <2>6 DEF Lifecycle!Step, l, m
<1>4. CASE Kept(t)
  <2>1. m.at = l.at /\ m.n = l.n
    <3>1. t \in Rows => task[t].state \in {"scheduled"} \cup Held \cup Finished
      BY RowsMinted DEF Row
    <3> QED
      BY <1>l, <1>m, <1>4, <3>1 DEF Kept, Stays
  <2>2. CASE CallOn(t)' <=> CallOn(t)
    <3>1. m.by = l.by
      BY <1>l, <1>m, <1>4, <2>2 DEF Kept, Stays
    <3>2. m = l
      BY <1>l, <1>m, <2>1, <3>1
    <3> QED
      BY <3>2 DEF l, m
  <2>3. CASE ~(CallOn(t)' <=> CallOn(t))
    <3>1. CallOn(t) /\ ~CallOn(t)'
      BY <1>4, <2>3 DEF CallMoves, Kept, Begun, Held
    <3>2. task[t].state # "leased" /\ task'[t].state # "leased"
      BY <1>4, <3>1, CallOrWorker DEF Kept, Stays
    <3>3. l.by = "call" /\ m.by = "nobody"
      BY <1>l, <1>m, <3>1, <3>2
    <3>4. Lifecycle!Return(l, m)
      BY <1>l, <1>m, <2>1, <3>3 DEF Lifecycle!Return
    <3> QED
      BY <3>4 DEF Lifecycle!Step, l, m
  <2> QED
    BY <2>2, <2>3
<1>5. CASE Begun(t)
  <2>1. t \in Rows /\ t \in Rows' /\ task[t].state = "scheduled" /\ task'[t].state \in Held
    BY <1>5 DEF Begun, Stays
  <2>2. ~CallOn(t)
    BY <1>5, <2>1, FreeToBegin DEF BeginsFree
  <2>3. l.by = "nobody" /\ l.at = "waiting" /\ m.at = "held"
    BY <1>l, <1>m, <2>1, <2>2
  <2>4. m.by \in {"call", "worker"}
    BY <1>m, <1>5, <2>1, <2>2 DEF CallMoves
  <2>5. m.n = l.n + 1
    BY <1>l, <1>m, <1>5, <2>1 DEF Begun
  <2>6. Lifecycle!Begin(l, m)
    BY <2>3, <2>4, <2>5 DEF Lifecycle!Begin
  <2> QED
    BY <2>6 DEF Lifecycle!Step, l, m
<1>6. CASE Settled(t)
  <2>1. /\ t \in Rows /\ t \in Rows' /\ task[t].state \in Held /\ task'[t].state # "leased"
        /\ task'[t].state \in {"scheduled"} \cup Finished
        /\ task'[t].attempts \in {task[t].attempts, task[t].attempts - 1}
    BY <1>6 DEF Settled, Stays, Finished
  <2>2. CallOn(t)' => CallOn(t)
    BY <1>6 DEF CallMoves, Settled, Begun, Held
  <2>3. m.by \in {"nobody", l.by} \ {"worker"}
    BY <1>l, <1>m, <2>1, <2>2
  <2>4. l.at = "held" /\ m.at \in {"waiting", "ended"} /\ m.n \in {l.n, l.n - 1}
    BY <1>l, <1>m, <2>1
  <2>5. Lifecycle!Settle(l, m)
    BY <2>3, <2>4 DEF Lifecycle!Settle
  <2> QED
    BY <2>5 DEF Lifecycle!Step, l, m
<1>7. CASE CalledOff(t) \/ Reset(t)
  <2>1. /\ t \in Rows /\ t \in Rows' /\ task[t].state # "leased" /\ task'[t].state # "leased"
    BY <1>7 DEF CalledOff, Reset, Stays, Finished
  <2>2. CallOn(t)' <=> CallOn(t)
    BY <1>7 DEF CallMoves, CalledOff, Reset, Absent, Kept, Settled, Begun, Stays, Held, Finished
  <2>3. m.by = l.by
    BY <1>l, <1>m, <2>1, <2>2
  <2>4. CASE CalledOff(t)
    <3>1. l.at = "waiting" /\ m.at = "ended" /\ m.n = l.n
      BY <1>l, <1>m, <2>1, <2>4 DEF CalledOff, Finished
    <3>2. Lifecycle!Cancel(l, m)
      BY <1>l, <1>m, <2>3, <3>1 DEF Lifecycle!Cancel
    <3> QED
      BY <3>2 DEF Lifecycle!Step, l, m
  <2>5. CASE Reset(t)
    <3>1. l.at = "ended" /\ m.at = "waiting" /\ m.n = 0
      BY <1>l, <1>m, <2>1, <2>5 DEF Reset
    <3>2. Lifecycle!RunAgain(l, m)
      BY <1>l, <1>m, <2>3, <3>1 DEF Lifecycle!RunAgain
    <3> QED
      BY <3>2 DEF Lifecycle!Step, l, m
  <2> QED
    BY <1>7, <2>4, <2>5
<1> QED
  BY <1>1, <1>2, <1>3, <1>4, <1>5, <1>6, <1>7 DEF Fates, Fate

\* A step that starts no call and ends none.
LEMMA QuietCalls ==
  ASSUME IInv, IInv', CInv, Fates, RecordsStay, BeginsFree, QueuesPossible',
         \A t \in TaskId : Begun(t) => task'[t].state = "leased",
         \A d \in Active' : d \in Active /\ del'[d] = del[d],
         \A d \in Active : d \in Active' \/ del[d].phase = "leaving",
         eng'.claimed = eng.claimed
  PROVE  CInv' /\ \A t \in TaskId : CallMoves(t)
<1>1. \A d \in Active' : CallGoesOn(d)
  <2> TAKE d \in Active'
  <2>1. d \in Active /\ del'[d] = del[d] /\ del[d].task \in minted
    BY DEF IInv, Known
  <2>2. del'[d].phase = "held" /\ del'[d].task \in Rows' =>
           LET t == del[d].task IN attempt'[t] = attempt[t] \/ Begun(t) \/ Settled(t)
    BY <2>1 DEF RecordsStay
  <2> QED
    BY <2>1, <2>2 DEF CallGoesOn
<1>2. \A t \in TaskId : CallOn(t)' <=> CallOn(t)
  BY DEF CallOn
<1> QED
  BY <1>1, <1>2, CallsStep DEF CallMoves

\* After a restart no call is on any task.
LEMMA RestartCalls ==
  ASSUME IInv, IInv', CInv, Fates, Restart, UNCHANGED queue,
         \A t \in TaskId : Absent(t) \/ Kept(t) \/ Settled(t)
  PROVE  CInv' /\ BeginsFree /\ \A t \in TaskId : CallMoves(t)
<1>1. Active' = {} /\ eng'.claimed = {}
  BY DEF Restart, Active, NoPass
<1>2. \A t \in TaskId : ~CallOn(t)' /\ ~Begun(t)
  BY <1>1 DEF CallOn, Absent, Kept, Settled, Begun, Stays, Held
<1>3. QueuesPossible' /\ BeginsFree
  BY <1>2 DEF CInv, QueuesPossible, Queues, BeginsFree, Possible
<1> QED
  BY <1>1, <1>2, <1>3, CallsStep DEF CallMoves

\* Queues as they are.
LEMMA SameQueues ==
  ASSUME CInv, UNCHANGED queue
  PROVE  QueuesPossible'
  BY DEF CInv, QueuesPossible, Queues, Possible

\* Where no attempt begins, none begins beside a call.
LEMMA NoneBegin ==
  ASSUME \A t \in TaskId : ~Begun(t)
  PROVE  BeginsFree /\ \A t \in TaskId : Begun(t) => task'[t].state = "leased"
  BY DEF BeginsFree

\* What a step keeps of the calls.
CallsKeep == Fates /\ CInv' /\ BeginsFree /\ \A t \in TaskId : CallMoves(t)

\* A request, or time, that begins no attempt.
LEMMA RequestCalls ==
  ASSUME IInv, IInv', CInv, Fates, RecordsStay, QueuesPossible',
         \A t \in TaskId : ~Begun(t), UNCHANGED memory
  PROVE  CallsKeep
<1>1. Active' = Active /\ del' = del /\ eng' = eng
  BY DEF memory, Active
<1> QED
  BY <1>1, NoneBegin, QuietCalls DEF CallsKeep

-----------------------------------------------------------------------------
(* Requests, workers and time *)

LEMMA AddFates ==
  ASSUME IInv, NEW t \in TaskId, NEW q \in QName, NEW own \in OwnLimits, Add(t, q, own)
  PROVE  Fates /\ RecordsStay /\ Letters /\ \A x \in TaskId : ~Begun(x)
<1>1. NewRow(q, own, NoTask) \in Row
  BY NewRowType, ValuesAssumption
<1>2. NewRow(q, own, NoTask).state = "scheduled" /\ NewRow(q, own, NoTask).attempts = 0
  BY DEF NewRow
<1>3. Fates /\ RecordsStay /\ Letters /\ \A x \in TaskId : Absent(x) \/ Kept(x) \/ Born(x)
  BY <1>1, <1>2, NewFates DEF Add
<1> QED
  BY <1>3, RowsMinted DEF Absent, Kept, Born, Begun, Stays, Held

LEMMA RunCopyFates ==
  ASSUME IInv, NEW t \in TaskId, NEW new \in TaskId, RunCopy(t, new)
  PROVE  Fates /\ RecordsStay /\ Letters /\ \A x \in TaskId : ~Begun(x)
<1> DEFINE r == [NewRow(task[t].queue, task[t].max, NoTask) EXCEPT !.due = "now"]
<1>1. NewRow(task[t].queue, task[t].max, NoTask) \in Row
  BY NewRowType, RowsMinted DEF RunCopy, Row
<1>2. r \in Row /\ r.state = "scheduled" /\ r.attempts = 0
  BY <1>1 DEF Row, NewRow
<1>3. task' = [task EXCEPT ![new] = r]
  BY DEF RunCopy
<1> HIDE DEF r
<1>4. Fates /\ RecordsStay /\ Letters /\ \A x \in TaskId : Absent(x) \/ Kept(x) \/ Born(x)
  BY <1>2, <1>3, NewFates DEF RunCopy
<1> QED
  BY <1>4, RowsMinted DEF Absent, Kept, Born, Begun, Stays, Held

LEMMA CancelFates ==
  ASSUME IInv, NEW t \in TaskId, Cancel(t)
  PROVE  Fates /\ RecordsStay /\ Letters /\ \A x \in TaskId : ~Begun(x)
<1> DEFINE r == Ended(task[t], "cancelled")
<1>1. /\ t \in Rows /\ task[t].state \in {"scheduled", "leased"}
      /\ task' = [task EXCEPT ![t] = r] /\ UNCHANGED <<attempt, ids>>
  BY DEF Cancel
<1>2. task[t] \in Row
  BY <1>1, RowsMinted
<1>3. /\ r \in Row /\ r.queue = task[t].queue /\ r.state = "cancelled"
      /\ r.attempts = task[t].attempts
  <2>1. r \in Row
    BY <1>2, RowChanges DEF Finished
  <2> QED
    BY <1>2, <2>1 DEF Ended, Row
<1> HIDE DEF r
<1>4. task'[t] = r /\ t \in Rows'
  BY <1>1, <1>3, FateOne DEF ids
<1>5. CalledOff(t) \/ Settled(t)
  BY <1>1, <1>3, <1>4 DEF CalledOff, Settled, Stays, Held, Finished
<1>6. Fates /\ RecordsStay /\ Letters /\ \A x \in TaskId \ {t} : Absent(x) \/ Kept(x)
  BY <1>1, <1>3, <1>5, OneFates
<1> QED
  BY <1>5, <1>6 DEF Absent, Kept, Begun, CalledOff, Settled, Stays, Held, Finished

LEMMA RunAgainFates ==
  ASSUME IInv, NEW t \in TaskId, RunAgain(t)
  PROVE  Fates /\ RecordsStay /\ Letters /\ \A x \in TaskId : ~Begun(x)
<1> DEFINE r == IF task[t].state = "scheduled" THEN [task[t] EXCEPT !.due = "now"]
                ELSE Requeued(task[t])
<1>1. /\ t \in Rows /\ task[t].state \in {"scheduled", "failed", "cancelled"}
      /\ task' = [task EXCEPT ![t] = r] /\ UNCHANGED <<attempt, ids>>
  BY DEF RunAgain
<1>2. task[t] \in Row
  BY <1>1, RowsMinted
<1>3. /\ r \in Row /\ r.queue = task[t].queue /\ r.state = "scheduled"
      /\ r.attempts = IF task[t].state = "scheduled" THEN task[t].attempts ELSE 0
  <2>1. Requeued(task[t]) \in Row
    BY <1>2, RowChanges
  <2> QED
    BY <1>2, <2>1 DEF Requeued, Row
<1> HIDE DEF r
<1>4. task'[t] = r /\ t \in Rows'
  BY <1>1, <1>3, FateOne DEF ids
<1>5. Kept(t) \/ Reset(t)
  BY <1>1, <1>3, <1>4 DEF Kept, Reset, Stays, Finished
<1>6. Fates /\ RecordsStay /\ Letters /\ \A x \in TaskId \ {t} : Absent(x) \/ Kept(x)
  BY <1>1, <1>3, <1>5, OneFates
<1> QED
  BY <1>5, <1>6 DEF Absent, Kept, Begun, Reset, Stays, Held, Finished

LEMMA TimeFates ==
  ASSUME IInv, NEW t \in TaskId, Time(t)
  PROVE  Fates /\ RecordsStay /\ Letters /\ \A x \in TaskId : ~Begun(x)
<1>1. t \in Rows /\ task[t] \in Row /\ UNCHANGED <<attempt, ids>>
  BY RowsMinted DEF Time, BecomesDue, LeaseAges, KeepExpires
<1>2. PICK r \in Row : /\ task' = [task EXCEPT ![t] = r]
                       /\ r.queue = task[t].queue /\ r.state = task[t].state
                       /\ r.attempts = task[t].attempts
  <2>1. CASE BecomesDue(t)
    <3> DEFINE r == [task[t] EXCEPT !.due = "now"]
    <3>1. task' = [task EXCEPT ![t] = r]
      BY <2>1 DEF BecomesDue
    <3>2. /\ r \in Row /\ r.queue = task[t].queue /\ r.state = task[t].state
          /\ r.attempts = task[t].attempts
      BY <1>1 DEF Row
    <3> HIDE DEF r
    <3> QED
      BY <3>1, <3>2
  <2>2. CASE LeaseAges(t)
    <3> DEFINE age == IF task[t].lease = "live" THEN "edge" ELSE "over"
               r == [task[t] EXCEPT !.lease = age]
    <3>1. task' = [task EXCEPT ![t] = r] /\ age \in {"edge", "over"}
      BY <2>2 DEF LeaseAges
    <3> HIDE DEF age
    <3>2. /\ r \in Row /\ r.queue = task[t].queue /\ r.state = task[t].state
          /\ r.attempts = task[t].attempts
      BY <1>1, <3>1 DEF Row
    <3> HIDE DEF r
    <3> QED
      BY <3>1, <3>2
  <2>3. CASE KeepExpires(t)
    <3> DEFINE r == [task[t] EXCEPT !.keep = "expired"]
    <3>1. task' = [task EXCEPT ![t] = r]
      BY <2>3 DEF KeepExpires
    <3>2. /\ r \in Row /\ r.queue = task[t].queue /\ r.state = task[t].state
          /\ r.attempts = task[t].attempts
      BY <1>1 DEF Row
    <3> HIDE DEF r
    <3> QED
      BY <3>1, <3>2
  <2> QED
    BY <2>1, <2>2, <2>3 DEF Time
<1>3. task'[t] = r /\ t \in Rows'
  BY <1>1, <1>2, FateOne DEF ids
<1>4. Kept(t)
  BY <1>1, <1>2, <1>3 DEF Kept, Stays
<1>5. r.state # "failed" \/ task[t].state \notin Held
  BY <1>2 DEF Held
<1>6. Fates /\ RecordsStay /\ Letters /\ \A x \in TaskId \ {t} : Absent(x) \/ Kept(x)
  BY <1>1, <1>2, <1>4, <1>5, OneFates
<1> QED
  BY <1>4, <1>6 DEF Absent, Kept, Begun, Stays, Held

LEMMA AckFates ==
  ASSUME IInv, NEW t, NEW l, Ack(t, l)
  PROVE  Fates /\ RecordsStay /\ Letters /\ \A x \in TaskId : ~Begun(x)
<1> DEFINE r == Ended(task[t], "done")
<1>1. /\ t \in Rows /\ t \in TaskId /\ task[t].state = "leased" /\ task[t] \in Row
      /\ task' = [task EXCEPT ![t] = r] /\ UNCHANGED ids
      /\ attempt' = [attempt EXCEPT ![t][task[t].attempts] = "closed"]
  BY RowsMinted DEF Ack, HeldBy
<1>2. /\ r \in Row /\ r.queue = task[t].queue /\ r.state = "done" /\ r.attempts = task[t].attempts
  <2>1. r \in Row
    BY <1>1, RowChanges DEF Finished
  <2> QED
    BY <1>1, <2>1 DEF Ended, Row
<1> HIDE DEF r
<1>3. /\ task'[t] = r /\ t \in Rows'
      /\ \A x \in TaskId \ {t} : task'[x] = task[x] /\ (Absent(x) \/ Kept(x))
  BY <1>1, <1>2, FateOne DEF ids
<1>4. Settled(t)
  BY <1>1, <1>2, <1>3 DEF Settled, Stays, Held, Finished
<1>5. \A x \in TaskId \ {t} : attempt'[x] = attempt[x]
  BY <1>1 DEF IInv, TypeOK
<1>6. RecordsOfRows => RecordsOfRows'
  BY <1>3, <1>5 DEF RecordsOfRows, Rows
<1>7. Letters
  BY <1>2, <1>3, RowsMinted DEF Letters, Lettered, Settled, Kept, Absent, Held, Finished
<1>8. \A x \in TaskId : ~Begun(x)
  BY <1>3, <1>4 DEF Absent, Kept, Settled, Begun, Stays, Held
<1>9. RecordsStay
  BY <1>4, <1>5 DEF RecordsStay, Rows
<1> QED
  BY <1>1, <1>3, <1>4, <1>6, <1>7, <1>8, <1>9 DEF Fates, Fate, ids

LEMMA ExtendFates ==
  ASSUME IInv, NEW t, NEW l, Extend(t, l)
  PROVE  Fates /\ RecordsStay /\ Letters /\ \A x \in TaskId : ~Begun(x)
<1> DEFINE r == [task[t] EXCEPT !.lease = "live"]
<1>1. /\ t \in Rows /\ task[t] \in Row /\ task[t].state = "leased"
      /\ task' = [task EXCEPT ![t] = r] /\ UNCHANGED <<attempt, ids>>
  BY RowsMinted DEF Extend, HeldBy
<1>2. /\ r \in Row /\ r.queue = task[t].queue /\ r.state = task[t].state
      /\ r.attempts = task[t].attempts
  BY <1>1 DEF Row
<1> HIDE DEF r
<1>3. task'[t] = r /\ t \in Rows'
  BY <1>1, <1>2, FateOne DEF ids
<1>4. Kept(t)
  BY <1>1, <1>2, <1>3 DEF Kept, Stays
<1>5. Fates /\ RecordsStay /\ Letters /\ \A x \in TaskId \ {t} : Absent(x) \/ Kept(x)
  BY <1>1, <1>2, <1>4, OneFates
<1> QED
  BY <1>4, <1>5 DEF Absent, Kept, Begun, Stays, Held

\* No attempt begins where rows are only settled and dropped.
LEMMA SettleBeginsNone ==
  ASSUME NEW T, \A t \in T : Settled(t),
         \A t \in TaskId \ T : Absent(t) \/ Kept(t) \/ Born(t) \/ Dropped(t)
  PROVE  \A t \in TaskId : ~Begun(t)
  BY DEF Settled, Absent, Kept, Born, Dropped, Begun, Stays, Held

LEMMA ReleaseFates ==
  ASSUME IInv, NEW t, NEW l, NEW aged, NEW copy \in Copies({t}), Release(t, l, aged, copy)
  PROVE  Fates /\ RecordsStay /\ Letters /\ \A x \in TaskId : ~Begun(x)
<1> DEFINE T == {t}
           out == [x \in {t} |-> Plain("released")]
<1>1. /\ T \in SUBSET Rows /\ (\A x \in T : task[x].state \in Held) /\ T \cap {} = {}
      /\ copy \in Copies(T) /\ {} \in SUBSET Rows
  BY DEF Release, HeldBy, Held
<1>2. out \in [T -> Outcome]
  BY BoundsAssumption DEF Plain, Outcome
<1>3. Settle(T, out, aged, copy, {})
  BY DEF Release
<1> HIDE DEF T, out
<1>4. /\ Fates /\ RecordsStay /\ Letters
      /\ \A x \in T : Settled(x)
      /\ \A x \in TaskId \ T : Absent(x) \/ Kept(x) \/ Born(x) \/ Dropped(x)
  BY <1>1, <1>2, <1>3, SettleFates
<1> QED
  BY <1>4, SettleBeginsNone

LEMMA LeaseFates ==
  ASSUME IInv, NEW q \in QName, NEW T \in SUBSET DueIn(q), Lease(q, T)
  PROVE  /\ Fates /\ RecordsStay /\ Letters
         /\ \A t \in TaskId : Begun(t) => t \in T /\ task'[t].state = "leased"
<1>1. T \in SUBSET Rows /\ (\A t \in T : task[t].state = "scheduled") /\ "leased" \in Held
  BY DEF DueIn, RowsOf, Held
<1>2. Take(T, "leased", leases + 1) /\ UNCHANGED minted
  BY DEF Lease
<1>3. /\ Fates /\ RecordsStay /\ Letters
      /\ \A t \in T : Begun(t) /\ task'[t].state = "leased"
      /\ \A t \in TaskId \ T : Absent(t) \/ Kept(t)
  BY <1>1, <1>2, TakeFates
<1> QED
  BY <1>3 DEF Absent, Kept, Begun, Stays, Held

LEMMA QueueFates ==
  ASSUME IInv, NEW q \in QName,
         (\E s \in Settings[q] : PutQueue(q, s)) \/ DeleteQueue(q) \/ PurgeQueue(q)
  PROVE  Fates /\ RecordsStay /\ Letters /\ \A x \in TaskId : ~Begun(x)
<1>1. CASE DeleteQueue(q) \/ PurgeQueue(q)
  <2>1. RowsOf(q) \in SUBSET Rows /\ DropRows(RowsOf(q)) /\ UNCHANGED minted
    BY <1>1 DEF DeleteQueue, PurgeQueue, RowsOf, ids
  <2>2. /\ Fates /\ RecordsStay /\ Letters
        /\ \A t \in TaskId : Absent(t) \/ Kept(t) \/ Dropped(t)
    BY <2>1, DropFates
  <2> QED
    BY <2>2 DEF Absent, Kept, Dropped, Begun, Stays, Held
<1>2. CASE \E s \in Settings[q] : PutQueue(q, s)
  <2>1. UNCHANGED <<task, attempt, ids>>
    BY <1>2 DEF PutQueue
  <2>2. Fates /\ RecordsStay /\ Letters /\ \A t \in TaskId : Absent(t) \/ Kept(t)
    BY <2>1, QuietFates
  <2> QED
    BY <2>2 DEF Absent, Kept, Begun, Stays, Held
<1> QED
  BY <1>1, <1>2

-----------------------------------------------------------------------------
(* The engine and its goroutines *)

LEMMA HousekeepFates ==
  ASSUME IInv, NEW aged, NEW copy \in Copies(Lost), Housekeep(aged, copy)
  PROVE  /\ Fates /\ RecordsStay /\ Letters /\ \A x \in TaskId : ~Begun(x)
         /\ \A t \in Rows : t \notin Rows' => task[t].state \in Finished
<1> DEFINE T == Lost
           out == [t \in Lost |-> Plain("lost")]
<1>1. /\ T \in SUBSET Rows /\ (\A x \in T : task[x].state \in Held)
      /\ T \cap Expired = {} /\ Expired \in SUBSET Rows
  BY DEF Lost, Expired, IInv, KeepsFinished, Held, Finished
<1>2. out \in [T -> Outcome]
  BY BoundsAssumption DEF Plain, Outcome
<1>3. Settle(T, out, aged, copy, Expired)
  BY DEF Housekeep
<1>4. \A t \in Expired : task[t].state \in Finished
  BY DEF Expired, IInv, KeepsFinished
<1> HIDE DEF out
<1>5. /\ Fates /\ RecordsStay /\ Letters
      /\ \A x \in T : Settled(x)
      /\ \A x \in TaskId \ T : Absent(x) \/ Kept(x) \/ Born(x) \/ Dropped(x)
  BY <1>1, <1>2, <1>3, SettleFates
<1>6. /\ \A x \in T : Settled(x)
      /\ \A x \in TaskId \ (T \cup Image(copy) \cup Expired) : Absent(x) \/ Kept(x)
      /\ \A x \in DOMAIN copy : copy[x] \in TaskId \ minted
  BY <1>1, <1>2, <1>3, FateSettle
<1>7. \A t \in Rows : t \notin Rows' => t \in Expired
  BY <1>6, RowsMinted DEF Settled, Kept, Absent, Stays, Image
<1> HIDE DEF T
<1>8. \A x \in TaskId : ~Begun(x)
  BY <1>5, SettleBeginsNone
<1> QED
  BY <1>4, <1>5, <1>7, <1>8

LEMMA ClaimFates ==
  ASSUME IInv, NEW T \in SUBSET Rows, Claim(T)
  PROVE  /\ Fates /\ RecordsStay /\ Letters
         /\ \A t \in TaskId : Begun(t) <=> t \in T
         /\ \A t \in T : task'[t].state = "running" /\ task'[t].attempts = task[t].attempts + 1
         /\ \A t \in T : t \notin eng.busy /\ SettingsOf(t).mode = "push"
<1>1. (\A t \in T : task[t].state = "scheduled" /\ t \notin eng.busy) /\ "running" \in Held
  BY DEF Claim, Claimable, DueIn, RowsOf, Held
<1>2. Take(T, "running", 0) /\ UNCHANGED minted
  BY DEF Claim, ids
<1>3. /\ Fates /\ RecordsStay /\ Letters
      /\ \A t \in T : Begun(t) /\ task'[t].state = "running"
      /\ \A t \in TaskId \ T : Absent(t) \/ Kept(t)
  BY <1>1, <1>2, TakeFates
<1>4. \A t \in T : SettingsOf(t).mode = "push"
  BY DEF Claim
<1> QED
  BY <1>1, <1>3, <1>4 DEF Absent, Kept, Begun, Stays, Held

LEMMA DeliverFates ==
  ASSUME IInv, NEW d \in Active, NEW o \in Outcomes, NEW aged,
         NEW copy \in Copies({del[d].task}), Deliver(d, o, aged, copy)
  PROVE  /\ Fates /\ RecordsStay /\ Letters /\ \A x \in TaskId : ~Begun(x)
         /\ LET t == del[d].task
            IN  \/ t \notin Rows /\ UNCHANGED <<task, attempt, minted>> 
                \/ t \in Rows /\ Settled(t) /\ attempt'[t] = Close(t, o)
<1> DEFINE t == del[d].task
           T == {t}
           out == [x \in {t} |-> o]
<1>1. CASE Current(d)
  <2>1. /\ t \in Rows /\ T \in SUBSET Rows /\ (\A x \in T : task[x].state \in Held)
        /\ T \cap {} = {} /\ copy \in Copies(T) /\ {} \in SUBSET Rows /\ t \in T
    BY <1>1 DEF Current, Held
  <2>2. out \in [T -> Outcome] /\ out[t] = o
    BY ValuesAssumption, BoundsAssumption DEF Outcomes, Plain, Outcome
  <2>3. Settle(T, out, aged, copy, {})
    BY <1>1 DEF Deliver
  <2> HIDE DEF T, out, t
  <2>4. /\ Fates /\ RecordsStay /\ Letters
        /\ \A x \in T : Settled(x) /\ attempt'[x] = Close(x, out[x])
        /\ \A x \in TaskId \ T : Absent(x) \/ Kept(x) \/ Born(x) \/ Dropped(x)
    BY <2>1, <2>2, <2>3, SettleFates
  <2>5. \A x \in TaskId : ~Begun(x)
    BY <2>4, SettleBeginsNone
  <2> QED
    BY <2>1, <2>2, <2>4, <2>5 DEF t
<1>2. CASE ~Current(d)
  <2>1. t \notin Rows
    BY <1>2 DEF Deliver, IInv, AnswerFindsAttempt
  <2>2. UNCHANGED <<task, attempt, ids>>
    BY <1>2 DEF Deliver, ids
  <2>3. Fates /\ RecordsStay /\ Letters /\ \A x \in TaskId : Absent(x) \/ Kept(x)
    BY <2>2, QuietFates
  <2> QED
    BY <2>1, <2>2, <2>3 DEF Absent, Kept, Begun, Stays, Held, ids
<1> QED
  BY <1>1, <1>2

LEMMA NoteLateFates ==
  ASSUME IInv, NEW d \in Active, NoteLate(d)
  PROVE  /\ Fates /\ Letters /\ \A t \in TaskId : Absent(t) \/ Kept(t)
         /\ \A t \in TaskId \ {del[d].task} : attempt'[t] = attempt[t]
<1> DEFINE t == del[d].task
           n == del[d].attempt
<1>1. UNCHANGED <<task, minted>> /\ t \in TaskId /\ n \in 1..AttemptCap
  BY Typed DEF NoteLate, ids, IInv, Goroutine
<1>2. attempt' = [attempt EXCEPT ![t][n] = IF attempt[t][n] = "none" THEN "none" ELSE "noted"]
  BY DEF NoteLate
<1> HIDE DEF t, n
<1>3. \A x \in TaskId \ {t} : attempt'[x] = attempt[x]
  BY <1>2 DEF IInv, TypeOK
<1>4. RecordsOfRows => RecordsOfRows'
  <2> SUFFICES ASSUME RecordsOfRows, NEW x \in TaskId \ Rows PROVE attempt'[x] = NoRecords
    BY <1>1 DEF RecordsOfRows, Rows
  <2>1. attempt[x] = NoRecords
    BY DEF RecordsOfRows
  <2>2. CASE x = t
    <3>1. attempt[t][n] = "none"
      BY <1>1, <2>1, <2>2 DEF NoRecords
    <3>2. attempt'[t] = [attempt[t] EXCEPT ![n] = "none"]
      BY <1>1, <1>2, <3>1 DEF IInv, TypeOK
    <3>3. attempt'[t] = attempt[t]
      BY <1>1, <3>1, <3>2 DEF IInv, TypeOK
    <3> QED
      BY <2>1, <2>2, <3>3
  <2> QED
    BY <1>3, <2>1, <2>2
<1>5. \A x \in TaskId : Absent(x) \/ Kept(x)
  BY <1>1, FateSame
<1>6. Letters
  BY <1>1 DEF Letters, Lettered, Settled, Held, Finished
<1> QED
  BY <1>1, <1>3, <1>4, <1>5, <1>6 DEF Fates, Fate, t

LEMMA CrashInSettleFates ==
  ASSUME IInv, NEW d \in Delivery, NEW o \in Outcomes, NEW old \in Old, CrashInSettle(d, o, old)
  PROVE  /\ Fates /\ \A t \in TaskId : Absent(t) \/ Kept(t) \/ Settled(t)
         /\ \A t \in TaskId : Settled(t) => task'[t].state = "failed"
<1> DEFINE t == del[d].task
<1>1. /\ t \in Rows /\ t \in TaskId /\ task[t].state \in Held /\ task[t] \in Row /\ UNCHANGED ids
      /\ attempt' = [attempt EXCEPT ![t] = Close(t, o)]
      /\ \/ task' = [task EXCEPT ![t].max = OwnLimit(t, o)]
         \/ Verdict(t, o, old) = "failed" /\ task' = [task EXCEPT ![t] = SettledRow(t, o, old)]
  BY RowsMinted DEF CrashInSettle, Current, Held
<1> HIDE DEF t
<1>2. o \in Outcome /\ old \in BOOLEAN
  BY ValuesAssumption, BoundsAssumption DEF Outcomes, Plain, Outcome
<1>3. PICK r \in Row : /\ task' = [task EXCEPT ![t] = r] /\ r.queue = task[t].queue
                       /\ \/ r.state = task[t].state /\ r.attempts = task[t].attempts
                          \/ r.state = "failed" /\ r.attempts = task[t].attempts
  <2>1. CASE task' = [task EXCEPT ![t].max = OwnLimit(t, o)]
    <3> DEFINE r == [task[t] EXCEPT !.max = OwnLimit(t, o)]
    <3>1. OwnLimit(t, o) \in 0..AttemptCap
      BY <1>1, <1>2, LimitType
    <3>2. /\ r \in Row /\ r.queue = task[t].queue /\ r.state = task[t].state
          /\ r.attempts = task[t].attempts /\ task' = [task EXCEPT ![t] = r]
      BY <1>1, <2>1, <3>1 DEF Row
    <3> HIDE DEF r
    <3> QED
      BY <3>2
  <2>2. CASE Verdict(t, o, old) = "failed" /\ task' = [task EXCEPT ![t] = SettledRow(t, o, old)]
    <3> DEFINE r == SettledRow(t, o, old)
    <3>1. /\ r \in Row /\ r.queue = task[t].queue /\ r.state = "failed"
          /\ r.attempts = task[t].attempts
      BY <1>1, <1>2, <2>2, SettledRowFate
    <3> HIDE DEF r
    <3> QED
      BY <2>2, <3>1 DEF r
  <2> QED
    BY <1>1, <2>1, <2>2
<1>4. /\ task'[t] = r /\ t \in Rows'
      /\ \A x \in TaskId \ {t} : task'[x] = task[x] /\ (Absent(x) \/ Kept(x))
  BY <1>1, <1>3, FateOne DEF ids
<1>5. Kept(t) \/ Settled(t)
  BY <1>1, <1>3, <1>4 DEF Kept, Settled, Stays, Finished
<1>6. RecordsOfRows => RecordsOfRows'
  <2>1. \A x \in TaskId \ {t} : attempt'[x] = attempt[x]
    BY <1>1 DEF IInv, TypeOK
  <2> QED
    BY <1>4, <2>1 DEF RecordsOfRows, Rows
<1>7. \A x \in TaskId : Settled(x) => task'[x].state = "failed"
  BY <1>1, <1>3, <1>4 DEF Absent, Kept, Settled, Stays, Held, Finished
<1> QED
  BY <1>1, <1>4, <1>5, <1>6, <1>7 DEF Fates, Fate, ids

-----------------------------------------------------------------------------
(* What each action keeps of the calls *)

LEMMA AdministerCalls ==
  ASSUME IInv, IInv', CInv, Administer
  PROVE  CallsKeep
<1>1. PICK q \in QName : (\E s \in Settings[q] : PutQueue(q, s)) \/ DeleteQueue(q) \/ PurgeQueue(q)
  BY DEF Administer
<1>2. Fates /\ RecordsStay /\ \A x \in TaskId : ~Begun(x)
  BY <1>1, QueueFates
<1>3. UNCHANGED memory
  BY <1>1 DEF PutQueue, DeleteQueue, PurgeQueue
<1>4. QueuesPossible'
  <2>1. CASE PurgeQueue(q)
    BY <2>1, SameQueues DEF PurgeQueue
  <2>2. CASE DeleteQueue(q)
    BY <2>2 DEF DeleteQueue, CInv, QueuesPossible, Queues, IInv, TypeOK, Possible
  <2>3. ASSUME NEW s \in Settings[q], PutQueue(q, s) PROVE QueuesPossible'
    BY <2>3 DEF PutQueue, CInv, QueuesPossible, Queues, IInv, TypeOK, Possible
  <2> QED
    BY <1>1, <2>1, <2>2, <2>3
<1> QED
  BY <1>2, <1>3, <1>4, RequestCalls

LEMMA RequestsCalls ==
  ASSUME IInv, IInv', CInv, NEW t \in TaskId, Request(t) \/ Time(t)
  PROVE  CallsKeep
<1>1. Fates /\ RecordsStay /\ \A x \in TaskId : ~Begun(x)
  BY AddFates, CancelFates, RunAgainFates, RunCopyFates, TimeFates DEF Request
<1>2. UNCHANGED <<queue, memory>>
  BY DEF Request, Add, Cancel, RunAgain, RunCopy, Time, BecomesDue, LeaseAges, KeepExpires
<1> QED
  BY <1>1, <1>2, SameQueues, RequestCalls

LEMMA WorkerCalls ==
  ASSUME IInv, IInv', CInv, NEW t, NEW l,
         \/ Ack(t, l) \/ Extend(t, l)
         \/ \E aged \in Ages({t}), copy \in Copies({t}) : Release(t, l, aged, copy)
  PROVE  CallsKeep
<1>1. Fates /\ RecordsStay /\ \A x \in TaskId : ~Begun(x)
  BY AckFates, ExtendFates, ReleaseFates
<1>2. UNCHANGED <<queue, memory>>
  BY DEF Ack, Extend, Release
<1> QED
  BY <1>1, <1>2, SameQueues, RequestCalls

\* The mode a queue has is the only one it may have.
LEMMA ModeOf ==
  ASSUME ModesFixed, IInv, CInv, NEW q \in Queues
  PROVE  OnlyMode(q, queue[q].mode)
  BY DEF CInv, QueuesPossible, ModesFixed, OnlyMode, Queues

LEMMA LeaseCalls ==
  ASSUME ModesFixed, IInv, IInv', CInv, NEW q \in QName, NEW T \in SUBSET DueIn(q), Lease(q, T)
  PROVE  CallsKeep
<1>1. /\ Fates /\ RecordsStay
      /\ \A t \in TaskId : Begun(t) => t \in T /\ task'[t].state = "leased"
  BY LeaseFates
<1>2. UNCHANGED <<queue, memory>> /\ q \in Queues /\ queue[q].mode = "pull"
  BY DEF Lease
<1>3. OnlyMode(q, "pull") /\ queue[q] \in Possible(q)
  BY <1>2, ModeOf DEF CInv, QueuesPossible
<1>4. \A t \in T : t \in Rows /\ task[t].queue = q
  BY DEF DueIn, RowsOf
<1>5. \A t \in T : t \notin inflight
  <2> SUFFICES ASSUME NEW d \in Active, del[d].task \in T PROVE FALSE
    BY DEF IInv, SlotsMatch
  <2>1. OnlyMode(q, "push")
    BY <1>4 DEF CInv, InPush
  <2> QED
    BY <1>3, <2>1 DEF OnlyMode
<1>6. BeginsFree
  BY <1>1, <1>3, <1>4, <1>5 DEF BeginsFree
<1>7. Active' = Active /\ del' = del /\ eng' = eng
  BY <1>2 DEF memory, Active
<1> QED
  BY <1>1, <1>2, <1>6, <1>7, SameQueues, QuietCalls DEF CallsKeep

LEMMA PassCalls ==
  ASSUME IInv, IInv', CInv, TickBegin \/ TickEnd \/ Sweep
  PROVE  CallsKeep
<1>1. UNCHANGED <<queue, inflight, running, del, crashes>> /\ eng'.claimed = eng.claimed
  <2>1. CASE TickBegin
    BY <2>1 DEF TickBegin, NoPass, IInv, ClaimsHold
  <2>2. CASE TickEnd
    BY <2>2 DEF TickEnd, NoPass
  <2>3. CASE Sweep
    BY <2>3 DEF Sweep, Housekeep, IInv, TypeOK, Pass
  <2> QED
    BY <2>1, <2>2, <2>3
<1>2. Fates /\ RecordsStay /\ \A x \in TaskId : ~Begun(x)
  <2>1. CASE TickBegin \/ TickEnd
    <3>1. UNCHANGED <<task, attempt, ids>>
      BY <2>1 DEF TickBegin, TickEnd
    <3>2. Fates /\ RecordsStay /\ \A x \in TaskId : Absent(x) \/ Kept(x)
      BY <3>1, QuietFates
    <3> QED
      BY <3>2 DEF Absent, Kept, Begun, Stays, Held
  <2>2. CASE Sweep
    BY <2>2, HousekeepFates DEF Sweep
  <2> QED
    BY <2>1, <2>2
<1>3. Active' = Active
  BY <1>1 DEF Active
<1> QED
  BY <1>1, <1>2, <1>3, SameQueues, NoneBegin, QuietCalls DEF CallsKeep

LEMMA ClaimCalls ==
  ASSUME ModesFixed, IInv, IInv', CInv, NEW T \in SUBSET Rows, Claim(T)
  PROVE  CallsKeep
<1> DEFINE C == {[task |-> t, attempt |-> task[t].attempts + 1, queue |-> task[t].queue] : t \in T}
<1>1. /\ eng.pc = "claim" /\ eng' = [eng EXCEPT !.pc = "start", !.claimed = C]
      /\ UNCHANGED <<queue, del>> /\ Active' = Active
  BY DEF Claim, Active
<1>2. /\ Fates /\ RecordsStay
      /\ \A t \in TaskId : Begun(t) <=> t \in T
      /\ \A t \in T : task'[t].state = "running" /\ task'[t].attempts = task[t].attempts + 1
      /\ \A t \in T : t \notin eng.busy /\ SettingsOf(t).mode = "push"
  BY ClaimFates
<1>3. inflight \subseteq eng.busy /\ eng.claimed = {}
  BY <1>1 DEF IInv, SnapshotCovers, ClaimsHold
<1>4. BeginsFree
  BY <1>2, <1>3 DEF BeginsFree
<1>5. eng'.claimed = C
  BY <1>1 DEF IInv, TypeOK, Pass
<1>6. \A d \in Active' : CallGoesOn(d)
  <2> TAKE d \in Active'
  <2>1. d \in Active /\ del'[d] = del[d] /\ del[d].task \in minted
    BY <1>1 DEF IInv, Known
  <2>2. del'[d].phase = "held" /\ del'[d].task \in Rows' =>
           LET t == del[d].task IN attempt'[t] = attempt[t] \/ Begun(t) \/ Settled(t)
    BY <1>2, <2>1 DEF RecordsStay
  <2> QED
    BY <2>1, <2>2 DEF CallGoesOn
<1>7. \A c \in C : InPush(c)'
  <2> SUFFICES ASSUME NEW t \in T,
                      NEW c, c = [task |-> t, attempt |-> task[t].attempts + 1, queue |-> task[t].queue]
               PROVE  InPush(c)'
    OBVIOUS
  <2>1. c.task = t /\ c.queue = task[t].queue /\ task[t].queue \in Queues
    BY RowsGood DEF GoodRow
  <2>2. OnlyMode(task[t].queue, "push")
    BY <1>2, <2>1, ModeOf DEF SettingsOf
  <2>3. task'[t].queue = task[t].queue
    BY <1>2, RowsMinted DEF Begun, Stays
  <2> QED
    BY <2>1, <2>2, <2>3 DEF InPush, OnlyMode, Possible
<1>8. CInv'
  BY <1>1, <1>2, <1>4, <1>5, <1>6, <1>7, SameQueues, CallsStep
<1>9. ASSUME NEW t \in TaskId PROVE CallMoves(t)
  <2>1. t \in T => CallOn(t)'
    <3> SUFFICES ASSUME t \in T PROVE CallOn(t)'
      OBVIOUS
    <3> DEFINE c == [task |-> t, attempt |-> task[t].attempts + 1, queue |-> task[t].queue]
    <3>1. c \in eng'.claimed /\ c.task = t
      BY <1>5
    <3> QED
      BY <3>1 DEF CallOn
  <2>2. t \notin T => (CallOn(t)' <=> CallOn(t))
    <3>1. t \notin T => \A c \in C : c.task # t
      OBVIOUS
    <3> QED
      BY <1>1, <1>3, <1>5, <3>1 DEF CallOn
  <2> QED
    BY <1>2, <2>1, <2>2 DEF CallMoves
<1> QED
  BY <1>2, <1>4, <1>8, <1>9 DEF CallsKeep

LEMMA StartCalls ==
  ASSUME IInv, IInv', CInv, NEW c \in eng.claimed, NEW d \in Delivery, Start(c, d)
  PROVE  CallsKeep
<1> DEFINE g == [phase |-> "calling", task |-> c.task, attempt |-> c.attempt, queue |-> c.queue]
<1>1. /\ del[d] = Idle /\ del' = [del EXCEPT ![d] = g]
      /\ eng' = [eng EXCEPT !.claimed = @ \ {c}]
      /\ UNCHANGED <<queue, task, attempt, ids>>
  BY DEF Start
<1>2. g # Idle /\ g.phase = "calling" /\ g.task = c.task /\ g.queue = c.queue
  <2>1. g.phase = "calling" /\ Idle.phase = "idle"
    BY DEF Idle
  <2> QED
    BY <2>1
<1> HIDE DEF g
<1>3. /\ Active' = Active \cup {d} /\ d \notin Active /\ del'[d] = g
      /\ \A x \in Active : del'[x] = del[x]
  BY <1>1, <1>2 DEF Active, IInv, TypeOK
<1>4. eng'.claimed = eng.claimed \ {c}
  BY <1>1 DEF IInv, TypeOK, Pass
<1>5. Fates /\ RecordsStay /\ \A x \in TaskId : Absent(x) \/ Kept(x)
  BY <1>1, QuietFates
<1>6. \A x \in TaskId : ~Begun(x)
  BY <1>5 DEF Absent, Kept, Begun, Stays, Held
<1>7. \A x \in Active' : CallGoesOn(x)
  BY <1>1, <1>2, <1>3 DEF CallGoesOn
<1>8. \A x \in TaskId : CallOn(x)' <=> CallOn(x)
  <2> TAKE x \in TaskId
  <2>1. (\E e \in eng.claimed : e.task = x)
           <=> (\E e \in eng'.claimed : e.task = x) \/ x = c.task
    BY <1>4
  <2>2. (\E e \in Active' : del'[e].task = x /\ del'[e].phase \in {"calling", "held"})
           <=> (\E e \in Active : del[e].task = x /\ del[e].phase \in {"calling", "held"}) \/ x = c.task
    BY <1>2, <1>3
  <2> QED
    BY <2>1, <2>2 DEF CallOn
<1>9. CInv'
  BY <1>1, <1>4, <1>5, <1>6, <1>7, SameQueues, NoneBegin, CallsStep
<1> QED
  BY <1>5, <1>6, <1>8, <1>9, NoneBegin DEF CallsKeep, CallMoves

\* A goroutine goes on to its next phase.
LEMMA PhaseCalls ==
  ASSUME IInv, NEW d \in Active, NEW phase \in {"held", "leaving"},
         del' = [del EXCEPT ![d].phase = phase], UNCHANGED eng
  PROVE  /\ Active' = Active
         /\ \A x \in Active : /\ del'[x].task = del[x].task /\ del'[x].queue = del[x].queue
                              /\ del'[x].attempt = del[x].attempt
         /\ \A x \in Active \ {d} : del'[x] = del[x]
         /\ del'[d].phase = phase
         /\ \A t \in TaskId \ {del[d].task} : CallOn(t)' <=> CallOn(t)
         /\ phase = "leaving" => ~CallOn(del[d].task)'
         /\ phase = "held" => CallOn(del[d].task)'
<1>1. d \in Delivery /\ del[d] \in Goroutine
  BY Typed DEF IInv
<1> DEFINE g == [del[d] EXCEPT !.phase = phase]
<1>2. /\ g.phase = phase /\ g.task = del[d].task /\ g.queue = del[d].queue
      /\ g.attempt = del[d].attempt /\ g # Idle
  <2>1. /\ g \in Goroutine /\ g.phase = phase /\ g.task = del[d].task /\ g.queue = del[d].queue
        /\ g.attempt = del[d].attempt
    BY <1>1 DEF Goroutine
  <2> QED
    BY <2>1, Distinct
<1>3. del' = [del EXCEPT ![d] = g]
  BY <1>1
<1> HIDE DEF g
<1>4. del'[d] = g /\ Active' = Active /\ \A x \in Active \ {d} : del'[x] = del[x]
  BY <1>1, <1>2, <1>3 DEF Active, IInv, TypeOK
<1>5. \A x \in Active \ {d} : del[x].task # del[d].task
  BY DEF IInv, SlotsMatch
<1>6. \A t \in TaskId \ {del[d].task} : CallOn(t)' <=> CallOn(t)
  BY <1>2, <1>4 DEF CallOn
<1>7. phase = "leaving" => ~CallOn(del[d].task)'
  <2>1. \A c \in eng.claimed : c.task # del[d].task
    BY DEF IInv, ClaimsHold, SlotsMatch
  <2> QED
    BY <1>2, <1>4, <1>5, <2>1 DEF CallOn
<1>8. phase = "held" => CallOn(del[d].task)'
  BY <1>2, <1>4 DEF CallOn
<1> QED
  BY <1>2, <1>4, <1>6, <1>7, <1>8

LEMMA DeliverCalls ==
  ASSUME IInv, IInv', CInv, NEW d \in Active, NEW o \in Outcomes, NEW aged,
         NEW copy \in Copies({del[d].task}), Deliver(d, o, aged, copy)
  PROVE  CallsKeep
<1> DEFINE t == del[d].task
           phase == IF o.kind = "timeout" THEN "held" ELSE "leaving"
<1>1. /\ del' = [del EXCEPT ![d].phase = phase] /\ phase \in {"held", "leaving"}
      /\ UNCHANGED <<queue, eng>> /\ del[d].phase = "calling"
  BY DEF Deliver
<1>2. /\ Fates /\ RecordsStay /\ \A x \in TaskId : ~Begun(x)
      /\ \/ t \notin Rows /\ UNCHANGED <<task, attempt, minted>>
         \/ t \in Rows /\ Settled(t) /\ attempt'[t] = Close(t, o)
  BY DeliverFates
<1>3. /\ d \in Delivery /\ del[d].attempt \in 1..AttemptCap /\ t \in TaskId /\ t \in minted
  BY Typed DEF IInv, Goroutine, Known
<1>4. phase = "held" <=> o.kind = "timeout"
  OBVIOUS
<1> HIDE DEF phase
<1>5. /\ Active' = Active
      /\ \A x \in Active : /\ del'[x].task = del[x].task /\ del'[x].queue = del[x].queue
                           /\ del'[x].attempt = del[x].attempt
      /\ \A x \in Active \ {d} : del'[x] = del[x]
      /\ del'[d].phase = phase
      /\ \A x \in TaskId \ {t} : CallOn(x)' <=> CallOn(x)
      /\ phase = "leaving" => ~CallOn(t)'
      /\ phase = "held" => CallOn(t)'
  BY <1>1, PhaseCalls
<1>6. CallOn(t)
  BY <1>1 DEF CallOn
<1>7. phase = "held" /\ t \in Rows' => attempt'[t][del[d].attempt] = "timeout"
  <2> SUFFICES ASSUME phase = "held", t \in Rows' PROVE attempt'[t][del[d].attempt] = "timeout"
    OBVIOUS
  <2>1. t \in Rows /\ attempt'[t] = Close(t, o)
    BY <1>2 DEF Rows
  <2>2. task[t].attempts = del[d].attempt
    BY <1>1, <2>1 DEF IInv, AnswerFindsAttempt, Current
  <2>3. Close(t, o) = [attempt[t] EXCEPT ![del[d].attempt] = "timeout"]
    BY <1>4, <2>2 DEF Close, Closed
  <2> QED
    BY <1>3, <2>1, <2>3 DEF IInv, TypeOK
<1>8. \A x \in Active' : CallGoesOn(x)
  <2> TAKE x \in Active'
  <2>1. CASE x = d
    BY <1>2, <1>5, <1>7, <2>1 DEF CallGoesOn
  <2>2. CASE x # d
    <3>1. x \in Active /\ del'[x] = del[x] /\ del[x].task \in minted
      BY <1>5, <2>2 DEF IInv, Known
    <3>2. del'[x].phase = "held" /\ del'[x].task \in Rows' =>
             LET y == del[x].task IN attempt'[y] = attempt[y] \/ Begun(y) \/ Settled(y)
      BY <1>2, <3>1 DEF RecordsStay
    <3> QED
      BY <3>1, <3>2 DEF CallGoesOn
  <2> QED
    BY <2>1, <2>2
<1>9. CInv'
  BY <1>1, <1>2, <1>8, SameQueues, NoneBegin, CallsStep
<1>10. ASSUME NEW x \in TaskId PROVE CallMoves(x)
  <2>1. CASE x # t
    BY <1>2, <1>5, <2>1 DEF CallMoves
  <2>2. CASE x = t /\ phase = "held"
    BY <1>2, <1>5, <1>6, <2>2 DEF CallMoves
  <2>3. CASE x = t /\ phase = "leaving"
    <3>1. Absent(t) \/ Settled(t)
      BY <1>2 DEF Absent, Rows
    <3> QED
      BY <1>5, <1>6, <2>3, <3>1 DEF CallMoves
  <2> QED
    BY <1>1, <2>1, <2>2, <2>3
<1> QED
  BY <1>2, <1>9, <1>10, NoneBegin DEF CallsKeep

LEMMA NoteLateCalls ==
  ASSUME IInv, IInv', CInv, NEW d \in Active, NoteLate(d)
  PROVE  CallsKeep
<1> DEFINE t == del[d].task
<1>1. /\ del' = [del EXCEPT ![d].phase = "leaving"]
      /\ UNCHANGED <<queue, eng>> /\ del[d].phase = "held"
  BY DEF NoteLate
<1>2. /\ Fates /\ \A x \in TaskId : Absent(x) \/ Kept(x)
      /\ \A x \in TaskId \ {t} : attempt'[x] = attempt[x]
  BY NoteLateFates
<1>3. \A x \in TaskId : ~Begun(x)
  BY <1>2 DEF Absent, Kept, Begun, Stays, Held
<1>4. /\ Active' = Active
      /\ \A x \in Active : /\ del'[x].task = del[x].task /\ del'[x].queue = del[x].queue
                           /\ del'[x].attempt = del[x].attempt
      /\ \A x \in Active \ {d} : del'[x] = del[x]
      /\ del'[d].phase = "leaving"
      /\ \A x \in TaskId \ {t} : CallOn(x)' <=> CallOn(x)
      /\ ~CallOn(t)'
  BY <1>1, PhaseCalls
<1>5. \A x \in Active' : CallGoesOn(x)
  <2> TAKE x \in Active'
  <2>1. CASE x = d
    BY <1>1, <1>4, <2>1 DEF CallGoesOn
  <2>2. CASE x # d
    <3>1. x \in Active /\ del'[x] = del[x] /\ del[x].task \in TaskId \ {t}
      BY <1>4, <2>2, Typed DEF IInv, SlotsMatch, Goroutine
    <3> QED
      BY <1>2, <3>1 DEF CallGoesOn
  <2> QED
    BY <2>1, <2>2
<1>6. CInv'
  BY <1>1, <1>2, <1>3, <1>5, SameQueues, NoneBegin, CallsStep
<1>7. CallOn(t)
  BY <1>1 DEF CallOn
<1> QED
  BY <1>2, <1>3, <1>4, <1>6, <1>7, NoneBegin DEF CallsKeep, CallMoves

LEMMA LeaveCalls ==
  ASSUME IInv, IInv', CInv, NEW d \in Active, Leave(d)
  PROVE  CallsKeep
<1>1. /\ del[d].phase = "leaving" /\ del' = [del EXCEPT ![d] = Idle]
      /\ UNCHANGED <<queue, task, attempt, ids, eng>>
  BY DEF Leave
<1>2. Active' = Active \ {d} /\ \A x \in Active' : del'[x] = del[x]
  BY <1>1 DEF Active, IInv, TypeOK
<1>3. Fates /\ RecordsStay /\ \A x \in TaskId : Absent(x) \/ Kept(x)
  BY <1>1, QuietFates
<1>4. \A x \in TaskId : ~Begun(x)
  BY <1>3 DEF Absent, Kept, Begun, Stays, Held
<1> QED
  BY <1>1, <1>2, <1>3, <1>4, SameQueues, NoneBegin, QuietCalls DEF CallsKeep

LEMMA FailureCalls ==
  ASSUME IInv, IInv', CInv, Failure
  PROVE  CallsKeep
<1>1. CASE Crash
  <2>1. Restart /\ UNCHANGED queue /\ UNCHANGED <<task, attempt, ids>>
    BY <1>1 DEF Crash
  <2>2. Fates /\ \A x \in TaskId : Absent(x) \/ Kept(x)
    BY <2>1, QuietFates
  <2> QED
    BY <2>1, <2>2, RestartCalls DEF CallsKeep
<1>2. ASSUME NEW d \in Delivery, NEW o \in Outcomes, NEW old \in Old, CrashInSettle(d, o, old)
      PROVE  CallsKeep
  <2>1. Restart /\ UNCHANGED queue
    BY <1>2 DEF CrashInSettle
  <2>2. Fates /\ \A x \in TaskId : Absent(x) \/ Kept(x) \/ Settled(x)
    BY <1>2, CrashInSettleFates
  <2> QED
    BY <2>1, <2>2, RestartCalls DEF CallsKeep
<1> QED
  BY <1>1, <1>2 DEF Failure

\* Every step keeps the calls apart.
LEMMA NextCalls ==
  ASSUME ModesFixed, IInv, IInv', CInv, Next
  PROVE  CallsKeep
<1>1. CASE Administer
  BY <1>1, AdministerCalls
<1>2. ASSUME NEW t \in TaskId, Request(t) \/ Time(t)
      PROVE  CallsKeep
  BY <1>2, RequestsCalls
<1>3. CASE Work
  <2>1. ASSUME NEW q \in QName, NEW T \in SUBSET DueIn(q), Lease(q, T)
        PROVE  CallsKeep
    BY <2>1, LeaseCalls
  <2>2. ASSUME NEW t \in Rows, NEW l \in 1..leases,
               \/ Ack(t, l) \/ Extend(t, l)
               \/ \E aged \in Ages({t}), copy \in Copies({t}) : Release(t, l, aged, copy)
        PROVE  CallsKeep
    BY <2>2, WorkerCalls
  <2> QED
    BY <1>3, <2>1, <2>2 DEF Work
<1>4. CASE Engine
  <2>1. ASSUME NEW T \in SUBSET {t \in Rows : task[t].due = "now"}, Claim(T)
        PROVE  CallsKeep
    BY <2>1, ClaimCalls
  <2> QED
    BY <1>4, <2>1, PassCalls, StartCalls DEF Engine
<1>5. ASSUME NEW d \in Delivery, Goroutines(d)
      PROVE  CallsKeep
  <2>1. d \in Active
    BY <1>5 DEF Goroutines, Call, NoteLate, Leave
  <2> QED
    BY <1>5, <2>1, DeliverCalls, NoteLateCalls, LeaveCalls DEF Goroutines, Call
<1>6. CASE Failure
  BY <1>6, FailureCalls
<1> QED
  BY <1>1, <1>2, <1>3, <1>4, <1>5, <1>6 DEF Next

-----------------------------------------------------------------------------
(* The invariant, and the refinement *)

LEMMA InitCalls == Init => CInv
<1> SUFFICES ASSUME Init PROVE CInv
  OBVIOUS
<1>1. Rows = {} /\ Active = {} /\ eng.claimed = {}
  BY DEF Init, Rows, Active, NoPass
<1>2. QueuesPossible
  BY DEF Init, QueuesPossible, Queues, Possible
<1>3. RecordsOfRows
  BY DEF Init, RecordsOfRows
<1> QED
  BY <1>1, <1>2, <1>3 DEF CInv, LeasedInPull, CallsOver, RecordsTimedOut

LEMMA CallsNext ==
  ASSUME ModesFixed, IInv, CInv, [Next]_vars
  PROVE  IInv' /\ CInv'
<1>1. IInv'
  BY NextInv
<1>2. CASE Next
  BY <1>1, <1>2, NextCalls DEF CallsKeep
<1>3. CASE UNCHANGED vars
  <2>1. /\ Queues' = Queues /\ Rows' = Rows /\ Active' = Active
        /\ UNCHANGED <<queue, task, attempt, del, eng>>
    BY <1>3 DEF vars, Queues, Rows, Active
  <2> QED
    BY <1>1, <2>1 DEF CInv, QueuesPossible, LeasedInPull, CallsOver, RecordsTimedOut, RecordsOfRows,
       InPush, OnlyMode, Possible
<1> QED
  BY <1>1, <1>2, <1>3

\* Whatever queues become but push or pull, calls hold to their queues, and what outran its
\* deadline to its task and its record.
THEOREM CallsInvariance == ModesFixed => (Spec => [](IInv /\ CInv))
<1> SUFFICES ASSUME ModesFixed PROVE Spec => [](IInv /\ CInv)
  OBVIOUS
<1>1. Init => IInv /\ CInv
  BY InitInv, InitCalls
<1>2. (IInv /\ CInv) /\ [Next]_vars => (IInv /\ CInv)'
  BY CallsNext
<1> QED
  BY <1>1, <1>2, PTL DEF Spec

\* The lifecycle's first state is where every task starts.
LEMMA InitLife == Init => Lifecycle!Init
<1> SUFFICES ASSUME Init PROVE Lifecycle!Init
  OBVIOUS
<1>1. Rows = {} /\ minted = {} /\ \A t \in TaskId : ~CallOn(t)
  BY DEF Init, Rows, NoPass, CallOn, Active
<1>2. \A t \in TaskId : LifeAt(t) = "unborn" /\ LifeBy(t) = "nobody"
  BY <1>1 DEF LifeAt, LifeBy
<1>3. Life = [t \in TaskId |-> Lifecycle!Unborn]
  BY <1>1, <1>2 DEF Life, Lifecycle!Unborn
<1> QED
  BY <1>3 DEF Lifecycle!Init

\* Every step is one of the lifecycle's, of as many tasks as it moves.
LEMMA NextLife ==
  ASSUME ModesFixed, IInv, CInv, [Next]_vars
  PROVE  [Lifecycle!Next]_Life
<1>1. IInv' /\ CInv'
  BY CallsNext
<1>2. CASE Next
  <2>1. /\ Fates /\ BeginsFree /\ \A t \in TaskId : CallMoves(t)
    BY <1>1, <1>2, NextCalls DEF CallsKeep
  <2>p. AllStand'
    BY <1>1, LifeOf, PTL
  <2>2. \A t \in TaskId : Life'[t] = Life[t] \/ Lifecycle!Step(Life[t], Life'[t])
    BY <1>1, <2>1, LifeMoves
  <2>3. Life' \in [TaskId -> [at: Lifecycle!At, by: Lifecycle!By, n: Nat]]
    <3>1. Life' = [t \in TaskId |-> Life'[t]]
      BY DEF Life
    <3>2. \A t \in TaskId : Life'[t] \in [at: Lifecycle!At, by: Lifecycle!By, n: Nat]
      <4> TAKE t \in TaskId
      <4> DEFINE m == Life'[t]
      <4>1. /\ m = [at |-> m.at, by |-> m.by, n |-> m.n]
            /\ m.n \in Nat /\ m.at \in Lifecycle!At /\ m.by \in Lifecycle!By
        BY <2>p DEF AllStand, Stands
      <4> HIDE DEF m
      <4>2. m \in [at: Lifecycle!At, by: Lifecycle!By, n: Nat]
        BY <4>1
      <4> QED
        BY <4>2 DEF m
    <3> QED
      BY <3>1, <3>2
  <2> QED
    BY <2>2, <2>3 DEF Lifecycle!Next
<1>3. CASE UNCHANGED vars
  BY <1>3 DEF vars, Life, LifeAt, LifeBy, CallOn, Rows, Active
<1> QED
  BY <1>2, <1>3

\* TaskQueue implements TaskLifecycle: while no queue changes between push and pull, whatever
\* passes, targets, workers, requests and restarts do to a task is what the lifecycle allows.
THEOREM PromiseKept == ModesFixed => (Spec => TaskPromise)
<1> SUFFICES ASSUME ModesFixed PROVE Spec => TaskPromise
  OBVIOUS
<1>1. Init => Lifecycle!Init
  BY InitLife
<1>2. (IInv /\ CInv) /\ [Next]_vars => [Lifecycle!Next]_Life
  BY NextLife
<1>3. Spec => [](IInv /\ CInv)
  BY CallsInvariance
<1> QED
  BY <1>1, <1>2, <1>3, PTL DEF Spec, TaskPromise, Lifecycle!Spec

-----------------------------------------------------------------------------
(* Dead letters and retention *)

\* What a pass, or the loss of it, may do next.
PassMoves ==
    \/ UNCHANGED <<eng, running>>
    \/ UNCHANGED eng /\ \E d \in Active : Leave(d)
    \/ eng'.pc = "idle"
    \/ TickBegin \/ Sweep
    \/ \E T \in SUBSET {t \in Rows : task[t].due = "now"} : Claim(T)
    \/ \E c \in eng.claimed, d \in Delivery : Start(c, d)

LEMMA NextPass == Next => PassMoves
<1> SUFFICES ASSUME Next PROVE PassMoves
  OBVIOUS
<1>1. CASE Administer
  BY <1>1 DEF Administer, PutQueue, DeleteQueue, PurgeQueue, memory, PassMoves
<1>2. ASSUME NEW t \in TaskId, Request(t) \/ Time(t) PROVE PassMoves
  BY <1>2 DEF Request, Add, Cancel, RunAgain, RunCopy, Time, BecomesDue, LeaseAges, KeepExpires,
     memory, PassMoves
<1>3. CASE Work
  BY <1>3 DEF Work, Lease, Ack, Extend, Release, memory, PassMoves
<1>4. CASE Engine
  BY <1>4 DEF Engine, TickEnd, NoPass, PassMoves
<1>5. ASSUME NEW d \in Delivery, Goroutines(d) PROVE PassMoves
  <2>1. CASE Leave(d)
    BY <2>1 DEF Leave, PassMoves
  <2>2. CASE Call(d) \/ NoteLate(d)
    BY <2>2 DEF Call, Deliver, NoteLate, PassMoves
  <2> QED
    BY <1>5, <2>1, <2>2 DEF Goroutines
<1>6. CASE Failure
  <2>1. Restart
    BY <1>6 DEF Failure, Crash, CrashInSettle
  <2> QED
    BY <2>1 DEF Restart, NoPass, PassMoves
<1> QED
  BY <1>1, <1>2, <1>3, <1>4, <1>5, <1>6 DEF Next

\* A restart falls between the statements of a settle.
Torn == \E d \in Delivery, o \in Outcomes, old \in Old : CrashInSettle(d, o, old)

\* Whoever settles a task as failed leaves its copy, unless a restart falls inside.
LEMMA NextLetters ==
  ASSUME IInv, Next, ~Torn
  PROVE  Fates /\ Letters
<1>1. CASE Administer
  BY <1>1, QueueFates DEF Administer
<1>2. ASSUME NEW t \in TaskId, Request(t) \/ Time(t) PROVE Fates /\ Letters
  BY <1>2, AddFates, CancelFates, RunAgainFates, RunCopyFates, TimeFates DEF Request
<1>3. CASE Work
  BY <1>3, LeaseFates, AckFates, ExtendFates, ReleaseFates DEF Work
<1>4. CASE Engine
  <2>1. CASE TickBegin \/ TickEnd \/ \E c \in eng.claimed, d \in Delivery : Start(c, d)
    <3>1. UNCHANGED <<task, attempt, ids>>
      BY <2>1 DEF TickBegin, TickEnd, Start
    <3> QED
      BY <3>1, QuietFates
  <2>2. CASE Sweep
    BY <2>2, HousekeepFates DEF Sweep
  <2>3. ASSUME NEW T \in SUBSET {t \in Rows : task[t].due = "now"}, Claim(T)
        PROVE  Fates /\ Letters
    BY <2>3, ClaimFates
  <2> QED
    BY <1>4, <2>1, <2>2, <2>3 DEF Engine
<1>5. ASSUME NEW d \in Delivery, Goroutines(d) PROVE Fates /\ Letters
  <2>1. CASE Call(d)
    BY <2>1, DeliverFates DEF Call
  <2>2. CASE NoteLate(d)
    BY <2>2, NoteLateFates DEF NoteLate
  <2>3. CASE Leave(d)
    <3>1. UNCHANGED <<task, attempt, ids>>
      BY <2>3 DEF Leave
    <3> QED
      BY <3>1, QuietFates
  <2> QED
    BY <1>5, <2>1, <2>2, <2>3 DEF Goroutines
<1>6. CASE Failure
  <2>1. UNCHANGED <<task, attempt, ids>>
    BY <1>6 DEF Failure, Crash, Torn
  <2> QED
    BY <2>1, QuietFates
<1> QED
  BY <1>1, <1>2, <1>3, <1>4, <1>5, <1>6 DEF Next

LEMMA DeadLetterStep ==
  ASSUME IInv, Next, ~TornSettle, NEW t \in Rows, task[t].state \in Held, task'[t] # NoRow,
         task'[t].state = "failed", SettingsOf(t).dlq # NoQ
  PROVE  Copied(t)
<1>1. Fate(t) /\ Lettered(t) /\ t \in TaskId /\ t \in Rows'
  BY NextLetters, RowsMinted DEF Fates, Letters, Rows, Torn, CrashInSettle
<1>2. Settled(t)
  BY <1>1, RowsMinted DEF Fate, Absent, Born, Dropped, Kept, Begun, CalledOff, Reset, Held, Finished
<1> QED
  BY <1>1, <1>2 DEF Lettered

LEMMA RetentionStep ==
  ASSUME IInv, [Next]_vars, eng.pc = "sweep", eng'.pc = "claim", NEW t \in Rows, task'[t] = NoRow
  PROVE  task[t].state \in Finished
<1>1. Sweep
  BY NextPass DEF PassMoves, vars, TickBegin, Claim, Start
<1>2. t \notin Rows'
  BY DEF Rows
<1> QED
  BY <1>1, <1>2, HousekeepFates DEF Sweep

\* Whatever runs again meanwhile, the sweep's retention drops finished tasks only.
THEOREM RetentionSafe == Spec => RetentionDropsFinished
<1>1. IInv /\ [Next]_vars =>
         [eng.pc = "sweep" /\ eng'.pc = "claim" =>
             \A t \in Rows : task'[t] = NoRow => task[t].state \in Finished]_vars
  BY RetentionStep
<1> QED
  BY <1>1, Invariance, PTL DEF Spec, RetentionDropsFinished

\* However an attempt ends, a task given up leaves its copy in the dead-letter queue in the same
\* step, unless a restart can fall between a settle's statements; and the sweep drops finished
\* tasks only.
THEOREM LettersAlwaysKept == ~TornSettle => (Spec => LettersKept)
<1> SUFFICES ASSUME ~TornSettle PROVE Spec => LettersKept
  OBVIOUS
<1>1. IInv /\ [Next]_vars =>
         [\A t \in Rows :
             task[t].state \in Held /\ task'[t] # NoRow /\ task'[t].state = "failed"
                /\ SettingsOf(t).dlq # NoQ
             => \E c \in TaskId : /\ task[c] = NoRow /\ task'[c] # NoRow
                                  /\ task'[c].copyOf = t /\ task'[c].queue = SettingsOf(t).dlq]_vars
  BY DeadLetterStep DEF Copied
<1> QED
  BY <1>1, Invariance, RetentionSafe, PTL DEF Spec, LettersKept, DeadLetterKept

-----------------------------------------------------------------------------
(* Calls that outlive their deadline stay apart *)

\* A record that a step writes, other than a late answer's, is never a note.
NoNotes == \A t \in TaskId, n \in 1..AttemptCap :
              attempt'[t][n] = attempt[t][n] \/ attempt'[t][n] # "noted"

LEMMA SettleNotes ==
  ASSUME IInv, NEW T, NEW out, NEW aged, NEW copy, NEW gone, Settle(T, out, aged, copy, gone)
  PROVE  NoNotes
<1> SUFFICES ASSUME NEW t \in TaskId, NEW n \in 1..AttemptCap
    PROVE  attempt'[t][n] = attempt[t][n] \/ attempt'[t][n] # "noted"
  BY DEF NoNotes
<1>1. attempt'[t] \in {Close(t, out[t]), NoRecords, attempt[t]}
  BY DEF Settle
<1>2. NoRecords[n] # "noted"
  BY DEF NoRecords
<1>3. Close(t, out[t])[n] \in {"timeout", "closed", attempt[t][n]}
  BY DEF Close, Closed, IInv, TypeOK
<1> QED
  BY <1>1, <1>2, <1>3

LEMMA TakeNotes ==
  ASSUME IInv, NEW T, NEW state \in Held, NEW holder, Take(T, state, holder)
  PROVE  NoNotes
<1> SUFFICES ASSUME NEW t \in TaskId, NEW n \in 1..AttemptCap
    PROVE  attempt'[t][n] = attempt[t][n] \/ attempt'[t][n] # "noted"
  BY DEF NoNotes
<1>1. attempt'[t] \in {[attempt[t] EXCEPT ![task[t].attempts + 1] = state], attempt[t]}
  BY DEF Take
<1> QED
  BY <1>1 DEF IInv, TypeOK, Held

LEMMA NextNotes ==
  ASSUME IInv, Next, \A d \in Active : ~NoteLate(d)
  PROVE  NoNotes
<1>1. UNCHANGED attempt => NoNotes
  BY DEF NoNotes
<1>2. CASE Administer
  <2>1. ASSUME NEW T, DropRows(T) PROVE NoNotes
    BY <2>1 DEF DropRows, NoRecords, NoNotes
  <2> QED
    BY <1>1, <1>2, <2>1 DEF Administer, PutQueue, DeleteQueue, PurgeQueue
<1>3. ASSUME NEW t \in TaskId, Request(t) \/ Time(t) PROVE NoNotes
  BY <1>1, <1>3 DEF Request, Add, Cancel, RunAgain, RunCopy, Time, BecomesDue, LeaseAges, KeepExpires
<1>4. CASE Work
  <2>1. ASSUME NEW t, NEW l, Ack(t, l) PROVE NoNotes
    BY <2>1 DEF Ack, NoNotes, IInv, TypeOK
  <2>2. ASSUME NEW q, NEW T, Lease(q, T) PROVE NoNotes
    BY <2>2, TakeNotes DEF Lease, Held
  <2>3. ASSUME NEW t, NEW l, NEW aged, NEW copy, Release(t, l, aged, copy) PROVE NoNotes
    BY <2>3, SettleNotes DEF Release
  <2> QED
    BY <1>1, <1>4, <2>1, <2>2, <2>3 DEF Work, Extend
<1>5. CASE Engine
  <2>1. CASE Sweep
    BY <2>1, SettleNotes DEF Sweep, Housekeep
  <2>2. ASSUME NEW T, Claim(T) PROVE NoNotes
    BY <2>2, TakeNotes DEF Claim, Held
  <2> QED
    BY <1>1, <1>5, <2>1, <2>2 DEF Engine, TickBegin, TickEnd, Start
<1>6. ASSUME NEW d \in Delivery, Goroutines(d) PROVE NoNotes
  <2>1. d \in Active
    BY <1>6 DEF Goroutines, Call, NoteLate, Leave
  <2>2. CASE Call(d)
    BY <1>1, <2>2, SettleNotes DEF Call, Deliver
  <2>3. CASE Leave(d)
    BY <1>1, <2>3 DEF Leave
  <2> QED
    BY <1>6, <2>1, <2>2, <2>3 DEF Goroutines
<1>7. CASE Failure
  <2>1. ASSUME NEW d, NEW o, NEW old, CrashInSettle(d, o, old) PROVE NoNotes
    <3>1. attempt' = [attempt EXCEPT ![del[d].task] = Close(del[d].task, o)]
      BY <2>1 DEF CrashInSettle
    <3>2. \A n \in 1..AttemptCap : del[d].task \in TaskId =>
             Close(del[d].task, o)[n] \in {"timeout", "closed", attempt[del[d].task][n]}
      BY DEF Close, Closed, IInv, TypeOK
    <3> QED
      BY <3>1, <3>2 DEF NoNotes, IInv, TypeOK
  <2> QED
    BY <1>1, <1>7, <2>1 DEF Failure, Crash
<1> QED
  BY <1>2, <1>3, <1>4, <1>5, <1>6, <1>7 DEF Next

\* A late answer is noted on the attempt that timed out.
LEMMA LateNoteStep ==
  ASSUME IInv, CInv, Next, NEW t \in TaskId, NEW n \in 1..AttemptCap,
         attempt'[t][n] = "noted", attempt[t][n] # "noted"
  PROVE  attempt[t][n] = "timeout"
<1>1. PICK d \in Active : NoteLate(d)
  BY NextNotes DEF NoNotes
<1>2. /\ del[d].phase = "held" /\ del[d].task \in TaskId /\ del[d].attempt \in 1..AttemptCap
      /\ attempt' = [attempt EXCEPT ![del[d].task][del[d].attempt] = IF @ = "none" THEN @ ELSE "noted"]
  BY <1>1, Typed DEF NoteLate, IInv, Goroutine
<1>3. t = del[d].task /\ n = del[d].attempt /\ attempt[t][n] # "none"
  BY <1>2 DEF IInv, TypeOK
<1>4. t \in Rows
  BY <1>3 DEF CInv, RecordsOfRows, NoRecords
<1> QED
  BY <1>2, <1>3, <1>4 DEF CInv, RecordsTimedOut

\* Until the pass claims, its count covers the calls there are: none starts meanwhile.
LEMMA SnapshotStep ==
  ASSUME IInv, IInv', SnapshotCounts, [Next]_vars
  PROVE  SnapshotCounts'
<1> SUFFICES ASSUME eng'.pc \in {"sweep", "claim"}, NEW q \in QName
    PROVE  running'[q] <= eng'.running[q]
  BY DEF SnapshotCounts
<1> USE DEF IInv, TypeOK
<1>1. running[q] \in Nat /\ running'[q] \in Nat
  OBVIOUS
<1>2. CASE UNCHANGED <<eng, running>>
  BY <1>2 DEF SnapshotCounts
<1>3. ASSUME UNCHANGED eng, NEW d \in Active, Leave(d) PROVE running'[q] <= eng'.running[q]
  <2>1. running'[q] = running[q] \/ running'[q] = running[q] - 1
    BY <1>3 DEF Leave
  <2>2. running[q] <= eng.running[q] /\ eng.running[q] \in Nat
    BY <1>3 DEF SnapshotCounts, Pass
  <2> QED
    BY <1>1, <1>3, <2>1, <2>2
<1>4. CASE TickBegin
  BY <1>1, <1>4 DEF TickBegin, NoPass
<1>5. CASE Sweep
  BY <1>5 DEF Sweep, Housekeep, SnapshotCounts, Pass
<1>6. ~\E T : Claim(T)
  BY DEF Claim, Pass
<1>7. ~\E c, d : Start(c, d)
  BY DEF Start, Pass
<1>8. Next \/ UNCHANGED <<eng, running>>
  BY DEF vars
<1> QED
  BY <1>2, <1>3, <1>4, <1>5, <1>6, <1>7, <1>8, NextPass DEF PassMoves

\* The claims a pass makes in a queue, and the calls the queue has, fit its ceiling.
LEMMA CeilingStep ==
  ASSUME IInv, SnapshotCounts, [Next]_vars, eng.pc = "claim", eng'.pc = "start",
         NEW q \in Queues, {c \in eng'.claimed : c.queue = q} # {}
  PROVE  Cardinality({c \in eng'.claimed : c.queue = q}) + Cardinality({d \in Active : del[d].queue = q})
            <= queue[q].maxConcurrent
<1> USE DEF IInv, TypeOK
<1>1. PICK T \in SUBSET {t \in Rows : task[t].due = "now"} : Claim(T)
  BY NextPass DEF PassMoves, vars, TickBegin, Sweep, Housekeep, Start, Pass
<1> DEFINE claim(t) == [task |-> t, attempt |-> task[t].attempts + 1, queue |-> task[t].queue]
           mine == {c \in eng'.claimed : c.queue = q}
           taken == {t \in T : task[t].queue = q}
<1>2. eng'.claimed = {claim(t) : t \in T}
  BY <1>1 DEF Claim, Pass
<1>3. mine = {claim(t) : t \in taken}
  <2>1. \A t \in T : claim(t).queue = task[t].queue
    OBVIOUS
  <2> HIDE DEF claim
  <2> QED
    BY <1>2, <2>1
<1>4. IsFiniteSet(taken)
  <2>1. taken \subseteq TaskId
    BY Typed
  <2> QED
    BY <2>1, FS_Subset, NamesAssumption
<1>5. Cardinality(mine) <= Cardinality(taken) /\ Cardinality(mine) \in Nat
  <2> DEFINE f == [t \in taken |-> claim(t)]
  <2>1. f \in Surjection(taken, mine)
    BY <1>3 DEF Surjection
  <2> QED
    BY <1>4, <2>1, FS_Surjection, FS_CardinalityType
<1>6. Cardinality(taken) \in Nat /\ Cardinality(taken) > 0
  <2>1. mine # {}
    OBVIOUS
  <2> HIDE DEF mine
  <2>2. taken # {}
    BY <1>3, <2>1
  <2> HIDE DEF taken
  <2>3. Cardinality(taken) \in Nat /\ Cardinality(taken) # 0
    BY <1>4, <2>2, FS_CardinalityType, FS_EmptySet
  <2> QED
    BY <2>3
<1> HIDE DEF mine, claim
<1>7. Cardinality(taken) <= queue[q].maxConcurrent - eng.running[q]
  BY <1>1, <1>6 DEF Claim, Slots
<1>8. running[q] <= eng.running[q] /\ running[q] = Cardinality({d \in Active : del[d].queue = q})
  BY DEF SnapshotCounts, SlotsMatch, Queues
<1>9. queue[q].maxConcurrent \in Nat /\ eng.running[q] \in Nat /\ running[q] \in Nat
  BY Typed DEF QueueSettings, Pass
<1>10. Cardinality(mine) + running[q] <= queue[q].maxConcurrent
  BY <1>5, <1>6, <1>7, <1>8, <1>9
<1> QED
  BY <1>8, <1>10 DEF mine

\* Whatever ended or changed since the pass took its count, what it claims in a queue and the
\* calls the queue still has, held ones included, stay within the ceiling it has now.
THEOREM CeilingRespected == Spec => ClaimRespectsCeiling
<1>1. Init => SnapshotCounts
  BY DEF Init, SnapshotCounts, NoPass
<1>2. IInv /\ SnapshotCounts /\ [Next]_vars => SnapshotCounts'
  BY NextInv, SnapshotStep
<1>3. IInv /\ SnapshotCounts /\ [Next]_vars =>
         [eng.pc = "claim" /\ eng'.pc = "start" =>
             \A q \in Queues :
                LET mine == {c \in eng'.claimed : c.queue = q}
                IN  mine # {} => Cardinality(mine) + Cardinality({d \in Active : del[d].queue = q})
                                    <= queue[q].maxConcurrent]_vars
  BY CeilingStep
<1> QED
  BY <1>1, <1>2, <1>3, Invariance, PTL DEF Spec, ClaimRespectsCeiling

\* While no queue changes between push and pull: a call that outran its deadline never runs
\* beside another attempt of its task, no pass claims past a queue's ceiling, and what a late
\* target answered is noted on the attempt that timed out only.
THEOREM CallsStayApart == ModesFixed => (Spec => CallsApart)
<1> SUFFICES ASSUME ModesFixed PROVE Spec => CallsApart
  OBVIOUS
<1>1. IInv /\ CInv => NoSelfOverlap
  BY DEF CInv, CallsOver, NoSelfOverlap
<1>2. IInv /\ CInv /\ [Next]_vars =>
         [\A t \in TaskId, n \in 1..AttemptCap :
             attempt'[t][n] = "noted" /\ attempt[t][n] # "noted" => attempt[t][n] = "timeout"]_vars
  BY LateNoteStep
<1>3. Spec => [](IInv /\ CInv)
  BY CallsInvariance
<1> QED
  BY <1>1, <1>2, <1>3, CeilingRespected, PTL DEF Spec, CallsApart, LateNoteOnTimeout

-----------------------------------------------------------------------------
(* Attempts within their limit *)

\* A row keeps its own limit unless an answer that settles it brings another, and what an answer
\* sends back to wait has attempts left under the limit it has then.
RowsFit == \A t \in Rows : t \in Rows' =>
              /\ task'[t].max = task[t].max \/ Settled(t)
              /\ Settled(t) /\ task'[t].state = "scheduled" => task'[t].attempts < Limit(t)'

LEMMA OneFits ==
  ASSUME IInv, NEW t \in Rows, NEW r, task' = [task EXCEPT ![t] = r], r.max = task[t].max,
         r.state # "scheduled" \/ task[t].state \notin Held
  PROVE  RowsFit
<1>1. task'[t] = r /\ \A x \in Rows \ {t} : task'[x] = task[x]
  BY RowsMinted
<1> QED
  BY <1>1 DEF RowsFit, Settled, Held, Finished

\* A step that settles the rows of T, each with an outcome of its own call's or a plain one.
Settling(T, out, aged, copy, gone) ==
    /\ T \subseteq Rows /\ gone \subseteq Rows /\ T \cap gone = {}
    /\ \A t \in T : task[t].state \in Held
    /\ out \in [T -> Outcome] /\ copy \in Copies(T)
    /\ Settle(T, out, aged, copy, gone)
    /\ UNCHANGED queue
    /\ \A t \in T : \/ \E kind : out[t] = Plain(kind)
                    \/ \E d \in Active : /\ del[d].phase = "calling" /\ del[d].task = t
                                         /\ Current(d) /\ out[t] \in Answer

LEMMA ReleaseSettles ==
  ASSUME NEW t, NEW l, NEW aged, NEW copy \in Copies({t}), Release(t, l, aged, copy)
  PROVE  Settling({t}, [x \in {t} |-> Plain("released")], aged, copy, {})
<1>1. Plain("released") \in Outcome
  BY BoundsAssumption DEF Plain, Outcome
<1> QED
  BY <1>1 DEF Release, HeldBy, Held, Settling

LEMMA HousekeepSettles ==
  ASSUME IInv, NEW aged, NEW copy \in Copies(Lost), Housekeep(aged, copy)
  PROVE  Settling(Lost, [t \in Lost |-> Plain("lost")], aged, copy, Expired)
<1>1. Plain("lost") \in Outcome
  BY BoundsAssumption DEF Plain, Outcome
<1>2. /\ Lost \subseteq Rows /\ (\A x \in Lost : task[x].state \in Held)
      /\ Lost \cap Expired = {} /\ Expired \subseteq Rows
  BY DEF Lost, Expired, IInv, KeepsFinished, Held, Finished
<1> QED
  BY <1>1, <1>2 DEF Housekeep, Settling

LEMMA DeliverSettles ==
  ASSUME NEW d \in Active, NEW o \in Outcomes, NEW aged, NEW copy \in Copies({del[d].task}),
         Deliver(d, o, aged, copy), Current(d)
  PROVE  Settling({del[d].task}, [x \in {del[d].task} |-> o], aged, copy, {})
<1>1. o \in Outcome /\ (o \in Answer \/ o = Plain("timeout"))
  BY ValuesAssumption, BoundsAssumption DEF Outcomes, Plain, Outcome
<1> QED
  BY <1>1 DEF Deliver, Current, Held, Settling

\* A call's attempt is one its task may have.
CallsFit == \A d \in Active : del[d].phase = "calling" /\ del[d].task \in Rows
                                 => del[d].attempt <= Limit(del[d].task)

LEMMA SettleFits ==
  ASSUME LimitsFixed, IInv, CallsFit, NEW T \in SUBSET Rows, \A t \in T : task[t].state \in Held,
         NEW out \in [T -> Outcome], NEW aged, NEW copy \in Copies(T),
         NEW gone \in SUBSET Rows, T \cap gone = {}, Settle(T, out, aged, copy, gone),
         UNCHANGED queue,
         \A t \in T : \/ \E kind : out[t] = Plain(kind)
                      \/ \E d \in Active : /\ del[d].phase = "calling" /\ del[d].task = t
                                           /\ Current(d) /\ out[t] \in Answer
  PROVE  RowsFit
<1>1. /\ \A t \in T : /\ Settled(t) /\ task'[t] = SettledRow(t, out[t], t \in aged)
                      /\ attempt'[t] = Close(t, out[t])
      /\ DOMAIN copy = {t \in T : DeadLettered(t, out[t], t \in aged)}
      /\ \A t \in DOMAIN copy : /\ copy[t] \in TaskId \ minted /\ Born(copy[t])
                                /\ task'[copy[t]] = NewRow(SettingsOf(t).dlq, 0, t)
      /\ \A t \in TaskId \ (T \cup Image(copy) \cup gone) :
            task'[t] = task[t] /\ (Absent(t) \/ Kept(t))
      /\ \A t \in gone : Dropped(t)
      /\ \A t \in minted \ T : t \in Rows' => attempt'[t] = attempt[t]
      /\ (RecordsOfRows => RecordsOfRows') /\ minted \subseteq minted'
  BY FateSettle
<1>2. \A t \in Rows \ T : t \in Rows' => task'[t] = task[t]
  BY <1>1, RowsMinted DEF Image, Dropped
<1>3. ASSUME NEW t \in T, task'[t].state = "scheduled" PROVE task'[t].attempts < Limit(t)'
  <2> DEFINE o == out[t]
             old == t \in aged
  <2>1. /\ t \in Rows /\ task[t].state \in Held /\ o \in Outcome /\ old \in BOOLEAN
        /\ task'[t] = SettledRow(t, o, old) /\ UNCHANGED queue
        /\ \/ \E kind : o = Plain(kind)
           \/ \E d \in Active : /\ del[d].phase = "calling" /\ del[d].task = t
                                /\ Current(d) /\ o \in Answer
    BY <1>1
  <2> HIDE DEF o, old
  <2>2. /\ task'[t].queue = task[t].queue /\ task'[t].max = OwnLimit(t, o)
        /\ \/ Deferred(t, o, old) /\ task'[t].attempts = task[t].attempts - 1
           \/ task'[t].attempts = task[t].attempts /\ task[t].attempts < NewLimit(t, o)
    BY <1>3, <2>1, SettledRowFate
  <2>3. /\ task[t].attempts \in 0..AttemptCap /\ task[t].max \in 0..AttemptCap
        /\ Limit(t) \in 1..AttemptCap /\ NewLimit(t, o) \in 1..AttemptCap
    BY <2>1, LimitType, RowsMinted DEF Row
  <2>4. Limit(t)' = NewLimit(t, o)
    BY <2>1, <2>2, <2>3 DEF Limit, SettingsOf, OwnLimit
  <2>5. CASE Deferred(t, o, old)
    <3>1. o.ctl = "defer"
      BY <2>5 DEF Deferred, Ctl
    <3>2. PICK d \in Active : /\ del[d].phase = "calling" /\ del[d].task = t /\ Current(d)
                              /\ o \in Answer
      BY <2>1, <3>1 DEF Plain
    <3>3. task[t].attempts <= Limit(t)
      BY <2>1, <3>2 DEF CallsFit, Current
    <3>4. NewLimit(t, o) = Limit(t)
      BY <3>1, <3>2 DEF LimitsFixed, NewLimit
    <3> QED
      BY <2>2, <2>3, <2>4, <3>3, <3>4
  <2> QED
    BY <2>2, <2>4, <2>5
<1>4. ASSUME NEW t \in Rows \ T, t \in Rows' PROVE task'[t] = task[t] /\ ~Settled(t)
  BY <1>2, <1>4 DEF Settled, Held, Finished
<1> QED
  BY <1>1, <1>3, <1>4 DEF RowsFit

LEMMA SettlingFits ==
  ASSUME LimitsFixed, IInv, CallsFit, NEW T, NEW out, NEW aged, NEW copy, NEW gone,
         Settling(T, out, aged, copy, gone)
  PROVE  RowsFit
  BY SettleFits DEF Settling

LEMMA TakeFits ==
  ASSUME IInv, NEW T \in SUBSET Rows, \A t \in T : task[t].state = "scheduled",
         NEW state \in Held, NEW holder, Take(T, state, holder), UNCHANGED minted
  PROVE  RowsFit
<1>1. /\ \A t \in T : Begun(t) /\ task'[t].state = state /\ task'[t].max = task[t].max
      /\ \A t \in TaskId \ T : task'[t] = task[t]
  BY FateTake
<1> QED
  BY <1>1, RowsMinted DEF RowsFit, Settled, Held, Finished

LEMMA NextFits ==
  ASSUME LimitsFixed, IInv, CallsFit, Next, ~Torn
  PROVE  RowsFit
<1>1. UNCHANGED task => RowsFit
  BY DEF RowsFit, Settled, Held, Finished
<1>2. CASE Administer
  <2>1. ASSUME NEW T, DropRows(T) PROVE RowsFit
    BY <2>1 DEF DropRows, RowsFit, Rows, Settled, Held, Finished
  <2> QED
    BY <1>1, <1>2, <2>1 DEF Administer, PutQueue, DeleteQueue, PurgeQueue
<1>3. ASSUME NEW t \in TaskId, Request(t) \/ Time(t) PROVE RowsFit
  <2>1. ASSUME NEW new \in TaskId \ minted, NEW r, task' = [task EXCEPT ![new] = r] PROVE RowsFit
    BY <2>1, RowsMinted DEF RowsFit, Settled, Held, Finished
  <2>2. CASE (\E q \in QName, own \in OwnLimits : Add(t, q, own)) \/ \E new \in TaskId : RunCopy(t, new)
    BY <2>1, <2>2 DEF Add, RunCopy
  <2>3. t \in Rows => task[t] \in Row
    BY RowsMinted
  <2>4. CASE Cancel(t)
    <3>1. t \in Rows => /\ Ended(task[t], "cancelled").max = task[t].max
                        /\ Ended(task[t], "cancelled").state = "cancelled"
      BY <2>3 DEF Ended, Row
    <3> QED
      BY <2>4, <3>1, OneFits DEF Cancel
  <2>5. CASE RunAgain(t)
    <3> DEFINE r == IF task[t].state = "scheduled" THEN [task[t] EXCEPT !.due = "now"]
                    ELSE Requeued(task[t])
    <3>1. t \in Rows => r.max = task[t].max
      BY <2>3 DEF Requeued, Row
    <3>2. t \in Rows /\ task[t].state \notin Held /\ task' = [task EXCEPT ![t] = r]
      BY <2>5 DEF RunAgain, Held
    <3> HIDE DEF r
    <3> QED
      BY <3>1, <3>2, OneFits
  <2>6. CASE BecomesDue(t) \/ KeepExpires(t)
    <3>1. t \in Rows => \A r \in {[task[t] EXCEPT !.due = "now"], [task[t] EXCEPT !.keep = "expired"]} :
             r.max = task[t].max /\ r.state = task[t].state
      BY <2>3 DEF Row
    <3>2. /\ t \in Rows
          /\ \/ task' = [task EXCEPT ![t] = [task[t] EXCEPT !.due = "now"]]
             \/ task' = [task EXCEPT ![t] = [task[t] EXCEPT !.keep = "expired"]]
      BY <2>6 DEF BecomesDue, KeepExpires
    <3> QED
      BY <3>1, <3>2, OneFits DEF Held
  <2>7. CASE LeaseAges(t)
    <3> DEFINE age == IF task[t].lease = "live" THEN "edge" ELSE "over"
               r == [task[t] EXCEPT !.lease = age]
    <3>1. t \in Rows /\ task' = [task EXCEPT ![t] = r]
      BY <2>7 DEF LeaseAges
    <3> HIDE DEF age
    <3>2. r.max = task[t].max /\ r.state = task[t].state
      BY <2>3, <3>1 DEF Row
    <3> HIDE DEF r
    <3> QED
      BY <3>1, <3>2, OneFits DEF Held
  <2> QED
    BY <1>3, <2>2, <2>4, <2>5, <2>6, <2>7 DEF Request, Time
<1>4. CASE Work
  <2>1. ASSUME NEW t, NEW l, Ack(t, l) PROVE RowsFit
    <3>1. t \in Rows => Ended(task[t], "done").max = task[t].max /\ Ended(task[t], "done").state = "done"
      BY RowsMinted DEF Ended, Row
    <3> QED
      BY <2>1, <3>1, OneFits DEF Ack, HeldBy
  <2>2. ASSUME NEW t, NEW l, Extend(t, l) PROVE RowsFit
    <3> DEFINE r == [task[t] EXCEPT !.lease = "live"]
    <3>1. t \in Rows /\ task' = [task EXCEPT ![t] = r]
      BY <2>2 DEF Extend, HeldBy
    <3>2. r.max = task[t].max /\ r.state = task[t].state
      BY <3>1, RowsMinted DEF Row
    <3> HIDE DEF r
    <3> QED
      BY <3>1, <3>2, OneFits DEF Held
  <2>3. ASSUME NEW q, NEW T, Lease(q, T) PROVE RowsFit
    <3>1. T \in SUBSET Rows /\ (\A t \in T : task[t].state = "scheduled") /\ "leased" \in Held
      BY <2>3 DEF Lease, DueIn, RowsOf, Held
    <3> QED
      BY <2>3, <3>1, TakeFits DEF Lease
  <2>4. ASSUME NEW t, NEW l, NEW aged, NEW copy \in Copies({t}), Release(t, l, aged, copy)
        PROVE  RowsFit
    BY <2>4, ReleaseSettles, SettlingFits
  <2> QED
    BY <1>4, <2>1, <2>2, <2>3, <2>4 DEF Work
<1>5. CASE Engine
  <2>1. ASSUME NEW aged, NEW copy \in Copies(Lost), Housekeep(aged, copy) PROVE RowsFit
    BY <2>1, HousekeepSettles, SettlingFits
  <2>2. ASSUME NEW T \in SUBSET {t \in Rows : task[t].due = "now"}, Claim(T) PROVE RowsFit
    <3>1. T \in SUBSET Rows /\ (\A t \in T : task[t].state = "scheduled") /\ "running" \in Held
      BY <2>2 DEF Claim, Claimable, DueIn, RowsOf, Held
    <3> QED
      BY <2>2, <3>1, TakeFits DEF Claim, ids
  <2> QED
    BY <1>1, <1>5, <2>1, <2>2 DEF Engine, Sweep, TickBegin, TickEnd, Start
<1>6. ASSUME NEW d \in Delivery, Goroutines(d) PROVE RowsFit
  <2>1. ASSUME d \in Active, NEW o \in Outcomes, NEW aged, NEW copy \in Copies({del[d].task}),
               Deliver(d, o, aged, copy), Current(d)
        PROVE  RowsFit
    BY <2>1, DeliverSettles, SettlingFits
  <2> QED
    BY <1>1, <1>6, <2>1 DEF Goroutines, Call, Deliver, NoteLate, Leave
<1>7. CASE Failure
  BY <1>1, <1>7 DEF Failure, Crash, Torn
<1> QED
  BY <1>2, <1>3, <1>4, <1>5, <1>6, <1>7 DEF Next

LEMMA NextQueues ==
  ASSUME IInv, QueuesPossible, Next
  PROVE  QueuesPossible'
<1>1. UNCHANGED queue => QueuesPossible'
  BY DEF QueuesPossible, Queues, Possible
<1>2. CASE Administer
  <2>1. ASSUME NEW q \in QName, DeleteQueue(q) PROVE QueuesPossible'
    BY <2>1 DEF DeleteQueue, QueuesPossible, Queues, IInv, TypeOK, Possible
  <2>2. ASSUME NEW q \in QName, NEW s \in Settings[q], PutQueue(q, s) PROVE QueuesPossible'
    BY <2>2 DEF PutQueue, QueuesPossible, Queues, IInv, TypeOK, Possible
  <2> QED
    BY <1>1, <1>2, <2>1, <2>2 DEF Administer, PurgeQueue
<1>3. ~Administer => UNCHANGED queue
  BY DEF Next, Request, Add, Cancel, RunAgain, RunCopy, Time, BecomesDue, LeaseAges, KeepExpires,
     Work, Lease, Ack, Extend, Release, Engine, TickBegin, Sweep, Housekeep, Claim, Start, TickEnd,
     Goroutines, Call, Deliver, NoteLate, Leave, Failure, Crash, CrashInSettle
<1> QED
  BY <1>1, <1>2, <1>3

\* A row that keeps its own limit and its queue keeps its limit: no queue changes its.
LEMMA LimitStays ==
  ASSUME LimitsFixed, IInv, IInv', QueuesPossible, QueuesPossible', NEW t, Stays(t),
         task'[t].max = task[t].max
  PROVE  Limit(t)' = Limit(t)
<1>1. task[t].queue \in Queues /\ task[t].queue \in Queues'
  BY DEF Stays, IInv, NothingOrphaned
<1>2. SettingsOf(t)' \in Possible(task[t].queue) /\ SettingsOf(t) \in Possible(task[t].queue)
  BY <1>1 DEF QueuesPossible, SettingsOf, Possible, Stays
<1>3. SettingsOf(t)'.maxAttempts = SettingsOf(t).maxAttempts
  BY <1>1, <1>2 DEF LimitsFixed, Queues
<1> QED
  BY <1>3 DEF Limit

\* The limit of any row is at least one attempt.
LimitsPositive == \A t \in Rows : Limit(t) \in 1..AttemptCap /\ task[t].attempts \in 0..AttemptCap

LEMMA LimitsArePositive == IInv => LimitsPositive
<1> SUFFICES ASSUME IInv, NEW t \in Rows
    PROVE  Limit(t) \in 1..AttemptCap /\ task[t].attempts \in 0..AttemptCap
  BY DEF LimitsPositive
<1>1. Plain("lost") \in Outcome
  BY BoundsAssumption DEF Plain, Outcome
<1>2. Limit(t) \in 1..AttemptCap
  BY <1>1, LimitType
<1> QED
  BY <1>2, RowsMinted DEF Row

\* What waits, waits with attempts left.
LEMMA WaitingFits ==
  ASSUME LimitsFixed, IInv, IInv', QueuesPossible, QueuesPossible', WithinLimit, Fates, RowsFit
  PROVE  WithinLimit'
<1> SUFFICES ASSUME NEW t \in Rows', task'[t].state = "scheduled"
    PROVE  task'[t].attempts < Limit(t)'
  BY DEF WithinLimit
<1>1. t \in TaskId /\ Fate(t) /\ Limit(t)' \in 1..AttemptCap
  <2>1. LimitsPositive'
    BY LimitsArePositive, PTL
  <2> QED
    BY <2>1 DEF LimitsPositive, Rows, Fates
<1>2. CASE Born(t) \/ Reset(t)
  BY <1>1, <1>2 DEF Born, Reset
<1>3. CASE Kept(t)
  <2>1. t \in Rows /\ task[t].state = "scheduled" /\ task'[t].attempts = task[t].attempts
    BY <1>3 DEF Kept, Stays
  <2>2. task'[t].max = task[t].max
    BY <2>1 DEF RowsFit, Settled, Held
  <2>3. Limit(t)' = Limit(t)
    BY <1>3, <2>2, LimitStays DEF Kept
  <2> QED
    BY <2>1, <2>3 DEF WithinLimit
<1>4. CASE Settled(t)
  BY <1>4 DEF RowsFit, Settled, Stays
<1>5. ~(Absent(t) \/ Dropped(t) \/ Begun(t) \/ CalledOff(t))
  BY DEF Absent, Dropped, Begun, CalledOff, Held
<1> QED
  BY <1>1, <1>2, <1>3, <1>4, <1>5 DEF Fate

\* A call waited for was claimed, or waited for before; a claim is of an attempt that begins.
CallsFrom ==
    /\ \A d \in Active' : del'[d].phase = "calling" =>
          \/ d \in Active /\ del'[d] = del[d]
          \/ \E c \in eng.claimed : del'[d].task = c.task /\ del'[d].attempt = c.attempt
    /\ \A c \in eng'.claimed : c \in eng.claimed \/ Begun(c.task)

LEMMA NextFrom ==
  ASSUME IInv, Next
  PROVE  CallsFrom
<1>1. UNCHANGED <<del, eng>> => CallsFrom
  BY DEF CallsFrom, Active
<1>2. UNCHANGED memory => CallsFrom
  BY <1>1 DEF memory
<1>3. CASE Administer
  BY <1>2, <1>3 DEF Administer, PutQueue, DeleteQueue, PurgeQueue
<1>4. ASSUME NEW t \in TaskId, Request(t) \/ Time(t) PROVE CallsFrom
  BY <1>2, <1>4 DEF Request, Add, Cancel, RunAgain, RunCopy, Time, BecomesDue, LeaseAges, KeepExpires
<1>5. CASE Work
  BY <1>2, <1>5 DEF Work, Lease, Ack, Extend, Release
<1>6. CASE Engine
  <2>1. CASE TickBegin \/ TickEnd
    <3>1. CASE TickBegin
      BY <3>1 DEF TickBegin, NoPass, CallsFrom, Active
    <3>2. CASE TickEnd
      BY <3>2 DEF TickEnd, NoPass, CallsFrom, Active
    <3> QED
      BY <2>1, <3>1, <3>2
  <2>2. CASE Sweep
    <3>1. eng'.claimed = eng.claimed /\ UNCHANGED del
      BY <2>2 DEF Sweep, Housekeep, IInv, TypeOK, Pass
    <3> QED
      BY <3>1 DEF CallsFrom, Active
  <2>3. ASSUME NEW T \in SUBSET {t \in Rows : task[t].due = "now"}, Claim(T) PROVE CallsFrom
    <3>1. /\ eng'.claimed = {[task |-> t, attempt |-> task[t].attempts + 1,
                               queue |-> task[t].queue] : t \in T}
          /\ UNCHANGED del
      BY <2>3 DEF Claim, IInv, TypeOK, Pass
    <3>2. \A t \in T : t \in TaskId /\ Begun(t)
      BY <2>3, ClaimFates, RowsMinted
    <3> QED
      BY <3>1, <3>2 DEF CallsFrom, Active
  <2>4. ASSUME NEW c \in eng.claimed, NEW d \in Delivery, Start(c, d) PROVE CallsFrom
    <3>1. /\ eng'.claimed \subseteq eng.claimed
          /\ del'[d].task = c.task /\ del'[d].attempt = c.attempt
          /\ \A e \in Delivery \ {d} : del'[e] = del[e]
      BY <2>4 DEF Start, IInv, TypeOK, Pass
    <3> QED
      BY <3>1 DEF CallsFrom, Active
  <2> QED
    BY <1>6, <2>1, <2>2, <2>3, <2>4 DEF Engine
<1>7. ASSUME NEW d \in Delivery, Goroutines(d) PROVE CallsFrom
  <2>1. d \in Active
    BY <1>7 DEF Goroutines, Call, NoteLate, Leave
  <2>2. PICK phase \in {"held", "leaving", "idle"} :
           /\ del'[d].phase = phase /\ UNCHANGED eng
           /\ \A e \in Delivery \ {d} : del'[e] = del[e]
    <3>1. CASE Leave(d)
      <4>1. del' = [del EXCEPT ![d] = Idle] /\ UNCHANGED eng
        BY <3>1 DEF Leave
      <4> QED
        BY <4>1 DEF Idle, IInv, TypeOK
    <3>2. CASE Call(d) \/ NoteLate(d)
      <4>1. PICK phase \in {"held", "leaving"} :
               del' = [del EXCEPT ![d].phase = phase] /\ UNCHANGED eng
        BY <3>2 DEF Call, Deliver, NoteLate
      <4> QED
        BY <2>1, <4>1, Typed DEF IInv, TypeOK, Goroutine
    <3> QED
      BY <1>7, <3>1, <3>2 DEF Goroutines
  <2> QED
    BY <2>1, <2>2 DEF CallsFrom, Active
<1>8. CASE Failure
  <2>1. Active' = {} /\ eng'.claimed = {}
    <3>1. Restart
      BY <1>8 DEF Failure, Crash, CrashInSettle
    <3> QED
      BY <3>1 DEF Restart, Active, NoPass
  <2> QED
    BY <2>1 DEF CallsFrom
<1> QED
  BY <1>3, <1>4, <1>5, <1>6, <1>7, <1>8 DEF Next

\* What an attempt's call may be, its task stays able to have.
LEMMA AttemptFits ==
  ASSUME LimitsFixed, IInv, IInv', QueuesPossible, QueuesPossible', WithinLimit, Fates, RowsFit,
         NEW t \in minted, NEW n \in 1..AttemptCap, t \in Rows',
         task'[t].state = "running" /\ task'[t].attempts = n,
         \/ t \in Rows => n <= Limit(t)
         \/ Begun(t)
  PROVE  n <= Limit(t)'
<1>1. t \in TaskId /\ Fate(t)
  BY DEF IInv, TypeOK, Fates
<1>2. Kept(t) \/ Begun(t)
  BY <1>1 DEF Fate, Absent, Born, Dropped, Settled, CalledOff, Reset, Finished
<1>3. t \in Rows /\ Stays(t) /\ task'[t].max = task[t].max
  BY <1>2 DEF Kept, Begun, Stays, RowsFit, Settled, Held, Finished
<1>4. Limit(t)' = Limit(t) /\ Limit(t) \in 1..AttemptCap /\ task[t].attempts \in 0..AttemptCap
  BY <1>3, LimitStays, LimitsArePositive DEF LimitsPositive
<1>5. CASE Begun(t)
  BY <1>3, <1>4, <1>5 DEF Begun, WithinLimit
<1> QED
  BY <1>3, <1>4, <1>5

LEMMA WithinStep ==
  ASSUME LimitsFixed, IInv, IInv', QueuesPossible, QueuesPossible', WithinInv, Next
  PROVE  WithinInv'
<1>1. CallsFit
  BY DEF WithinInv, CallsFit
<1>2. CASE ~Torn
  <2>1. Fates /\ RowsFit
    BY <1>1, <1>2, NextLetters, NextFits
  <2>2. WithinLimit'
    BY <2>1, WaitingFits DEF WithinInv
  <2>3. CallsFrom
    BY NextFrom
  <2>4. ASSUME NEW c \in eng'.claimed, c.task \in Rows' PROVE c.attempt <= Limit(c.task)'
    <3>1. task'[c.task].state = "running" /\ task'[c.task].attempts = c.attempt
      BY <2>4 DEF IInv, ClaimsHold
    <3>2. c.task \in minted /\ c.attempt \in 1..AttemptCap
      <4>1. c.attempt \in 1..AttemptCap
        BY DEF IInv, TypeOK, Pass, Claimed
      <4> QED
        BY <2>3, <4>1, RowsMinted DEF CallsFrom, IInv, Known, Begun, Stays
    <3>3. (c.task \in Rows => c.attempt <= Limit(c.task)) \/ Begun(c.task)
      BY <2>3 DEF CallsFrom, WithinInv
    <3> QED
      BY <2>1, <2>4, <3>1, <3>2, <3>3, AttemptFits DEF WithinInv
  <2>5. ASSUME NEW d \in Active', del'[d].phase = "calling", del'[d].task \in Rows'
        PROVE  del'[d].attempt <= Limit(del[d].task)'
    <3> SUFFICES ASSUME NEW t, t = del'[d].task, NEW n, n = del'[d].attempt
                 PROVE  n <= Limit(t)'
      BY DEF Limit, SettingsOf
    <3>1. task'[t].state = "running" /\ task'[t].attempts = n /\ t \in Rows'
      BY <2>5 DEF IInv, AnswerFindsAttempt, Current
    <3>2. n \in 1..AttemptCap
      BY DEF IInv, TypeOK, Active, Goroutine
    <3>3. t \in minted /\ (t \in Rows => n <= Limit(t))
      BY <2>3, <2>5 DEF CallsFrom, WithinInv, IInv, Known
    <3> QED
      BY <2>1, <3>1, <3>2, <3>3, AttemptFits DEF WithinInv
  <2> QED
    BY <2>2, <2>4, <2>5 DEF WithinInv
<1>3. CASE Torn
  <2>1. PICK d \in Delivery, o \in Outcomes, old \in Old : CrashInSettle(d, o, old)
    BY <1>3 DEF Torn
  <2>2. Active' = {} /\ eng'.claimed = {}
    BY <2>1 DEF CrashInSettle, Restart, Active, NoPass
  <2>3. WithinLimit'
    <3> SUFFICES ASSUME NEW t \in Rows', task'[t].state = "scheduled"
        PROVE  task'[t].attempts < Limit(t)'
      BY DEF WithinLimit
    <3>1. del[d].task \in Rows /\ task[del[d].task].state = "running"
      BY <2>1 DEF CrashInSettle, Current
    <3>2. t # del[d].task
      <4>1. /\ \A x \in TaskId : Absent(x) \/ Kept(x) \/ Settled(x)
            /\ \A x \in TaskId : Settled(x) => task'[x].state = "failed"
        BY <2>1, CrashInSettleFates
      <4>2. task[t].state = "scheduled"
        BY <4>1 DEF Rows, Absent, Kept
      <4> QED
        BY <3>1, <4>2
    <3>3. t \in Rows /\ task'[t] = task[t] /\ UNCHANGED queue
      BY <2>1, <3>2, RowsMinted DEF CrashInSettle, Rows
    <3> QED
      BY <3>3 DEF WithinInv, WithinLimit, Limit, SettingsOf
  <2> QED
    BY <2>2, <2>3 DEF WithinInv
<1> QED
  BY <1>2, <1>3

LEMMA WithinNext ==
  ASSUME LimitsFixed, IInv, QueuesPossible, WithinInv, [Next]_vars
  PROVE  (QueuesPossible /\ WithinInv)'
<1>1. CASE Next
  BY <1>1, NextInv, NextQueues, WithinStep
<1>2. CASE UNCHANGED vars
  <2>1. /\ Rows' = Rows /\ Active' = Active /\ Queues' = Queues
        /\ UNCHANGED <<queue, task, del, eng>>
    BY <1>2 DEF vars, Rows, Active, Queues
  <2> QED
    BY <2>1 DEF QueuesPossible, Possible, WithinInv, WithinLimit, Limit, SettingsOf
<1> QED
  BY <1>1, <1>2

\* While no queue changes its limit on attempts and no deferral sets one: whatever retries,
\* deferrals, limits of their own, releases and losses did to a task, it waits only with attempts
\* left, so no claim begins an attempt past its limit.
THEOREM LimitsKept == LimitsFixed => (Spec => []WithinLimit)
<1> SUFFICES ASSUME LimitsFixed PROVE Spec => []WithinLimit
  OBVIOUS
<1>1. Init => QueuesPossible /\ WithinInv
  <2> SUFFICES ASSUME Init PROVE QueuesPossible /\ WithinInv
    OBVIOUS
  <2>1. Rows = {} /\ Active = {} /\ eng.claimed = {}
    BY DEF Init, Rows, Active, NoPass
  <2>2. QueuesPossible
    BY DEF Init, QueuesPossible, Queues, Possible
  <2> QED
    BY <2>1, <2>2 DEF WithinInv, WithinLimit
<1>2. IInv /\ (QueuesPossible /\ WithinInv) /\ [Next]_vars => (QueuesPossible /\ WithinInv)'
  BY WithinNext
<1>3. WithinInv => WithinLimit
  BY DEF WithinInv
<1> QED
  BY <1>1, <1>2, <1>3, Invariance, PTL DEF Spec

=============================================================================
