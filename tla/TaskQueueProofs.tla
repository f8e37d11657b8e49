--------------------------- MODULE TaskQueueProofs ---------------------------
(***************************************************************************)
(* Proofs about TaskQueue, for every set of tasks, queues and goroutines   *)
(* and every bound.                                                        *)
(***************************************************************************)
EXTENDS TaskQueue, FiniteSetTheorems, TLAPS

-----------------------------------------------------------------------------
(* The inductive invariant *)

\* Ids in use have been given out.
Known ==
    /\ Rows \subseteq minted
    /\ \A d \in Active : del[d].task \in minted
    /\ \A c \in eng.claimed : c.task \in minted

\* A task that waits has an attempt left under the largest limit, and a task
\* that is held is in one.
AttemptsFit ==
    \A t \in Rows : /\ task[t].state = "scheduled" => task[t].attempts < AttemptCap
                    /\ task[t].state \in Held => task[t].attempts >= 1

\* The pass's snapshot covers what is in flight until the pass claims.
SnapshotCovers == eng.pc \in {"sweep", "claim"} => inflight \subseteq eng.busy

\* What is claimed and not started is running at the attempt claimed, or purged,
\* and its task has neither a slot nor another claim.
ClaimsHold ==
    /\ eng.pc # "start" => eng.claimed = {}
    /\ \A c \in eng.claimed :
          /\ c.task \notin inflight
          /\ c.task \in Rows => task[c.task].state = "running" /\ task[c.task].attempts = c.attempt
    /\ \A c, e \in eng.claimed : c.task = e.task => c = e

\* Only a finished task has a retention.
KeepsFinished == \A t \in Rows : task[t].keep # "none" => task[t].state \in Finished

IInv == /\ TypeOK /\ Known /\ AttemptsFit /\ KeepsFinished /\ NothingOrphaned
        /\ SlotsMatch /\ InflightBound /\ SnapshotCovers /\ ClaimsHold /\ AnswerFindsAttempt

-----------------------------------------------------------------------------
(* Rows and types *)

\* No attempts, no deferrals and no lease are within their bounds.
LEMMA Zeros == 0 \in 0..AttemptCap /\ 0 \in 0..MaxDefers /\ 0 \in 0..MaxLeases
  BY BoundsAssumption

\* A row is not the absence of one, a goroutine not an idle one, a queue not none.
LEMMA Distinct ==
    /\ \A r \in Row : r # NoRow /\ r.state # "none"
    /\ \A g \in Goroutine : g # Idle
    /\ \A s \in QueueSettings : s # NoQueue
  BY DEF Row, NoRow, Goroutine, Idle, QueueSettings, NoQueue, Held, Finished

\* Rows, queues and goroutines have their records.
LEMMA Typed ==
  ASSUME TypeOK
  PROVE  /\ \A t \in Rows : t \in TaskId /\ task[t] \in Row
         /\ \A q \in Queues : q \in QName /\ queue[q] \in QueueSettings
         /\ \A d \in Active : d \in Delivery /\ del[d] \in Goroutine
  BY DEF TypeOK, Rows, Queues, Active

\* A new row is one.
LEMMA NewRowType ==
  ASSUME NEW q \in QName, NEW own \in 0..AttemptCap, NEW of \in TaskId \cup {NoTask}
  PROVE  NewRow(q, own, of) \in Row
  BY Zeros DEF NewRow, Row, Held, Finished

LEMMA InitInv == Init => IInv
<1> SUFFICES ASSUME Init PROVE IInv
  OBVIOUS
<1> USE BoundsAssumption, NamesAssumption, ValuesAssumption
<1>1. TypeOK
  BY DEF Init, TypeOK, NoPass, Pass, NoRecords, AttemptStatus
<1>2. Rows = {} /\ Active = {}
  BY DEF Init, Rows, Active
<1>3. SlotsMatch
  BY <1>2, FS_EmptySet DEF Init, SlotsMatch
<1>5. InflightBound
  <2>1. inflight \cup {c.task : c \in eng.claimed} = {}
    BY DEF Init, NoPass
  <2>2. Cardinality(inflight \cup {c.task : c \in eng.claimed}) = 0
    BY <2>1, FS_EmptySet
  <2> QED
    BY <2>2 DEF InflightBound
<1>4. NothingOrphaned
  <2>1. Queues \subseteq {DefaultQueue}
    BY DEF Init, Queues
  <2>2. \A q \in Queues : queue[q] = DefaultSettings
    BY <2>1 DEF Init, Queues
  <2> QED
    BY <1>2, <2>2 DEF NothingOrphaned
<1> QED
  BY <1>1, <1>2, <1>3, <1>4, <1>5 DEF Init, IInv, Known, AttemptsFit, KeepsFinished, SnapshotCovers,
     ClaimsHold, AnswerFindsAttempt, NoPass

-----------------------------------------------------------------------------
(* Settling *)

\* What a row becomes keeps it a row.
LEMMA RowChanges ==
  ASSUME NEW r \in Row
  PROVE  /\ \A state \in Finished : Ended(r, state) \in Row
         /\ Waiting(r) \in Row
         /\ Requeued(r) \in Row
         /\ r.attempts >= 1 /\ r.defers < MaxDefers => DeferredRow(r) \in Row
         /\ \A own \in 0..AttemptCap : [r EXCEPT !.max = own] \in Row
<1> USE Zeros DEF Row, Held, Finished
<1>1. \A state \in Finished : Ended(r, state) \in Row
  BY DEF Ended
<1>2. Waiting(r) \in Row
  BY DEF Waiting
<1>3. Requeued(r) \in Row
  BY DEF Requeued
<1>4. r.attempts >= 1 /\ r.defers < MaxDefers => DeferredRow(r) \in Row
  <2>1. r.attempts \in 0..AttemptCap /\ r.defers \in 0..MaxDefers
    OBVIOUS
  <2>2. r.attempts >= 1 => r.attempts - 1 \in 0..AttemptCap
    BY <2>1, BoundsAssumption
  <2>3. r.defers < MaxDefers => r.defers + 1 \in 0..MaxDefers
    BY <2>1, BoundsAssumption
  <2>4. Waiting(r).attempts = r.attempts /\ Waiting(r).defers = r.defers
    BY DEF Waiting
  <2>5. ASSUME NEW w \in Row, w.attempts - 1 \in 0..AttemptCap, w.defers + 1 \in 0..MaxDefers
        PROVE  [w EXCEPT !.attempts = @ - 1, !.defers = @ + 1] \in Row
    BY <2>5
  <2> QED
    BY <2>2, <2>3, <2>4, <2>5, <1>2 DEF DeferredRow
<1>5. \A own \in 0..AttemptCap : [r EXCEPT !.max = own] \in Row
  OBVIOUS
<1> QED
  BY <1>1, <1>2, <1>3, <1>4, <1>5

\* A row's queue and limits.
LEMMA LimitType ==
  ASSUME IInv, NEW t \in Rows, NEW o \in Outcome
  PROVE  /\ SettingsOf(t) \in QueueSettings
         /\ Limit(t) \in 1..AttemptCap
         /\ NewLimit(t, o) \in 1..AttemptCap
         /\ OwnLimit(t, o) \in 0..AttemptCap
<1>1. task[t] \in Row /\ task[t].queue \in Queues
  BY Typed DEF IInv, NothingOrphaned
<1>2. SettingsOf(t) \in QueueSettings
  BY <1>1, Typed DEF IInv, SettingsOf
<1>3. Limit(t) \in 1..AttemptCap
  BY <1>1, <1>2 DEF Limit, Row, QueueSettings
<1> QED
  BY <1>1, <1>2, <1>3 DEF NewLimit, OwnLimit, Outcome, Row

\* A settled row waits, with attempts left, or has finished.
LEMMA SettledRowType ==
  ASSUME IInv, NEW t \in Rows, task[t].state \in Held, NEW o \in Outcome, NEW old \in BOOLEAN
  PROVE  LET r == SettledRow(t, o, old)
         IN  /\ r \in Row
             /\ r.queue = task[t].queue
             /\ \/ r.state = "scheduled" /\ r.attempts < AttemptCap /\ r.keep = "none"
                \/ r.state \in Finished
<1> DEFINE r == [task[t] EXCEPT !.max = OwnLimit(t, o)]
<1>1. task[t] \in Row /\ task[t].attempts \in 1..AttemptCap /\ task[t].keep = "none"
  BY Typed DEF IInv, AttemptsFit, KeepsFinished, Row, Held, Finished
<1>2. /\ r \in Row /\ r.attempts = task[t].attempts /\ r.defers = task[t].defers
      /\ r.keep = "none" /\ r.queue = task[t].queue
  BY <1>1, LimitType, RowChanges DEF Row
<1> HIDE DEF r
<1>3. CASE Verdict(t, o, old) = "deferred"
  <2>1. task[t].defers < MaxDefers
    BY <1>3 DEF Verdict, Deferred
  <2>2. SettledRow(t, o, old) = DeferredRow(r)
    BY <1>3 DEF SettledRow, r
  <2>3. DeferredRow(r) \in Row
    BY <1>1, <1>2, <2>1, RowChanges
  <2>4. /\ DeferredRow(r).queue = r.queue /\ DeferredRow(r).state = "scheduled"
        /\ DeferredRow(r).attempts = r.attempts - 1 /\ DeferredRow(r).keep = r.keep
    BY <1>2 DEF DeferredRow, Waiting, Row
  <2>5. task[t].attempts - 1 < AttemptCap
    BY <1>1, BoundsAssumption
  <2> QED
    BY <1>2, <2>2, <2>3, <2>4, <2>5
<1>4. CASE Verdict(t, o, old) = "again"
  <2>1. Again(t, o, old)
    BY <1>4 DEF Verdict
  <2>2. task[t].attempts < AttemptCap
    BY <1>1, <2>1, LimitType, BoundsAssumption DEF Again
  <2>3. SettledRow(t, o, old) = Waiting(r)
    BY <1>4 DEF SettledRow, r
  <2>4. /\ Waiting(r).queue = r.queue /\ Waiting(r).state = "scheduled"
        /\ Waiting(r).attempts = r.attempts /\ Waiting(r).keep = r.keep
    BY <1>2 DEF Waiting, Row
  <2> QED
    BY <1>2, <2>2, <2>3, <2>4, RowChanges
<1>5. CASE Verdict(t, o, old) \in {"done", "failed"}
  <2>1. SettledRow(t, o, old) = Ended(r, Verdict(t, o, old))
    BY <1>5 DEF SettledRow, r
  <2>2. \A state : Ended(r, state).queue = r.queue /\ Ended(r, state).state = state
    BY <1>2 DEF Ended, Row
  <2>3. Verdict(t, o, old) \in Finished
    BY <1>5 DEF Finished
  <2> QED
    BY <1>2, <2>1, <2>2, <2>3, RowChanges
<1>6. Verdict(t, o, old) \in {"deferred", "again", "done", "failed"}
  BY DEF Verdict
<1> QED
  BY <1>3, <1>4, <1>5, <1>6

-----------------------------------------------------------------------------
(* What a step on the tables must show *)

\* A row that satisfies the invariant, of a queue that exists.
GoodRow(r) ==
    /\ r \in Row /\ r.queue \in Queues
    /\ r.state = "scheduled" => r.attempts < AttemptCap
    /\ r.state \in Held => r.attempts >= 1
    /\ r.keep # "none" => r.state \in Finished

LEMMA RowsGood == IInv => \A t \in Rows : GoodRow(task[t])
  BY Typed DEF IInv, GoodRow, AttemptsFit, KeepsFinished, NothingOrphaned

\* The tables' part of the invariant.
TablesInv ==
    /\ queue \in [QName -> QueueSettings \cup {NoQueue}]
    /\ task \in [TaskId -> Row \cup {NoRow}]
    /\ attempt \in [TaskId -> [1..AttemptCap -> AttemptStatus]]
    /\ minted \subseteq TaskId /\ leases \in 0..MaxLeases
    /\ Rows \subseteq minted
    /\ AttemptsFit /\ KeepsFinished /\ NothingOrphaned

\* The goroutines' and the engine's part.
MemoryInv ==
    /\ inflight \subseteq TaskId /\ running \in [QName -> Nat]
    /\ del \in [Delivery -> Goroutine \cup {Idle}]
    /\ eng \in Pass /\ crashes \in 0..MaxCrashes
    /\ SlotsMatch /\ InflightBound /\ SnapshotCovers

\* What ties a goroutine or a claim to its row.
TiesInv ==
    /\ \A d \in Active : del[d].task \in minted
    /\ \A c \in eng.claimed : c.task \in minted
    /\ ClaimsHold /\ AnswerFindsAttempt

LEMMA Parts == IInv <=> TablesInv /\ MemoryInv /\ TiesInv
  BY DEF IInv, TypeOK, Known, TablesInv, MemoryInv, TiesInv

\* Outside T a running row stays at its attempt or goes, and no id comes back.
RunningKept(T) ==
    \A t \in minted \ T :
       \/ task'[t] = NoRow
       \/ /\ t \in Rows
          /\ task[t].state = "running"
                => task'[t].state = "running" /\ task'[t].attempts = task[t].attempts

\* Tables whose queues stay and whose rows are all good.
LEMMA TablesStep ==
  ASSUME IInv, UNCHANGED queue,
         NEW f, task' = [t \in TaskId |-> f[t]],
         \A t \in TaskId : f[t] = NoRow \/ (GoodRow(f[t]) /\ t \in minted'),
         attempt' \in [TaskId -> [1..AttemptCap -> AttemptStatus]],
         minted' \subseteq TaskId, leases' \in 0..MaxLeases
  PROVE  TablesInv'
<1>1. Queues' = Queues
  BY DEF Queues
<1>2. task' \in [TaskId -> Row \cup {NoRow}]
  BY DEF GoodRow
<1>3. \A t \in Rows' : t \in minted' /\ GoodRow(task'[t])
  BY DEF Rows
<1>4. Rows' \subseteq minted' /\ AttemptsFit' /\ KeepsFinished'
  BY <1>3 DEF AttemptsFit, KeepsFinished, GoodRow
<1>5. NothingOrphaned'
  BY <1>1, <1>3 DEF NothingOrphaned, GoodRow, IInv
<1> QED
  BY <1>2, <1>4, <1>5 DEF TablesInv, IInv, TypeOK

\* The ties hold over a step that settles or drops rows nothing is waiting on,
\* and starts nothing.
LEMMA TiesStep ==
  ASSUME IInv, NEW T, RunningKept(T), minted \subseteq minted', inflight' \subseteq inflight,
         \A d \in Active' : /\ d \in Active /\ del'[d].task = del[d].task
                            /\ del'[d].phase = "calling" => del'[d] = del[d] /\ del[d].task \notin T,
         \A c \in eng'.claimed : c \in eng.claimed /\ c.task \notin T,
         eng'.pc # "start" => eng'.claimed = {}
  PROVE  TiesInv'
<1>1. ClaimsHold'
  <2> SUFFICES ASSUME NEW c \in eng'.claimed, c.task \in Rows'
      PROVE  task'[c.task].state = "running" /\ task'[c.task].attempts = c.attempt
    BY DEF ClaimsHold, IInv
  <2>1. c.task \in minted \ T /\ task'[c.task] # NoRow
    BY DEF IInv, Known, Rows
  <2> QED
    BY <2>1 DEF RunningKept, IInv, ClaimsHold
<1>2. AnswerFindsAttempt'
  <2> SUFFICES ASSUME NEW d \in Active', del'[d].phase = "calling", del'[d].task \in Rows'
      PROVE  Current(d)'
    BY DEF AnswerFindsAttempt
  <2>1. del[d].task \in minted \ T /\ task'[del[d].task] # NoRow /\ del'[d] = del[d]
    BY DEF IInv, Known, Rows
  <2>2. del[d].task \in Rows /\ Current(d)
    BY <2>1 DEF RunningKept, IInv, AnswerFindsAttempt
  <2> QED
    BY <2>1, <2>2 DEF RunningKept, Current
<1> QED
  BY <1>1, <1>2 DEF TiesInv, IInv, Known

\* A request, or time, changes the tables and nothing in memory.
LEMMA RequestStep ==
  ASSUME IInv, UNCHANGED memory, TablesInv', RunningKept({}), minted \subseteq minted'
  PROVE  IInv'
<1>1. MemoryInv'
  BY DEF memory, IInv, TypeOK, MemoryInv, SlotsMatch, InflightBound, SnapshotCovers, Active
<1>2. TiesInv'
  <2>1. Active' = Active /\ del' = del /\ eng' = eng /\ inflight' = inflight
    BY DEF memory, Active
  <2> QED
    BY <2>1, TiesStep DEF IInv, ClaimsHold
<1> QED
  BY <1>1, <1>2 DEF IInv, TypeOK, Known, TablesInv, MemoryInv, TiesInv

\* Settling the held rows of T, and dropping those of gone.
LEMMA SettleStep ==
  ASSUME IInv, NEW T \in SUBSET Rows, \A t \in T : task[t].state \in Held,
         NEW out \in [T -> Outcome], NEW aged, NEW copy \in Copies(T),
         NEW gone \in SUBSET Rows, T \cap gone = {},
         Settle(T, out, aged, copy, gone), UNCHANGED <<queue, leases>>
  PROVE  /\ TablesInv' /\ minted \subseteq minted'
         /\ \A t \in minted \ T : task'[t] \in {task[t], NoRow}
         /\ RunningKept(T)
<1> DEFINE f == [t \in TaskId |->
          CASE t \in T -> SettledRow(t, out[t], t \in aged)
            [] t \in Image(copy) ->
                  LET of == CHOOSE x \in DOMAIN copy : copy[x] = t
                  IN  NewRow(SettingsOf(of).dlq, 0, of)
            [] t \in gone -> NoRow
            [] OTHER -> task[t]]
<1>1. /\ DOMAIN copy \subseteq T /\ Image(copy) \subseteq TaskId \ minted
      /\ T \subseteq minted /\ gone \subseteq minted
  BY DEF Copies, Image, IInv, Known
<1>2. task' = f /\ minted' = minted \cup Image(copy)
  BY DEF Settle
<1>3. \A t \in T : f[t] = SettledRow(t, out[t], t \in aged)
  BY <1>1 DEF IInv, TypeOK
<1>4. \A t \in Image(copy) : \E of \in DOMAIN copy : f[t] = NewRow(SettingsOf(of).dlq, 0, of)
  <2> SUFFICES ASSUME NEW t \in Image(copy)
      PROVE  \E of \in DOMAIN copy : f[t] = NewRow(SettingsOf(of).dlq, 0, of)
    OBVIOUS
  <2> DEFINE of == CHOOSE x \in DOMAIN copy : copy[x] = t
  <2>1. of \in DOMAIN copy
    BY DEF Image
  <2>2. t \notin T /\ t \notin gone /\ t \in TaskId
    BY <1>1
  <2>3. f[t] = NewRow(SettingsOf(of).dlq, 0, of)
    BY <2>2
  <2> QED
    BY <2>1, <2>3
<1>5. \A t \in TaskId \ (T \cup Image(copy)) : f[t] = IF t \in gone THEN NoRow ELSE task[t]
  OBVIOUS
<1> HIDE DEF f
<1>6. \A t \in TaskId : f[t] = NoRow \/ (GoodRow(f[t]) /\ t \in minted')
  <2> TAKE t \in TaskId
  <2>1. CASE t \in T
    <3>1. out[t] \in Outcome /\ task[t].queue \in Queues
      BY <2>1, RowsGood DEF GoodRow
    <3>2. (t \in aged) \in BOOLEAN
      OBVIOUS
    <3>3. GoodRow(SettledRow(t, out[t], t \in aged))
      BY <2>1, <3>1, <3>2, SettledRowType DEF GoodRow, Held, Finished
    <3> QED
      BY <1>1, <1>2, <1>3, <2>1, <3>3
  <2>2. CASE t \in Image(copy)
    <3>1. PICK of \in DOMAIN copy : f[t] = NewRow(SettingsOf(of).dlq, 0, of)
      BY <1>4, <2>2
    <3>2. SettingsOf(of).dlq \in Queues /\ of \in TaskId
      BY <1>1 DEF Settle, DeadLettered, IInv, TypeOK, Rows
    <3>3. GoodRow(f[t])
      BY <3>1, <3>2, NewRowType, Zeros, BoundsAssumption DEF GoodRow, NewRow, Queues, Held
    <3> QED
      BY <1>2, <2>2, <3>3
  <2>3. CASE t \notin T \cup Image(copy)
    <3>1. f[t] \in {task[t], NoRow}
      BY <1>5, <2>3
    <3>2. task[t] = NoRow \/ (GoodRow(task[t]) /\ t \in minted)
      BY RowsGood DEF Rows, IInv, Known
    <3>3. CASE f[t] = task[t]
      BY <1>2, <3>2, <3>3
    <3> QED
      BY <3>1, <3>3
  <2> QED
    BY <2>1, <2>2, <2>3
<1>7. attempt' \in [TaskId -> [1..AttemptCap -> AttemptStatus]]
  <2>1. \A t \in T : Close(t, out[t]) \in [1..AttemptCap -> AttemptStatus]
    BY DEF Close, Closed, AttemptStatus, IInv, TypeOK, Rows
  <2>2. NoRecords \in [1..AttemptCap -> AttemptStatus]
    BY DEF NoRecords, AttemptStatus
  <2>3. attempt \in [TaskId -> [1..AttemptCap -> AttemptStatus]]
    BY DEF IInv, TypeOK
  <2> QED
    BY <2>1, <2>2, <2>3 DEF Settle
<1>8. minted' \subseteq TaskId /\ leases' \in 0..MaxLeases
  BY <1>1, <1>2 DEF IInv, TypeOK
<1>9. TablesInv'
  <2>1. task' = [t \in TaskId |-> f[t]]
    BY <1>2 DEF f
  <2> QED
    BY <1>6, <1>7, <1>8, <2>1, TablesStep
<1>10. \A t \in minted \ T : task'[t] \in {task[t], NoRow}
  BY <1>1, <1>2, <1>5 DEF IInv, TypeOK
<1> QED
  BY <1>2, <1>9, <1>10 DEF RunningKept, Rows, IInv, TypeOK

-----------------------------------------------------------------------------
(* Requests, workers and time *)

\* Tables of which one row changes.
LEMMA RowTables ==
  ASSUME IInv, NEW t \in TaskId, NEW r, task' = [task EXCEPT ![t] = r], UNCHANGED queue,
         GoodRow(r), minted' = minted \cup {t}, leases' \in 0..MaxLeases,
         attempt' \in [TaskId -> [1..AttemptCap -> AttemptStatus]]
  PROVE  TablesInv'
<1> DEFINE f == [task EXCEPT ![t] = r]
<1>1. /\ task \in [TaskId -> Row \cup {NoRow}]
      /\ minted \subseteq TaskId /\ Rows \subseteq minted
  BY DEF IInv, TypeOK, Known
<1>2. \A x \in TaskId : f[x] = NoRow \/ (GoodRow(f[x]) /\ x \in minted')
  BY <1>1, RowsGood DEF Rows
<1>3. task' = [x \in TaskId |-> f[x]]
  BY <1>1
<1> HIDE DEF f
<1> QED
  BY <1>1, <1>2, <1>3, TablesStep

\* A step that changes one row, and attempt records, and nothing else.
LEMMA RowStep ==
  ASSUME IInv, NEW t \in TaskId, NEW r,
         task' = [task EXCEPT ![t] = r], UNCHANGED <<queue, memory>>,
         GoodRow(r), minted' = minted \cup {t}, leases' \in 0..MaxLeases,
         attempt' \in [TaskId -> [1..AttemptCap -> AttemptStatus]],
         \/ t \notin minted
         \/ t \in Rows /\ task[t].state # "running"
         \/ t \in Rows /\ r.state = "running" /\ r.attempts = task[t].attempts
  PROVE  IInv'
<1>1. /\ task \in [TaskId -> Row \cup {NoRow}]
      /\ minted \subseteq TaskId /\ Rows \subseteq minted
  BY DEF IInv, TypeOK, Known
<1>2. RunningKept({})
  BY <1>1 DEF RunningKept, Rows
<1> QED
  BY <1>2, RowTables, RequestStep

\* An id given out before is a row's own.
LEMMA Minted ==
  ASSUME IInv, NEW t \in Rows
  PROVE  t \in TaskId /\ minted \cup {t} = minted
  BY DEF IInv, Known, Rows

LEMMA AddInv ==
  ASSUME IInv, NEW t \in TaskId, NEW q \in QName, NEW own \in OwnLimits, Add(t, q, own)
  PROVE  IInv'
<1>1. GoodRow(NewRow(q, own, NoTask))
  BY NewRowType, BoundsAssumption, ValuesAssumption DEF Add, GoodRow, NewRow, Held
<1> QED
  BY <1>1, RowStep DEF Add, IInv, TypeOK

LEMMA CancelInv ==
  ASSUME IInv, NEW t \in TaskId, Cancel(t)
  PROVE  IInv'
<1>1. t \in Rows /\ GoodRow(task[t])
  BY RowsGood DEF Cancel
<1>2. GoodRow(Ended(task[t], "cancelled"))
  <2>1. Ended(task[t], "cancelled") \in Row
    BY <1>1, RowChanges DEF GoodRow, Finished
  <2>2. Ended(task[t], "cancelled").queue = task[t].queue
        /\ Ended(task[t], "cancelled").state = "cancelled"
    BY <1>1 DEF Ended, GoodRow, Row
  <2> QED
    BY <1>1, <2>1, <2>2 DEF GoodRow, Held, Finished
<1>3. task[t].state # "running" /\ task' = [task EXCEPT ![t] = Ended(task[t], "cancelled")]
  BY DEF Cancel
<1> QED
  BY <1>1, <1>2, <1>3, Minted, RowStep DEF Cancel, IInv, TypeOK, ids

LEMMA RunAgainInv ==
  ASSUME IInv, NEW t \in TaskId, RunAgain(t)
  PROVE  IInv'
<1> DEFINE r == IF task[t].state = "scheduled" THEN [task[t] EXCEPT !.due = "now"]
                ELSE Requeued(task[t])
<1>1. t \in Rows /\ GoodRow(task[t]) /\ task[t] \in Row
  BY RowsGood DEF RunAgain, GoodRow
<1>2. GoodRow(r)
  <2>1. r \in Row
    BY <1>1, RowChanges DEF Row
  <2>2. r.queue = task[t].queue /\ r.state = "scheduled"
    BY <1>1 DEF Requeued, Row
  <2>3. r.attempts < AttemptCap
    BY <1>1, BoundsAssumption DEF Requeued, Row, GoodRow
  <2>4. r.keep = "none"
    BY <1>1 DEF Requeued, Row, GoodRow, Finished
  <2> QED
    BY <1>1, <2>1, <2>2, <2>3, <2>4 DEF GoodRow, Held
<1>3. task' = [task EXCEPT ![t] = r] /\ task[t].state # "running"
  BY DEF RunAgain
<1> HIDE DEF r
<1> QED
  BY <1>1, <1>2, <1>3, Minted, RowStep DEF RunAgain, IInv, TypeOK, ids

LEMMA RunCopyInv ==
  ASSUME IInv, NEW t \in TaskId, NEW new \in TaskId, RunCopy(t, new)
  PROVE  IInv'
<1> DEFINE r == [NewRow(task[t].queue, task[t].max, NoTask) EXCEPT !.due = "now"]
<1>1. t \in Rows /\ GoodRow(task[t])
  BY RowsGood DEF RunCopy
<1>2. NewRow(task[t].queue, task[t].max, NoTask) \in Row
  BY <1>1, NewRowType DEF GoodRow, Row
<1>3. r \in Row
  BY <1>2 DEF Row
<1>4. r.queue = task[t].queue /\ r.state = "scheduled" /\ r.attempts = 0 /\ r.keep = "none"
  BY DEF NewRow
<1>5. GoodRow(r)
  BY <1>1, <1>3, <1>4, BoundsAssumption DEF GoodRow, Held
<1>6. task' = [task EXCEPT ![new] = r]
  BY DEF RunCopy
<1> HIDE DEF r
<1> QED
  BY <1>5, <1>6, RowStep DEF RunCopy, IInv, TypeOK

\* A change of one field the invariant does not constrain.
LEMMA TimeInv ==
  ASSUME IInv, NEW t \in TaskId, Time(t)
  PROVE  IInv'
<1>1. t \in Rows /\ GoodRow(task[t]) /\ task[t] \in Row
  BY RowsGood DEF Time, BecomesDue, LeaseAges, KeepExpires, GoodRow
<1>2. PICK r : /\ task' = [task EXCEPT ![t] = r] /\ r \in Row
               /\ r.queue = task[t].queue /\ r.state = task[t].state
               /\ r.attempts = task[t].attempts
               /\ r.keep # "none" => task[t].keep # "none"
  <2>1. CASE BecomesDue(t)
    <3> DEFINE r == [task[t] EXCEPT !.due = "now"]
    <3>1. task' = [task EXCEPT ![t] = r]
      BY <2>1 DEF BecomesDue
    <3>2. /\ r \in Row /\ r.queue = task[t].queue /\ r.state = task[t].state
          /\ r.attempts = task[t].attempts /\ (r.keep # "none" => task[t].keep # "none")
      BY <1>1, <3>1 DEF Row
    <3> HIDE DEF r
    <3> QED
      BY <3>1, <3>2
  <2>2. CASE LeaseAges(t)
    <3> DEFINE age == IF task[t].lease = "live" THEN "edge" ELSE "over"
               r == [task[t] EXCEPT !.lease = age]
    <3>1. task' = [task EXCEPT ![t] = r] /\ age \in {"edge", "over"}
      BY <2>2 DEF LeaseAges
    <3> HIDE DEF age
    <3>2. /\ r \in Row /\ r.queue = task[t].queue /\ r.state = task[t].state
          /\ r.attempts = task[t].attempts /\ (r.keep # "none" => task[t].keep # "none")
      BY <1>1, <3>1 DEF Row
    <3> HIDE DEF r
    <3> QED
      BY <3>1, <3>2
  <2>3. CASE KeepExpires(t)
    <3> DEFINE r == [task[t] EXCEPT !.keep = "expired"]
    <3>1. task' = [task EXCEPT ![t] = r] /\ task[t].keep = "kept"
      BY <2>3 DEF KeepExpires
    <3>2. /\ r \in Row /\ r.queue = task[t].queue /\ r.state = task[t].state
          /\ r.attempts = task[t].attempts /\ (r.keep # "none" => task[t].keep # "none")
      BY <1>1, <3>1 DEF Row
    <3> HIDE DEF r
    <3> QED
      BY <3>1, <3>2
  <2> QED
    BY <2>1, <2>2, <2>3 DEF Time
<1>3. GoodRow(r)
  BY <1>1, <1>2 DEF GoodRow
<1>4. UNCHANGED <<queue, attempt, ids, memory>>
  BY DEF Time, BecomesDue, LeaseAges, KeepExpires
<1> QED
  BY <1>1, <1>2, <1>3, <1>4, Minted, RowStep DEF IInv, TypeOK, ids

LEMMA AckInv ==
  ASSUME IInv, NEW t, NEW l, Ack(t, l)
  PROVE  IInv'
<1>1. t \in Rows /\ t \in TaskId /\ GoodRow(task[t]) /\ task[t].state = "leased"
  BY RowsGood DEF Ack, HeldBy, Rows
<1>2. GoodRow(Ended(task[t], "done"))
  <2>1. Ended(task[t], "done") \in Row
    BY <1>1, RowChanges DEF GoodRow, Finished
  <2>2. Ended(task[t], "done").queue = task[t].queue /\ Ended(task[t], "done").state = "done"
    BY <1>1 DEF Ended, GoodRow, Row
  <2> QED
    BY <1>1, <2>1, <2>2 DEF GoodRow, Held, Finished
<1>3. task' = [task EXCEPT ![t] = Ended(task[t], "done")]
  BY DEF Ack
<1>4. attempt' \in [TaskId -> [1..AttemptCap -> AttemptStatus]]
  BY DEF Ack, IInv, TypeOK, AttemptStatus
<1> QED
  BY <1>1, <1>2, <1>3, <1>4, Minted, RowStep DEF Ack, IInv, TypeOK, ids

LEMMA ExtendInv ==
  ASSUME IInv, NEW t, NEW l, Extend(t, l)
  PROVE  IInv'
<1> DEFINE r == [task[t] EXCEPT !.lease = "live"]
<1>1. t \in Rows /\ t \in TaskId /\ GoodRow(task[t]) /\ task[t].state = "leased"
  BY RowsGood DEF Extend, HeldBy, Rows
<1>2. GoodRow(r)
  BY <1>1 DEF GoodRow, Row
<1>3. task' = [task EXCEPT ![t] = r]
  BY DEF Extend
<1> HIDE DEF r
<1> QED
  BY <1>1, <1>2, <1>3, Minted, RowStep DEF Extend, IInv, TypeOK, ids

LEMMA ReleaseInv ==
  ASSUME IInv, NEW t, NEW l, NEW aged, NEW copy \in Copies({t}), Release(t, l, aged, copy)
  PROVE  IInv'
<1>1. t \in Rows /\ task[t].state = "leased"
  BY DEF Release, HeldBy
<1>2. [x \in {t} |-> Plain("released")] \in [{t} -> Outcome]
  BY BoundsAssumption DEF Plain, Outcome
<1>3. Settle({t}, [x \in {t} |-> Plain("released")], aged, copy, {}) /\ UNCHANGED <<queue, leases>>
  BY DEF Release
<1>4. /\ TablesInv' /\ minted \subseteq minted' /\ RunningKept({t})
  BY <1>1, <1>2, <1>3, SettleStep DEF Held
<1>5. MemoryInv'
  BY DEF Release, memory, IInv, TypeOK, MemoryInv, SlotsMatch, InflightBound, SnapshotCovers, Active
<1>6. TiesInv'
  <2>1. Active' = Active /\ del' = del /\ eng' = eng /\ inflight' = inflight
    BY DEF Release, memory, Active
  <2>2. \A d \in Active : del[d].phase = "calling" => del[d].task # t
    BY <1>1 DEF IInv, AnswerFindsAttempt, Current
  <2>3. \A c \in eng.claimed : c.task # t
    BY <1>1 DEF IInv, ClaimsHold
  <2> QED
    BY <1>4, <2>1, <2>2, <2>3, TiesStep DEF IInv, ClaimsHold
<1> QED
  BY <1>4, <1>5, <1>6 DEF IInv, TypeOK, Known, TablesInv, MemoryInv, TiesInv

\* Rows taken for an attempt: by a lease, or by the engine's claim.
LEMMA TakeStep ==
  ASSUME IInv, NEW T \in SUBSET Rows, \A t \in T : task[t].state = "scheduled",
         NEW state \in Held, NEW holder \in 0..MaxLeases, Take(T, state, holder),
         UNCHANGED <<queue, minted>>, leases' \in 0..MaxLeases
  PROVE  /\ TablesInv' /\ RunningKept({})
         /\ \A t \in T : t \in Rows' /\ task'[t].state = state /\ task'[t].attempts = task[t].attempts + 1
<1> DEFINE r(t) == [task[t] EXCEPT !.state = state, !.attempts = @ + 1, !.due = "later",
                                   !.lease = "live", !.holder = holder]
           f == [t \in TaskId |-> IF t \in T THEN r(t) ELSE task[t]]
<1>1. \A t \in T : task[t] \in Row /\ GoodRow(task[t])
  BY RowsGood DEF GoodRow
<1>2. \A t \in T : task[t].attempts + 1 \in 1..AttemptCap
  BY <1>1, BoundsAssumption DEF GoodRow, Row
<1>3. \A t \in T : task[t].attempts + 1 \in 0..AttemptCap /\ task[t].attempts + 1 >= 1
  BY <1>2, BoundsAssumption
<1>4. \A t \in T : r(t) \in Row
  <2>1. state \in Held /\ holder \in 0..MaxLeases
    OBVIOUS
  <2>2. ASSUME NEW x \in Row, x.attempts + 1 \in 0..AttemptCap
        PROVE  [x EXCEPT !.state = state, !.attempts = @ + 1, !.due = "later", !.lease = "live", !.holder = holder] \in Row
    BY <2>1, <2>2 DEF Row
  <2> QED BY <1>1, <1>3, <2>2
<1>5. \A t \in T : /\ r(t).queue = task[t].queue /\ r(t).state = state
                   /\ r(t).attempts = task[t].attempts + 1 /\ r(t).keep = task[t].keep
  BY <1>1 DEF Row
<1>6. \A t \in T : GoodRow(r(t))
  <2> TAKE t \in T
  <2>1. task[t].keep = "none"
    BY <1>1 DEF GoodRow, Finished
  <2> HIDE DEF r
  <2> QED
    BY <1>1, <1>3, <1>4, <1>5, <2>1 DEF GoodRow, Held
<1> HIDE DEF r
<1>7. \A t \in TaskId : f[t] = NoRow \/ (GoodRow(f[t]) /\ t \in minted')
  BY <1>6, RowsGood DEF Rows, IInv, Known
<1>8. attempt' \in [TaskId -> [1..AttemptCap -> AttemptStatus]]
  BY DEF Take, IInv, TypeOK, AttemptStatus, Held
<1>9. task' = f
  BY DEF Take, r
<1>10. TablesInv'
  <2>1. task' = [t \in TaskId |-> f[t]]
    BY <1>9
  <2> HIDE DEF f
  <2> QED
    BY <1>7, <1>8, <2>1, TablesStep DEF IInv, TypeOK
<1>11. \A t \in T : task'[t] = r(t) /\ r(t) # NoRow
  BY <1>4, <1>9, Distinct DEF Rows
<1>12. RunningKept({})
  <2> SUFFICES ASSUME NEW t \in minted, task'[t] # NoRow
      PROVE  t \in Rows /\ (task[t].state = "running" => task'[t] = task[t])
    BY DEF RunningKept
  <2>1. CASE t \in T
    BY <2>1
  <2>2. CASE t \notin T
    <3>1. t \in TaskId /\ task'[t] = task[t]
      BY <1>9, <2>2 DEF IInv, TypeOK
    <3> QED
      BY <3>1 DEF Rows
  <2> QED
    BY <2>1, <2>2
<1>13. \A t \in T : t \in Rows'
  BY <1>11 DEF Rows
<1> QED
  BY <1>5, <1>10, <1>11, <1>12, <1>13

LEMMA LeaseInv ==
  ASSUME IInv, NEW q \in QName, NEW T \in SUBSET DueIn(q), Lease(q, T)
  PROVE  IInv'
<1>1. T \in SUBSET Rows /\ \A t \in T : task[t].state = "scheduled"
  BY DEF DueIn, RowsOf
<1>2. leases + 1 \in 0..MaxLeases
  BY BoundsAssumption DEF Lease, IInv, TypeOK
<1>3. TablesInv' /\ RunningKept({})
  BY <1>1, <1>2, TakeStep DEF Lease, Held
<1> QED
  BY <1>3, RequestStep DEF Lease

-----------------------------------------------------------------------------
(* Queues *)

LEMMA DropInv ==
  ASSUME IInv, NEW T \in SUBSET Rows, DropRows(T)
  PROVE  /\ task' \in [TaskId -> Row \cup {NoRow}]
         /\ attempt' \in [TaskId -> [1..AttemptCap -> AttemptStatus]]
         /\ Rows' = Rows \ T /\ \A t \in Rows' : task'[t] = task[t]
         /\ RunningKept({})
<1>1. task' \in [TaskId -> Row \cup {NoRow}]
  BY DEF DropRows, IInv, TypeOK
<1>2. attempt' \in [TaskId -> [1..AttemptCap -> AttemptStatus]]
  BY DEF DropRows, IInv, TypeOK, NoRecords, AttemptStatus
<1>3. Rows' = Rows \ T /\ \A t \in Rows' : task'[t] = task[t]
  BY DEF DropRows, Rows
<1>4. RunningKept({})
  <2> SUFFICES ASSUME NEW t \in minted, task'[t] # NoRow
      PROVE  t \in Rows /\ task'[t] = task[t]
    BY DEF RunningKept
  <2>1. t \in TaskId
    BY DEF IInv, TypeOK
  <2> QED
    BY <1>3, <2>1 DEF Rows
<1> QED
  BY <1>1, <1>2, <1>3, <1>4

LEMMA QueueInv ==
  ASSUME IInv, NEW q \in QName,
         (\E s \in Settings[q] : PutQueue(q, s)) \/ DeleteQueue(q) \/ PurgeQueue(q)
  PROVE  IInv'
<1>1. CASE PurgeQueue(q)
  <2>1. RowsOf(q) \in SUBSET Rows /\ DropRows(RowsOf(q)) /\ UNCHANGED <<queue, ids, memory>>
    BY <1>1 DEF PurgeQueue, RowsOf
  <2>2. TablesInv'
    BY <2>1, DropInv DEF TablesInv, IInv, TypeOK, Known, AttemptsFit, KeepsFinished,
       NothingOrphaned, Queues, ids
  <2> QED
    BY <2>1, <2>2, DropInv, RequestStep DEF ids
<1>2. CASE DeleteQueue(q)
  <2>1. /\ RowsOf(q) \in SUBSET Rows /\ DropRows(RowsOf(q)) /\ UNCHANGED <<ids, memory>>
        /\ queue' = [queue EXCEPT ![q] = NoQueue]
    BY <1>2 DEF DeleteQueue, RowsOf
  <2>2. queue' \in [QName -> QueueSettings \cup {NoQueue}]
    BY <2>1 DEF IInv, TypeOK
  <2>3. Queues' = Queues \ {q} /\ \A p \in Queues' : queue'[p] = queue[p]
    BY <2>1 DEF Queues, IInv, TypeOK
  <2>4. NothingOrphaned'
    <3>1. \A t \in Rows' : task'[t].queue \in Queues'
      BY <2>1, <2>3, DropInv DEF IInv, NothingOrphaned, RowsOf
    <3>2. \A p \in Queues' : queue'[p].dlq \in Queues' \cup {NoQ}
      BY <1>2, <2>3 DEF IInv, NothingOrphaned, DeleteQueue, DeadLettersInto
    <3> QED
      BY <3>1, <3>2 DEF NothingOrphaned
  <2>5. TablesInv'
    BY <2>1, <2>2, <2>4, DropInv DEF TablesInv, IInv, TypeOK, Known, AttemptsFit, KeepsFinished, ids
  <2> QED
    BY <2>1, <2>5, DropInv, RequestStep DEF ids
<1>3. ASSUME NEW s \in Settings[q], PutQueue(q, s)
      PROVE  IInv'
  <2>1. s \in QueueSettings
    BY ValuesAssumption
  <2>2. /\ queue' = [queue EXCEPT ![q] = s] /\ UNCHANGED <<task, attempt, ids, memory>>
        /\ s.dlq # NoQ => s.dlq \in Queues
    BY <1>3 DEF PutQueue
  <2>3. queue' \in [QName -> QueueSettings \cup {NoQueue}]
    BY <2>1, <2>2 DEF IInv, TypeOK
  <2>4. Queues' = Queues \cup {q} /\ \A p \in Queues' : queue'[p] = IF p = q THEN s ELSE queue[p]
    BY <2>1, <2>2, Distinct DEF Queues, IInv, TypeOK
  <2>5. NothingOrphaned'
    BY <2>2, <2>4 DEF IInv, NothingOrphaned, Rows
  <2>6. TablesInv' /\ RunningKept({})
    BY <2>2, <2>3, <2>5 DEF TablesInv, IInv, TypeOK, Known, AttemptsFit, KeepsFinished, ids,
       RunningKept, Rows
  <2> QED
    BY <2>2, <2>6, RequestStep DEF ids
<1> QED
  BY <1>1, <1>2, <1>3

-----------------------------------------------------------------------------
(* The engine *)

\* A step of the engine that starts no goroutine and ends none.
LEMMA PassStep ==
  ASSUME IInv, UNCHANGED <<inflight, running, del, crashes>>,
         eng' \in Pass, InflightBound', SnapshotCovers', TablesInv', TiesInv'
  PROVE  IInv'
  BY DEF IInv, TypeOK, Known, TablesInv, TiesInv, SlotsMatch, Active

\* The tables as they are.
LEMMA TablesSame ==
  ASSUME IInv, UNCHANGED <<queue, task, ids>>,
         attempt' \in [TaskId -> [1..AttemptCap -> AttemptStatus]]
  PROVE  TablesInv' /\ RunningKept({})
  BY DEF IInv, TypeOK, Known, TablesInv, AttemptsFit, KeepsFinished, NothingOrphaned, Rows,
     Queues, ids, RunningKept

LEMMA TickInv ==
  ASSUME IInv, TickBegin \/ TickEnd
  PROVE  IInv'
<1>1. /\ UNCHANGED <<queue, task, attempt, ids, inflight, running, del, crashes>>
      /\ eng.claimed = {} /\ eng'.claimed = {}
  <2>1. CASE TickBegin
    BY <2>1 DEF TickBegin, NoPass, IInv, ClaimsHold
  <2>2. CASE TickEnd
    BY <2>2 DEF TickEnd, NoPass
  <2> QED
    BY <2>1, <2>2
<1>2. eng' \in Pass /\ SnapshotCovers'
  <2>1. NoPass \in Pass /\ NoPass.pc = "idle"
    BY DEF NoPass, Pass
  <2>2. CASE TickBegin
    <3>1. eng' \in Pass
      BY <2>1, <2>2 DEF TickBegin, IInv, TypeOK, Pass
    <3>2. eng'.busy = inflight /\ inflight' = inflight
      BY <2>2 DEF TickBegin, NoPass
    <3> QED
      BY <3>1, <3>2 DEF SnapshotCovers
  <2>3. CASE TickEnd
    BY <2>1, <2>3 DEF TickEnd, SnapshotCovers
  <2> QED
    BY <2>2, <2>3
<1>3. InflightBound'
  BY <1>1 DEF IInv, InflightBound
<1>4. TablesInv' /\ RunningKept({})
  BY <1>1, TablesSame DEF IInv, TypeOK
<1>5. TiesInv'
  BY <1>1, <1>4, TiesStep DEF Active, IInv, ids
<1> QED
  BY <1>1, <1>2, <1>3, <1>4, <1>5, PassStep

LEMMA HousekeepInv ==
  ASSUME IInv, NEW aged, NEW copy \in Copies(Lost), Housekeep(aged, copy)
  PROVE  IInv'
<1>1. /\ Settle(Lost, [t \in Lost |-> Plain("lost")], aged, copy, Expired)
      /\ UNCHANGED <<queue, leases>> /\ UNCHANGED <<inflight, running, del, crashes>>
      /\ eng.pc = "sweep" /\ eng' = [eng EXCEPT !.pc = "claim"]
  BY DEF Housekeep
<1>2. [t \in Lost |-> Plain("lost")] \in [Lost -> Outcome]
  BY BoundsAssumption DEF Plain, Outcome
<1>3. Lost \subseteq Rows /\ Expired \subseteq Rows /\ \A t \in Lost : task[t].state \in Held
  BY DEF Lost, Expired
<1>4. Lost \cap Expired = {}
  BY DEF Lost, Expired, IInv, KeepsFinished, Held, Finished
<1>5. TablesInv' /\ minted \subseteq minted' /\ RunningKept(Lost)
  BY <1>1, <1>2, <1>3, <1>4, SettleStep
<1>6. eng' \in Pass /\ eng'.claimed = eng.claimed /\ eng'.busy = eng.busy /\ eng'.pc = "claim"
  BY <1>1 DEF IInv, TypeOK, Pass
<1>7. InflightBound' /\ SnapshotCovers'
  BY <1>1, <1>6 DEF IInv, InflightBound, SnapshotCovers
<1>8. TiesInv'
  <2>1. \A d \in Active : del[d].task \notin Lost
    BY <1>1 DEF IInv, SlotsMatch, SnapshotCovers, Lost
  <2>2. eng.claimed = {}
    BY <1>1 DEF IInv, ClaimsHold
  <2> QED
    BY <1>1, <1>5, <1>6, <2>1, <2>2, TiesStep DEF Active
<1> QED
  BY <1>1, <1>5, <1>6, <1>7, <1>8, PassStep

LEMMA ClaimInv ==
  ASSUME IInv, NEW T \in SUBSET Rows, Claim(T)
  PROVE  IInv'
<1> DEFINE C == {[task |-> t, attempt |-> task[t].attempts + 1, queue |-> task[t].queue] : t \in T}
<1>1. /\ eng.pc = "claim" /\ eng' = [eng EXCEPT !.pc = "start", !.claimed = C]
      /\ Take(T, "running", 0) /\ (T # {} => Cardinality(T) <= Room)
      /\ UNCHANGED <<queue, ids, inflight, running, del, crashes>>
  BY DEF Claim
<1>2. \A t \in T : task[t].state = "scheduled" /\ t \notin eng.busy /\ t \in TaskId
  BY DEF Claim, Claimable, DueIn, Rows
<1>3. /\ TablesInv' /\ RunningKept({})
      /\ \A t \in T : t \in Rows' /\ task'[t].state = "running"
                      /\ task'[t].attempts = task[t].attempts + 1
  <2>1. UNCHANGED <<queue, minted>> /\ leases' \in 0..MaxLeases
    BY <1>1 DEF ids, IInv, TypeOK
  <2>2. "running" \in Held
    BY DEF Held
  <2> QED
    BY <1>1, <1>2, <2>1, <2>2, Zeros, TakeStep
<1>4. C \subseteq Claimed
  <2> SUFFICES ASSUME NEW t \in T
      PROVE  task[t].attempts + 1 \in 1..AttemptCap /\ task[t].queue \in QName
    BY <1>2 DEF Claimed
  <2>1. GoodRow(task[t])
    BY RowsGood
  <2> QED
    BY <1>2, <2>1, BoundsAssumption DEF GoodRow, Row
<1>5. /\ eng' \in Pass /\ eng'.claimed = C /\ eng'.pc = "start"
  BY <1>1, <1>4 DEF IInv, TypeOK, Pass
<1>6. {c.task : c \in C} = T
  <2>1. \A t \in T : \E c \in C : c.task = t
    <3> TAKE t \in T
    <3> WITNESS [task |-> t, attempt |-> task[t].attempts + 1, queue |-> task[t].queue] \in C
    <3> QED
      OBVIOUS
  <2>2. \A c \in C : c.task \in T
    OBVIOUS
  <2> QED
    BY <2>1, <2>2
<1>7. inflight \subseteq eng.busy /\ eng.claimed = {} /\ eng.busy \subseteq TaskId
  BY <1>1 DEF IInv, SnapshotCovers, ClaimsHold, TypeOK, Pass
<1>8. InflightBound'
  <2>1. CASE T = {}
    BY <1>1, <1>5, <1>6, <1>7, <2>1 DEF IInv, InflightBound
  <2>2. CASE T # {}
    <3>1. IsFiniteSet(eng.busy) /\ IsFiniteSet(T) /\ IsFiniteSet(inflight \cup T)
      BY <1>2, <1>7, FS_Subset, NamesAssumption DEF IInv, TypeOK
    <3>2. Cardinality(eng.busy \cup T) <= Cardinality(eng.busy) + Cardinality(T)
      <4>1. IsFiniteSet(eng.busy \cap T)
        BY <3>1, FS_Intersection
      <4>2. Cardinality(eng.busy \cup T)
               = Cardinality(eng.busy) + Cardinality(T) - Cardinality(eng.busy \cap T)
        BY <3>1, FS_Union
      <4>3. /\ Cardinality(eng.busy) \in Nat /\ Cardinality(T) \in Nat
            /\ Cardinality(eng.busy \cap T) \in Nat
        BY <3>1, <4>1, FS_CardinalityType
      <4> QED
        BY <4>2, <4>3
    <3>3. Cardinality(inflight \cup T) <= Cardinality(eng.busy \cup T)
      BY <1>7, <3>1, FS_Union, FS_Subset
    <3>4. Cardinality(T) <= MaxInflight - Cardinality(eng.busy)
      BY <1>1, <2>2 DEF Room
    <3>5. Cardinality(inflight \cup T) <= MaxInflight
      <4>1. IsFiniteSet(eng.busy \cup T)
        BY <3>1, FS_Union
      <4>2. /\ Cardinality(eng.busy) \in Nat /\ Cardinality(T) \in Nat
            /\ Cardinality(eng.busy \cup T) \in Nat /\ Cardinality(inflight \cup T) \in Nat
        BY <3>1, <4>1, FS_CardinalityType
      <4> QED
        BY <3>2, <3>3, <3>4, <4>2, BoundsAssumption
    <3> QED
      BY <1>1, <1>5, <1>6, <3>5 DEF InflightBound
  <2> QED
    BY <2>1, <2>2
<1>9. TiesInv'
  <2>1. ClaimsHold'
    <3>1. \A c \in C : /\ c.task \in T /\ c.attempt = task[c.task].attempts + 1
                       /\ c.queue = task[c.task].queue
      OBVIOUS
    <3>2. \A c, e \in C : c.task = e.task => c = e
      OBVIOUS
    <3> QED
      BY <1>1, <1>2, <1>3, <1>5, <1>7, <3>1, <3>2 DEF ClaimsHold
  <2>2. AnswerFindsAttempt'
    <3> SUFFICES ASSUME NEW d \in Active, del[d].phase = "calling", del[d].task \in Rows'
        PROVE  Current(d)'
      BY <1>1 DEF AnswerFindsAttempt, Active
    <3>1. del[d].task \in minted /\ task'[del[d].task] # NoRow
      BY DEF IInv, Known, Rows
    <3>2. Current(d)
      BY <1>3, <3>1 DEF RunningKept, IInv, AnswerFindsAttempt
    <3> QED
      BY <1>1, <1>3, <3>1, <3>2 DEF RunningKept, Current
  <2>3. T \subseteq minted /\ minted' = minted /\ Active' = Active
    BY <1>1 DEF IInv, Known, ids, Active
  <2> QED
    BY <1>1, <1>5, <1>6, <2>1, <2>2, <2>3 DEF TiesInv, IInv, Known
<1> QED
  BY <1>1, <1>3, <1>5, <1>8, <1>9, PassStep DEF SnapshotCovers

-----------------------------------------------------------------------------
(* Goroutines *)

\* The goroutines of a queue are finitely many.
LEMMA FiniteGoroutines ==
  \A S \in SUBSET Delivery : IsFiniteSet(S) /\ Cardinality(S) \in Nat
  BY NamesAssumption, FS_Subset, FS_CardinalityType

LEMMA StartInv ==
  ASSUME IInv, NEW c \in eng.claimed, NEW d \in Delivery, Start(c, d)
  PROVE  IInv'
<1> DEFINE g == [phase |-> "calling", task |-> c.task, attempt |-> c.attempt, queue |-> c.queue]
<1>1. /\ eng.pc = "start" /\ del[d] = Idle
      /\ inflight' = inflight \cup {c.task}
      /\ running' = [running EXCEPT ![c.queue] = @ + 1]
      /\ del' = [del EXCEPT ![d] = g]
      /\ eng' = [eng EXCEPT !.claimed = @ \ {c}]
      /\ UNCHANGED <<queue, task, attempt, ids, crashes>>
  BY DEF Start
<1>2. /\ c \in Claimed /\ c.task \in TaskId /\ c.queue \in QName /\ c.task \notin inflight
      /\ c.task \in minted
      /\ c.task \in Rows => task[c.task].state = "running" /\ task[c.task].attempts = c.attempt
  BY DEF IInv, TypeOK, Pass, Claimed, ClaimsHold, Known
<1>3. g \in Goroutine /\ g # Idle /\ g.task = c.task /\ g.queue = c.queue
  BY <1>2, Distinct DEF Goroutine, Claimed
<1> HIDE DEF g
<1>4. Active' = Active \cup {d} /\ d \notin Active
  BY <1>1, <1>3 DEF Active, IInv, TypeOK
<1>5. \A x \in Active : del'[x] = del[x]
  BY <1>1, <1>4 DEF IInv, TypeOK, Active
<1>6. del'[d] = g
  BY <1>1 DEF IInv, TypeOK
<1>7. eng' \in Pass /\ eng'.pc = "start" /\ eng'.claimed = eng.claimed \ {c}
  BY <1>1 DEF IInv, TypeOK, Pass
<1>8. MemoryInv'
  <2>1. /\ inflight' \subseteq TaskId /\ running' \in [QName -> Nat]
        /\ del' \in [Delivery -> Goroutine \cup {Idle}] /\ crashes' \in 0..MaxCrashes
    BY <1>1, <1>2, <1>3 DEF IInv, TypeOK
  <2>2. SlotsMatch'
    <3>1. inflight' = {del'[x].task : x \in Active'}
      BY <1>1, <1>3, <1>4, <1>5, <1>6 DEF IInv, SlotsMatch
    <3>2. \A x, y \in Active' : del'[x].task = del'[y].task => x = y
      BY <1>2, <1>3, <1>4, <1>5, <1>6 DEF IInv, SlotsMatch
    <3>3. ASSUME NEW q \in QName
          PROVE  running'[q] = Cardinality({x \in Active' : del'[x].queue = q})
      <4> DEFINE S == {x \in Active : del[x].queue = q}
      <4>1. S \in SUBSET Delivery /\ d \notin S
        BY <1>4 DEF Active
      <4>2. {x \in Active' : del'[x].queue = q} = IF q = c.queue THEN S \cup {d} ELSE S
        BY <1>3, <1>4, <1>5, <1>6
      <4>3. running[q] = Cardinality(S)
        BY DEF IInv, SlotsMatch
      <4>4. running'[q] = IF q = c.queue THEN running[q] + 1 ELSE running[q]
        BY <1>1 DEF IInv, TypeOK
      <4> HIDE DEF S
      <4>5. Cardinality(S \cup {d}) = Cardinality(S) + 1
        BY <4>1, FiniteGoroutines, FS_AddElement
      <4> QED
        BY <4>2, <4>3, <4>4, <4>5
    <3> QED
      BY <3>1, <3>2, <3>3 DEF SlotsMatch
  <2>3. InflightBound'
    <3>1. inflight' \cup {e.task : e \in eng'.claimed} = inflight \cup {e.task : e \in eng.claimed}
      BY <1>1, <1>7
    <3> QED
      BY <3>1 DEF IInv, InflightBound
  <2> QED
    BY <1>7, <2>1, <2>2, <2>3 DEF MemoryInv, SnapshotCovers
<1>9. TiesInv'
  <2>1. Rows' = Rows /\ task' = task /\ minted' = minted
    BY <1>1 DEF Rows, ids
  <2>2. ClaimsHold'
    <3>1. \A e \in eng'.claimed : e \in eng.claimed /\ e.task # c.task
      BY <1>7 DEF IInv, ClaimsHold
    <3> QED
      BY <1>1, <1>7, <2>1, <3>1 DEF IInv, ClaimsHold
  <2>3. AnswerFindsAttempt'
    <3>1. g.attempt = c.attempt
      BY DEF g
    <3>2. ASSUME NEW x \in Active', del'[x].phase = "calling", del'[x].task \in Rows'
          PROVE  Current(x)'
      <4>1. CASE x = d
        BY <1>2, <1>3, <1>6, <2>1, <3>1, <3>2, <4>1 DEF Current
      <4>2. CASE x \in Active
        BY <1>5, <2>1, <3>2, <4>2 DEF IInv, AnswerFindsAttempt, Current
      <4> QED
        BY <1>4, <4>1, <4>2
    <3> QED
      BY <3>2 DEF AnswerFindsAttempt
  <2> QED
    BY <1>2, <1>3, <1>4, <1>5, <1>6, <1>7, <2>1, <2>2, <2>3 DEF TiesInv, IInv, Known
<1>10. TablesInv'
  BY <1>1, TablesSame DEF IInv, TypeOK
<1> QED
  BY <1>8, <1>9, <1>10 DEF IInv, TypeOK, Known, TablesInv, MemoryInv, TiesInv

\* A goroutine goes on to its next phase.
LEMMA PhaseStep ==
  ASSUME IInv, NEW d \in Active, NEW phase \in {"held", "leaving"},
         del' = [del EXCEPT ![d].phase = phase],
         UNCHANGED <<inflight, running, eng, crashes>>
  PROVE  /\ MemoryInv' /\ Active' = Active
         /\ \A x \in Active : del'[x].task = del[x].task
         /\ \A x \in Active : del'[x].phase = "calling" => x # d /\ del'[x] = del[x]
<1>1. /\ d \in Delivery /\ del[d] \in Goroutine /\ del \in [Delivery -> Goroutine \cup {Idle}]
      /\ \A x \in Active : del[x] \in Goroutine
  BY Typed DEF IInv, TypeOK
<1> DEFINE g == [del[d] EXCEPT !.phase = phase]
<1>2. /\ g \in Goroutine /\ g # Idle /\ g.phase = phase
      /\ g.task = del[d].task /\ g.queue = del[d].queue
  <2>1. g \in Goroutine /\ g.phase = phase /\ g.task = del[d].task /\ g.queue = del[d].queue
    BY <1>1 DEF Goroutine
  <2> QED
    BY <2>1, Distinct
<1>3. del' = [del EXCEPT ![d] = g]
  BY <1>1
<1> HIDE DEF g
<1>4. /\ Active' = Active /\ del'[d] = g
      /\ \A x \in Active \ {d} : del'[x] = del[x]
  BY <1>1, <1>2, <1>3 DEF Active
<1>5. \A x \in Active : del'[x].task = del[x].task /\ del'[x].queue = del[x].queue
  BY <1>2, <1>4
<1>6. del' \in [Delivery -> Goroutine \cup {Idle}]
  BY <1>1, <1>2, <1>3
<1>7. SlotsMatch'
  <2>1. {del'[x].task : x \in Active'} = {del[x].task : x \in Active}
    BY <1>4, <1>5
  <2>2. \A q \in QName : {x \in Active' : del'[x].queue = q} = {x \in Active : del[x].queue = q}
    BY <1>4, <1>5
  <2> QED
    BY <1>4, <1>5, <2>1, <2>2 DEF IInv, SlotsMatch
<1>8. MemoryInv'
  BY <1>6, <1>7 DEF IInv, TypeOK, MemoryInv, InflightBound, SnapshotCovers
<1> QED
  BY <1>2, <1>4, <1>5, <1>8

LEMMA DeliverInv ==
  ASSUME IInv, NEW d \in Active, NEW o \in Outcomes, NEW aged,
         NEW copy \in Copies({del[d].task}), Deliver(d, o, aged, copy)
  PROVE  IInv'
<1> DEFINE t == del[d].task
           phase == IF o.kind = "timeout" THEN "held" ELSE "leaving"
           T == IF Current(d) THEN {t} ELSE {}
<1>1. /\ del' = [del EXCEPT ![d].phase = phase] /\ phase \in {"held", "leaving"}
      /\ UNCHANGED <<queue, leases>> /\ UNCHANGED <<inflight, running, eng, crashes>>
      /\ del[d].phase = "calling"
  BY DEF Deliver
<1>2. TablesInv' /\ minted \subseteq minted' /\ RunningKept(T)
  <2>1. CASE Current(d)
    <3>1. t \in Rows /\ task[t].state \in Held
      BY <2>1 DEF Current, Held
    <3>2. o \in Outcome
      BY ValuesAssumption, BoundsAssumption DEF Outcomes, Plain, Outcome
    <3>3. Settle({t}, [x \in {t} |-> o], aged, copy, {})
      BY <2>1 DEF Deliver
    <3>4. [x \in {t} |-> o] \in [{t} -> Outcome]
      BY <3>2
    <3> HIDE DEF t
    <3>5. copy \in Copies({t})
      BY DEF t
    <3>6. T = {t}
      BY <2>1
    <3>7. {t} \in SUBSET Rows /\ (\A x \in {t} : task[x].state \in Held) /\ {t} \cap {} = {}
      BY <3>1
    <3>8. TablesInv' /\ minted \subseteq minted' /\ RunningKept({t})
      BY <1>1, <3>3, <3>4, <3>5, <3>7, SettleStep
    <3> QED
      BY <3>6, <3>8
  <2>2. CASE ~Current(d)
    BY <1>1, <2>2, TablesSame DEF Deliver, IInv, TypeOK, ids
  <2> QED
    BY <2>1, <2>2
<1> HIDE DEF phase
<1>3. /\ MemoryInv' /\ Active' = Active
      /\ \A x \in Active : del'[x].task = del[x].task
      /\ \A x \in Active : del'[x].phase = "calling" => x # d /\ del'[x] = del[x]
  BY <1>1, PhaseStep
<1>4. TiesInv'
  <2>1. \A x \in Active : x # d => del[x].task # t
    BY DEF IInv, SlotsMatch
  <2>2. \A c \in eng.claimed : c.task # t
    BY DEF IInv, SlotsMatch, ClaimsHold
  <2> QED
    BY <1>1, <1>2, <1>3, <2>1, <2>2, TiesStep DEF IInv, ClaimsHold
<1> QED
  BY <1>2, <1>3, <1>4 DEF IInv, TypeOK, Known, TablesInv, MemoryInv, TiesInv

LEMMA NoteLateInv ==
  ASSUME IInv, NEW d \in Active, NoteLate(d)
  PROVE  IInv'
<1>1. /\ del' = [del EXCEPT ![d].phase = "leaving"]
      /\ UNCHANGED <<queue, task, ids>> /\ UNCHANGED <<inflight, running, eng, crashes>>
  BY DEF NoteLate
<1>2. attempt' \in [TaskId -> [1..AttemptCap -> AttemptStatus]]
  BY DEF NoteLate, IInv, TypeOK, AttemptStatus
<1>3. TablesInv' /\ RunningKept({})
  BY <1>1, <1>2, TablesSame
<1>4. /\ MemoryInv' /\ Active' = Active
      /\ \A x \in Active : del'[x].task = del[x].task
      /\ \A x \in Active : del'[x].phase = "calling" => x # d /\ del'[x] = del[x]
  BY <1>1, PhaseStep
<1>5. TiesInv'
  BY <1>1, <1>3, <1>4, TiesStep DEF IInv, ClaimsHold, ids
<1> QED
  BY <1>3, <1>4, <1>5 DEF IInv, TypeOK, Known, TablesInv, MemoryInv, TiesInv

LEMMA LeaveInv ==
  ASSUME IInv, NEW d \in Active, Leave(d)
  PROVE  IInv'
<1> DEFINE t == del[d].task
           p == del[d].queue
<1>1. /\ inflight' = inflight \ {t} /\ running' = [running EXCEPT ![p] = @ - 1]
      /\ del' = [del EXCEPT ![d] = Idle]
      /\ UNCHANGED <<queue, task, attempt, ids, eng, crashes>>
  BY DEF Leave
<1>2. d \in Delivery /\ t \in TaskId /\ p \in QName
  BY Typed DEF IInv, Goroutine
<1>3. Active' = Active \ {d} /\ \A x \in Active' : del'[x] = del[x]
  BY <1>1, <1>2 DEF Active, IInv, TypeOK
<1>4. ASSUME NEW q \in QName
      PROVE  running'[q] = Cardinality({x \in Active' : del'[x].queue = q}) /\ running'[q] \in Nat
  <2> DEFINE S == {x \in Active : del[x].queue = q}
  <2>1. S \in SUBSET Delivery /\ (d \in S <=> q = p)
    BY DEF Active
  <2>2. {x \in Active' : del'[x].queue = q} = S \ {d}
    BY <1>3
  <2>3. running[q] = Cardinality(S)
    BY DEF IInv, SlotsMatch
  <2>4. running'[q] = IF q = p THEN running[q] - 1 ELSE running[q]
    BY <1>1 DEF IInv, TypeOK
  <2> HIDE DEF S, p
  <2>5. Cardinality(S \ {d}) = IF d \in S THEN Cardinality(S) - 1 ELSE Cardinality(S)
    BY <2>1, FiniteGoroutines, FS_RemoveElement
  <2>6. Cardinality(S \ {d}) \in Nat
    BY <2>1, FiniteGoroutines
  <2> QED
    BY <2>1, <2>2, <2>3, <2>4, <2>5, <2>6
<1>5. MemoryInv'
  <2>1. /\ inflight' \subseteq TaskId /\ running' \in [QName -> Nat]
        /\ del' \in [Delivery -> Goroutine \cup {Idle}]
    BY <1>1, <1>2, <1>4 DEF IInv, TypeOK
  <2>2. inflight' = {del'[x].task : x \in Active'}
    BY <1>1, <1>3 DEF IInv, SlotsMatch
  <2>3. SlotsMatch'
    BY <1>3, <1>4, <2>2 DEF IInv, SlotsMatch
  <2>4. InflightBound'
    <3> DEFINE all == inflight \cup {c.task : c \in eng.claimed}
               left == inflight' \cup {c.task : c \in eng'.claimed}
    <3>1. all \in SUBSET TaskId /\ left \in SUBSET all
      BY <1>1 DEF IInv, TypeOK, Pass, Claimed
    <3>2. IsFiniteSet(all) /\ Cardinality(all) <= MaxInflight
      BY <3>1, NamesAssumption, FS_Subset DEF IInv, InflightBound
    <3> HIDE DEF all, left
    <3>3. IsFiniteSet(left) /\ Cardinality(left) <= Cardinality(all)
      BY <3>1, <3>2, FS_Subset
    <3>4. Cardinality(left) <= MaxInflight
      BY <3>2, <3>3, FS_CardinalityType, BoundsAssumption
    <3> QED
      BY <3>4 DEF InflightBound, left
  <2> QED
    BY <1>1, <2>1, <2>3, <2>4 DEF MemoryInv, IInv, TypeOK, SnapshotCovers
<1>6. TablesInv' /\ RunningKept({})
  BY <1>1, TablesSame DEF IInv, TypeOK
<1>7. TiesInv'
  BY <1>1, <1>3, <1>6, TiesStep DEF IInv, ClaimsHold, ids
<1> QED
  BY <1>5, <1>6, <1>7 DEF IInv, TypeOK, Known, TablesInv, MemoryInv, TiesInv

-----------------------------------------------------------------------------
(* Restarts *)

\* After a restart there is nothing in flight to tie to a row.
LEMMA RestartStep ==
  ASSUME IInv, Restart, TablesInv'
  PROVE  IInv'
<1>1. /\ crashes' \in 0..MaxCrashes /\ inflight' = {} /\ running' = [q \in QName |-> 0]
      /\ del' = [d \in Delivery |-> Idle] /\ eng' = NoPass
  BY BoundsAssumption DEF Restart, IInv, TypeOK
<1>2. Active' = {} /\ NoPass.claimed = {} /\ NoPass.pc = "idle" /\ NoPass \in Pass
  BY <1>1 DEF Active, NoPass, Pass
<1>3. SlotsMatch'
  <2>1. \A q \in QName : {d \in Active' : del'[d].queue = q} = {}
    BY <1>2
  <2> QED
    BY <1>1, <1>2, <2>1, FS_EmptySet DEF SlotsMatch
<1>4. InflightBound'
  <2>1. inflight' \cup {c.task : c \in eng'.claimed} = {}
    BY <1>1, <1>2
  <2>2. Cardinality({}) <= MaxInflight
    BY FS_EmptySet, BoundsAssumption
  <2> QED
    BY <2>1, <2>2 DEF InflightBound
<1>5. MemoryInv' /\ TiesInv'
  BY <1>1, <1>2, <1>3, <1>4 DEF MemoryInv, TiesInv, SnapshotCovers, ClaimsHold, AnswerFindsAttempt
<1> QED
  BY <1>5 DEF IInv, TypeOK, Known, TablesInv, MemoryInv, TiesInv

LEMMA CrashInv ==
  ASSUME IInv, Crash
  PROVE  IInv'
  BY TablesSame, RestartStep DEF Crash, IInv, TypeOK

LEMMA CrashInSettleInv ==
  ASSUME IInv, NEW d \in Delivery, NEW o \in Outcomes, NEW old \in Old, CrashInSettle(d, o, old)
  PROVE  IInv'
<1> DEFINE t == del[d].task
<1>1. /\ Restart /\ UNCHANGED <<queue, ids>> /\ t \in Rows /\ task[t].state \in Held
      /\ attempt' = [attempt EXCEPT ![t] = Close(t, o)]
      /\ \/ task' = [task EXCEPT ![t].max = OwnLimit(t, o)]
         \/ task' = [task EXCEPT ![t] = SettledRow(t, o, old)]
  BY DEF CrashInSettle, Current, Held
<1> HIDE DEF t
<1>2. o \in Outcome /\ old \in BOOLEAN /\ t \in TaskId /\ GoodRow(task[t])
  BY <1>1, RowsGood, ValuesAssumption, BoundsAssumption DEF Outcomes, Plain, Outcome, Rows
<1>3. PICK r : task' = [task EXCEPT ![t] = r] /\ GoodRow(r)
  <2>1. CASE task' = [task EXCEPT ![t].max = OwnLimit(t, o)]
    <3> DEFINE r == [task[t] EXCEPT !.max = OwnLimit(t, o)]
    <3>1. OwnLimit(t, o) \in 0..AttemptCap
      BY <1>1, <1>2, LimitType
    <3>2. GoodRow(r)
      BY <1>2, <3>1 DEF GoodRow, Row
    <3>3. task' = [task EXCEPT ![t] = r]
      BY <2>1
    <3> HIDE DEF r
    <3> QED
      BY <3>2, <3>3
  <2>2. CASE task' = [task EXCEPT ![t] = SettledRow(t, o, old)]
    <3>1. GoodRow(SettledRow(t, o, old))
      BY <1>1, <1>2, SettledRowType DEF GoodRow, Held, Finished
    <3> QED
      BY <2>2, <3>1
  <2> QED
    BY <1>1, <2>1, <2>2
<1>4. attempt' \in [TaskId -> [1..AttemptCap -> AttemptStatus]]
  BY <1>1, <1>2 DEF IInv, TypeOK, Close, Closed, AttemptStatus
<1>5. TablesInv'
  BY <1>1, <1>2, <1>3, <1>4, RowTables, Minted DEF IInv, TypeOK, ids
<1> QED
  BY <1>1, <1>5, RestartStep

-----------------------------------------------------------------------------
(* The theorems *)

LEMMA NextInv == IInv /\ [Next]_vars => IInv'
<1> SUFFICES ASSUME IInv, [Next]_vars PROVE IInv'
  OBVIOUS
<1>1. CASE Administer
  BY <1>1, QueueInv DEF Administer
<1>2. ASSUME NEW t \in TaskId, Request(t)
      PROVE  IInv'
  BY <1>2, AddInv, CancelInv, RunAgainInv, RunCopyInv DEF Request
<1>3. ASSUME NEW t \in TaskId, Time(t)
      PROVE  IInv'
  BY <1>3, TimeInv
<1>4. CASE Work
  BY <1>4, LeaseInv, AckInv, ExtendInv, ReleaseInv DEF Work
<1>5. CASE Engine
  <2>1. ASSUME NEW T \in SUBSET {t \in Rows : task[t].due = "now"}, Claim(T)
        PROVE  IInv'
    BY <2>1, ClaimInv
  <2> QED
    BY <1>5, <2>1, TickInv, HousekeepInv, StartInv DEF Engine, Sweep
<1>6. ASSUME NEW d \in Delivery, Goroutines(d)
      PROVE  IInv'
  <2>1. d \in Active
    BY <1>6 DEF Goroutines, Call, NoteLate, Leave
  <2> QED
    BY <1>6, <2>1, DeliverInv, NoteLateInv, LeaveInv DEF Goroutines, Call
<1>7. CASE Failure
  BY <1>7, CrashInv, CrashInSettleInv DEF Failure
<1>8. CASE UNCHANGED vars
  BY <1>8 DEF vars, IInv, TypeOK, Known, AttemptsFit, KeepsFinished, NothingOrphaned, SlotsMatch,
     InflightBound, SnapshotCovers, ClaimsHold, AnswerFindsAttempt, Rows, Queues, Active, Current
<1> QED
  BY <1>1, <1>2, <1>3, <1>4, <1>5, <1>6, <1>7, <1>8 DEF Next

\* The invariant the others follow from.
THEOREM Invariance == Spec => []IInv
<1>1. Init => IInv
  BY InitInv
<1>2. IInv /\ [Next]_vars => IInv'
  BY NextInv
<1> QED
  BY <1>1, <1>2, PTL DEF Spec

\* Every variable keeps its type, whatever the queues, limits and bounds.
THEOREM TypeCorrect == Spec => []TypeOK
<1>1. IInv => TypeOK
  BY DEF IInv
<1> QED
  BY <1>1, Invariance, PTL

\* The slots counted are the slots taken, one to a task.
THEOREM SlotsAlwaysMatch == Spec => []SlotsMatch
<1>1. IInv => SlotsMatch
  BY DEF IInv
<1> QED
  BY <1>1, Invariance, PTL

\* An answer waited for finds its own attempt, or a row that was purged.
THEOREM AnswersFindAttempts == Spec => []AnswerFindsAttempt
<1>1. IInv => AnswerFindsAttempt
  BY DEF IInv
<1> QED
  BY <1>1, Invariance, PTL

\* Deliveries in flight, and claims about to start, stay within MaxInflight.
THEOREM InflightBounded == Spec => []InflightBound
<1>1. IInv => InflightBound
  BY DEF IInv
<1> QED
  BY <1>1, Invariance, PTL

\* No task without its queue, no dead-letter queue that does not exist.
THEOREM NeverOrphaned == Spec => []NothingOrphaned
<1>1. IInv => NothingOrphaned
  BY DEF IInv
<1> QED
  BY <1>1, Invariance, PTL

\* The slots counted are the deliveries there are, and every answer finds its attempt.
THEOREM EngineKept == Spec => []EngineHolds
<1>1. IInv => EngineHolds
  BY DEF IInv, EngineHolds
<1> QED
  BY <1>1, Invariance, PTL

\* No task is without its queue, and the deliveries stay within the limit.
THEOREM QueuesKept == Spec => []QueuesHold
<1>1. IInv => QueuesHold
  BY DEF IInv, QueuesHold
<1> QED
  BY <1>1, Invariance, PTL

=============================================================================
