----------------------------- MODULE TriggerChain -----------------------------
(***************************************************************************)
(* Writes that become tasks whose functions write again: what a write says *)
(* it did, the rules it is matched with, the goroutine that adds its tasks *)
(* to their queues, and the depth that cuts a chain.  Source: cli/internal/*)
(* tasks/triggers.go, datastore/{triggers,routes}.go, blob/triggers.go,    *)
(* and the depth's way through tasks/deliver.go and functions/bindings.go. *)
(*                                                                         *)
(* One collection, and one instance of each service.  A queue delivers its *)
(* tasks to a function that makes at most one write a run; what becomes of *)
(* a delivery that fails is TaskQueue's.                                   *)
(***************************************************************************)
EXTENDS Naturals, Sequences, SequencesExt, FiniteSets, Bags

CONSTANTS
    DocKeys,         \* documents of the collection
    KeyLists,        \* the lists of them a request may name
    Writers,         \* requests that may be in progress, external or a function's
    EventQueues,     \* queues of the tasks instance
    RuleLists,       \* the lists of rules an instance may be configured with
    Firings,         \* bound: goroutines adding tasks at a time
    MaxTriggerDepth, \* tasks.MaxTriggerDepth
    MaxEvents,       \* MaxEventsPerTask
    FireAttempts,    \* fireAttempts
    External,        \* bound: writes from outside
    MailSent         \* whether functions send mail to a route that queues it

TriggerOps == {"create", "update", "delete"}

ASSUME TriggerAssumption ==
    /\ MaxTriggerDepth \in Nat \ {0} /\ MaxEvents \in Nat \ {0} /\ FireAttempts \in Nat \ {0}
    /\ External \in Nat /\ MailSent \in BOOLEAN
    /\ \A ks \in KeyLists : ks \in Seq(DocKeys)
    /\ \A rs \in RuleLists : rs \in Seq([ops : SUBSET TriggerOps, queue : EventQueues])

VARIABLES
    present, \* the keys of the documents that exist
    rules,   \* config.triggers of the source: its rules, in order
    queued,  \* the queues that exist
    writes,  \* each request: what it does, what it read before, at which depth
    firing,  \* each goroutine: the tasks it has to add, and how often it tried the first queue
    added,   \* the tasks waiting in the queues, a bag
    outside, \* writes from outside so far
    owed     \* history: each goroutine's <<rule, change>> not yet added or dropped

triggerVars == <<present, rules, queued, writes, firing, added, outside, owed>>

NoWriting == [phase |-> "none"]
Object == CHOOSE k \in DocKeys : TRUE
NotFiring == [depth |-> 0, tasks |-> {}, tries |-> 0]

TriggerInit ==
    /\ present = {} /\ rules \in RuleLists /\ queued = EventQueues
    /\ writes = [w \in Writers |-> NoWriting]
    /\ firing = [g \in Firings |-> NotFiring]
    /\ added = EmptyBag /\ outside = 0 /\ owed = [g \in Firings |-> {}]

-----------------------------------------------------------------------------
(* The tasks an event makes *)

\* hasOp: a rule without ops matches every one.
HasOp(r, op) == r.ops = {} \/ op \in r.ops

\* The changes a rule asks for, by their places in the write.
Matching(r, changes) == {p \in DOMAIN changes : HasOp(r, changes[p].op)}

\* Faulty: what does not fill a task is left behind.
ChunksFull(M) ==
    LET Nth(p) == Cardinality({x \in M : x < p})
        Chunk(n) == {p \in M : Nth(p) \div MaxEvents = n}
    IN  {Chunk(n) : n \in 0..((Cardinality(M) \div MaxEvents) - 1)}

\* flush: events in order, at most MaxEvents a task.
Chunks(M) ==
    LET Nth(p) == Cardinality({x \in M : x < p})
    IN  {{p \in M : Nth(p) \div MaxEvents = Nth(first) \div MaxEvents} : first \in M}

\* DatastoreEventTasks, BlobEventTasks: each matching rule's tasks, its events in chunks.
EventTasks(rs, changes) ==
    UNION {{[rule |-> i, queue |-> rs[i].queue, events |-> [p \in c |-> changes[p]]] :
                c \in Chunks(Matching(rs[i], changes))} : i \in DOMAIN rs}

\* Every queue a rule names exists when the rules are saved.
QueuesExist(rs) == \A i \in DOMAIN rs : rs[i].queue \in queued

SaveRules(rs) ==
    /\ rs # rules /\ QueuesExist(rs) /\ rules' = rs
    /\ UNCHANGED <<present, queued, writes, firing, added, outside, owed>>

DropEventQueue(q) ==
    /\ q \in queued /\ queued' = queued \ {q}
    /\ added' = [t \in {u \in DOMAIN added : u.queue # q} |-> added[t]]
    /\ UNCHANGED <<present, rules, writes, firing, outside, owed>>

MakeEventQueue(q) ==
    /\ q \notin queued /\ queued' = queued \cup {q}
    /\ UNCHANGED <<present, rules, writes, firing, added, outside, owed>>

-----------------------------------------------------------------------------
(* A write, and what it says it did *)

Change(k, o) == [key |-> k, op |-> o]
Existing(ks) == {k \in present : k \in ToSet(ks)}

\* The request: whether a rule watches, and which documents exist, read before the write.
Request(op, ks, d) ==
    [phase |-> "read", op |-> op, keys |-> ks, depth |-> d, watched |-> rules # <<>>, existed |-> Existing(ks)]

Asks(w, op, ks) ==
    /\ writes[w] = NoWriting /\ outside < External
    /\ outside' = outside + 1
    /\ writes' = [writes EXCEPT ![w] = Request(op, ks, 0)]
    /\ UNCHANGED <<present, rules, queued, firing, added, owed>>

\* putDocs, deleteDocs: told by what was read; a transaction reads as it writes.
Told(r) ==
    CASE r.op = "put" -> [i \in DOMAIN r.keys |-> Change(r.keys[i], IF r.keys[i] \in r.existed THEN "update" ELSE "create")]
      [] r.op = "delete" -> IF Existing(r.keys) = {} THEN <<>>
                            ELSE [i \in {j \in DOMAIN r.keys : r.keys[j] \in r.existed} |-> Change(r.keys[i], "delete")]
      [] r.op = "transaction" -> [i \in DOMAIN r.keys |-> Change(r.keys[i], IF r.keys[i] \in present THEN "update" ELSE "create")]

Commits(w) ==
    /\ writes[w].phase = "read"
    /\ LET r == writes[w] IN
       /\ present' = IF r.op = "delete" THEN present \ ToSet(r.keys) ELSE present \cup ToSet(r.keys)
       /\ writes' = [writes EXCEPT ![w] =
             IF r.watched /\ Told(r) # <<>> THEN [phase |-> "told", depth |-> r.depth, changes |-> Told(r)]
             ELSE NoWriting]
    /\ UNCHANGED <<rules, queued, firing, added, outside, owed>>

\* An upload or a removal of an object: one event, known when it happens.
BlobChanged(w, k, op, d) ==
    writes' = [writes EXCEPT ![w] = IF rules = <<>> THEN @
                                    ELSE [phase |-> "told", depth |-> d, changes |-> <<Change(k, op)>>]]

AsksBlob(w, k, op) ==
    /\ writes[w] = NoWriting /\ outside < External
    /\ outside' = outside + 1 /\ BlobChanged(w, k, op, 0)
    /\ UNCHANGED <<present, rules, queued, firing, added, owed>>

\* What the rules in force ask for, whichever way the tasks are cut.
Wanted(changes) == UNION {{i} \X Matching(rules[i], changes) : i \in DOMAIN rules}

\* Faulty: an event is as deep as the write that fired it.
EventDepthSame(d) == d

\* Every event is one deeper than the write that fired it.
EventDepth(d) == d + 1

\* fire: past the limit the event is dropped; otherwise a goroutine adds its tasks.  The rules
\* are read again.
Fires(w, g) ==
    /\ writes[w].phase = "told" /\ firing[g] = NotFiring
    /\ LET r == writes[w]  d == EventDepth(r.depth)  ts == EventTasks(rules, r.changes) IN
       /\ firing' = IF d > MaxTriggerDepth \/ ts = {} THEN firing
                    ELSE [firing EXCEPT ![g] = [depth |-> d, tasks |-> ts, tries |-> 0]]
       /\ owed' = IF d > MaxTriggerDepth THEN owed ELSE [owed EXCEPT ![g] = @ \cup Wanted(r.changes)]
    /\ writes' = [writes EXCEPT ![w] = NoWriting]
    /\ UNCHANGED <<present, rules, queued, added, outside>>

-----------------------------------------------------------------------------
(* The goroutine *)

\* byQueue, in the order the queues come up: the tasks of the first task's queue.
FirstQueue(g) == (CHOOSE t \in firing[g].tasks : \A u \in firing[g].tasks : t.rule <= u.rule).queue
FirstAdd(g) == {t \in firing[g].tasks : t.queue = FirstQueue(g)}

Finished(g) == IF FirstAdd(g) = firing[g].tasks THEN NotFiring
               ELSE [firing[g] EXCEPT !.tasks = @ \ FirstAdd(g), !.tries = 0]

\* What a task tells of: a rule, and the changes it asked for.
Telling(t) == {t.rule} \X DOMAIN t.events
Settles(g) == owed' = [owed EXCEPT ![g] = @ \ UNION {Telling(t) : t \in FirstAdd(g)}]
NextAdd(g) == firing' = [firing EXCEPT ![g] = Finished(g)] /\ Settles(g)

AddsTasks(g) ==
    /\ firing[g] # NotFiring /\ FirstQueue(g) \in queued
    /\ added' = added (+) SetToBag({[rule |-> t.rule, queue |-> t.queue, events |-> t.events, depth |-> firing[g].depth] :
                                       t \in FirstAdd(g)})
    /\ NextAdd(g)
    /\ UNCHANGED <<present, rules, queued, writes, outside>>

\* Faulty: one queue that is gone ends the whole goroutine.
MissesQueueEnds(g) ==
    /\ firing[g] # NotFiring /\ FirstQueue(g) \notin queued
    /\ firing' = [firing EXCEPT ![g] = NotFiring] /\ Settles(g)
    /\ UNCHANGED <<present, rules, queued, writes, added, outside>>

\* A missing queue does not get better by trying again: its tasks are dropped.
MissesQueue(g) ==
    /\ firing[g] # NotFiring /\ FirstQueue(g) \notin queued
    /\ NextAdd(g)
    /\ UNCHANGED <<present, rules, queued, writes, added, outside>>

\* Another failure is tried again, so many times.
AddFails(g) ==
    /\ firing[g] # NotFiring /\ FirstQueue(g) \in queued
    /\ IF firing[g].tries + 1 < FireAttempts
       THEN firing' = [firing EXCEPT ![g].tries = @ + 1] /\ UNCHANGED owed
       ELSE NextAdd(g)
    /\ UNCHANGED <<present, rules, queued, writes, added, outside>>

-----------------------------------------------------------------------------
(* The function a task runs: its writes carry the task's depth *)

Takes(t) == t \in DOMAIN added /\ added' = added (-) SetToBag({t})

RunsWrite(t, w, op, ks) ==
    /\ Takes(t) /\ writes[w] = NoWriting
    /\ writes' = [writes EXCEPT ![w] = Request(op, ks, t.depth)]
    /\ UNCHANGED <<present, rules, queued, firing, outside, owed>>

RunsBlob(t, w, k, op) ==
    /\ Takes(t) /\ writes[w] = NoWriting
    /\ BlobChanged(w, k, op, t.depth)
    /\ UNCHANGED <<present, rules, queued, firing, outside, owed>>

RunsQuiet(t) == Takes(t) /\ UNCHANGED <<present, rules, queued, writes, firing, outside, owed>>

\* EnqueueMail: the function's mail comes to a route that queues it, at the depth of a message
\* from outside.
RunsMail(t, q) ==
    /\ MailSent /\ t \in DOMAIN added /\ q \in queued
    /\ added' = (added (-) SetToBag({t})) (+) SetToBag({[rule |-> 0, queue |-> q, events |-> <<>>, depth |-> 1]})
    /\ UNCHANGED <<present, rules, queued, writes, firing, outside, owed>>

Runs(t) ==
    \/ \E w \in Writers : \/ \E op \in {"put", "delete", "transaction"}, ks \in KeyLists : RunsWrite(t, w, op, ks)
                          \/ \E op \in {"create", "delete"} : RunsBlob(t, w, Object, op)
    \/ RunsQuiet(t) \/ \E q \in EventQueues : RunsMail(t, q)

-----------------------------------------------------------------------------
Adding(g) == AddsTasks(g) \/ MissesQueue(g) \/ AddFails(g)

TriggerNext ==
    \/ \E w \in Writers : \/ \E op \in {"put", "delete", "transaction"}, ks \in KeyLists : Asks(w, op, ks)
                          \/ \E op \in {"create", "delete"} : AsksBlob(w, Object, op)
                          \/ Commits(w) \/ \E g \in Firings : Fires(w, g)
    \/ \E g \in Firings : Adding(g)
    \/ \E t \in DOMAIN added : Runs(t)
    \/ \E rs \in RuleLists : SaveRules(rs)
    \/ \E q \in EventQueues : DropEventQueue(q) \/ MakeEventQueue(q)

\* Requests and goroutines go on, and the engine delivers what is queued.
TriggerFairness ==
    /\ \A w \in Writers : WF_triggerVars(Commits(w)) /\ WF_triggerVars(\E g \in Firings : Fires(w, g))
    /\ \A g \in Firings : WF_triggerVars(Adding(g))
    /\ WF_triggerVars(\E t \in DOMAIN added : Runs(t))

TriggerSpec == TriggerInit /\ [][TriggerNext]_triggerVars /\ TriggerFairness

-----------------------------------------------------------------------------
\* Every variable has its type, and no task is deeper than the limit.
TriggerTyped ==
    /\ present \subseteq DocKeys /\ rules \in RuleLists /\ queued \subseteq EventQueues
    /\ \A g \in Firings : firing[g].depth \in 0..MaxTriggerDepth /\ firing[g].tries \in 0..(FireAttempts - 1)
    /\ \A t \in DOMAIN added : /\ t.queue \in queued /\ t.depth \in 0..MaxTriggerDepth
                               /\ Cardinality(DOMAIN t.events) <= MaxEvents

\* Every change a rule asks for is added to the rule's queue, once, or dropped for a reason of
\* its own: another rule's queue that is missing or fails takes nothing with it.
EachEventAdded ==
    \A g \in Firings :
        /\ owed[g] = UNION {Telling(t) : t \in firing[g].tasks}
        /\ \A t, u \in firing[g].tasks : t = u \/ Telling(t) \cap Telling(u) = {}

\* Types, and every change of a document or an object that a rule asks for is added once.
TriggersHold == TriggerTyped /\ EachEventAdded

\* Once the writes from outside stop, functions that write what triggers them stop too.
ChainsEnd == <>[](added = EmptyBag /\ \A g \in Firings : firing[g] = NotFiring)

\* A trigger says create, update or delete of what the write did.
EventsTell ==
    [][\A w \in Writers : writes[w].phase = "read" /\ writes'[w].phase = "told" =>
          \A e \in ToSet(writes'[w].changes) : (e.op = "create") = (e.key \notin present)]_triggerVars

=============================================================================
