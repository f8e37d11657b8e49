------------------------------ MODULE RateBucket ------------------------------
(***************************************************************************)
(* The token bucket that paces one push queue: what a pass of the engine   *)
(* may claim, how the bucket refills, and what a change of the queue's     *)
(* settings, or a restart, does to it.  Source: cli/internal/tasks/store.go*)
(* (PutQueue, Claim).                                                      *)
(*                                                                         *)
(* A token is Unit units and a rate is units a tick, so the code's         *)
(* fractional tokens are whole numbers here.  Nothing refills a bucket but *)
(* a claim: it keeps the tokens left and the time since (`elapsed`), which *)
(* counts no further than Full, where any bucket is full.                  *)
(***************************************************************************)
EXTENDS Integers

CONSTANTS
    Unit,     \* a token, in units
    Second,   \* ticks in a second
    Rates,    \* ratePerSecond, in units a tick
    MaxRate,  \* MaxRatePerSecond
    Slots,    \* maxConcurrent
    Full,     \* ticks after which a bucket of any rate is full
    MaxDue,   \* bound: tasks waiting
    Window    \* the longest stretch of time looked back on

AtLeast(a, b) == IF a < b THEN b ELSE a
AtMost(a, b)  == IF a < b THEN a ELSE b

\* One second's worth, and never less than one token: a rate below one task a
\* second still has to let one through.
Burst(r) == AtLeast(r * Second, Unit)

ASSUME BucketAssumption ==
    /\ Unit \in Nat \ {0} /\ Second \in Nat \ {0} /\ Slots \in Nat \ {0}
    /\ MaxRate \in Nat \ {0} /\ Rates \subseteq 1..MaxRate
    /\ MaxDue \in Nat /\ Window \in Nat /\ Full \in Nat

ASSUME FullAssumption == \A r \in Rates : r * Full >= Burst(r)

VARIABLES
    rate,     \* the queue's rate
    paused,   \* whether the queue is paused
    tokens,   \* queue.tokens, as of the last claim
    elapsed,  \* ticks since queue.refilled_at
    due,      \* scheduled tasks whose run time has come
    sending,  \* the queue's deliveries in flight
    recent    \* history: k -> tasks claimed within the last k ticks

bucketVars == <<rate, paused, tokens, elapsed, due, sending, recent>>

\* The bucket a queue is created with is full.
BucketInit ==
    /\ rate \in Rates /\ paused = FALSE
    /\ tokens = Burst(rate) /\ elapsed = 0
    /\ due = 0 /\ sending = 0
    /\ recent = [k \in 0..Window |-> 0]

-----------------------------------------------------------------------------
\* Faulty: a rate below one token a second never fills a token.
LevelUnrounded == AtMost(tokens + elapsed * rate, rate * Second)

\* What is in the bucket now, at the rate in force now.
Level == AtMost(tokens + elapsed * rate, Burst(rate))

\* Tasks a pass takes: whole tokens, free slots, tasks due.
Grant == AtMost(AtMost(Level \div Unit, Slots - sending), due)

Taken(n) == recent' = [k \in 0..Window |-> recent[k] + n]

\* A pass that takes nothing leaves the bucket as it was.
BucketClaim ==
    /\ ~paused /\ Grant > 0
    /\ tokens' = Level - Grant * Unit /\ elapsed' = 0
    /\ due' = due - Grant /\ sending' = sending + Grant
    /\ Taken(Grant)
    /\ UNCHANGED <<rate, paused>>

\* Faulty: a change of settings starts a fresh bucket.
PutQueueRefilling(r, p) ==
    /\ rate' = r /\ paused' = p
    /\ tokens' = Burst(r) /\ elapsed' = 0
    /\ UNCHANGED <<due, sending, recent>>

\* A change of rate, a pause or a resume: the bucket stays as it is.
PutQueue(r, p) ==
    /\ rate' = r /\ paused' = p
    /\ UNCHANGED <<tokens, elapsed, due, sending, recent>>

BecomesDue ==
    /\ due < MaxDue /\ due' = due + 1
    /\ UNCHANGED <<rate, paused, tokens, elapsed, sending, recent>>

Leave ==
    /\ sending > 0 /\ sending' = sending - 1
    /\ UNCHANGED <<rate, paused, tokens, elapsed, due, recent>>

\* The bucket is in the database, what is in flight is not.
BucketRestart ==
    /\ sending > 0 /\ sending' = 0
    /\ UNCHANGED <<rate, paused, tokens, elapsed, due, recent>>

BucketTick ==
    /\ elapsed' = AtMost(elapsed + 1, Full)
    /\ recent' = [k \in 0..Window |-> IF k = 0 THEN 0 ELSE recent[k - 1]]
    /\ UNCHANGED <<rate, paused, tokens, due, sending>>

BucketNext == \/ BucketClaim \/ BecomesDue \/ Leave \/ BucketRestart \/ BucketTick
              \/ \E r \in Rates, p \in BOOLEAN : PutQueue(r, p)

BucketSpec == BucketInit /\ [][BucketNext]_bucketVars

\* Time passes, deliveries return, and the engine's loop passes every second.
BucketFairSpec == BucketSpec /\ WF_bucketVars(BucketTick) /\ WF_bucketVars(Leave) /\ WF_bucketVars(BucketClaim)

-----------------------------------------------------------------------------
\* Every variable has its type: no bucket is overdrawn, no slot is taken twice.
BucketTypeOK ==
    /\ rate \in Rates /\ paused \in BOOLEAN
    /\ tokens \in 0..Burst(MaxRate) /\ elapsed \in 0..Full
    /\ due \in 0..MaxDue /\ sending \in 0..Slots
    /\ recent \in [0..Window -> Nat]

\* However the engine's passes, changes of rate, pauses and restarts fall, what
\* is claimed within any k ticks is at most a full bucket and k ticks of refill.
WindowBound ==
    \A k \in 0..Window : Unit * recent[k] <= Burst(MaxRate) + k * MaxRate

\* However slow its rate, a queue whose settings are left alone keeps claiming
\* for as long as it has tasks and is not paused.
Flows ==
    <>[][UNCHANGED <<rate, paused>>]_bucketVars
        => []<>(due = 0 \/ paused) \/ []<><<due' < due>>_bucketVars

\* The bucket is not overdrawn, and no window of time sees more than its rate allows.
BucketHolds == BucketTypeOK /\ WindowBound

=============================================================================
