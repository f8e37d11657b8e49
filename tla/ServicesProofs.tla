---------------------------- MODULE ServicesProofs ----------------------------
(***************************************************************************)
(* Proofs about the services beside the queues: what a repeated call does  *)
(* and how many the rate limit lets through, an object and its bytes, what *)
(* jobs may cost and how they end, and the tasks that writes add.          *)
(***************************************************************************)
EXTENDS ContainerJobs, JobLog, BlobUploads, TriggerChain, ApiCalls, SequenceTheorems, FiniteSetTheorems, WellFoundedInduction, TLAPS

-----------------------------------------------------------------------------
(* Least elements, and pages *)

\* A set of naturals that is not empty has a least element.
LEMMA LeastExists ==
    ASSUME NEW S \in SUBSET Nat, S # {}
    PROVE  \E k \in S : \A i \in S : k <= i
<1> DEFINE R == OpToRel(<, Nat)
<1>1. IsWellFoundedOn(R, Nat)
  BY NatLessThanWellFounded
<1>2. \A x, y \in Nat : x < y => <<x, y>> \in R
  BY DEF OpToRel
<1> HIDE DEF R
<1>3. PICK k \in S : \A i \in S : ~ (<<i, k>> \in R)
  BY <1>1, WFMin
<1>4. \A i \in S : ~ (i < k)
  BY <1>2, <1>3
<1>. QED
  BY <1>4

LEMMA FinitePlaces ==
    ASSUME NEW m \in Nat, NEW S \in SUBSET (1..m)
    PROVE  IsFiniteSet(S) /\ Cardinality(S) \in Nat
<1>1. IsFiniteSet(1..m)
  BY FS_Interval
<1>2. IsFiniteSet(S)
  BY <1>1, FS_Subset
<1>. QED
  BY <1>2, FS_CardinalityType

\* The members of a set whose rank is under n, when they are not all, have one of the highest rank,
\* and the others' ranks are higher.
LEMMA RankedPage ==
    ASSUME NEW S, NEW rank \in [S -> Nat], NEW P \in SUBSET S, NEW n \in Nat, n > 0, P # S,
           \A b \in S : b \in P <=> rank[b] < n,
           \A b \in S : (\A d \in S : rank[b] <= rank[d]) => rank[b] = 0
    PROVE  \E m \in P : /\ \A d \in P : rank[d] <= rank[m]
                        /\ \A b \in S : b \notin P => rank[m] < rank[b]
<1>1. P # {}
  <2> DEFINE R == {rank[b] : b \in S}
  <2>1. R \in SUBSET Nat /\ R # {}
    OBVIOUS
  <2> HIDE DEF R
  <2>2. PICK k \in R : \A i \in R : k <= i
    BY <2>1, LeastExists
  <2>3. PICK m \in S : rank[m] = k
    BY <2>2 DEF R
  <2>4. \A b \in S : rank[m] <= rank[b]
    BY <2>2, <2>3 DEF R
  <2>. QED
    BY <2>3, <2>4
<1>2. PICK m \in P : \A d \in P : rank[d] <= rank[m]
  <2> DEFINE T == {n - rank[b] : b \in P}
  <2>1. T # {}
    BY <1>1
  <2>2. \A b \in P : n - rank[b] \in Nat
    OBVIOUS
  <2>3. T \in SUBSET Nat
    BY <2>2
  <2> HIDE DEF T
  <2>4. PICK k \in T : \A i \in T : k <= i
    BY <2>1, <2>3, LeastExists
  <2>5. PICK m \in P : n - rank[m] = k
    BY <2>4 DEF T
  <2>6. ASSUME NEW d \in P PROVE rank[d] <= rank[m]
    <3>1. n - rank[m] <= n - rank[d]
      BY <2>4, <2>5 DEF T
    <3>2. rank[m] \in Nat /\ rank[d] \in Nat
      OBVIOUS
    <3>. QED
      BY <3>1, <3>2
  <2>. QED
    BY <2>6
<1>3. ASSUME NEW b \in S, b \notin P PROVE rank[m] < rank[b]
  <2>1. rank[m] < n /\ ~(rank[b] < n) /\ rank[m] \in Nat /\ rank[b] \in Nat
    BY <1>3
  <2>. QED
    BY <2>1
<1>. QED
  BY <1>2, <1>3

-----------------------------------------------------------------------------
(* Calls of the client libraries *)

Answers == {"ok", "refused", "limited", "unavailable", "gateway"}

Phases == {"idle", "sent", "answered", "pausing", "done", "hung"}
Outcomes == Answers \cup {"none", "failed", "unsent", "broken"}
SortOrNone == Sorts \cup {<<>>}
KeyOrNone  == Keys \cup {"none"}
Call == [phase : Phases, sort : SortOrNone, key : KeyOrNone, attempt : Nat, outcome : Outcomes,
         left : Nat, owed : Nat]

\* The requests of a caller that may still reach the server.
Own(c) == {r \in air : r[1] = c}

\* A call that must not be repeated has one request under way at most, which is the last it
\* made; while that or another can still arrive, nothing was done for the call.
SentOnce(c) ==
    /\ Own(c) \subseteq {<<c, calls[c].attempt>>}
    /\ Own(c) # {} => effects[c] = 0 /\ calls[c].phase \in {"sent", "done"}
    /\ calls[c].phase = "pausing" => effects[c] = 0
    /\ calls[c].phase = "answered" /\ calls[c].outcome \in {"limited", "unavailable"} => effects[c] = 0

CallInv(c) ==
    /\ effects[c] \in Nat
    /\ calls[c].phase = "idle" => calls[c].attempt = 0 /\ effects[c] = 0 /\ Own(c) = {}
    /\ calls[c].phase # "idle" =>
          /\ calls[c].sort \in Sorts
          /\ calls[c].attempt \in 1..Attempts(c)
          /\ calls[c].phase = "pausing" => calls[c].attempt < Attempts(c)
          /\ calls[c].phase = "answered" => calls[c].outcome \in Answers
          /\ calls[c].phase \in {"answered", "done"} /\ calls[c].outcome = "ok" => effects[c] >= 1
          /\ Kind(c) # "create" => effects[c] <= 1
          /\ Kind(c) = "once" => SentOnce(c)

CallsTyped ==
    /\ calls \in [Callers -> Call] /\ effects \in [Callers -> Nat]
    /\ air \subseteq Callers \X (1..4)

\* What the bucket may hold by now, at the highest limit there is.
Refilled == IF spare + since * MaxRpm < Token * MaxRpm THEN spare + since * MaxRpm ELSE Token * MaxRpm

\* What was let through within k ticks and what may be let through now share one budget: a
\* minute's worth and the refill of k ticks.
ApiBudget == \A k \in Lookback : Token * lately[k] + Refilled <= Token * MaxRpm + k * MaxRpm

LimitTyped ==
    /\ rpm \in 0..MaxRpm
    /\ spare \in 0..(Token * MaxRpm) /\ since \in Lookback
    /\ lately \in [Lookback -> Nat]

CallsInv == CallsTyped /\ (\A c \in Callers : CallInv(c)) /\ LimitTyped /\ ApiBudget

-----------------------------------------------------------------------------
LEMMA CallRecord ==
    ASSUME NEW p \in Phases, NEW s \in SortOrNone, NEW k \in KeyOrNone, NEW n \in Nat,
           NEW x \in Outcomes, NEW l \in Nat, NEW o \in Nat
    PROVE  [phase |-> p, sort |-> s, key |-> k, attempt |-> n, outcome |-> x, left |-> l,
            owed |-> o] \in Call
  BY DEF Call

LEMMA IdleRecord == IdleCall \in Call /\ IdleCall.phase = "idle" /\ IdleCall.attempt = 0
<1>1. "idle" \in Phases /\ <<>> \in SortOrNone /\ "none" \in KeyOrNone /\ "none" \in Outcomes
  BY DEF Phases, SortOrNone, KeyOrNone, Outcomes
<1>2. [phase |-> "idle", sort |-> <<>>, key |-> "none", attempt |-> 0, outcome |-> "none",
       left |-> 0, owed |-> 0] \in Call
  BY <1>1, CallRecord
<1>. QED
  BY <1>2 DEF IdleCall

LEMMA AttemptsMade ==
    ASSUME NEW c
    PROVE  Attempts(c) \in {1, 3, 4}
  BY DEF Attempts

\* A step about other callers leaves a call as it was.
LEMMA OthersCall ==
    ASSUME NEW c \in Callers, CallInv(c),
           calls'[c] = calls[c], effects'[c] = effects[c], Own(c)' = Own(c)
    PROVE  CallInv(c)'
  BY DEF CallInv, SentOnce, Attempts, Lib, Kind

\* The loop's turn keeps what is known of the call, when a repeat of one that must not be
\* repeated follows an attempt that came to nothing.
LEMMA TurnKeeps ==
    ASSUME CallsTyped, NEW c \in Callers, NEW a \in Outcomes, CallInv(c),
           calls[c].phase \in {"sent", "answered"}, Turn(c, a), effects' = effects,
           Own(c)' \subseteq Own(c), a = "ok" => effects[c] >= 1,
           Kind(c) = "once" /\ Retryable(c, a) /\ calls[c].attempt < Attempts(c)
             => effects[c] = 0 /\ Own(c)' = {},
           Kind(c) = "once" => Own(c)' = {} \/ calls[c].phase = "sent"
    PROVE  /\ CallInv(c)' /\ calls' \in [Callers -> Call]
           /\ \A d \in Callers \ {c} : calls'[d] = calls[d]
<1>1. /\ calls[c] \in Call /\ calls[c].sort \in Sorts /\ calls[c].attempt \in 1..Attempts(c)
      /\ effects[c] \in Nat /\ (Kind(c) # "create" => effects[c] <= 1)
      /\ (Kind(c) = "once" => SentOnce(c))
  BY DEF CallsTyped, CallInv
<1>2. CASE Retryable(c, a) /\ calls[c].attempt < Attempts(c)
  <2>1. PICK d \in Pauses(c, a, calls[c].attempt) :
            calls' = [calls EXCEPT ![c].phase = "pausing", ![c].left = d, ![c].outcome = "none",
                                   ![c].owed = IF a = "limited" THEN RetryAfter ELSE 0]
    BY <1>2 DEF Turn
  <2>2. d \in Nat
    <3>1. calls[c].attempt \in 1..4
      BY <1>1, AttemptsMade
    <3>2. Doubled(calls[c].attempt) \in Nat
      <4>1. 2 ^ 0 \in Nat /\ 2 ^ 1 \in Nat /\ 2 ^ 2 \in Nat /\ 2 ^ 3 \in Nat
        OBVIOUS
      <4>2. calls[c].attempt - 1 \in {0, 1, 2, 3}
        BY <3>1
      <4>3. 2 ^ (calls[c].attempt - 1) \in Nat
        BY <4>1, <4>2
      <4>. QED
        BY <3>1, <4>3 DEF Doubled
    <3>3. RetryAfter \in Nat
      BY CallsAssumption
    <3>4. Raised(a, Doubled(calls[c].attempt)) \in Nat
      BY <3>2, <3>3 DEF Raised
    <3>5. \A n \in Nat : (n + 1) \div 2 \in Nat
      OBVIOUS
    <3>6. (Raised(a, Doubled(calls[c].attempt)) + 1) \div 2 \in Nat
      BY <3>4, <3>5
    <3>7. 2 * Doubled(calls[c].attempt) \in Nat
      BY <3>2
    <3>8. Pauses(c, a, calls[c].attempt) \subseteq Nat
      <4>1. CASE Lib(c) = "cli"
        BY <4>1, <3>3, <3>7 DEF Pauses
      <4>2. CASE Lib(c) # "cli"
        BY <4>2, <3>4, <3>6 DEF Pauses
      <4>. QED
        BY <4>1, <4>2
    <3>. QED
      BY <2>1, <3>8
  <2>3. calls'[c] = [calls[c] EXCEPT !.phase = "pausing", !.left = d, !.outcome = "none",
                                     !.owed = IF a = "limited" THEN RetryAfter ELSE 0]
    BY <2>1 DEF CallsTyped
  <2>4. /\ calls'[c] \in Call /\ calls'[c].phase = "pausing" /\ calls'[c].sort = calls[c].sort
        /\ calls'[c].attempt = calls[c].attempt
    <3>1. RetryAfter \in Nat
      BY CallsAssumption
    <3>2. (IF a = "limited" THEN RetryAfter ELSE 0) \in Nat
      BY <3>1
    <3>3. PICK o \in Nat : calls'[c] = [calls[c] EXCEPT !.phase = "pausing", !.left = d,
                                                      !.outcome = "none", !.owed = o]
      BY <2>3, <3>2
    <3>4. /\ calls'[c].phase = "pausing" /\ calls'[c].sort = calls[c].sort
          /\ calls'[c].attempt = calls[c].attempt
      BY <1>1, <3>3 DEF Call
    <3>5. calls'[c] = [phase |-> "pausing", sort |-> calls[c].sort, key |-> calls[c].key,
                       attempt |-> calls[c].attempt, outcome |-> "none", left |-> d, owed |-> o]
      BY <1>1, <3>3 DEF Call
    <3>6. /\ calls[c].sort \in SortOrNone /\ calls[c].key \in KeyOrNone
          /\ calls[c].attempt \in Nat
      BY <1>1 DEF Call
    <3>7. calls'[c] \in Call
      <4>1. "pausing" \in Phases /\ "none" \in Outcomes
        BY DEF Phases, Outcomes
      <4>2. d \in Nat /\ o \in Nat
        BY <2>2
      <4>3. [phase |-> "pausing", sort |-> calls[c].sort, key |-> calls[c].key,
             attempt |-> calls[c].attempt, outcome |-> "none", left |-> d, owed |-> o] \in Call
        BY <3>6, <4>1, <4>2, CallRecord
      <4>. QED
        BY <3>5, <4>3
    <3>. QED
      BY <3>4, <3>7
  <2>5. calls' \in [Callers -> Call] /\ \A e \in Callers \ {c} : calls'[e] = calls[e]
    BY <2>1, <2>4 DEF CallsTyped
  <2>6. CallInv(c)'
    BY <1>1, <1>2, <2>4 DEF CallInv, SentOnce, Attempts, Lib, Kind
  <2>. QED
    BY <2>5, <2>6
<1>3. CASE ~(Retryable(c, a) /\ calls[c].attempt < Attempts(c))
  <2>1. calls' = [calls EXCEPT ![c].phase = "done", ![c].outcome = a]
    BY <1>3 DEF Turn
  <2>2. /\ calls'[c] \in Call /\ calls'[c].phase = "done" /\ calls'[c].sort = calls[c].sort
        /\ calls'[c].attempt = calls[c].attempt /\ calls'[c].outcome = a
    BY <1>1, <2>1 DEF CallsTyped, Call, Phases
  <2>3. calls' \in [Callers -> Call] /\ \A e \in Callers \ {c} : calls'[e] = calls[e]
    BY <2>1, <2>2 DEF CallsTyped
  <2>4. CallInv(c)'
    BY <1>1, <2>2 DEF CallInv, SentOnce, Attempts, Lib, Kind
  <2>. QED
    BY <2>3, <2>4
<1>. QED
  BY <1>2, <1>3

\* A step about one call leaves the others as they were.
LEMMA OneCall ==
    ASSUME \A d \in Callers : CallInv(d), NEW c \in Callers, CallInv(c)',
           \A d \in Callers \ {c} : /\ calls'[d] = calls[d] /\ effects'[d] = effects[d]
                                    /\ Own(d)' = Own(d)
    PROVE  \A d \in Callers : CallInv(d)'
<1> SUFFICES ASSUME NEW d \in Callers, d # c PROVE CallInv(d)'
  OBVIOUS
<1>1. /\ CallInv(d) /\ calls'[d] = calls[d] /\ effects'[d] = effects[d] /\ Own(d)' = Own(d)
  OBVIOUS
<1>. QED
  BY <1>1, OthersCall

LEMMA BeginsKeeps ==
    ASSUME CallsTyped, \A d \in Callers : CallInv(d),
           NEW c \in Callers, NEW s \in Sorts, NEW k \in Keys, Begins(c, s, k)
    PROVE  CallsTyped' /\ \A d \in Callers : CallInv(d)'
<1>1. /\ calls[c] = IdleCall /\ effects[c] = 0 /\ Own(c) = {} /\ effects' = effects
      /\ air' = air \cup {<<c, 1>>}
  <2>1. calls[c] = IdleCall /\ CallInv(c)
    BY DEF Begins
  <2>2. IdleCall.phase = "idle"
    BY DEF IdleCall
  <2>3. effects[c] = 0 /\ Own(c) = {}
    BY <2>1, <2>2 DEF CallInv
  <2>. QED
    BY <2>1, <2>3 DEF Begins
<1>2. calls'[c] = [phase |-> "sent", sort |-> s, key |-> k, attempt |-> 1, outcome |-> "none",
                   left |-> 0, owed |-> 0]
  BY <1>1 DEF Begins, IdleCall, CallsTyped
<1>3. calls'[c] \in Call
  <2>1. "sent" \in Phases /\ s \in SortOrNone /\ k \in KeyOrNone /\ "none" \in Outcomes
    BY DEF Phases, SortOrNone, KeyOrNone, Outcomes
  <2>2. [phase |-> "sent", sort |-> s, key |-> k, attempt |-> 1, outcome |-> "none", left |-> 0,
         owed |-> 0] \in Call
    BY <2>1, CallRecord
  <2>. QED
    BY <1>2, <2>2
<1>4. calls' = [calls EXCEPT ![c] = calls'[c]]
  BY <1>2 DEF Begins, CallsTyped
<1>5. CallsTyped'
  BY <1>1, <1>3, <1>4 DEF CallsTyped
<1>6. Own(c)' = {<<c, 1>>}
  BY <1>1 DEF Own
<1>7. CallInv(c)'
  <2>1. 1 \in 1..Attempts(c)'
    <3>1. Attempts(c)' \in Nat /\ Attempts(c)' >= 1
      BY DEF Attempts
    <3>. QED
      BY <3>1
  <2>2. Kind(c)' = s[2] /\ calls'[c].phase = "sent" /\ calls'[c].sort = s /\ calls'[c].attempt = 1
    <3>1. calls'[c].phase = "sent"
      BY <1>2
    <3>2. calls'[c].sort = s
      BY <1>2
    <3>3. calls'[c].attempt = 1
      BY <1>2
    <3>. QED
      BY <3>1, <3>2, <3>3 DEF Kind
  <2>3. effects'[c] = 0 /\ calls'[c].outcome = "none" /\ Own(c)' \subseteq {<<c, calls'[c].attempt>>}
    <3>1. calls'[c].outcome = "none"
      BY <1>2
    <3>. QED
      BY <1>1, <1>6, <2>2, <3>1
  <2>4. SentOnce(c)'
    BY <2>2, <2>3 DEF SentOnce
  <2>. QED
    BY <2>1, <2>2, <2>3, <2>4 DEF CallInv
<1>8. \A d \in Callers \ {c} : /\ calls'[d] = calls[d] /\ effects'[d] = effects[d]
                               /\ Own(d)' = Own(d)
  BY <1>1, <1>4 DEF Own, CallsTyped
<1>. QED
  BY <1>5, <1>7, <1>8, OneCall

\* The loop's turns: an answer that arrives whole, fails, was never asked for or breaks off.
LEMMA TurnsKeep ==
    ASSUME CallsTyped, \A d \in Callers : CallInv(d), NEW c \in Callers,
           Receives(c) \/ Fails(c) \/ Unsent(c) \/ Breaks(c)
    PROVE  CallsTyped' /\ \A d \in Callers : CallInv(d)'
<1>1. /\ CallInv(c) /\ calls[c] \in Call /\ effects' = effects /\ air' \subseteq air
      /\ calls[c].phase \in {"sent", "answered"}
  BY DEF CallsTyped, Receives, Fails, Unsent, Breaks
<1>2. PICK a \in Outcomes :
         /\ Turn(c, a)
         /\ \/ calls[c].phase = "answered" /\ a = calls[c].outcome /\ air' = air
            \/ a = "failed" /\ air' = air
            \/ /\ calls[c].phase = "sent" /\ <<c, calls[c].attempt>> \in air /\ a = "unsent"
               /\ air' = air \ {<<c, calls[c].attempt>>}
            \/ calls[c].phase = "answered" /\ a = "broken" /\ air' = air
  <2>1. calls[c].outcome \in Outcomes /\ {"failed", "unsent", "broken"} \subseteq Outcomes
    BY <1>1 DEF Call, Outcomes
  <2>2. CASE Receives(c)
    BY <2>1, <2>2 DEF Receives
  <2>3. CASE Fails(c)
    BY <2>1, <2>3 DEF Fails
  <2>4. CASE Unsent(c)
    BY <2>1, <2>4 DEF Unsent
  <2>5. CASE Breaks(c)
    BY <2>1, <2>5 DEF Breaks
  <2>. QED
    BY <2>2, <2>3, <2>4, <2>5
<1>3. Own(c)' \subseteq Own(c) /\ \A d \in Callers \ {c} : Own(d)' = Own(d)
  BY <1>2 DEF Own
<1>4. calls[c].phase # "idle" /\ calls[c].attempt \in 1..Attempts(c)
  BY <1>1 DEF CallInv
<1>5. a = "ok" => effects[c] >= 1
  BY <1>1, <1>2 DEF CallInv
<1>6. ASSUME Kind(c) = "once"
      PROVE  Own(c)' = {} \/ calls[c].phase = "sent"
  BY <1>1, <1>3, <1>4, <1>6 DEF CallInv, SentOnce
<1>7. ASSUME Kind(c) = "once", Retryable(c, a), calls[c].attempt < Attempts(c)
      PROVE  effects[c] = 0 /\ Own(c)' = {}
  <2>1. Lib(c) = "cli" /\ ~Idempotent(c)
    BY <1>4, <1>7 DEF Attempts, Idempotent
  <2>2. a \in {"limited", "unavailable", "unsent"}
    BY <1>7, <2>1 DEF Retryable
  <2>3. SentOnce(c) /\ (calls[c].phase = "answered" => calls[c].outcome \in Answers)
    BY <1>1, <1>4, <1>7 DEF CallInv
  <2>4. CASE a = "unsent"
    <3>1. <<c, calls[c].attempt>> \in Own(c) /\ air' = air \ {<<c, calls[c].attempt>>}
      BY <1>2, <2>3, <2>4 DEF Own, Answers
    <3>. QED
      BY <2>3, <3>1 DEF SentOnce, Own
  <2>5. CASE a # "unsent"
    <3>1. calls[c].phase = "answered" /\ a = calls[c].outcome
      BY <1>2, <2>2, <2>5
    <3>. QED
      BY <1>3, <2>2, <2>3, <2>5, <3>1 DEF SentOnce
  <2>. QED
    BY <2>4, <2>5
<1>8. CallInv(c)' /\ calls' \in [Callers -> Call] /\ \A d \in Callers \ {c} : calls'[d] = calls[d]
  BY <1>1, <1>2, <1>3, <1>5, <1>6, <1>7, TurnKeeps
<1>9. CallsTyped'
  BY <1>1, <1>8 DEF CallsTyped
<1>. QED
  BY <1>1, <1>3, <1>8, <1>9, OneCall

LEMMA LoopKeeps ==
    ASSUME CallsTyped, \A d \in Callers : CallInv(d), NEW c \in Callers,
           Stalls(c) \/ Resumes(c) \/ Rests(c)
    PROVE  CallsTyped' /\ \A d \in Callers : CallInv(d)'
<1>1. calls[c] \in Call /\ CallInv(c)
  BY DEF CallsTyped
<1>2. CASE Stalls(c)
  <2>1. /\ calls'[c] = [calls[c] EXCEPT !.phase = "hung"] /\ calls' = [calls EXCEPT ![c] = calls'[c]]
        /\ air' = air /\ effects' = effects /\ calls[c].phase = "answered"
    BY <1>2 DEF Stalls, CallsTyped
  <2>2. /\ calls'[c] \in Call /\ calls'[c].phase = "hung" /\ calls'[c].sort = calls[c].sort
        /\ calls'[c].attempt = calls[c].attempt
    BY <1>1, <2>1 DEF Call, Phases
  <2>3. CallsTyped'
    BY <2>1, <2>2 DEF CallsTyped
  <2>4. CallInv(c)'
    BY <1>1, <2>1, <2>2 DEF CallInv, SentOnce, Own, Attempts, Lib, Kind
  <2>5. \A d \in Callers \ {c} : /\ calls'[d] = calls[d] /\ effects'[d] = effects[d]
                                 /\ Own(d)' = Own(d)
    BY <2>1 DEF Own, CallsTyped
  <2>. QED
    BY <2>3, <2>4, <2>5, OneCall
<1>3. CASE Resumes(c)
  <2>1. /\ calls'[c] = [calls[c] EXCEPT !.phase = "sent", !.attempt = @ + 1, !.owed = 0]
        /\ calls' = [calls EXCEPT ![c] = calls'[c]]
        /\ air' = air \cup {<<c, calls[c].attempt + 1>>} /\ effects' = effects
        /\ calls[c].phase = "pausing"
    BY <1>3 DEF Resumes, CallsTyped
  <2>2. /\ calls'[c] \in Call /\ calls'[c].phase = "sent" /\ calls'[c].sort = calls[c].sort
        /\ calls'[c].attempt = calls[c].attempt + 1
    <3>1. calls[c].attempt + 1 \in Nat
      BY <1>1 DEF Call
    <3>2. PICK m \in Nat : m = calls[c].attempt + 1
      BY <3>1
    <3>3. calls'[c] = [calls[c] EXCEPT !.phase = "sent", !.attempt = m, !.owed = 0]
      BY <2>1, <3>2
    <3>4. calls'[c] = [phase |-> "sent", sort |-> calls[c].sort, key |-> calls[c].key, attempt |-> m,
                       outcome |-> calls[c].outcome, left |-> calls[c].left, owed |-> 0]
      BY <1>1, <3>3 DEF Call
    <3>5. "sent" \in Phases
      BY DEF Phases
    <3>6. /\ calls[c].sort \in SortOrNone /\ calls[c].key \in KeyOrNone
          /\ calls[c].outcome \in Outcomes /\ calls[c].left \in Nat
      BY <1>1 DEF Call
    <3>7. [phase |-> "sent", sort |-> calls[c].sort, key |-> calls[c].key, attempt |-> m,
           outcome |-> calls[c].outcome, left |-> calls[c].left, owed |-> 0] \in Call
      BY <3>5, <3>6, CallRecord
    <3>8. calls'[c].phase = "sent" /\ calls'[c].sort = calls[c].sort /\ calls'[c].attempt = m
      BY <3>4
    <3>. QED
      BY <3>2, <3>4, <3>7, <3>8
  <2>3. calls[c].attempt + 1 \in 1..Attempts(c) /\ calls[c].attempt + 1 \in 1..4
    BY <1>1, <2>1, AttemptsMade DEF CallInv
  <2>4. CallsTyped'
    BY <2>1, <2>2, <2>3 DEF CallsTyped
  <2>5. Attempts(c)' = Attempts(c) /\ Kind(c)' = Kind(c)
    BY <2>2 DEF Attempts, Lib, Kind
  <2>6. Own(c)' = Own(c) \cup {<<c, calls'[c].attempt>>}
    BY <2>1, <2>2 DEF Own
  <2>7. Kind(c) = "once" => SentOnce(c)'
    BY <1>1, <2>1, <2>2, <2>6 DEF CallInv, SentOnce
  <2>8. CallInv(c)'
    BY <1>1, <2>1, <2>2, <2>3, <2>5, <2>7 DEF CallInv
  <2>9. \A d \in Callers \ {c} : /\ calls'[d] = calls[d] /\ effects'[d] = effects[d]
                                 /\ Own(d)' = Own(d)
    BY <2>1 DEF Own, CallsTyped
  <2>. QED
    BY <2>4, <2>8, <2>9, OneCall
<1>4. CASE Rests(c)
  <2>1. /\ calls'[c] = IdleCall /\ calls' = [calls EXCEPT ![c] = calls'[c]] /\ air' = air
        /\ effects'[c] = 0 /\ effects' = [effects EXCEPT ![c] = 0] /\ Own(c) = {}
    BY <1>4 DEF Rests, CallsTyped, Own
  <2>2. IdleCall \in Call /\ IdleCall.phase = "idle" /\ IdleCall.attempt = 0
    BY IdleRecord
  <2>3. CallsTyped'
    BY <2>1, <2>2 DEF CallsTyped
  <2>4. CallInv(c)'
    BY <2>1, <2>2 DEF CallInv, Own
  <2>5. \A d \in Callers \ {c} : /\ calls'[d] = calls[d] /\ effects'[d] = effects[d]
                                 /\ Own(d)' = Own(d)
    BY <2>1 DEF Own, CallsTyped
  <2>. QED
    BY <2>3, <2>4, <2>5, OneCall
<1>. QED
  BY <1>2, <1>3, <1>4

\* What may be made of a request: an answer of success has taken effect, by now or before, and
\* one that turns the request away has not.
LEMMA HandledFacts ==
    ASSUME NEW c, effects[c] \in Nat, Kind(c) \in Kinds, NEW x \in Handled(c)
    PROVE  /\ x[1] \in Answers /\ x[2] \in {0, 1}
           /\ x[1] = "ok" => effects[c] + x[2] >= 1
           /\ x[2] = 1 => effects[c] = 0 \/ Kind(c) \in {"once", "create"}
           /\ x[1] \in {"limited", "unavailable"} => x[2] = 0
<1>1. \A y \in Acts(c) : /\ y[1] \in {"ok", "refused"} /\ y[2] \in {0, 1}
                         /\ y[1] = "ok" => effects[c] + y[2] >= 1
                         /\ y[2] = 1 => effects[c] = 0 \/ Kind(c) \in {"once", "create"}
  BY DEF Acts
<1>2. \A y \in Hidden(c) : /\ y[1] \in {"unavailable", "gateway"}
                           /\ y[1] = "unavailable" => y[2] = 0
                           /\ y[2] = 0 \/ \E z \in Acts(c) : y[2] = z[2]
  BY DEF Hidden
<1>3. CASE ~LetsThrough
  BY <1>3 DEF Handled, Answers
<1>4. CASE LetsThrough /\ ~Authorized(calls[c].key)
  BY <1>4 DEF Handled, Answers
<1>5. CASE LetsThrough /\ Authorized(calls[c].key) /\ x \in Acts(c)
  BY <1>1, <1>5 DEF Answers
<1>6. CASE LetsThrough /\ Authorized(calls[c].key) /\ x \in Hidden(c)
  BY <1>1, <1>2, <1>6 DEF Answers
<1>. QED
  BY <1>3, <1>4, <1>5, <1>6 DEF Handled

LEMMA ServesKeeps ==
    ASSUME CallsTyped, \A d \in Callers : CallInv(d), NEW c \in Callers, NEW n \in 1..4,
           Serves(c, n)
    PROVE  CallsTyped' /\ \A d \in Callers : CallInv(d)'
<1>1. /\ calls[c] \in Call /\ CallInv(c) /\ effects[c] \in Nat
      /\ <<c, n>> \in air /\ air' = air \ {<<c, n>>} /\ <<c, n>> \in Own(c)
      /\ Own(c)' = Own(c) \ {<<c, n>>}
  BY DEF CallsTyped, Serves, Own
<1>2. PICK x \in Handled(c) :
         /\ effects' = [effects EXCEPT ![c] = @ + x[2]]
         /\ calls' = IF calls[c].phase = "sent" /\ calls[c].attempt = n
                     THEN [calls EXCEPT ![c].phase = "answered", ![c].outcome = x[1]] ELSE calls
  BY DEF Serves
<1>3. calls[c].phase # "idle"
  BY <1>1 DEF CallInv
<1>4. /\ calls[c].sort \in Sorts /\ Kind(c) \in Kinds
  BY <1>1, <1>3, CallsAssumption DEF CallInv, Kind
<1>5. /\ x[1] \in Answers /\ x[2] \in {0, 1}
      /\ x[1] = "ok" => effects[c] + x[2] >= 1
      /\ x[2] = 1 => effects[c] = 0 \/ Kind(c) \in {"once", "create"}
      /\ x[1] \in {"limited", "unavailable"} => x[2] = 0
  BY <1>1, <1>4, HandledFacts
<1>6. effects'[c] = effects[c] + x[2] /\ effects' \in [Callers -> Nat]
  BY <1>2, <1>5 DEF CallsTyped
<1>7. Kind(c) # "create" => effects'[c] <= 1
  BY <1>1, <1>3, <1>5, <1>6 DEF CallInv, SentOnce
<1>8. CASE calls[c].phase = "sent" /\ calls[c].attempt = n
  <2>1. calls' = [calls EXCEPT ![c].phase = "answered", ![c].outcome = x[1]]
    BY <1>2, <1>8
  <2>2. /\ calls'[c].phase = "answered" /\ calls'[c].outcome = x[1] /\ calls'[c].sort = calls[c].sort
        /\ calls'[c].attempt = calls[c].attempt /\ calls'[c] \in Call
        /\ calls' = [calls EXCEPT ![c] = calls'[c]]
    <3>1. x[1] \in Outcomes
      BY <1>5 DEF Outcomes
    <3>. QED
      BY <1>1, <2>1, <3>1 DEF CallsTyped, Call, Phases
  <2>3. CallsTyped'
    BY <1>1, <1>6, <2>2 DEF CallsTyped
  <2>4. Kind(c)' = Kind(c) /\ Attempts(c)' = Attempts(c)
    BY <2>2 DEF Kind, Lib, Attempts
  <2>5. Kind(c) = "once" => SentOnce(c)'
    BY <1>1, <1>3, <1>5, <1>6, <1>8, <2>2 DEF CallInv, SentOnce
  <2>6. CallInv(c)'
    BY <1>1, <1>3, <1>5, <1>6, <1>7, <2>2, <2>4, <2>5 DEF CallInv
  <2>7. \A d \in Callers \ {c} : /\ calls'[d] = calls[d] /\ effects'[d] = effects[d]
                                 /\ Own(d)' = Own(d)
    BY <1>1, <1>2, <2>2 DEF Own, CallsTyped
  <2>. QED
    BY <2>3, <2>6, <2>7, OneCall
<1>9. CASE ~(calls[c].phase = "sent" /\ calls[c].attempt = n)
  <2>1. calls' = calls
    BY <1>2, <1>9
  <2>2. CallsTyped'
    BY <1>1, <1>6, <2>1 DEF CallsTyped
  <2>3. Kind(c) = "once" => SentOnce(c)'
    BY <1>1, <1>3, <1>5, <1>6, <1>9, <2>1 DEF CallInv, SentOnce
  <2>4. CallInv(c)'
    BY <1>1, <1>3, <1>5, <1>6, <1>7, <2>1, <2>3 DEF CallInv, Kind, Attempts, Lib
  <2>5. \A d \in Callers \ {c} : /\ calls'[d] = calls[d] /\ effects'[d] = effects[d]
                                 /\ Own(d)' = Own(d)
    BY <1>1, <1>2, <2>1 DEF Own, CallsTyped
  <2>. QED
    BY <2>2, <2>4, <2>5, OneCall
<1>. QED
  BY <1>8, <1>9

LEMMA VanishesKeeps ==
    ASSUME CallsTyped, \A d \in Callers : CallInv(d), NEW c \in Callers, NEW n \in 1..4,
           Vanishes(c, n)
    PROVE  CallsTyped' /\ \A d \in Callers : CallInv(d)'
<1>1. /\ CallInv(c) /\ calls' = calls /\ effects' = effects /\ air' = air \ {<<c, n>>}
      /\ Own(c)' \subseteq Own(c)
  BY DEF Vanishes, Own
<1>2. CallsTyped'
  BY <1>1 DEF CallsTyped
<1>3. CallInv(c)'
  BY <1>1 DEF CallInv, SentOnce, Attempts, Lib, Kind
<1>4. \A d \in Callers \ {c} : /\ calls'[d] = calls[d] /\ effects'[d] = effects[d]
                               /\ Own(d)' = Own(d)
  BY <1>1 DEF Own
<1>. QED
  BY <1>2, <1>3, <1>4, OneCall

\* Time runs down what is left of a pause, and nothing else of a call.
LEMMA TicksKeeps ==
    ASSUME CallsTyped, \A d \in Callers : CallInv(d), Ticks
    PROVE  CallsTyped' /\ \A d \in Callers : CallInv(d)'
<1>1. air' = air /\ effects' = effects /\ \A d \in Callers : Own(d)' = Own(d)
  BY DEF Ticks, Own
<1>2. \A n \in Nat : Less(n) \in Nat
  BY DEF Less
<1>4. ASSUME NEW d \in Callers
      PROVE  /\ calls'[d] \in Call /\ calls'[d].phase = calls[d].phase
             /\ calls'[d].sort = calls[d].sort /\ calls'[d].attempt = calls[d].attempt
             /\ calls'[d].outcome = calls[d].outcome
  <2>1. calls'[d] = [calls[d] EXCEPT !.left = Less(@), !.owed = Less(@)] /\ calls[d] \in Call
    BY DEF Ticks, CallsTyped
  <2>2. Less(calls[d].left) \in Nat /\ Less(calls[d].owed) \in Nat
    BY <1>2, <2>1 DEF Call
  <2>4. PICK l \in Nat, o \in Nat : calls'[d] = [calls[d] EXCEPT !.left = l, !.owed = o]
    BY <2>1, <2>2
  <2>5. calls'[d] \in Call
    <3>1. calls'[d] = [phase |-> calls[d].phase, sort |-> calls[d].sort, key |-> calls[d].key,
                       attempt |-> calls[d].attempt, outcome |-> calls[d].outcome, left |-> l,
                       owed |-> o]
      BY <2>1, <2>4 DEF Call
    <3>2. /\ calls[d].phase \in Phases /\ calls[d].sort \in SortOrNone
          /\ calls[d].key \in KeyOrNone /\ calls[d].attempt \in Nat
          /\ calls[d].outcome \in Outcomes
      BY <2>1 DEF Call
    <3>3. [phase |-> calls[d].phase, sort |-> calls[d].sort, key |-> calls[d].key,
           attempt |-> calls[d].attempt, outcome |-> calls[d].outcome, left |-> l,
           owed |-> o] \in Call
      BY <3>2, CallRecord
    <3>. QED
      BY <3>1, <3>3
  <2>6. /\ calls'[d].phase = calls[d].phase /\ calls'[d].sort = calls[d].sort
        /\ calls'[d].attempt = calls[d].attempt /\ calls'[d].outcome = calls[d].outcome
    BY <2>1, <2>4 DEF Call
  <2>. QED
    BY <2>5, <2>6
<1>5. CallsTyped'
  <2>1. calls' \in [Callers -> Call]
    BY <1>4 DEF Ticks
  <2>. QED
    BY <1>1, <2>1 DEF CallsTyped
<1>6. ASSUME NEW d \in Callers
      PROVE  CallInv(d)'
  <2>1. CallInv(d) /\ effects'[d] = effects[d] /\ Own(d)' = Own(d)
    BY <1>1
  <2>2. Attempts(d)' = Attempts(d) /\ Kind(d)' = Kind(d)
    BY <1>4 DEF Attempts, Lib, Kind
  <2>. QED
    BY <1>4, <2>1, <2>2 DEF CallInv, SentOnce
<1>. QED
  BY <1>5, <1>6

LEMMA CallsStep ==
    ASSUME CallsTyped, \A d \in Callers : CallInv(d), [ApiNext]_apiVars
    PROVE  CallsTyped' /\ \A d \in Callers : CallInv(d)'
<1>1. CASE \E c \in Callers, s \in Sorts, k \in Keys : Begins(c, s, k)
  BY <1>1, BeginsKeeps
<1>2. CASE \E c \in Callers : Receives(c) \/ Fails(c) \/ Unsent(c) \/ Breaks(c)
  BY <1>2, TurnsKeep
<1>3. CASE \E c \in Callers : Stalls(c) \/ Resumes(c) \/ Rests(c)
  BY <1>3, LoopKeeps
<1>4. CASE \E c \in Callers, n \in 1..4 : Serves(c, n)
  BY <1>4, ServesKeeps
<1>5. CASE \E c \in Callers, n \in 1..4 : Vanishes(c, n)
  BY <1>5, VanishesKeeps
<1>6. CASE Ticks
  BY <1>6, TicksKeeps
<1>7. CASE UNCHANGED <<calls, air, effects>>
  <2>1. \A d \in Callers : calls'[d] = calls[d] /\ effects'[d] = effects[d] /\ Own(d)' = Own(d)
    BY <1>7 DEF Own
  <2>. QED
    BY <1>7, <2>1, OthersCall DEF CallsTyped
<1>. QED
  BY <1>1, <1>2, <1>3, <1>4, <1>5, <1>6, <1>7
     DEF ApiNext, CallGoesOn, MintKey, SetLimit, ApiRestart, apiVars

-----------------------------------------------------------------------------
(* The rate limit *)

LEMMA ApiNumbers ==
    /\ Token \in Nat /\ Token > 0 /\ MaxRpm \in Nat /\ Token * MaxRpm \in Nat
    /\ Lookback = 0..Token
<1>1. Token \in Nat /\ Token > 0 /\ MaxRpm \in Nat
  BY CallsAssumption DEF Token
<1>. QED
  BY <1>1 DEF Lookback, Token

\* Multiplication by a natural number keeps the order of two others.
LEMMA TimesOrder ==
    ASSUME NEW a \in Nat, NEW b \in Nat, NEW c \in Nat, a <= b
    PROVE  /\ a * c \in Nat /\ b * c \in Nat /\ a * c <= b * c
           /\ c * a \in Nat /\ c * b \in Nat /\ c * a <= c * b
<1>1. b - a \in Nat /\ b = a + (b - a)
  OBVIOUS
<1>2. b * c = a * c + (b - a) * c
  BY <1>1
<1>3. a * c \in Nat /\ b * c \in Nat /\ (b - a) * c \in Nat
  BY <1>1
<1>4. c * a = a * c /\ c * b = b * c
  OBVIOUS
<1>. QED
  BY <1>2, <1>3, <1>4

LEMMA OneMore ==
    ASSUME NEW a \in Nat, NEW b \in Nat
    PROVE  a * b \in Nat /\ (a + 1) * b = a * b + b
  OBVIOUS

\* What a request finds in the bucket is no more than the highest limit would have left there.
LEMMA FilledBound ==
    ASSUME LimitTyped
    PROVE  /\ Filled \in Nat /\ Refilled \in Nat
           /\ Filled <= Refilled /\ spare <= Refilled /\ Refilled <= Token * MaxRpm
<1>1. /\ rpm \in Nat /\ rpm <= MaxRpm /\ spare \in Nat /\ spare <= Token * MaxRpm /\ since \in Nat
  BY ApiNumbers DEF LimitTyped
<1>2. /\ since * rpm \in Nat /\ since * MaxRpm \in Nat /\ since * rpm <= since * MaxRpm
      /\ Token * rpm \in Nat /\ Token * rpm <= Token * MaxRpm
  BY <1>1, ApiNumbers, TimesOrder
<1>3. Token * MaxRpm \in Nat
  BY ApiNumbers
<1>. QED
  BY <1>1, <1>2, <1>3 DEF Filled, Refilled, AtMost

LEMMA InitCalls ==
    ASSUME ApiInit
    PROVE  CallsInv
<1>1. CallsTyped
  <2>1. calls \in [Callers -> Call] /\ effects \in [Callers -> Nat] /\ air = {}
    BY IdleRecord DEF ApiInit
  <2>. QED
    BY <2>1 DEF CallsTyped
<1>2. \A c \in Callers : CallInv(c)
  BY IdleRecord DEF ApiInit, CallInv, Own
<1>3. rpm \in Nat /\ rpm <= MaxRpm /\ spare = Token * rpm /\ since = 0
  BY CallsAssumption DEF ApiInit, Token
<1>4. spare \in Nat /\ spare <= Token * MaxRpm
  BY <1>3, ApiNumbers, TimesOrder
<1>5. LimitTyped
  BY <1>3, <1>4, ApiNumbers DEF ApiInit, LimitTyped
<1>6. ApiBudget
  <2> SUFFICES ASSUME NEW k \in Lookback
               PROVE  Token * lately[k] + Refilled <= Token * MaxRpm + k * MaxRpm
    BY DEF ApiBudget
  <2>1. lately[k] = 0
    BY DEF ApiInit
  <2>2. k \in Nat /\ k * MaxRpm \in Nat
    BY ApiNumbers
  <2>3. Token * 0 = 0
    BY ApiNumbers
  <2>4. Refilled \in Nat /\ Refilled <= Token * MaxRpm
    BY <1>5, FilledBound
  <2>. QED
    BY <2>1, <2>2, <2>3, <2>4, ApiNumbers
<1>. QED
  BY <1>1, <1>2, <1>5, <1>6 DEF CallsInv

\* A request takes from the budget what it adds to every window.
LEMMA SpendsKeeps ==
    ASSUME LimitTyped, ApiBudget, Spends, rpm' = rpm
    PROVE  LimitTyped' /\ ApiBudget'
<1>1. CASE rpm = 0
  BY <1>1 DEF Spends, LimitTyped, ApiBudget, Refilled
<1>2. CASE rpm # 0
  <2>1. /\ spare' = Filled - (IF LetsThrough THEN Token ELSE 0) /\ since' = 0
        /\ lately' = IF LetsThrough THEN [k \in Lookback |-> lately[k] + 1] ELSE lately
    BY <1>2 DEF Spends
  <2>2. /\ Filled \in Nat /\ Refilled \in Nat /\ Filled <= Refilled
        /\ Refilled <= Token * MaxRpm
    BY FilledBound
  <2>3. LetsThrough => Filled >= Token
    BY <1>2 DEF LetsThrough
  <2>4. spare' \in Nat /\ spare' <= Token * MaxRpm /\ spare' <= Filled
    <3> DEFINE most == Token * MaxRpm
    <3>1. most \in Nat /\ Token \in Nat /\ Filled <= most
      BY <2>2, ApiNumbers
    <3> HIDE DEF most
    <3>2. spare' \in Nat /\ spare' <= most /\ spare' <= Filled
      BY <2>1, <2>2, <2>3, <3>1
    <3> QED BY <3>2 DEF most
  <2>5. LimitTyped'
    <3>1. lately' \in [Lookback -> Nat]
      <4>1. lately \in [Lookback -> Nat]
        BY DEF LimitTyped
      <4>2. [k \in Lookback |-> lately[k] + 1] \in [Lookback -> Nat]
        BY <4>1
      <4> QED BY <2>1, <4>1, <4>2
    <3>2. since' \in Lookback /\ rpm' \in 0..MaxRpm
      <4>1. 0 \in Lookback
        BY ApiNumbers
      <4>2. rpm' \in 0..MaxRpm
        BY DEF LimitTyped
      <4> QED BY <2>1, <4>1, <4>2
    <3>3. spare' \in 0..(Token * MaxRpm)
      BY <2>4, ApiNumbers
    <3> QED BY <3>1, <3>2, <3>3 DEF LimitTyped
  <2>6. Refilled' = spare'
    <3>1. since' * MaxRpm = 0
      BY <2>1, ApiNumbers
    <3>. QED
      BY <2>4, <3>1, ApiNumbers DEF Refilled
  <2>7. ASSUME NEW k \in Lookback
        PROVE  Token * lately'[k] + spare' <= Token * MaxRpm + k * MaxRpm
    <3>1. /\ lately[k] \in Nat /\ Token * lately[k] \in Nat /\ k \in Nat /\ k * MaxRpm \in Nat
          /\ Token * (lately[k] + 1) = Token * lately[k] + Token
      BY ApiNumbers DEF LimitTyped
    <3>2. Token * lately[k] + Refilled <= Token * MaxRpm + k * MaxRpm
      BY DEF ApiBudget
    <3>3. CASE LetsThrough
      <4>1. lately'[k] = lately[k] + 1 /\ spare' = Filled - Token
        BY <2>1, <3>3
      <4>2. Token * lately'[k] = Token * lately[k] + Token
        BY <3>1, <4>1
      <4> DEFINE x == Token * lately[k]
                 y == Token * MaxRpm + k * MaxRpm
      <4>3. x \in Nat /\ y \in Nat /\ Token \in Nat /\ Filled \in Nat /\ Refilled \in Nat
        BY <2>2, <3>1, ApiNumbers
      <4>4. x + Refilled <= y /\ Filled <= Refilled /\ Token * lately'[k] = x + Token
        BY <2>2, <3>2, <4>2
      <4> HIDE DEF x
      <4>5. Token * lately'[k] + spare' <= y
        <5> HIDE DEF y
        <5>. QED
          BY <4>1, <4>3, <4>4
      <4>. QED
        BY <4>5
    <3>4. CASE ~LetsThrough
      <4>1. lately'[k] = lately[k]
        BY <2>1, <3>4
      <4> DEFINE x == Token * lately[k]
                 y == Token * MaxRpm + k * MaxRpm
      <4>2. x \in Nat /\ y \in Nat /\ spare' \in Nat /\ Filled \in Nat /\ Refilled \in Nat
        BY <2>2, <2>4, <3>1, ApiNumbers
      <4>3. x + Refilled <= y /\ Filled <= Refilled /\ Token * lately'[k] = x /\ spare' <= Filled
        BY <2>2, <2>4, <3>2, <4>1
      <4> HIDE DEF x
      <4>4. Token * lately'[k] + spare' <= y
        <5> HIDE DEF y
        <5>. QED
          BY <4>2, <4>3
      <4>. QED
        BY <4>4
    <3>. QED
      BY <3>3, <3>4
  <2>8. ApiBudget'
    BY <2>6, <2>7 DEF ApiBudget, Token
  <2>. QED
    BY <2>5, <2>8
<1>. QED
  BY <1>1, <1>2

\* A tick refills the bucket by as much as it allows every window more.
LEMMA TicksLimit ==
    ASSUME LimitTyped, ApiBudget, Ticks
    PROVE  LimitTyped' /\ ApiBudget'
<1>1. /\ rpm' = rpm /\ spare' = spare
      /\ since' = (IF since + 1 < Token THEN since + 1 ELSE Token)
      /\ lately' = [k \in Lookback |-> IF k = 0 THEN 0 ELSE lately[k - 1]]
  BY DEF Ticks, AtMost, Token
<1>2. since \in Nat /\ since <= Token /\ since' \in Nat /\ since' <= Token /\ since' <= since + 1
  BY <1>1, ApiNumbers DEF LimitTyped
<1>3. LimitTyped'
  <2>1. \A k \in Lookback : k # 0 => k - 1 \in Lookback
    BY ApiNumbers
  <2>2. lately' \in [Lookback -> Nat]
    BY <1>1, <2>1 DEF LimitTyped
  <2>. QED
    BY <1>1, <1>2, <2>2, ApiNumbers DEF LimitTyped
<1>4. Refilled \in Nat /\ Refilled' \in Nat /\ Refilled' <= Token * MaxRpm
  <2>1. Refilled \in Nat
    BY FilledBound
  <2>2. since' * MaxRpm \in Nat
    BY <1>2, ApiNumbers, OneMore
  <2>3. spare' \in Nat
    BY <1>1 DEF LimitTyped
  <2>4. Refilled' = IF spare' + since' * MaxRpm < Token * MaxRpm THEN spare' + since' * MaxRpm
                    ELSE Token * MaxRpm
    BY DEF Refilled, Token
  <2>. QED
    BY <2>1, <2>2, <2>3, <2>4, ApiNumbers
<1>5. Refilled' <= Refilled + MaxRpm
  <2>1. /\ since * MaxRpm \in Nat /\ since' * MaxRpm \in Nat
        /\ since' * MaxRpm <= (since + 1) * MaxRpm
    <3>1. since + 1 \in Nat
      BY <1>2
    <3>. QED
      BY <1>2, <3>1, ApiNumbers, TimesOrder
  <2>2. (since + 1) * MaxRpm = since * MaxRpm + MaxRpm
    BY <1>2, ApiNumbers, OneMore
  <2>3. spare \in Nat
    BY DEF LimitTyped
  <2>4. /\ Refilled' = IF spare + since' * MaxRpm < Token * MaxRpm THEN spare + since' * MaxRpm
                       ELSE Token * MaxRpm
        /\ Refilled = IF spare + since * MaxRpm < Token * MaxRpm THEN spare + since * MaxRpm
                      ELSE Token * MaxRpm
    BY <1>1 DEF Refilled, Token
  <2>. QED
    BY <2>1, <2>2, <2>3, <2>4, ApiNumbers
<1>6. ASSUME NEW k \in Lookback
      PROVE  Token * lately'[k] + Refilled' <= Token * MaxRpm + k * MaxRpm
  <2>1. k \in Nat /\ k * MaxRpm \in Nat
    BY ApiNumbers
  <2>2. CASE k = 0
    <3>1. Token * lately'[k] = 0
      BY <1>1, <2>2, ApiNumbers
    <3>. QED
      BY <1>4, <2>1, <3>1, ApiNumbers
  <2>3. CASE k # 0
    <3>1. k - 1 \in Lookback /\ lately'[k] = lately[k - 1]
      BY <1>1, <2>3, ApiNumbers
    <3>2. lately[k - 1] \in Nat /\ Token * lately[k - 1] \in Nat
      BY <3>1, ApiNumbers DEF LimitTyped
    <3>3. Token * lately[k - 1] + Refilled <= Token * MaxRpm + (k - 1) * MaxRpm
      BY <3>1 DEF ApiBudget
    <3>4. (k - 1) * MaxRpm + MaxRpm = k * MaxRpm /\ (k - 1) * MaxRpm \in Nat
      BY <2>1, <2>3, ApiNumbers
    <3>. QED
      BY <1>4, <1>5, <2>1, <3>1, <3>2, <3>3, <3>4, ApiNumbers
  <2>. QED
    BY <2>2, <2>3
<1>7. ApiBudget'
  BY <1>6 DEF ApiBudget, Token
<1>. QED
  BY <1>3, <1>7

\* A new limit leaves what is in the bucket, and a restart fills it and forgets the windows.
LEMMA LimitStep ==
    ASSUME CallsInv, [ApiNext]_apiVars
    PROVE  LimitTyped' /\ ApiBudget'
<1>1. LimitTyped /\ ApiBudget
  BY DEF CallsInv
<1>2. CASE \E c \in Callers, n \in 1..4 : Serves(c, n)
  <2>1. Spends /\ rpm' = rpm
    BY <1>2 DEF Serves
  <2>. QED
    BY <1>1, <2>1, SpendsKeeps
<1>3. CASE Ticks
  BY <1>1, <1>3, TicksLimit
<1>4. CASE \E r \in Rpms : SetLimit(r)
  <2>1. rpm' \in 0..MaxRpm /\ spare' = spare /\ since' = since /\ lately' = lately
    BY <1>4, CallsAssumption DEF SetLimit
  <2>. QED
    BY <1>1, <2>1 DEF LimitTyped, ApiBudget, Refilled
<1>5. CASE ApiRestart
  <2>1. /\ rpm' = rpm /\ spare' = Token * rpm /\ since' = 0
        /\ lately' = [k \in Lookback |-> 0] /\ rpm \in Nat /\ rpm <= MaxRpm
    BY <1>1, <1>5, ApiNumbers DEF ApiRestart, LimitTyped
  <2>2. spare' \in Nat /\ spare' <= Token * MaxRpm
    BY <2>1, ApiNumbers, TimesOrder
  <2>3. LimitTyped'
    BY <1>1, <2>1, <2>2, ApiNumbers DEF LimitTyped
  <2>4. Refilled' = spare'
    <3>1. since' * MaxRpm = 0
      BY <2>1, ApiNumbers
    <3>. QED
      BY <2>2, <3>1, ApiNumbers DEF Refilled
  <2>5. ASSUME NEW k \in Lookback
        PROVE  Token * lately'[k] + spare' <= Token * MaxRpm + k * MaxRpm
    <3>1. lately'[k] = 0 /\ Token * 0 = 0 /\ k \in Nat
      BY <2>1, ApiNumbers
    <3>2. k * MaxRpm \in Nat
      BY <3>1, ApiNumbers, OneMore
    <3>3. Token * lately'[k] = 0
      BY <3>1
    <3>. QED
      BY <2>2, <3>2, <3>3, ApiNumbers
  <2>6. ApiBudget'
    BY <2>4, <2>5 DEF ApiBudget, Token
  <2>. QED
    BY <2>3, <2>6
<1>6. CASE UNCHANGED serverVars
  BY <1>1, <1>6 DEF serverVars, LimitTyped, ApiBudget, Refilled
<1>7. CASE \E k \in Keys \ {"none"}, g \in GrantTables : MintKey(k, g)
  BY <1>1, <1>7 DEF MintKey, LimitTyped, ApiBudget, Refilled
<1>. QED
  BY <1>2, <1>3, <1>4, <1>5, <1>6, <1>7
     DEF ApiNext, CallGoesOn, Begins, Receives, Fails, Unsent, Breaks, Stalls, Resumes, Rests,
         Vanishes, apiVars, serverVars

LEMMA CallsInvHolds ==
    ASSUME CallsInv
    PROVE  CallsHold
<1>1. ApiTyped
  <2>1. ASSUME NEW c \in Callers
        PROVE  calls[c].attempt <= (IF calls[c].phase = "idle" THEN 0 ELSE Attempts(c))
    <3>1. CallInv(c)
      BY DEF CallsInv
    <3>2. CASE calls[c].phase = "idle"
      BY <3>1, <3>2 DEF CallInv
    <3>3. CASE calls[c].phase # "idle"
      BY <3>1, <3>3, AttemptsMade DEF CallInv
    <3>. QED
      BY <3>2, <3>3
  <2>. QED
    BY <2>1 DEF ApiTyped, CallsInv, CallsTyped, LimitTyped
<1>2. TakesEffectOnce
  BY DEF TakesEffectOnce, CallsInv, CallInv
<1>3. LimitHolds
  <2> SUFFICES ASSUME NEW k \in Lookback
               PROVE  Token * lately[k] <= Token * MaxRpm + k * MaxRpm
    BY DEF LimitHolds
  <2>1. LimitTyped /\ Token * lately[k] + Refilled <= Token * MaxRpm + k * MaxRpm
    BY DEF CallsInv, ApiBudget
  <2>2. Refilled \in Nat
    BY <2>1, FilledBound
  <2>3. lately[k] \in Nat /\ k \in Nat
    BY <2>1, ApiNumbers DEF LimitTyped
  <2>4. Token * lately[k] \in Nat /\ k * MaxRpm \in Nat
    BY <2>3, ApiNumbers, OneMore
  <2>. QED
    BY <2>1, <2>2, <2>4, ApiNumbers
<1>. QED
  BY <1>1, <1>2, <1>3 DEF CallsHold

\* However attempts fail, are repeated or arrive late, a call that must not be repeated takes
\* effect once at most and a success has taken effect; and however the limit changes and the
\* server restarts, no stretch of time lets through more than a full bucket and its refill.
THEOREM CallsKept == ApiSpec => []CallsHold
<1>1. ApiInit => CallsInv
  BY InitCalls
<1>2. CallsInv /\ [ApiNext]_apiVars => CallsInv'
  <2> SUFFICES ASSUME CallsInv, [ApiNext]_apiVars PROVE CallsInv'
    OBVIOUS
  <2>1. CallsTyped' /\ \A d \in Callers : CallInv(d)'
    BY CallsStep DEF CallsInv
  <2>. QED
    BY <2>1, LimitStep DEF CallsInv
<1>3. CallsInv => CallsHold
  BY CallsInvHolds
<1>. QED
  BY <1>1, <1>2, <1>3, PTL DEF ApiSpec

-----------------------------------------------------------------------------
(* Objects *)

\* What a request in flight carries.
RequestOk(r) ==
    /\ r.op \in {"commit", "fire"} => r.b \in Blobs
    /\ r.op = "commit" => r.body \in Seq(Pieces)
    /\ r.op = "part" => r.n \in PartNumbers /\ r.piece \in Pieces

UploadOk(p) ==
    /\ p = [b |-> p.b, parts |-> p.parts]
    /\ p.b \in Blobs /\ DOMAIN p.parts \subseteq PartNumbers
    /\ \A n \in DOMAIN p.parts : p.parts[n] \in Pieces

BlobsTyped ==
    /\ DOMAIN rows \subseteq Blobs /\ \A b \in DOMAIN rows : rows[b] \in Row
    /\ DOMAIN files \subseteq Blobs /\ \A b \in DOMAIN files : files[b] \in Seq(Pieces)
    /\ blobClock \in Nat /\ crashes \in Nat /\ reserved \in Nat
    /\ DOMAIN blobReq = BlobClients /\ \A c \in BlobClients : RequestOk(blobReq[c])
    /\ DOMAIN events = Blobs

UploadsTyped == \A u \in DOMAIN mpu : UploadOk(mpu[u])

\* Nothing is held back from the index, so that a restart finds the rows as they are.
IndexedAll == indexed = rows

\* Whoever stored an object announces it next.
Announced(b) == "create" \in events[b] \/ \E c \in BlobClients : blobReq[c].op = "fire" /\ blobReq[c].b = b
StoredAnnounced ==
    crashes = 0 => \A b \in Blobs : Ready(b) \/ "delete" \in events[b] => Announced(b)

BlobInv == BlobsTyped /\ UploadsTyped /\ IndexedAll /\ ReadyReadable /\ StoredAnnounced

-----------------------------------------------------------------------------
LEMMA NoneIn == DOMAIN Nothing = {}
  BY DEF Nothing

LEMMA InitBlobs ==
    ASSUME BlobInit
    PROVE  BlobInv
<1>1. BlobsTyped
  <2>1. Idle.op = "idle"
    BY DEF Idle
  <2>2. \A c \in BlobClients : RequestOk(blobReq[c])
    BY <2>1 DEF BlobInit, RequestOk
  <2>. QED
    BY <2>2, NoneIn DEF BlobInit, BlobsTyped
<1>2. UploadsTyped /\ IndexedAll
  BY NoneIn DEF BlobInit, UploadsTyped, IndexedAll
<1>3. ReadyReadable
  BY NoneIn DEF BlobInit, ReadyReadable
<1>4. StoredAnnounced
  <2>1. \A b \in Blobs : ~Ready(b) /\ events[b] = {}
    BY NoneIn DEF BlobInit, Ready, Has
  <2>. QED
    BY <2>1 DEF StoredAnnounced
<1>. QED
  BY <1>1, <1>2, <1>3, <1>4 DEF BlobInv

\* A request that changes hands, and an upload's parts: the rows, the files and what was told
\* stay as they are.
LEMMA RequestKeeps ==
    ASSUME BlobInv, NEW c \in BlobClients, NEW r, RequestOk(r),
           blobReq[c].op # "fire", blobReq' = [blobReq EXCEPT ![c] = r],
           UNCHANGED <<rows, indexed, files, events, crashes, cut, blobClock, reserved>>, UploadsTyped'
    PROVE  BlobInv'
<1>1. DOMAIN blobReq' = BlobClients /\ \A d \in BlobClients : blobReq'[d] = IF d = c THEN r ELSE blobReq[d]
  BY DEF BlobInv, BlobsTyped
<1>2. BlobsTyped'
  <2>1. \A d \in BlobClients : RequestOk(blobReq[d])'
    BY <1>1 DEF BlobInv, BlobsTyped, RequestOk
  <2>. QED
    BY <1>1, <2>1 DEF BlobInv, BlobsTyped
<1>3. IndexedAll' /\ ReadyReadable'
  BY DEF BlobInv, IndexedAll, ReadyReadable, Ready, Has
<1>4. \A b \in Blobs : Announced(b) => Announced(b)'
  BY <1>1 DEF Announced
<1>5. StoredAnnounced'
  BY <1>4 DEF BlobInv, StoredAnnounced, Ready, Has
<1>. QED
  BY <1>2, <1>3, <1>5 DEF BlobInv

\* Parts are kept with the upload they were sent for, and go with it.
LEMMA WithUpload ==
    ASSUME UploadsTyped, NEW u, NEW p, UploadOk(p), mpu' = With(mpu, u, p)
    PROVE  UploadsTyped'
<1> SUFFICES ASSUME NEW v \in DOMAIN mpu' PROVE UploadOk(mpu'[v])
  BY DEF UploadsTyped, UploadOk
<1>1. /\ DOMAIN mpu' = DOMAIN mpu \cup {u} /\ mpu'[u] = p
      /\ \A w \in DOMAIN mpu : w # u => mpu'[w] = mpu[w]
  BY DEF With
<1>. QED
  BY <1>1 DEF UploadsTyped

LEMMA WithoutUploads ==
    ASSUME UploadsTyped, NEW S, mpu' = Without(mpu, S)
    PROVE  UploadsTyped'
<1> SUFFICES ASSUME NEW v \in DOMAIN mpu' PROVE UploadOk(mpu'[v])
  BY DEF UploadsTyped, UploadOk
<1>1. DOMAIN mpu' \subseteq DOMAIN mpu /\ \A w \in DOMAIN mpu' : mpu'[w] = mpu[w]
  BY DEF Without
<1>. QED
  BY <1>1 DEF UploadsTyped

LEMMA PartKeeps ==
    ASSUME UploadsTyped, NEW u \in DOMAIN mpu, NEW n \in PartNumbers, NEW piece \in Pieces,
           mpu' = [mpu EXCEPT ![u].parts = With(@, n, piece)]
    PROVE  UploadsTyped'
<1>1. UploadOk(mpu[u])
  BY DEF UploadsTyped
<1>2. mpu'[u] = [mpu[u] EXCEPT !.parts = With(@, n, piece)]
  OBVIOUS
<1>3. mpu'[u] = [b |-> mpu[u].b, parts |-> With(mpu[u].parts, n, piece)]
  BY <1>1, <1>2 DEF UploadOk
<1>4. /\ DOMAIN With(mpu[u].parts, n, piece) \subseteq PartNumbers
      /\ \A m \in DOMAIN With(mpu[u].parts, n, piece) : With(mpu[u].parts, n, piece)[m] \in Pieces
  BY <1>1 DEF UploadOk, With
<1>5. UploadOk(mpu'[u])
  <2>1. mpu'[u].b = mpu[u].b /\ mpu'[u].parts = With(mpu[u].parts, n, piece)
    BY <1>3
  <2>2. mpu[u].b \in Blobs
    BY <1>1 DEF UploadOk
  <2>. QED
    BY <1>3, <1>4, <2>1, <2>2 DEF UploadOk
<1>6. DOMAIN mpu' = DOMAIN mpu /\ \A v \in DOMAIN mpu : v # u => mpu'[v] = mpu[v]
  OBVIOUS
<1> SUFFICES ASSUME NEW v \in DOMAIN mpu' PROVE UploadOk(mpu'[v])
  BY DEF UploadsTyped, UploadOk
<1>. QED
  BY <1>5, <1>6 DEF UploadsTyped

LEMMA AssembledTyped ==
    ASSUME UploadsTyped, NEW u \in DOMAIN mpu, NEW want \in SeqOf(PartNumbers, 2),
           \A k \in DOMAIN want : want[k] \in DOMAIN mpu[u].parts
    PROVE  Assembled(u, want) \in Seq(Pieces)
<1>1. PICK m \in 0..2 : want \in [1..m -> PartNumbers]
  BY DEF SeqOf
<1>2. Assembled(u, want) \in [1..m -> Pieces]
  BY <1>1 DEF UploadsTyped, UploadOk, Assembled
<1>. QED
  BY <1>1, <1>2

LEMMA RowRecord ==
    ASSUME NEW s \in {"pending", "ready"}, NEW t \in Nat, NEW p \in BOOLEAN, NEW e \in Seq(Pieces)
    PROVE  [status |-> s, created |-> t, public |-> p, etag |-> e] \in Row
  BY DEF Row

\* A commit: the file, the row and the index are of the same bytes, and the one who stored them
\* announces the object next.
LEMMA CommitKeeps ==
    ASSUME BlobInv, NEW c \in BlobClients, CommitBody(c)
    PROVE  BlobInv'
<1>1. /\ DOMAIN blobReq = BlobClients /\ RequestOk(blobReq[c]) /\ blobReq[c].op = "commit"
      /\ UNCHANGED <<mpu, blobClock, reserved, events, crashes, cut>>
  BY DEF BlobInv, BlobsTyped, CommitBody
<1>2. UploadsTyped'
  BY <1>1 DEF BlobInv, UploadsTyped
<1> DEFINE b == blobReq[c].b
           body == blobReq[c].body
<1>3. b \in Blobs /\ body \in Seq(Pieces)
  BY <1>1 DEF RequestOk
<1>4. CASE ~Has(b)
  <2>1. blobReq' = [blobReq EXCEPT ![c] = Idle] /\ UNCHANGED <<rows, indexed, files>>
    BY <1>4 DEF CommitBody
  <2>2. RequestOk(Idle)
    BY DEF RequestOk, Idle
  <2>. QED
    BY <1>1, <1>2, <2>1, <2>2, RequestKeeps
<1>5. CASE Has(b)
  <2>1. /\ files' = With(files, b, body) /\ indexed' = rows'
        /\ rows' = [rows EXCEPT ![b] = [@ EXCEPT !.status = "ready", !.etag = body]]
        /\ blobReq' = [blobReq EXCEPT ![c] = [op |-> "fire", b |-> b]]
    BY <1>5 DEF CommitBody, Commit, Saved
  <2>2. b \in DOMAIN rows /\ rows[b] \in Row
    BY <1>5 DEF Has, BlobInv, BlobsTyped
  <2>3. /\ DOMAIN rows' = DOMAIN rows /\ \A a \in DOMAIN rows : a # b => rows'[a] = rows[a]
        /\ rows'[b] = [rows[b] EXCEPT !.status = "ready", !.etag = body]
    BY <2>1, <2>2
  <2>4. rows'[b] = [status |-> "ready", created |-> rows[b].created, public |-> rows[b].public,
                    etag |-> body]
    BY <2>2, <2>3 DEF Row
  <2>5. rows'[b] \in Row
    <3>1. rows[b].created \in Nat /\ rows[b].public \in BOOLEAN
      BY <2>2 DEF Row
    <3>2. [status |-> "ready", created |-> rows[b].created, public |-> rows[b].public,
           etag |-> body] \in Row
      BY <1>3, <3>1, RowRecord
    <3>. QED
      BY <2>4, <3>2
  <2>6. /\ DOMAIN files' = DOMAIN files \cup {b} /\ files'[b] = body
        /\ \A a \in DOMAIN files : a # b => files'[a] = files[a]
    BY <2>1 DEF With
  <2>7. /\ DOMAIN blobReq' = BlobClients /\ blobReq'[c] = [op |-> "fire", b |-> b]
        /\ \A d \in BlobClients : d # c => blobReq'[d] = blobReq[d]
    BY <1>1, <2>1
  <2>8. \A d \in BlobClients : RequestOk(blobReq[d])'
    <3>1. RequestOk([op |-> "fire", b |-> b])
      BY <1>3 DEF RequestOk
    <3>2. ASSUME NEW d \in BlobClients
          PROVE  RequestOk(blobReq'[d])
      BY <2>7, <3>1 DEF BlobInv, BlobsTyped
    <3>. QED
      BY <3>2 DEF RequestOk
  <2> HIDE DEF b, body
  <2>9. BlobsTyped'
    <3>1. DOMAIN rows' \subseteq Blobs /\ \A a \in DOMAIN rows' : rows'[a] \in Row
      BY <2>3, <2>5 DEF BlobInv, BlobsTyped
    <3>2. DOMAIN files' \subseteq Blobs /\ \A a \in DOMAIN files' : files'[a] \in Seq(Pieces)
      BY <1>3, <2>6 DEF BlobInv, BlobsTyped
    <3>. QED
      BY <1>1, <2>7, <2>8, <3>1, <3>2 DEF BlobInv, BlobsTyped
  <2>10. ReadyReadable'
    <3> SUFFICES ASSUME NEW a \in DOMAIN rows', Ready(a)', a \notin cut'
                 PROVE  a \in DOMAIN files' /\ files'[a] = rows'[a].etag
      BY DEF ReadyReadable
    <3>1. CASE a = b
      BY <2>4, <2>6, <3>1
    <3>2. CASE a # b
      <4>1. a \in DOMAIN rows /\ Ready(a) /\ a \notin cut /\ rows'[a] = rows[a]
        BY <1>1, <2>3, <3>2 DEF Ready, Has
      <4>. QED
        BY <2>6, <3>2, <4>1 DEF BlobInv, ReadyReadable
    <3>. QED
      BY <3>1, <3>2
  <2>11. StoredAnnounced'
    <3> SUFFICES ASSUME crashes' = 0, NEW a \in Blobs, Ready(a)' \/ "delete" \in events'[a]
                 PROVE  Announced(a)'
      BY DEF StoredAnnounced
    <3>1. CASE a = b
      BY <2>7, <3>1 DEF Announced
    <3>2. CASE a # b
      <4>1. Announced(a)
        BY <1>1, <2>3, <3>2 DEF BlobInv, StoredAnnounced, Ready, Has
      <4>. QED
        BY <1>1, <2>7, <4>1 DEF Announced
    <3>. QED
      BY <3>1, <3>2
  <2>. QED
    BY <1>2, <2>1, <2>9, <2>10, <2>11 DEF BlobInv, IndexedAll
<1>. QED
  BY <1>4, <1>5

LEMMA FireKeeps ==
    ASSUME BlobInv, NEW c \in BlobClients, FireCreate(c)
    PROVE  BlobInv'
<1>1. /\ DOMAIN blobReq = BlobClients /\ blobReq[c].op = "fire" /\ blobReq[c].b \in Blobs
      /\ DOMAIN events = Blobs /\ UNCHANGED <<rows, indexed, files, mpu, blobClock, reserved, crashes, cut>>
      /\ events' = [events EXCEPT ![blobReq[c].b] = @ \cup {"create"}]
      /\ blobReq' = [blobReq EXCEPT ![c] = Idle]
  BY DEF BlobInv, BlobsTyped, FireCreate, RequestOk
<1>2. /\ DOMAIN blobReq' = BlobClients /\ blobReq'[c] = Idle
      /\ \A d \in BlobClients : d # c => blobReq'[d] = blobReq[d]
  BY <1>1
<1>3. /\ DOMAIN events' = Blobs /\ events'[blobReq[c].b] = events[blobReq[c].b] \cup {"create"}
      /\ \A b \in Blobs : b # blobReq[c].b => events'[b] = events[b]
  BY <1>1
<1>4. \A d \in BlobClients : RequestOk(blobReq[d])'
  <2>1. RequestOk(Idle)
    BY DEF RequestOk, Idle
  <2>2. ASSUME NEW d \in BlobClients
        PROVE  RequestOk(blobReq'[d])
    BY <1>2, <2>1 DEF BlobInv, BlobsTyped
  <2>. QED
    BY <2>2 DEF RequestOk
<1>5. BlobsTyped'
  BY <1>1, <1>2, <1>3, <1>4 DEF BlobInv, BlobsTyped
<1>6. UploadsTyped' /\ IndexedAll' /\ ReadyReadable'
  BY <1>1 DEF BlobInv, UploadsTyped, IndexedAll, ReadyReadable, Ready, Has
<1>7. StoredAnnounced'
  <2> SUFFICES ASSUME crashes' = 0, NEW a \in Blobs, Ready(a)' \/ "delete" \in events'[a]
               PROVE  Announced(a)'
    BY DEF StoredAnnounced
  <2>1. CASE a = blobReq[c].b
    BY <1>3, <2>1 DEF Announced
  <2>2. CASE a # blobReq[c].b
    <3>1. Announced(a)
      BY <1>1, <1>3, <2>2 DEF BlobInv, StoredAnnounced, Ready, Has
    <3>. QED
      BY <1>2, <1>3, <2>2, <3>1 DEF Announced
  <2>. QED
    BY <2>1, <2>2
<1>. QED
  BY <1>5, <1>6, <1>7 DEF BlobInv

\* What a step without a commit or a restart may do: rows go, and with them the files of those
\* deleted, which is told if they were ready; a row that is ready stays with its bytes.
LEMMA RowsKeep ==
    ASSUME BlobInv, UploadsTyped', indexed' = rows',
           DOMAIN rows' \subseteq Blobs, \A a \in DOMAIN rows' : rows'[a] \in Row,
           \A a \in DOMAIN rows' : Ready(a)' =>
              Ready(a) /\ rows'[a].etag = rows[a].etag /\ (a \in DOMAIN files => a \in DOMAIN files'),
           DOMAIN files' \subseteq DOMAIN files, \A a \in DOMAIN files' : files'[a] = files[a],
           UNCHANGED <<blobReq, crashes, cut>>, blobClock' \in Nat, reserved' \in Nat,
           DOMAIN events' = Blobs,
           \A a \in Blobs : /\ events[a] \subseteq events'[a]
                            /\ "delete" \in events'[a] => "delete" \in events[a] \/ Ready(a)
    PROVE  BlobInv'
<1>1. BlobsTyped'
  <2>1. \A c \in BlobClients : RequestOk(blobReq[c])'
    BY DEF BlobInv, BlobsTyped, RequestOk
  <2>. QED
    BY <2>1 DEF BlobInv, BlobsTyped
<1>2. ReadyReadable'
  <2> SUFFICES ASSUME NEW a \in DOMAIN rows', Ready(a)', a \notin cut'
               PROVE  a \in DOMAIN files' /\ files'[a] = rows'[a].etag
    BY DEF ReadyReadable
  <2>1. Ready(a) /\ a \in DOMAIN rows /\ rows'[a].etag = rows[a].etag /\ a \notin cut
    BY DEF Ready, Has
  <2>2. a \in DOMAIN files /\ files[a] = rows[a].etag
    BY <2>1 DEF BlobInv, ReadyReadable
  <2>. QED
    BY <2>1, <2>2
<1>3. StoredAnnounced'
  <2> SUFFICES ASSUME crashes' = 0, NEW a \in Blobs, Ready(a)' \/ "delete" \in events'[a]
               PROVE  Announced(a)'
    BY DEF StoredAnnounced
  <2>1. Ready(a)' => Ready(a)
    BY DEF Ready, Has
  <2>2. Announced(a)
    BY <2>1 DEF BlobInv, StoredAnnounced
  <2>. QED
    BY <2>2 DEF Announced
<1>. QED
  BY <1>1, <1>2, <1>3 DEF BlobInv, IndexedAll

LEMMA ReserveKeeps ==
    ASSUME BlobInv, NEW c \in BlobClients, NEW p \in BOOLEAN, Reserve(c, p)
    PROVE  BlobInv'
<1>1. /\ reserved' = reserved + 1 /\ reserved \in Nat /\ reserved < MaxReserved /\ blobClock \in Nat
      /\ rows' = With(rows, reserved', [status |-> "pending", created |-> blobClock,
                                        public |-> p, etag |-> <<>>])
      /\ indexed' = rows'
      /\ UNCHANGED <<files, mpu, blobReq, blobClock, uploads, events, crashes, cut>>
  BY DEF BlobInv, BlobsTyped, Reserve, Saved
<1>2. reserved' \in Blobs /\ reserved' \in Nat
  BY <1>1, BlobAssumption DEF Blobs
<1>3. [status |-> "pending", created |-> blobClock, public |-> p, etag |-> <<>>] \in Row
  <2>1. <<>> \in Seq(Pieces)
    OBVIOUS
  <2>. QED
    BY <1>1, <2>1, RowRecord
<1>4. /\ DOMAIN rows' = DOMAIN rows \cup {reserved'}
      /\ rows'[reserved'] = [status |-> "pending", created |-> blobClock, public |-> p, etag |-> <<>>]
      /\ \A a \in DOMAIN rows : a # reserved' => rows'[a] = rows[a]
  BY <1>1 DEF With
<1>5. rows'[reserved'].status = "pending"
  BY <1>4
<1>6. DOMAIN rows' \subseteq Blobs /\ \A a \in DOMAIN rows' : rows'[a] \in Row
  BY <1>2, <1>3, <1>4 DEF BlobInv, BlobsTyped
<1>7. \A a \in DOMAIN rows' : Ready(a)' =>
         Ready(a) /\ rows'[a].etag = rows[a].etag /\ (a \in DOMAIN files => a \in DOMAIN files')
  BY <1>1, <1>4, <1>5 DEF Ready, Has
<1>8. UploadsTyped' /\ DOMAIN events' = Blobs
  BY <1>1 DEF BlobInv, BlobsTyped, UploadsTyped
<1>. QED
  BY <1>1, <1>2, <1>6, <1>7, <1>8, RowsKeep

LEMMA RemoveKeeps ==
    ASSUME BlobInv, NEW c \in BlobClients, NEW S \in SUBSET Blobs, RemoveBlobs(c, S)
    PROVE  BlobInv'
<1>1. /\ indexed' = rows' /\ UNCHANGED <<mpu, blobReq, blobClock, reserved, crashes, cut>>
      /\ DOMAIN rows' = DOMAIN rows \ S /\ \A a \in DOMAIN rows' : rows'[a] = rows[a]
      /\ DOMAIN files' = DOMAIN files \ S /\ \A a \in DOMAIN files' : files'[a] = files[a]
  BY DEF RemoveBlobs, Saved, Without
<1>2. /\ DOMAIN events' = Blobs
      /\ \A a \in Blobs : /\ events[a] \subseteq events'[a]
                          /\ "delete" \in events'[a] => "delete" \in events[a] \/ Ready(a)
  BY DEF RemoveBlobs, DeleteTold
<1>3. /\ DOMAIN rows' \subseteq Blobs /\ \A a \in DOMAIN rows' : rows'[a] \in Row
      /\ blobClock' \in Nat /\ reserved' \in Nat
  BY <1>1 DEF BlobInv, BlobsTyped
<1>4. \A a \in DOMAIN rows' : Ready(a)' =>
         Ready(a) /\ rows'[a].etag = rows[a].etag /\ (a \in DOMAIN files => a \in DOMAIN files')
  BY <1>1 DEF Ready, Has
<1>5. UploadsTyped'
  BY <1>1 DEF BlobInv, UploadsTyped
<1>. QED
  BY <1>1, <1>2, <1>3, <1>4, <1>5, RowsKeep

LEMMA ReapKeeps ==
    ASSUME BlobInv, Reap
    PROVE  BlobInv'
<1>1. /\ indexed' = rows' /\ UNCHANGED <<files, blobReq, blobClock, reserved, events, crashes, cut>>
      /\ DOMAIN rows' = DOMAIN rows \ Abandoned /\ \A a \in DOMAIN rows' : rows'[a] = rows[a]
  BY DEF Reap, Saved, Without
<1>2. UploadsTyped'
  BY WithoutUploads DEF BlobInv, Reap
<1>3. /\ DOMAIN rows' \subseteq Blobs /\ \A a \in DOMAIN rows' : rows'[a] \in Row
      /\ blobClock' \in Nat /\ reserved' \in Nat /\ DOMAIN events' = Blobs
  BY <1>1 DEF BlobInv, BlobsTyped
<1>4. \A a \in DOMAIN rows' : Ready(a)' =>
         Ready(a) /\ rows'[a].etag = rows[a].etag /\ (a \in DOMAIN files => a \in DOMAIN files')
  BY <1>1 DEF Ready, Has
<1>. QED
  BY <1>1, <1>2, <1>3, <1>4, RowsKeep

LEMMA PublicKeeps ==
    ASSUME BlobInv, NEW c \in BlobClients, NEW b \in Blobs, NEW p \in BOOLEAN, SetPublic(c, b, p)
    PROVE  BlobInv'
<1>1. /\ b \in DOMAIN rows /\ rows[b] \in Row /\ rows' = [rows EXCEPT ![b].public = p]
      /\ indexed' = rows'
      /\ UNCHANGED <<files, mpu, blobReq, blobClock, reserved, events, crashes, cut>>
  BY DEF BlobInv, BlobsTyped, SetPublic, Saved, Has
<1>2. /\ DOMAIN rows' = DOMAIN rows /\ \A a \in DOMAIN rows : a # b => rows'[a] = rows[a]
      /\ rows'[b] = [rows[b] EXCEPT !.public = p]
  BY <1>1
<1>3. rows'[b] = [status |-> rows[b].status, created |-> rows[b].created, public |-> p,
                  etag |-> rows[b].etag]
  BY <1>1, <1>2 DEF Row
<1>4. rows'[b] \in Row
  <2>1. /\ rows[b].created \in Nat /\ rows[b].status \in {"pending", "ready"}
        /\ rows[b].etag \in Seq(Pieces)
    BY <1>1 DEF Row
  <2>2. [status |-> rows[b].status, created |-> rows[b].created, public |-> p,
         etag |-> rows[b].etag] \in Row
    BY <2>1, RowRecord
  <2>. QED
    BY <1>3, <2>2
<1>5. rows'[b].status = rows[b].status /\ rows'[b].etag = rows[b].etag
  BY <1>3
<1>6. DOMAIN rows' \subseteq Blobs /\ \A a \in DOMAIN rows' : rows'[a] \in Row
  BY <1>2, <1>4 DEF BlobInv, BlobsTyped
<1>7. \A a \in DOMAIN rows' : Ready(a)' =>
         Ready(a) /\ rows'[a].etag = rows[a].etag /\ (a \in DOMAIN files => a \in DOMAIN files')
  BY <1>1, <1>2, <1>5 DEF Ready, Has
<1>8. /\ UploadsTyped' /\ DOMAIN events' = Blobs /\ blobClock' \in Nat /\ reserved' \in Nat
  BY <1>1 DEF BlobInv, BlobsTyped, UploadsTyped
<1>. QED
  BY <1>1, <1>6, <1>7, <1>8, RowsKeep

\* An upload is begun or given up, and time passes.
LEMMA BesidesKeeps ==
    ASSUME BlobInv, UploadsTyped', blobClock' \in Nat,
           UNCHANGED <<rows, indexed, files, blobReq, reserved, events, crashes, cut>>
    PROVE  BlobInv'
<1>1. /\ DOMAIN rows' \subseteq Blobs /\ \A a \in DOMAIN rows' : rows'[a] \in Row
      /\ indexed' = rows' /\ reserved' \in Nat /\ DOMAIN events' = Blobs
  BY DEF BlobInv, BlobsTyped, IndexedAll
<1>2. \A a \in DOMAIN rows' : Ready(a)' =>
         Ready(a) /\ rows'[a].etag = rows[a].etag /\ (a \in DOMAIN files => a \in DOMAIN files')
  BY DEF Ready, Has
<1>. QED
  BY <1>1, <1>2, RowsKeep

\* A restart reads the index, which is all the rows there were; what it cut short may have
\* changed a file of a pending row, or of one that is marked.
LEMMA RestartKeeps ==
    ASSUME BlobInv, Restarted, indexed' = indexed,
           DOMAIN files' \subseteq Blobs, \A a \in DOMAIN files' : files'[a] \in Seq(Pieces),
           \A a \in DOMAIN rows : Ready(a) /\ a \notin cut' =>
              /\ a \notin cut
              /\ a \in DOMAIN files => a \in DOMAIN files' /\ files'[a] = files[a]
    PROVE  BlobInv'
<1>1. /\ rows' = rows /\ indexed' = rows' /\ mpu' = Nothing /\ crashes' = crashes + 1
      /\ blobReq' = [c \in BlobClients |-> Idle] /\ UNCHANGED <<blobClock, reserved, events>>
  BY DEF BlobInv, IndexedAll, Restarted
<1>2. \A c \in BlobClients : RequestOk(blobReq[c])'
  <2>1. RequestOk(Idle)
    BY DEF RequestOk, Idle
  <2>2. ASSUME NEW d \in BlobClients
        PROVE  RequestOk(blobReq'[d])
    BY <1>1, <2>1
  <2>. QED
    BY <2>2 DEF RequestOk
<1>3. BlobsTyped'
  BY <1>1, <1>2 DEF BlobInv, BlobsTyped
<1>4. UploadsTyped'
  BY <1>1, NoneIn DEF UploadsTyped
<1>5. ReadyReadable'
  BY <1>1 DEF BlobInv, ReadyReadable, Ready, Has
<1>6. StoredAnnounced'
  BY <1>1 DEF BlobInv, BlobsTyped, StoredAnnounced
<1>. QED
  BY <1>1, <1>3, <1>4, <1>5, <1>6 DEF BlobInv, IndexedAll

LEMMA CrashKeeps ==
    ASSUME BlobInv,
           \/ Crash
           \/ \E c \in BlobClients : CrashInCommit(c)
           \/ \E b \in Blobs : CrashInRemove(b)
    PROVE  BlobInv'
<1>1. DOMAIN files \subseteq Blobs /\ \A a \in DOMAIN files : files[a] \in Seq(Pieces)
  BY DEF BlobInv, BlobsTyped
<1>2. CASE Crash
  BY <1>1, <1>2, RestartKeeps DEF Crash
<1>3. ASSUME NEW c \in BlobClients, CrashInCommit(c)
      PROVE  BlobInv'
  <2>1. RequestOk(blobReq[c]) /\ blobReq[c].op = "commit"
    BY <1>3 DEF BlobInv, BlobsTyped, CrashInCommit
  <2>2. PICK b \in Blobs, body \in Seq(Pieces) : b = blobReq[c].b /\ body = blobReq[c].body
    BY <2>1 DEF RequestOk
  <2>3. /\ Restarted /\ indexed' = indexed
        /\ DOMAIN files' = DOMAIN files \cup {b} /\ files'[b] = body
        /\ \A a \in DOMAIN files : a # b => files'[a] = files[a]
        /\ cut' = IF Ready(b) THEN cut \cup {b} ELSE cut
    BY <1>3, <2>2 DEF CrashInCommit, CommitCut, With
  <2>4. DOMAIN files' \subseteq Blobs /\ \A a \in DOMAIN files' : files'[a] \in Seq(Pieces)
    BY <1>1, <2>3
  <2>5. \A a \in DOMAIN rows : Ready(a) /\ a \notin cut' =>
           /\ a \notin cut
           /\ a \in DOMAIN files => a \in DOMAIN files' /\ files'[a] = files[a]
    BY <2>3
  <2>. QED
    BY <2>3, <2>4, <2>5, RestartKeeps
<1>4. ASSUME NEW b \in Blobs, CrashInRemove(b)
      PROVE  BlobInv'
  <2>1. /\ Restarted /\ indexed' = indexed /\ cut' = cut \cup {b}
        /\ DOMAIN files' = DOMAIN files \ {b} /\ \A a \in DOMAIN files' : files'[a] = files[a]
    BY <1>4 DEF CrashInRemove, Without
  <2>2. DOMAIN files' \subseteq Blobs /\ \A a \in DOMAIN files' : files'[a] \in Seq(Pieces)
    BY <1>1, <2>1
  <2>3. \A a \in DOMAIN rows : Ready(a) /\ a \notin cut' =>
           /\ a \notin cut
           /\ a \in DOMAIN files => a \in DOMAIN files' /\ files'[a] = files[a]
    BY <2>1
  <2>. QED
    BY <2>1, <2>2, <2>3, RestartKeeps
<1>. QED
  BY <1>2, <1>3, <1>4

\* Requests that are checked, read, serve or list.
LEMMA RequestsKeep ==
    ASSUME BlobInv, NEW c \in BlobClients,
           \/ \E b \in Blobs, piece \in Pieces : PutChecked(c, b, piece)
           \/ \E u \in Uploads, n \in PartNumbers, piece \in Pieces : PartChecked(c, u, n, piece)
           \/ PutPart(c)
           \/ \E u \in Uploads : \E want \in SeqOf(PartNumbers, 2) : CompleteUpload(c, u, want)
           \/ \E b \in Blobs, p \in BOOLEAN : ServeRow(c, b, p)
           \/ ServeBytes(c) \/ ListBlobs(c) \/ ListBlobPage(c) \/ ListedBlobs(c)
    PROVE  BlobInv'
<1>1. UploadsTyped /\ RequestOk(blobReq[c]) /\ Idle.op = "idle" /\ RequestOk(Idle)
  BY DEF BlobInv, BlobsTyped, Idle, RequestOk
<1>2. mpu' = mpu => UploadsTyped'
  BY <1>1 DEF UploadsTyped
<1>3. ASSUME NEW b \in Blobs, NEW piece \in Pieces, PutChecked(c, b, piece)
      PROVE  BlobInv'
  <2>1. <<piece>> \in Seq(Pieces)
    OBVIOUS
  <2>2. RequestOk([op |-> "commit", b |-> b, body |-> <<piece>>])
    BY <2>1 DEF RequestOk
  <2>. QED
    BY <1>1, <1>2, <1>3, <2>2, RequestKeeps DEF PutChecked
<1>4. ASSUME NEW u \in Uploads, NEW n \in PartNumbers, NEW piece \in Pieces,
             PartChecked(c, u, n, piece)
      PROVE  BlobInv'
  <2>1. RequestOk([op |-> "part", u |-> u, n |-> n, piece |-> piece])
    BY DEF RequestOk
  <2>. QED
    BY <1>1, <1>2, <1>4, <2>1, RequestKeeps DEF PartChecked
<1>5. CASE PutPart(c)
  <2>1. UploadsTyped'
    <3>1. blobReq[c].n \in PartNumbers /\ blobReq[c].piece \in Pieces
      BY <1>1, <1>5 DEF RequestOk, PutPart
    <3>2. CASE blobReq[c].u \in DOMAIN mpu
      BY <1>1, <1>5, <3>1, <3>2, PartKeeps DEF PutPart
    <3>3. CASE blobReq[c].u \notin DOMAIN mpu
      BY <1>2, <1>5, <3>3 DEF PutPart
    <3>. QED
      BY <3>2, <3>3
  <2>. QED
    BY <1>1, <1>5, <2>1, RequestKeeps DEF PutPart
<1>6. ASSUME NEW u \in Uploads, NEW want \in SeqOf(PartNumbers, 2), CompleteUpload(c, u, want)
      PROVE  BlobInv'
  <2>1. u \in DOMAIN mpu /\ Assembled(u, want) \in Seq(Pieces) /\ mpu[u].b \in Blobs
    BY <1>1, <1>6, AssembledTyped DEF CompleteUpload, UploadsTyped, UploadOk
  <2>2. RequestOk([op |-> "commit", b |-> mpu[u].b, body |-> Assembled(u, want)])
    BY <2>1 DEF RequestOk
  <2>3. UploadsTyped'
    BY <1>1, <1>6, WithoutUploads DEF CompleteUpload
  <2>. QED
    BY <1>1, <1>6, <2>2, <2>3, RequestKeeps DEF CompleteUpload
<1>7. ASSUME NEW b \in Blobs, NEW p \in BOOLEAN, ServeRow(c, b, p)
      PROVE  BlobInv'
  <2>1. RequestOk([op |-> "serve", b |-> b, etag |-> rows[b].etag])
    BY DEF RequestOk
  <2>. QED
    BY <1>1, <1>2, <1>7, <2>1, RequestKeeps DEF ServeRow
<1>8. CASE ServeBytes(c) \/ ListedBlobs(c)
  BY <1>1, <1>2, <1>8, RequestKeeps DEF ServeBytes, ListedBlobs
<1>9. CASE ListBlobs(c)
  <2>1. RequestOk([op |-> "list", cursor |-> Nothing, seen |-> {}, twice |-> {},
                   base |-> {b \in DOMAIN rows : Ready(b)}])
    BY DEF RequestOk
  <2>. QED
    BY <1>1, <1>2, <1>9, <2>1, RequestKeeps DEF ListBlobs
<1>10. CASE ListBlobPage(c)
  <2>1. PICK r : blobReq' = [blobReq EXCEPT ![c] = r] /\ r.op \in {"list", "listed"}
    <3> DEFINE w == blobReq[c]
               found == {b \in DOMAIN rows : Ready(b) /\ AfterCursor(b, w.cursor)}
               page == {b \in found : Cardinality({d \in found : Before(d, b)}) < BlobPage}
               last == CHOOSE b \in page : \A d \in page : d = b \/ Before(d, b)
               q == [op |-> IF page = found THEN "listed" ELSE "list", base |-> w.base,
                     cursor |-> IF page = found THEN Nothing ELSE [created |-> rows[last].created, b |-> last],
                     seen |-> w.seen \cup page, twice |-> w.twice \cup (w.seen \cap page)]
    <3>1. blobReq' = [blobReq EXCEPT ![c] = q]
      BY <1>10 DEF ListBlobPage
    <3> HIDE DEF found, page, last
    <3>2. q.op \in {"list", "listed"}
      OBVIOUS
    <3>. QED
      BY <3>1, <3>2
  <2>2. RequestOk(r) /\ blobReq[c].op # "fire"
    BY <1>10, <2>1 DEF RequestOk, ListBlobPage
  <2>. QED
    BY <1>2, <1>10, <2>1, <2>2, RequestKeeps DEF ListBlobPage
<1>. QED
  BY <1>3, <1>4, <1>5, <1>6, <1>7, <1>8, <1>9, <1>10

LEMMA NextBlobs ==
    ASSUME BlobInv, [BlobNext]_BlobVars
    PROVE  BlobInv'
<1>1. UploadsTyped /\ blobClock \in Nat
  BY DEF BlobInv, BlobsTyped
<1>2. ASSUME NEW c \in BlobClients, NEW b \in Blobs, CreateUpload(c, b)
      PROVE  BlobInv'
  <2>1. UploadOk([b |-> b, parts |-> Nothing])
    BY NoneIn DEF UploadOk
  <2>2. UploadsTyped'
    BY <1>1, <1>2, <2>1, WithUpload DEF CreateUpload
  <2>. QED
    BY <1>1, <1>2, <2>2, BesidesKeeps DEF CreateUpload
<1>3. ASSUME NEW c \in BlobClients, NEW u \in Uploads, AbortUpload(c, u)
      PROVE  BlobInv'
  <2>1. UploadsTyped'
    BY <1>1, <1>3, WithoutUploads DEF AbortUpload
  <2>. QED
    BY <1>1, <1>3, <2>1, BesidesKeeps DEF AbortUpload
<1>4. CASE BlobTick
  <2>1. UploadsTyped'
    BY <1>1, <1>4 DEF BlobTick, UploadsTyped
  <2>. QED
    BY <1>1, <1>4, <2>1, BesidesKeeps DEF BlobTick
<1>5. CASE UNCHANGED BlobVars
  <2>1. UploadsTyped'
    BY <1>1, <1>5 DEF BlobVars, UploadsTyped
  <2>. QED
    BY <1>1, <1>5, <2>1, BesidesKeeps DEF BlobVars
<1>. QED
  BY <1>2, <1>3, <1>4, <1>5, ReserveKeeps, CommitKeeps, FireKeeps, RemoveKeeps, ReapKeeps,
     PublicKeeps, CrashKeeps, RequestsKeep DEF BlobNext

-----------------------------------------------------------------------------
(* Lists of objects *)

\* What a client that lists has seen is before its cursor, and what it is owed and has not seen is
\* after it; both were there when it saw them or began.
ListOk(c) ==
    LET r == blobReq[c]
    IN /\ r.base \subseteq 1..reserved /\ r.seen \subseteq 1..reserved /\ r.twice = {}
       /\ \A b \in r.base : Has(b) => Ready(b)
       /\ r.op = "list" =>
             /\ r.cursor = Nothing \/ (r.cursor.created \in Nat /\ r.cursor.b \in Nat)
             /\ \A b \in r.base : Has(b) => b \in r.seen \/ AfterCursor(b, r.cursor)
             /\ \A b \in r.seen : Has(b) => ~AfterCursor(b, r.cursor)
       /\ r.op = "listed" => \A b \in r.base : Has(b) => b \in r.seen

ListInv ==
    /\ DOMAIN rows \subseteq 1..reserved
    /\ \A c \in BlobClients : blobReq[c].op \in {"list", "listed"} => ListOk(c)

\* A step that keeps the rows there are, but for what is gone for good, and adds none but new ones.
RowsGoOn ==
    \A b \in DOMAIN rows' :
       (b > reserved /\ b \in 1..reserved') \/ (Has(b) /\ rows'[b].created = rows[b].created /\ (Ready(b) => Ready(b)'))

LEMMA ListsGoOn ==
    ASSUME BlobInv, ListInv, RowsGoOn, reserved' \in Nat, reserved <= reserved',
           \A c \in BlobClients : blobReq'[c] = blobReq[c] \/ blobReq'[c].op \notin {"list", "listed"}
    PROVE  ListInv'
<1>0. DOMAIN rows' \subseteq 1..reserved'
  <2>1. DOMAIN rows \subseteq 1..reserved /\ reserved \in Nat
    BY DEF ListInv, BlobInv, BlobsTyped
  <2>2. 1..reserved \subseteq 1..reserved'
    BY <2>1
  <2>. QED
    BY <2>1, <2>2 DEF RowsGoOn, Has
<1> SUFFICES ASSUME NEW c \in BlobClients, blobReq'[c].op \in {"list", "listed"} PROVE ListOk(c)'
  BY <1>0 DEF ListInv
<1>1. blobReq'[c] = blobReq[c] /\ ListOk(c) /\ reserved \in Nat
  BY DEF ListInv, BlobInv, BlobsTyped
<1>2. ASSUME NEW b \in 1..reserved, Has(b)'
      PROVE  Has(b) /\ rows'[b].created = rows[b].created /\ (Ready(b) => Ready(b)')
  <2>1. b \in DOMAIN rows' /\ ~(b > reserved)
    BY <1>1, <1>2 DEF Has
  <2>. QED
    BY <2>1 DEF RowsGoOn
<1>3. ASSUME NEW b \in 1..reserved, Has(b)'
      PROVE  AfterCursor(b, blobReq[c].cursor)' <=> AfterCursor(b, blobReq[c].cursor)
  BY <1>1, <1>2, <1>3 DEF AfterCursor
<1> DEFINE r == blobReq[c]
<1>4. /\ r.base \subseteq 1..reserved /\ r.seen \subseteq 1..reserved /\ r.twice = {}
      /\ 1..reserved \subseteq 1..reserved'
  BY <1>1 DEF ListOk
<1>5. \A b \in r.base : Has(b)' => Ready(b)'
  BY <1>1, <1>2, <1>4 DEF ListOk
<1>6. ASSUME r.op = "list"
      PROVE  /\ r.cursor = Nothing \/ (r.cursor.created \in Nat /\ r.cursor.b \in Nat)
             /\ \A b \in r.base : Has(b)' => b \in r.seen \/ AfterCursor(b, blobReq[c].cursor)'
             /\ \A b \in r.seen : Has(b)' => ~AfterCursor(b, blobReq[c].cursor)'
  BY <1>1, <1>2, <1>3, <1>4, <1>6 DEF ListOk
<1>7. ASSUME r.op = "listed"
      PROVE  \A b \in r.base : Has(b)' => b \in r.seen
  BY <1>1, <1>2, <1>4, <1>7 DEF ListOk
<1>. QED
  BY <1>1, <1>4, <1>5, <1>6, <1>7 DEF ListOk

\* How many of what was found come before an object; along the order it grows.
FoundBefore(S, b) == {d \in S : Before(d, b)}

LEMMA BeforeOrders ==
    ASSUME NEW S \in SUBSET Nat, \A b \in S : rows[b].created \in Nat
    PROVE  /\ \A a, b \in S : a = b \/ Before(a, b) \/ Before(b, a)
           /\ \A a \in S : ~Before(a, a)
           /\ \A a, b, d \in S : Before(a, b) /\ Before(b, d) => Before(a, d)
<1>1. \A a, b \in S : a \in Nat /\ (rows[a].created \in Nat) /\ (a = b \/ Before(a, b) \/ Before(b, a))
  BY DEF Before
<1>2. ASSUME NEW a \in S, NEW b \in S, NEW d \in S, Before(a, b), Before(b, d)
      PROVE  Before(a, d)
  <2>1. /\ a \in Nat /\ b \in Nat /\ d \in Nat
        /\ rows[a].created \in Nat /\ rows[b].created \in Nat /\ rows[d].created \in Nat
    OBVIOUS
  <2>. QED
    BY <1>2, <2>1 DEF Before
<1>3. ASSUME NEW a \in S PROVE ~Before(a, a)
  <2>1. a \in Nat /\ rows[a].created \in Nat
    OBVIOUS
  <2>. QED
    BY <2>1 DEF Before
<1>. QED
  BY <1>1, <1>2, <1>3

LEMMA RankGrows ==
    ASSUME NEW S \in SUBSET Nat, IsFiniteSet(S), \A b \in S : rows[b].created \in Nat
    PROVE  /\ \A b \in S : Cardinality(FoundBefore(S, b)) \in Nat
           /\ \A a, b \in S : Before(a, b) => Cardinality(FoundBefore(S, a)) < Cardinality(FoundBefore(S, b))
<1>1. ASSUME NEW b \in S
      PROVE  IsFiniteSet(FoundBefore(S, b)) /\ Cardinality(FoundBefore(S, b)) \in Nat
  <2>1. FoundBefore(S, b) \subseteq S
    BY DEF FoundBefore
  <2>2. IsFiniteSet(FoundBefore(S, b))
    BY <2>1, FS_Subset
  <2>. QED
    BY <2>2, FS_CardinalityType
<1>2. ASSUME NEW a \in S, NEW b \in S, Before(a, b)
      PROVE  Cardinality(FoundBefore(S, a)) < Cardinality(FoundBefore(S, b))
  <2> DEFINE A == FoundBefore(S, a)
             B == FoundBefore(S, b)
  <2>1. A \subseteq B /\ a \in B /\ a \notin A
    BY <1>2, BeforeOrders DEF FoundBefore
  <2>2. IsFiniteSet(A) /\ IsFiniteSet(B) /\ Cardinality(A) \in Nat /\ Cardinality(B) \in Nat
    BY <1>1
  <2> HIDE DEF A, B
  <2>3. Cardinality(A) <= Cardinality(B) /\ (Cardinality(B) = Cardinality(A) => B = A)
    BY <2>1, <2>2, FS_Subset
  <2>4. Cardinality(A) < Cardinality(B)
    BY <2>1, <2>2, <2>3
  <2>. QED
    BY <2>4 DEF A, B
<1>. QED
  BY <1>1, <1>2

\* A page that is not all that was found has a last object, and what it leaves out comes after it.
LEMMA PageEnds ==
    ASSUME NEW S \in SUBSET Nat, IsFiniteSet(S), \A b \in S : rows[b].created \in Nat,
           NEW P \in SUBSET S, \A b \in S : b \in P <=> Cardinality(FoundBefore(S, b)) < BlobPage, P # S
    PROVE  \E m \in P : (\A d \in P : d = m \/ Before(d, m)) /\ \A b \in S : b \in P \/ Before(m, b)
<1> DEFINE rank == [b \in S |-> Cardinality(FoundBefore(S, b))]
<1>1. BlobPage \in Nat /\ BlobPage > 0
  BY BlobAssumption
<1>2. rank \in [S -> Nat] /\ \A b \in S : b \in P <=> rank[b] < BlobPage
  BY RankGrows
<1>3. \A a, b \in S : Before(a, b) => rank[a] < rank[b]
  BY RankGrows
<1>4. \A b \in S : FoundBefore(S, b) = {} => rank[b] = 0
  BY FS_EmptySet
<1> HIDE DEF rank
<1>5. ASSUME NEW b \in S, \A d \in S : rank[b] <= rank[d] PROVE rank[b] = 0
  <2>1. ASSUME NEW d \in S, Before(d, b) PROVE FALSE
    <3>1. rank[d] < rank[b] /\ rank[b] <= rank[d] /\ rank[d] \in Nat /\ rank[b] \in Nat
      BY <1>2, <1>3, <1>5, <2>1
    <3>. QED
      BY <3>1
  <2>2. FoundBefore(S, b) = {}
    BY <2>1 DEF FoundBefore
  <2>. QED
    BY <1>4, <2>2
<1>6. PICK m \in P : (\A d \in P : rank[d] <= rank[m]) /\ \A b \in S : b \notin P => rank[m] < rank[b]
  BY <1>1, <1>2, <1>5, RankedPage
<1>7. ASSUME NEW d \in S, d # m, rank[d] <= rank[m] PROVE Before(d, m)
  <2>1. ~Before(m, d)
    <3>1. rank[m] \in Nat /\ rank[d] \in Nat /\ m \in S
      BY <1>2
    <3>2. ~(rank[m] < rank[d])
      BY <1>7, <3>1
    <3>. QED
      BY <1>3, <3>1, <3>2
  <2>2. m \in S
    OBVIOUS
  <2>. QED
    BY <1>7, <2>1, <2>2, BeforeOrders
<1>8. ASSUME NEW b \in S, b \notin P PROVE Before(m, b)
  <2>1. m \in S /\ m # b /\ rank[m] < rank[b] /\ rank[m] \in Nat /\ rank[b] \in Nat
    BY <1>2, <1>6, <1>8
  <2>2. ~(rank[b] < rank[m])
    BY <2>1
  <2>3. ~Before(b, m)
    BY <1>3, <2>1, <2>2
  <2>. QED
    BY <2>1, <2>3, BeforeOrders
<1>. QED
  BY <1>6, <1>7, <1>8

LEMMA PageKeepsLists ==
    ASSUME BlobInv, ListInv, NEW c \in BlobClients, ListBlobPage(c)
    PROVE  ListInv'
<1> DEFINE r == blobReq[c]
           found == {b \in DOMAIN rows : Ready(b) /\ AfterCursor(b, r.cursor)}
           page == {b \in found : Cardinality({d \in found : Before(d, b)}) < BlobPage}
           last == CHOOSE b \in page : \A d \in page : d = b \/ Before(d, b)
           at == [created |-> rows[last].created, b |-> last]
           q == [op |-> IF page = found THEN "listed" ELSE "list", base |-> r.base,
                 cursor |-> IF page = found THEN Nothing ELSE at,
                 seen |-> r.seen \cup page, twice |-> r.twice \cup (r.seen \cap page)]
<1>1. /\ r.op = "list" /\ blobReq' = [blobReq EXCEPT ![c] = q] /\ UNCHANGED <<rows, reserved>>
      /\ DOMAIN blobReq = BlobClients
  BY DEF ListBlobPage, BlobInv, BlobsTyped
<1>2. ListOk(c) /\ reserved \in Nat
  BY <1>1 DEF ListInv, BlobInv, BlobsTyped
<1>3. /\ DOMAIN rows \subseteq 1..reserved /\ IsFiniteSet(DOMAIN rows)
      /\ \A b \in DOMAIN rows : b \in Nat /\ rows[b].created \in Nat
  <2>1. DOMAIN rows \subseteq 1..reserved
    BY DEF ListInv
  <2>2. IsFiniteSet(DOMAIN rows)
    BY <1>2, <2>1, FinitePlaces
  <2>. QED
    BY <2>1, <2>2 DEF BlobInv, BlobsTyped, Row
<1>4. /\ found \in SUBSET Nat /\ IsFiniteSet(found) /\ page \in SUBSET found
      /\ found \subseteq DOMAIN rows /\ \A b \in found : rows[b].created \in Nat
      /\ \A b \in found : b \in page <=> Cardinality(FoundBefore(found, b)) < BlobPage
      /\ \A b \in DOMAIN rows : b \in found <=> Ready(b) /\ AfterCursor(b, r.cursor)
  <2>1. found \subseteq DOMAIN rows /\ page \subseteq found
    OBVIOUS
  <2>2. IsFiniteSet(found)
    BY <1>3, <2>1, FS_Subset
  <2>3. \A b \in found : b \in page <=> Cardinality(FoundBefore(found, b)) < BlobPage
    BY DEF FoundBefore
  <2>. QED
    BY <1>3, <2>1, <2>2, <2>3
<1>5. page # found =>
         /\ last \in page /\ \A d \in page : d = last \/ Before(d, last)
         /\ \A b \in found : b \in page \/ Before(last, b)
  <2> SUFFICES ASSUME page # found
               PROVE  /\ last \in page /\ \A d \in page : d = last \/ Before(d, last)
                      /\ \A b \in found : b \in page \/ Before(last, b)
    OBVIOUS
  <2> HIDE DEF found, page
  <2>1. PICK m \in page : (\A d \in page : d = m \/ Before(d, m)) /\ \A b \in found : b \in page \/ Before(m, b)
    BY <1>4, PageEnds
  <2>2. last \in page /\ \A d \in page : d = last \/ Before(d, last)
    BY <2>1
  <2>3. last = m
    BY <1>3, <1>4, <2>1, <2>2, BeforeOrders
  <2>. QED
    BY <2>1, <2>2, <2>3
<1> HIDE DEF found, page, last
<1>6. /\ r.base \subseteq 1..reserved /\ r.seen \subseteq 1..reserved /\ r.twice = {}
      /\ \A b \in r.base : Has(b) => Ready(b) /\ (b \in r.seen \/ AfterCursor(b, r.cursor))
      /\ \A b \in r.seen : Has(b) => ~AfterCursor(b, r.cursor)
      /\ r.cursor = Nothing \/ (r.cursor.created \in Nat /\ r.cursor.b \in Nat)
  BY <1>1, <1>2 DEF ListOk
<1>7. /\ q.base = r.base /\ q.seen = r.seen \cup page /\ q.twice = r.twice \cup (r.seen \cap page)
      /\ page = found => q.op = "listed"
      /\ page # found => q.op = "list" /\ q.cursor = at
  OBVIOUS
<1>8. at.created = rows[last].created /\ at.b = last /\ at # Nothing
  <2>1. "b" \in DOMAIN at
    OBVIOUS
  <2>2. at # Nothing
    BY <2>1, NoneIn
  <2>. QED
    BY <2>2
<1> HIDE DEF q, at, r
<1>9. q.twice = {}
  <2>1. ASSUME NEW b \in page, b \in r.seen PROVE FALSE
    BY <1>4, <1>6, <2>1 DEF Has
  <2>. QED
    BY <1>6, <1>7, <2>1
<1>10. q.base \subseteq 1..reserved /\ q.seen \subseteq 1..reserved
  BY <1>3, <1>4, <1>6, <1>7
<1>11. CASE page = found
  <2>1. \A b \in q.base : Has(b) => b \in q.seen
    BY <1>4, <1>6, <1>7, <1>11 DEF Has
  <2>2. blobReq'[c] = q /\ \A d \in BlobClients : d # c => blobReq'[d] = blobReq[d]
    BY <1>1
  <2>3. ListOk(c)'
    BY <1>1, <1>6, <1>7, <1>9, <1>10, <1>11, <2>1, <2>2 DEF ListOk, Has, Ready
  <2>. QED
    BY <1>1, <2>2, <2>3 DEF ListInv, ListOk, Has, Ready, AfterCursor
<1>12. CASE page # found
  <2>1. \A b \in q.base : Has(b) => b \in q.seen \/ AfterCursor(b, at)
    <3> SUFFICES ASSUME NEW b \in q.base, Has(b), b \notin q.seen PROVE AfterCursor(b, at)
      OBVIOUS
    <3>1. b \in found /\ b \notin page
      BY <1>4, <1>6, <1>7 DEF Has
    <3>2. Before(last, b) /\ last \in Nat /\ b \in Nat /\ rows[last].created \in Nat /\ rows[b].created \in Nat
      BY <1>3, <1>4, <1>5, <1>12, <3>1
    <3>. QED
      BY <1>8, <3>2 DEF Before, AfterCursor
  <2>2. \A b \in q.seen : Has(b) => ~AfterCursor(b, at)
    <3> SUFFICES ASSUME NEW b \in q.seen, Has(b) PROVE ~AfterCursor(b, at)
      OBVIOUS
    <3>0. /\ last \in Nat /\ b \in Nat /\ rows[last].created \in Nat /\ rows[b].created \in Nat
          /\ last \in page /\ AfterCursor(last, r.cursor)
      BY <1>3, <1>4, <1>5, <1>12 DEF Has
    <3>1. CASE b \in page
      <4>1. b = last \/ Before(b, last)
        BY <1>5, <1>12, <3>1
      <4>. QED
        BY <1>8, <3>0, <4>1 DEF Before, AfterCursor
    <3>2. CASE b \in r.seen
      <4>1. ~AfterCursor(b, r.cursor)
        BY <1>6, <3>2
      <4>2. r.cursor # Nothing /\ r.cursor.created \in Nat /\ r.cursor.b \in Nat
        BY <1>6, <4>1 DEF AfterCursor
      <4>. QED
        BY <1>8, <3>0, <4>1, <4>2 DEF AfterCursor
    <3>. QED
      BY <1>7, <3>1, <3>2
  <2>3. blobReq'[c] = q /\ \A d \in BlobClients : d # c => blobReq'[d] = blobReq[d]
    BY <1>1
  <2>4. at.created \in Nat /\ at.b \in Nat
    BY <1>3, <1>4, <1>5, <1>8, <1>12
  <2>5. ListOk(c)'
    BY <1>1, <1>6, <1>7, <1>9, <1>10, <1>12, <2>1, <2>2, <2>3, <2>4 DEF ListOk, Has, Ready, AfterCursor
  <2>. QED
    BY <1>1, <2>3, <2>5 DEF ListInv, ListOk, Has, Ready, AfterCursor
<1>. QED
  BY <1>11, <1>12

\* A step that leaves the rows and every list alone, or a client that does something else next.
LEMMA RowsAlone ==
    ASSUME BlobInv, ListInv, UNCHANGED <<rows, reserved>>,
           \A c \in BlobClients : blobReq'[c] = blobReq[c] \/ blobReq'[c].op \notin {"list", "listed"}
    PROVE  ListInv'
<1>1. RowsGoOn /\ reserved \in Nat
  BY DEF RowsGoOn, Ready, Has, BlobInv, BlobsTyped
<1>. QED
  BY <1>1, ListsGoOn

LEMMA StartKeepsLists ==
    ASSUME BlobInv, ListInv, NEW c \in BlobClients, ListBlobs(c)
    PROVE  ListInv'
<1> DEFINE q == [op |-> "list", cursor |-> Nothing, seen |-> {}, twice |-> {},
                 base |-> {b \in DOMAIN rows : Ready(b)}]
<1>1. /\ blobReq' = [blobReq EXCEPT ![c] = q] /\ UNCHANGED <<rows, reserved>> /\ DOMAIN blobReq = BlobClients
      /\ DOMAIN rows \subseteq 1..reserved
  BY DEF ListBlobs, BlobInv, BlobsTyped, ListInv
<1>2. /\ q.op = "list" /\ q.cursor = Nothing /\ q.seen = {} /\ q.twice = {} /\ q.base \subseteq 1..reserved
      /\ \A b \in q.base : Ready(b)
  BY <1>1
<1> HIDE DEF q
<1>3. blobReq'[c] = q /\ \A d \in BlobClients : d # c => blobReq'[d] = blobReq[d]
  BY <1>1
<1>4. ListOk(c)'
  BY <1>1, <1>2, <1>3 DEF ListOk, Has, Ready, AfterCursor
<1>. QED
  BY <1>1, <1>3, <1>4 DEF ListInv, ListOk, Has, Ready, AfterCursor

LEMMA RowsKeepLists ==
    ASSUME BlobInv, ListInv, NEW c \in BlobClients,
           \/ \E p \in BOOLEAN : Reserve(c, p)
           \/ CommitBody(c)
           \/ \E S \in SUBSET Blobs : RemoveBlobs(c, S)
           \/ \E b \in Blobs, p \in BOOLEAN : SetPublic(c, b, p)
    PROVE  ListInv'
<1>0. DOMAIN blobReq = BlobClients /\ reserved \in Nat /\ \A b \in DOMAIN rows : rows[b] \in Row
  BY DEF BlobInv, BlobsTyped
<1>1. ASSUME NEW p \in BOOLEAN, Reserve(c, p) PROVE ListInv'
  <2> DEFINE row == [status |-> "pending", created |-> blobClock, public |-> p, etag |-> <<>>]
  <2>1. /\ reserved' = reserved + 1 /\ rows' = With(rows, reserved', row) /\ blobReq' = blobReq
    BY <1>1 DEF Reserve
  <2> HIDE DEF row
  <2>2. /\ DOMAIN rows' = DOMAIN rows \cup {reserved'}
        /\ \A a \in DOMAIN rows : a # reserved' => rows'[a] = rows[a]
    BY <2>1 DEF With
  <2>3. reserved' \in Nat /\ reserved <= reserved' /\ reserved' > reserved /\ reserved' \in 1..reserved'
    BY <1>0, <2>1
  <2>4. RowsGoOn
    BY <2>2, <2>3 DEF RowsGoOn, Has, Ready
  <2>. QED
    BY <2>1, <2>3, <2>4, ListsGoOn
<1>2. CASE CommitBody(c)
  <2> DEFINE b == blobReq[c].b
             body == blobReq[c].body
  <2>1. CASE ~Has(b)
    <3>1. blobReq' = [blobReq EXCEPT ![c] = Idle] /\ UNCHANGED <<rows, reserved>>
      BY <1>2, <2>1 DEF CommitBody
    <3>2. Idle.op = "idle"
      BY DEF Idle
    <3>3. \A d \in BlobClients : blobReq'[d] = blobReq[d] \/ blobReq'[d].op \notin {"list", "listed"}
      BY <1>0, <3>1, <3>2
    <3>. QED
      BY <3>1, <3>3, RowsAlone
  <2>2. CASE Has(b)
    <3> DEFINE q == [op |-> "fire", b |-> b]
    <3>1. /\ rows' = [rows EXCEPT ![b] = [@ EXCEPT !.status = "ready", !.etag = body]]
          /\ blobReq' = [blobReq EXCEPT ![c] = q] /\ reserved' = reserved
      BY <1>2, <2>2 DEF CommitBody, Commit
    <3>2. b \in DOMAIN rows /\ rows[b] \in Row
      BY <1>0, <2>2 DEF Has
    <3>3. /\ DOMAIN rows' = DOMAIN rows /\ \A a \in DOMAIN rows : a # b => rows'[a] = rows[a]
          /\ rows'[b] = [rows[b] EXCEPT !.status = "ready", !.etag = body]
      BY <3>1, <3>2
    <3>4. rows'[b].status = "ready" /\ rows'[b].created = rows[b].created
      BY <3>2, <3>3 DEF Row
    <3>5. q.op = "fire"
      OBVIOUS
    <3> HIDE DEF q, b, body
    <3>6. \A d \in BlobClients : blobReq'[d] = blobReq[d] \/ blobReq'[d].op \notin {"list", "listed"}
      BY <1>0, <3>1, <3>5
    <3>7. RowsGoOn
      BY <3>3, <3>4 DEF RowsGoOn, Has, Ready
    <3>. QED
      BY <1>0, <3>1, <3>6, <3>7, ListsGoOn
  <2>. QED
    BY <2>1, <2>2
<1>3. ASSUME NEW b \in Blobs, NEW p \in BOOLEAN, SetPublic(c, b, p) PROVE ListInv'
  <2>1. /\ b \in DOMAIN rows /\ rows[b] \in Row /\ rows' = [rows EXCEPT ![b].public = p]
        /\ UNCHANGED <<blobReq, reserved>>
    BY <1>0, <1>3 DEF SetPublic, Has
  <2>2. /\ DOMAIN rows' = DOMAIN rows /\ \A a \in DOMAIN rows : a # b => rows'[a] = rows[a]
        /\ rows'[b] = [rows[b] EXCEPT !.public = p]
    BY <2>1
  <2>3. rows'[b].status = rows[b].status /\ rows'[b].created = rows[b].created
    BY <2>1, <2>2 DEF Row
  <2>4. RowsGoOn
    BY <2>2, <2>3 DEF RowsGoOn, Has, Ready
  <2>. QED
    BY <1>0, <2>1, <2>4, ListsGoOn
<1>4. ASSUME NEW S, rows' = Without(rows, S), UNCHANGED <<blobReq, reserved>> PROVE ListInv'
  <2>1. DOMAIN rows' = DOMAIN rows \ S /\ \A a \in DOMAIN rows' : rows'[a] = rows[a]
    BY <1>4 DEF Without
  <2>2. RowsGoOn
    BY <2>1 DEF RowsGoOn, Has, Ready
  <2>. QED
    BY <1>0, <1>4, <2>2, ListsGoOn
<1>. QED
  BY <1>1, <1>2, <1>3, <1>4 DEF RemoveBlobs

LEMMA NextLists ==
    ASSUME BlobInv, ListInv, [BlobNext]_BlobVars
    PROVE  ListInv'
<1>0. DOMAIN blobReq = BlobClients /\ Idle.op = "idle"
  BY DEF BlobInv, BlobsTyped, Idle
<1>1. CASE UNCHANGED BlobVars
  BY <1>1, RowsAlone DEF BlobVars
<1>2. CASE BlobTick
  BY <1>2, RowsAlone DEF BlobTick
<1>3. ASSUME Restarted, indexed' = indexed PROVE ListInv'
  <2>1. rows' = rows /\ reserved' = reserved /\ blobReq' = [c \in BlobClients |-> Idle]
    BY <1>3 DEF Restarted, BlobInv, IndexedAll
  <2>2. \A c \in BlobClients : blobReq'[c].op \notin {"list", "listed"}
    BY <1>0, <2>1
  <2>. QED
    BY <2>1, <2>2, RowsAlone
<1>4. CASE Crash \/ (\E c \in BlobClients : CrashInCommit(c)) \/ (\E b \in Blobs : CrashInRemove(b))
  BY <1>3, <1>4 DEF Crash, CrashInCommit, CommitCut, CrashInRemove
<1>5. ASSUME NEW c \in BlobClients, NEW r, r.op \notin {"list", "listed"},
             blobReq' = [blobReq EXCEPT ![c] = r] \/ blobReq' = blobReq, UNCHANGED <<rows, reserved>>
      PROVE  ListInv'
  <2>1. \A d \in BlobClients : blobReq'[d] = blobReq[d] \/ blobReq'[d].op \notin {"list", "listed"}
    BY <1>0, <1>5
  <2>. QED
    BY <1>5, <2>1, RowsAlone
<1>6. ASSUME NEW c \in BlobClients,
             \/ \E b \in Blobs, piece \in Pieces : PutChecked(c, b, piece)
             \/ FireCreate(c) \/ PutPart(c) \/ ServeBytes(c) \/ ListedBlobs(c)
             \/ \E b \in Blobs : CreateUpload(c, b)
             \/ \E u \in Uploads, n \in PartNumbers, piece \in Pieces : PartChecked(c, u, n, piece)
             \/ \E u \in Uploads : \E want \in SeqOf(PartNumbers, 2) : CompleteUpload(c, u, want)
             \/ \E u \in Uploads : AbortUpload(c, u)
             \/ \E b \in Blobs, p \in BOOLEAN : ServeRow(c, b, p)
      PROVE  ListInv'
  <2>1. ASSUME NEW b \in Blobs, NEW piece \in Pieces, PutChecked(c, b, piece) PROVE ListInv'
    <3> DEFINE r == [op |-> "commit", b |-> b, body |-> <<piece>>]
    <3>1. r.op = "commit" /\ blobReq' = [blobReq EXCEPT ![c] = r] /\ UNCHANGED <<rows, reserved>>
      BY <2>1 DEF PutChecked
    <3> HIDE DEF r
    <3>. QED
      BY <3>1, <1>5
  <2>2. CASE FireCreate(c) \/ PutPart(c) \/ ServeBytes(c) \/ ListedBlobs(c)
    BY <1>0, <1>5, <2>2 DEF FireCreate, PutPart, ServeBytes, ListedBlobs
  <2>3. CASE (\E b \in Blobs : CreateUpload(c, b)) \/ (\E u \in Uploads : AbortUpload(c, u))
    BY <2>3, RowsAlone DEF CreateUpload, AbortUpload
  <2>4. ASSUME NEW u \in Uploads, NEW n \in PartNumbers, NEW piece \in Pieces, PartChecked(c, u, n, piece)
        PROVE  ListInv'
    <3> DEFINE r == [op |-> "part", u |-> u, n |-> n, piece |-> piece]
    <3>1. r.op = "part" /\ blobReq' = [blobReq EXCEPT ![c] = r] /\ UNCHANGED <<rows, reserved>>
      BY <2>4 DEF PartChecked
    <3> HIDE DEF r
    <3>. QED
      BY <3>1, <1>5
  <2>5. ASSUME NEW u \in Uploads, NEW want \in SeqOf(PartNumbers, 2), CompleteUpload(c, u, want) PROVE ListInv'
    <3> DEFINE r == [op |-> "commit", b |-> mpu[u].b, body |-> Assembled(u, want)]
    <3>1. r.op = "commit" /\ blobReq' = [blobReq EXCEPT ![c] = r] /\ UNCHANGED <<rows, reserved>>
      BY <2>5 DEF CompleteUpload
    <3> HIDE DEF r
    <3>. QED
      BY <3>1, <1>5
  <2>6. ASSUME NEW b \in Blobs, NEW p \in BOOLEAN, ServeRow(c, b, p) PROVE ListInv'
    <3> DEFINE r == [op |-> "serve", b |-> b, etag |-> rows[b].etag]
    <3>1. r.op = "serve" /\ blobReq' = [blobReq EXCEPT ![c] = r] /\ UNCHANGED <<rows, reserved>>
      BY <2>6 DEF ServeRow
    <3> HIDE DEF r
    <3>. QED
      BY <3>1, <1>5
  <2>. QED
    BY <1>6, <2>1, <2>2, <2>3, <2>4, <2>5, <2>6
<1>7. CASE \E c \in BlobClients : ListBlobs(c) \/ ListBlobPage(c)
  BY <1>7, StartKeepsLists, PageKeepsLists
<1>8. CASE Reap
  <2>1. rows' = Without(rows, Abandoned) /\ UNCHANGED <<blobReq, reserved>>
    BY <1>8 DEF Reap
  <2>2. DOMAIN rows' = DOMAIN rows \ Abandoned /\ \A a \in DOMAIN rows' : rows'[a] = rows[a]
    BY <2>1 DEF Without
  <2>3. RowsGoOn /\ reserved \in Nat
    BY <2>2 DEF RowsGoOn, Has, Ready, BlobInv, BlobsTyped
  <2>. QED
    BY <2>1, <2>3, ListsGoOn
<1>. QED
  BY <1>1, <1>2, <1>4, <1>6, <1>7, <1>8, RowsKeepLists DEF BlobNext

\* Across commits, deletes, the reaper and crashes between the file of an object and the index:
\* an object that is ready has the bytes of its ETag, unless a crash cut short its own delete or
\* a second commit of it; and who was told of its end was, or is about to be, told of its
\* beginning.  A client that lists page by page, while objects come and go, gets every one that was
\* there all along, and none twice.
THEOREM BlobsKept == BlobSpec => []BlobsHold
<1>1. BlobInit => BlobInv /\ ListInv
  <2>1. BlobInit => ListInv
    BY NoneIn DEF BlobInit, ListInv, Idle
  <2>. QED
    BY <2>1, InitBlobs
<1>2. BlobInv /\ ListInv /\ [BlobNext]_BlobVars => BlobInv' /\ ListInv'
  BY NextBlobs, NextLists
<1>3. BlobInv /\ ListInv => BlobsHold
  <2> SUFFICES ASSUME BlobInv, ListInv PROVE BlobsHold
    OBVIOUS
  <2>1. BlobTyped
    BY DEF BlobInv, BlobsTyped, UploadsTyped, UploadOk, BlobTyped
  <2>2. DeletedWasCreated
    BY DEF BlobInv, StoredAnnounced, Announced, DeletedWasCreated
  <2>3. BlobsListed
    BY DEF ListInv, ListOk, BlobsListed, Ready
  <2>. QED
    BY <2>1, <2>2, <2>3 DEF BlobInv, BlobsHold
<1>. QED
  BY <1>1, <1>2, <1>3, PTL DEF BlobSpec

-----------------------------------------------------------------------------
(* Jobs *)

Ended == {"done", "failed", "canceled"}

Runner == [at : {"start", "select", "killed", "done", "failed", "canceled", "over"},
           cfg : JobConfigs, ctx : {"live", "deadline", "canceled"},
           box : {"none", "pulling", "up", "gone"}, deadline : Nat]

\* A job that was launched has its goroutine, one that was not has none.
RunnersTyped ==
    /\ DOMAIN runner = Ids
    /\ \A i \in Ids : IF i <= launched THEN runner[i] \in Runner ELSE runner[i].at = "none"

\* A request keeps to the configuration it was checked under.
LaunchOk(r) ==
    /\ r.cfg \in JobConfigs /\ r.size \in Sizes /\ r.timeout \in Nat
    /\ r.hold \in Nat /\ r.hold <= r.cfg.maxCost
CancelOk(r, n) ==
    /\ r = [op |-> r.op, cfg |-> r.cfg, id |-> r.id]
    /\ r.cfg \in JobConfigs /\ r.id \in Ids /\ r.id <= n

RequestsTyped ==
    /\ DOMAIN jobReq = JobClients
    /\ \A c \in JobClients : /\ jobReq[c].op = "launch" => LaunchOk(jobReq[c])
                             /\ jobReq[c].op \in {"cancel", "canceled"} => CancelOk(jobReq[c], launched)

Launching == {d \in JobClients : jobReq[d].op = "launch"}

\* The history holds jobs that were launched, each once, and none is billed more than its hold,
\* which its configuration allows.
HistoryOk ==
    /\ \A k \in DOMAIN jobs :
          /\ jobs[k].id <= launched /\ jobs[k].cost <= jobs[k].hold
          /\ jobs[k].hold <= runner[jobs[k].id].cfg.maxCost
    /\ \A k, l \in DOMAIN jobs : jobs[k].id = jobs[l].id => k = l

\* The completion function was called at most once, for a job that has ended.
ToldOk ==
    \A i \in Ids : /\ told[i] \in {0, 1}
                   /\ told[i] = 1 => i <= launched /\ \A k \in DOMAIN jobs :
                                        jobs[k].id = i => jobs[k].status # "running"

JobInv ==
    /\ JobsTyped /\ RunnersTyped /\ RequestsTyped /\ HistoryOk /\ ToldOk
    /\ launched + Cardinality(Launching) <= MaxLaunches

-----------------------------------------------------------------------------
(* Prices *)

LEMMA PriceNumbers ==
    /\ Second \in Nat /\ Second > 0 /\ SecondPrice \in Nat /\ SecondPrice > 0 /\ JobPrice \in Nat
    /\ \A size \in Sizes : Factor[size] \in Nat /\ Factor[size] > 0
    /\ MaxLaunches \in Nat /\ MaxJobClock \in Nat /\ MaxJobClock > 0 /\ IsFiniteSet(JobClients)
    /\ \A c \in JobConfigs : c.maxCost \in Nat /\ c.maxTimeout \in Nat
  BY JobsAssumption DEF Sizes

LEMMA TimesNat ==
    ASSUME NEW a \in Nat, NEW b \in Nat
    PROVE  a * b \in Nat
  OBVIOUS

LEMMA Division ==
    ASSUME NEW a \in Nat, NEW d \in Nat, d > 0
    PROVE  /\ a \div d \in Nat /\ d * (a \div d) <= a /\ a < d * (a \div d) + d
           /\ d * (a \div d) \in Nat
  OBVIOUS

\* A multiple of the divisor, and what is short of the next one.
LEMMA DivisionBound ==
    ASSUME NEW a \in Nat, NEW d \in Nat, d > 0, NEW q \in Nat, a < d * q + d
    PROVE  a \div d <= q
<1> DEFINE p == a \div d
<1>1. p \in Nat /\ d * p <= a
  BY Division
<1> HIDE DEF p
<1>2. ASSUME p >= q + 1
      PROVE  FALSE
  <2>1. (q + 1) * d <= p * d /\ (q + 1) * d \in Nat /\ p * d \in Nat
    BY <1>1, <1>2, TimesOrder
  <2>2. (q + 1) * d = d * q + d /\ p * d = d * p /\ d * q \in Nat
    BY <1>1
  <2>. QED
    BY <1>1, <2>1, <2>2
<1>3. p <= q
  BY <1>1, <1>2
<1>. QED
  BY <1>3 DEF p

LEMMA SecondsTyped ==
    ASSUME NEW size \in Sizes, NEW elapsed \in Int
    PROVE  RunSecondsFor(size, elapsed) \in Nat
<1>1. CASE elapsed <= 0
  BY <1>1 DEF RunSecondsFor
<1>2. CASE elapsed > 0
  <2>1. elapsed * Factor[size] \in Nat
    BY <1>2, PriceNumbers, TimesNat
  <2>2. (elapsed * Factor[size] + Second) - 1 \in Nat
    BY <2>1, PriceNumbers
  <2>3. ((elapsed * Factor[size] + Second) - 1) \div Second \in Nat
    BY <2>2, PriceNumbers, Division
  <2>. QED
    BY <1>2, <2>1, <2>3, PriceNumbers DEF RunSecondsFor, CeilDiv
<1>. QED
  BY <1>1, <1>2

LEMMA CostTyped ==
    ASSUME NEW size \in Sizes, NEW elapsed \in Int
    PROVE  RunCost(RunSecondsFor(size, elapsed)) + JobPrice \in Nat
<1>1. RunSecondsFor(size, elapsed) * SecondPrice \in Nat
  BY SecondsTyped, PriceNumbers, TimesNat
<1>. QED
  BY <1>1, PriceNumbers DEF RunCost

\* The longest timeout a budget pays for is one whose worst case the budget pays for.
LEMMA BudgetFits ==
    ASSUME NEW size \in Sizes, NEW budget \in Nat, budget > JobPrice
    PROVE  WorstCaseHold(size, MaxTimeoutForBudget(size, budget)) <= budget
<1> DEFINE rest == budget - JobPrice
           q == rest \div SecondPrice
           F == Factor[size]
           t == (q * Second) \div F
<1>1. rest \in Nat /\ F \in Nat /\ F > 0
  BY PriceNumbers
<1>2. MaxTimeoutForBudget(size, budget) = t
  BY PriceNumbers DEF MaxTimeoutForBudget
<1> HIDE DEF rest, F
<1>3. q \in Nat /\ SecondPrice * q <= rest /\ SecondPrice * q \in Nat
  BY <1>1, PriceNumbers, Division
<1> HIDE DEF q
<1>4. q * Second \in Nat
  BY <1>3, PriceNumbers, TimesNat
<1>5. t \in Nat /\ F * t <= q * Second /\ F * t \in Nat
  BY <1>1, <1>4, Division
<1> HIDE DEF t
<1>6. RunSecondsFor(size, t) <= q /\ RunSecondsFor(size, t) \in Nat
  <2>1. CASE t <= 0
    BY <1>3, <2>1 DEF RunSecondsFor
  <2>2. CASE t > 0
    <3>1. t * F = F * t /\ q * Second = Second * q
      BY <1>1, <1>3, <1>5, PriceNumbers
    <3>2. /\ t * F + (Second - 1) \in Nat
          /\ t * F + (Second - 1) < Second * q + Second
      BY <1>4, <1>5, <3>1, PriceNumbers
    <3>3. (t * F + (Second - 1)) \div Second <= q
      BY <1>3, <3>2, PriceNumbers, DivisionBound
    <3>4. RunSecondsFor(size, t) = (t * F + (Second - 1)) \div Second
      <4>1. ~(t <= 0)
        BY <1>5, <2>2
      <4>. QED
        BY <4>1 DEF RunSecondsFor, CeilDiv, F
    <3>. QED
      BY <1>5, <3>3, <3>4, SecondsTyped
  <2>. QED
    BY <1>5, <2>1, <2>2
<1>7. RunSecondsFor(size, t) * SecondPrice <= q * SecondPrice
  BY <1>3, <1>6, PriceNumbers, TimesOrder
<1>8. q * SecondPrice = SecondPrice * q /\ RunSecondsFor(size, t) * SecondPrice \in Nat
  BY <1>3, <1>6, PriceNumbers
<1>9. RunCost(RunSecondsFor(size, t)) + JobPrice <= budget
  BY <1>3, <1>7, <1>8, PriceNumbers DEF RunCost, rest
<1>. QED
  BY <1>2, <1>9 DEF WorstCaseHold

-----------------------------------------------------------------------------
(* The history *)

UpTo(S, j) == {l \in S : l <= j}

\* A set of positions has a member of each rank.
LEMMA RankReached ==
    ASSUME NEW m \in Nat, NEW S \in SUBSET (1..m), NEW n \in 1..Cardinality(S)
    PROVE  \E k \in S : Cardinality(UpTo(S, k)) = n
<1> DEFINE T == {j \in Nat : Cardinality(UpTo(S, j)) >= n}
<1>1. IsFiniteSet(S) /\ Cardinality(S) \in Nat
  BY FinitePlaces
<1>0. \A l \in S : l \in Nat /\ 1 <= l /\ l <= m
  OBVIOUS
<1>2. \A j : IsFiniteSet(UpTo(S, j)) /\ Cardinality(UpTo(S, j)) \in Nat
  <2>1. \A j : UpTo(S, j) \subseteq S
    BY DEF UpTo
  <2>. QED
    BY <1>1, <2>1, FS_Subset, FS_CardinalityType
<1>3. m \in T
  <2>1. UpTo(S, m) = S
    BY <1>0 DEF UpTo
  <2>. QED
    BY <1>1, <2>1
<1>4. PICK k \in T : \A j \in T : k <= j
  <2>1. T \in SUBSET Nat /\ T # {}
    BY <1>3
  <2> HIDE DEF T
  <2>. QED
    BY <2>1, LeastExists
<1>5. k # 0
  <2>0. \A l \in S : ~ (l <= 0)
    BY <1>0
  <2>1. UpTo(S, 0) = {}
    BY <2>0 DEF UpTo
  <2>2. Cardinality(UpTo(S, 0)) = 0
    BY <2>1, FS_EmptySet
  <2>. QED
    BY <1>1, <1>4, <2>2
<1>6. k - 1 \in Nat /\ ~ (Cardinality(UpTo(S, k - 1)) >= n)
  BY <1>4, <1>5
<1>7. k \in S
  <2>1. SUFFICES ASSUME k \notin S PROVE FALSE
    OBVIOUS
  <2>2. UpTo(S, k) = UpTo(S, k - 1)
    <3>1. \A l \in S : l <= k <=> l <= k - 1
      BY <1>0, <1>4, <2>1
    <3>. QED
      BY <3>1 DEF UpTo
  <2>. QED
    BY <1>4, <1>6, <2>2
<1>8. UpTo(S, k) = UpTo(S, k - 1) \cup {k} /\ k \notin UpTo(S, k - 1)
  <2>1. \A l \in S : l <= k <=> l <= k - 1 \/ l = k
    BY <1>0, <1>4
  <2>2. ~ (k <= k - 1)
    BY <1>4
  <2>. QED
    BY <1>7, <2>1, <2>2 DEF UpTo
<1>9. Cardinality(UpTo(S, k)) = Cardinality(UpTo(S, k - 1)) + 1
  BY <1>2, <1>8, FS_AddElement
<1>. QED
  BY <1>1, <1>2, <1>4, <1>6, <1>7, <1>9

\* What pruning leaves: jobs of the history it was given, each from a place of its own.
LEMMA Pruned ==
    ASSUME NEW js \in Seq(Job)
    PROVE  /\ PruneFinished(js) \in Seq(Job)
           /\ \A n \in DOMAIN PruneFinished(js) : \E k \in DOMAIN js : PruneFinished(js)[n] = js[k]
           /\ (\A k, l \in DOMAIN js : js[k].id = js[l].id => k = l) =>
                 \A n, m \in DOMAIN PruneFinished(js) :
                    PruneFinished(js)[n].id = PruneFinished(js)[m].id => n = m
           /\ \A n, m \in DOMAIN PruneFinished(js) : n < m =>
                 \E k, l \in DOMAIN js :
                    k < l /\ PruneFinished(js)[n] = js[k] /\ PruneFinished(js)[m] = js[l]
<1> DEFINE excess == Len(js) - KeptJobs
           Goes(k) == js[k].status # "running"
                      /\ Cardinality({l \in 1..(k - 1) : js[l].status # "running"}) < excess
           kept == {k \in DOMAIN js : ~Goes(k)}
           f == [n \in 1..Cardinality(kept) |-> CHOOSE k \in kept : Cardinality(UpTo(kept, k)) = n]
           res == [n \in 1..Cardinality(kept) |-> js[f[n]]]
<1>1. PruneFinished(js) = res
  BY DEF PruneFinished, UpTo
<1>2. kept \in SUBSET (1..Len(js)) /\ Len(js) \in Nat /\ DOMAIN js = 1..Len(js)
  OBVIOUS
<1> HIDE DEF kept
<1>3. Cardinality(kept) \in Nat
  BY <1>2, FinitePlaces
<1>4. \A n \in 1..Cardinality(kept) : f[n] \in kept /\ Cardinality(UpTo(kept, f[n])) = n
  <2>1. \A n \in 1..Cardinality(kept) : \E k \in kept : Cardinality(UpTo(kept, k)) = n
    BY <1>2, RankReached
  <2>. QED
    BY <2>1
<1> HIDE DEF f
<1>5. \A n \in 1..Cardinality(kept) : f[n] \in DOMAIN js /\ js[f[n]] \in Job
  <2>1. \A k \in DOMAIN js : js[k] \in Job
    OBVIOUS
  <2>2. \A k \in kept : k \in DOMAIN js
    BY <1>2
  <2>. QED
    BY <1>4, <2>1, <2>2
<1>6. res \in Seq(Job) /\ DOMAIN res = 1..Cardinality(kept)
  BY <1>3, <1>5
<1>7. \A n \in DOMAIN res : res[n] = js[f[n]]
  BY <1>6
<1>8. ASSUME \A k, l \in DOMAIN js : js[k].id = js[l].id => k = l,
             NEW n \in DOMAIN res, NEW m \in DOMAIN res, res[n].id = res[m].id
      PROVE  n = m
  <2>1. f[n] = f[m]
    BY <1>5, <1>6, <1>7, <1>8
  <2>. QED
    BY <1>4, <1>6, <2>1
<1>9. ASSUME NEW n \in DOMAIN res, NEW m \in DOMAIN res, n < m
      PROVE  f[n] < f[m] /\ f[n] \in DOMAIN js /\ f[m] \in DOMAIN js
  <2>1. f[n] \in kept /\ f[m] \in kept /\ f[n] \in 1..Len(js) /\ f[m] \in 1..Len(js)
    BY <1>2, <1>4, <1>6
  <2>2. Cardinality(UpTo(kept, f[n])) = n /\ Cardinality(UpTo(kept, f[m])) = m
    BY <1>4, <1>6
  <2>3. n \in Nat /\ m \in Nat
    BY <1>3, <1>6
  <2>4. ASSUME f[m] <= f[n] PROVE FALSE
    <3>1. \A l \in kept : l <= f[m] => l <= f[n]
      <4>1. \A l \in kept : l \in Nat
        BY <1>2
      <4>. QED
        BY <1>2, <2>1, <2>4, <4>1
    <3>2. UpTo(kept, f[m]) \subseteq UpTo(kept, f[n]) /\ UpTo(kept, f[n]) \subseteq kept
      BY <3>1 DEF UpTo
    <3>3. IsFiniteSet(UpTo(kept, f[n]))
      BY <1>2, <3>2, FinitePlaces, FS_Subset
    <3>4. Cardinality(UpTo(kept, f[m])) <= Cardinality(UpTo(kept, f[n]))
      BY <3>2, <3>3, FS_Subset
    <3>. QED
      BY <1>9, <2>2, <2>3, <3>4
  <2>. QED
    BY <1>2, <2>1, <2>4
<1>. QED
  BY <1>1, <1>5, <1>6, <1>7, <1>8, <1>9

-----------------------------------------------------------------------------
(* Steps of a job *)

\* What EndsOnce says of one step.
EndsStep ==
    /\ \A k \in DOMAIN jobs : jobs[k].status # "running" =>
          \A l \in DOMAIN jobs' : jobs'[l].id = jobs[k].id => jobs'[l] = jobs[k]
    /\ \A i \in Ids : /\ told'[i] <= 1
                      /\ told'[i] > told[i] =>
                           \E l \in DOMAIN jobs' : jobs'[l].id = i /\ jobs'[l].status # "running"

\* A job keeps the configuration it was launched under.
ConfigsKept == \A i \in Ids : i <= launched => runner'[i].cfg = runner[i].cfg

LEMMA JobNumbers ==
    ASSUME JobInv
    PROVE  /\ launched \in Nat /\ jobClock \in Nat
           /\ \A k \in DOMAIN jobs : jobs[k] \in Job /\ jobs[k].id \in Ids
<1>1. launched \in Nat /\ jobClock \in Nat /\ jobs \in Seq(Job)
  BY PriceNumbers DEF JobInv, JobsTyped
<1>2. \A k \in DOMAIN jobs : jobs[k] \in Job
  BY <1>1
<1>. QED
  BY <1>1, <1>2 DEF Job

\* A step that leaves the history alone ends nothing.
LEMMA HistoryKept ==
    ASSUME JobInv, UNCHANGED <<jobs, told, launched>>, ConfigsKept
    PROVE  HistoryOk' /\ ToldOk' /\ EndsStep
<1>1. HistoryOk'
  BY JobNumbers DEF JobInv, HistoryOk, ConfigsKept
<1>2. ToldOk'
  BY DEF JobInv, ToldOk
<1>3. EndsStep
  <2>1. \A i \in Ids : told[i] \in {0, 1}
    BY DEF JobInv, ToldOk
  <2>2. \A k, l \in DOMAIN jobs : jobs[k].id = jobs[l].id => k = l
    BY DEF JobInv, HistoryOk
  <2>. QED
    BY <2>1, <2>2 DEF EndsStep
<1>. QED
  BY <1>1, <1>2, <1>3

LEMMA LaunchingCount ==
    /\ IsFiniteSet(Launching) /\ Cardinality(Launching) \in Nat
    /\ IsFiniteSet(Launching') /\ Cardinality(Launching') \in Nat
<1>1. Launching \subseteq JobClients /\ Launching' \subseteq JobClients
  BY DEF Launching
<1>. QED
  BY <1>1, PriceNumbers, FS_Subset, FS_CardinalityType

\* The goroutine of a launched job moves.
LEMMA RunnerMoves ==
    ASSUME JobInv, NEW i \in Ids, runner[i].at # "none", NEW q \in Runner, q.cfg = runner[i].cfg,
           runner' = [runner EXCEPT ![i] = q], launched' = launched
    PROVE  RunnersTyped' /\ ConfigsKept
<1>1. RunnersTyped
  BY DEF JobInv
<1>2. DOMAIN runner' = Ids /\ \A j \in Ids : runner'[j] = IF j = i THEN q ELSE runner[j]
  BY <1>1 DEF RunnersTyped
<1>3. i <= launched
  BY <1>1 DEF RunnersTyped
<1>. QED
  BY <1>1, <1>2, <1>3 DEF RunnersTyped, ConfigsKept

LEMMA RunnerOf ==
    ASSUME JobInv, NEW i \in Ids, runner[i].at # "none"
    PROVE  i <= launched /\ runner[i] \in Runner
  BY DEF JobInv, RunnersTyped

\* One that moves, with everything else as it was.
LEMMA RunnerAlone ==
    ASSUME JobInv, NEW i \in Ids, runner[i].at # "none", NEW q \in Runner, q.cfg = runner[i].cfg,
           runner' = [runner EXCEPT ![i] = q],
           UNCHANGED <<jobCfg, jobs, jobReq, jobClock, told, launched>>
    PROVE  JobInv' /\ EndsStep
<1>1. RunnersTyped' /\ ConfigsKept
  BY RunnerMoves
<1>2. HistoryOk' /\ ToldOk' /\ EndsStep
  BY <1>1, HistoryKept
<1>3. JobsTyped'
  BY DEF JobInv, JobsTyped
<1>4. RequestsTyped' /\ Launching' = Launching
  BY DEF JobInv, RequestsTyped, Launching, LaunchOk, CancelOk
<1>. QED
  BY <1>1, <1>2, <1>3, <1>4 DEF JobInv

LEMMA AtMoves ==
    ASSUME JobInv, NEW i \in Ids, runner[i].at # "none",
           NEW at \in {"start", "select", "killed", "done", "failed", "canceled", "over"},
           NEW box \in {"none", "pulling", "up", "gone"}, At(i, at, box),
           UNCHANGED <<jobCfg, jobs, jobReq, jobClock, told, launched>>
    PROVE  JobInv' /\ EndsStep
<1> DEFINE q == [runner[i] EXCEPT !.at = at, !.box = box]
<1>1. runner[i] \in Runner
  BY RunnerOf
<1>2. q \in Runner /\ q.cfg = runner[i].cfg
  BY <1>1 DEF Runner
<1>3. runner' = [runner EXCEPT ![i] = q]
  BY DEF At
<1>. QED
  BY <1>2, <1>3, RunnerAlone

LEMMA RunKeeps ==
    ASSUME JobInv, NEW i \in Ids,
           \/ RunStart(i) \/ BoxUp(i) \/ BoxExits(i) \/ RunReturns(i) \/ RunKills(i) \/ RunWaited(i)
    PROVE  JobInv' /\ EndsStep
<1>1. CASE RunStart(i)
  BY <1>1, AtMoves DEF RunStart, ErrorStatus
<1>2. CASE BoxUp(i) \/ BoxExits(i)
  <2>1. PICK box \in {"up", "gone"} : runner' = [runner EXCEPT ![i].box = box]
    BY <1>2 DEF BoxUp, BoxExits
  <2> DEFINE q == [runner[i] EXCEPT !.box = box]
  <2>2. runner[i].at # "none" /\ UNCHANGED <<jobCfg, jobs, jobReq, jobClock, told, launched>>
    BY <1>2 DEF BoxUp, BoxExits
  <2>3. q \in Runner /\ q.cfg = runner[i].cfg
    BY <2>2, RunnerOf DEF Runner
  <2>4. runner' = [runner EXCEPT ![i] = q]
    BY <2>1
  <2>. QED
    BY <2>2, <2>3, <2>4, RunnerAlone
<1>3. CASE RunReturns(i)
  BY <1>3, AtMoves DEF RunReturns
<1>4. CASE RunKills(i)
  <2>1. runner[i] \in Runner
    BY <1>4, RunnerOf DEF RunKills
  <2>2. PICK box \in {"none", "pulling", "up", "gone"} : At(i, "killed", box)
    BY <1>4, <2>1 DEF RunKills, Runner
  <2>. QED
    BY <1>4, <2>2, AtMoves DEF RunKills
<1>5. CASE RunWaited(i)
  BY <1>5, AtMoves DEF RunWaited, ErrorStatus
<1>. QED
  BY <1>1, <1>2, <1>3, <1>4, <1>5

LEMMA JobTickKeeps ==
    ASSUME JobInv, JobTick
    PROVE  JobInv' /\ EndsStep
<1>1. RunnersTyped' /\ ConfigsKept
  <2>1. RunnersTyped /\ launched' = launched /\ DOMAIN runner' = Ids
    BY DEF JobInv, JobTick
  <2>2. ASSUME NEW j \in Ids
        PROVE  \/ runner'[j] = runner[j]
               \/ runner[j].at # "none" /\ runner'[j] = [runner[j] EXCEPT !.ctx = "deadline"]
    <3>1. runner'[j] = IF runner[j].at # "none" /\ runner[j].ctx = "live" /\ runner[j].deadline <= jobClock'
                       THEN [runner[j] EXCEPT !.ctx = "deadline"] ELSE runner[j]
      BY Zenon DEF JobTick
    <3>. QED
      BY <3>1, Zenon
  <2>3. \A j \in Ids : runner[j].at # "none" => j <= launched /\ runner[j] \in Runner
    BY <2>1 DEF RunnersTyped
  <2>4. \A r \in Runner : [r EXCEPT !.ctx = "deadline"] \in Runner
                          /\ [r EXCEPT !.ctx = "deadline"].cfg = r.cfg
    BY DEF Runner
  <2>5. ASSUME NEW j \in Ids
        PROVE  IF j <= launched THEN runner'[j] \in Runner /\ runner'[j].cfg = runner[j].cfg
                                ELSE runner'[j].at = "none"
    <3>1. IF j <= launched THEN runner[j] \in Runner ELSE runner[j].at = "none"
      BY <2>1 DEF RunnersTyped
    <3>2. CASE runner'[j] = runner[j]
      BY <3>1, <3>2
    <3>3. CASE runner[j].at # "none" /\ runner'[j] = [runner[j] EXCEPT !.ctx = "deadline"]
      BY <2>3, <2>4, <3>3
    <3>. QED
      BY <2>2, <3>2, <3>3
  <2>. QED
    BY <2>1, <2>5 DEF RunnersTyped, ConfigsKept
<1>2. HistoryOk' /\ ToldOk' /\ EndsStep
  BY <1>1, HistoryKept DEF JobTick
<1>3. JobsTyped'
  BY PriceNumbers DEF JobInv, JobsTyped, JobTick
<1>4. RequestsTyped' /\ Launching' = Launching /\ launched' = launched
  BY DEF JobInv, RequestsTyped, Launching, LaunchOk, CancelOk, JobTick
<1>. QED
  BY <1>1, <1>2, <1>3, <1>4 DEF JobInv

LEMMA FinishKeeps ==
    ASSUME JobInv, NEW i \in Ids, i <= launched, NEW cfg \in JobConfigs, NEW status \in Ended,
           Finish(i, cfg, status), launched' = launched, ConfigsKept
    PROVE  jobs' \in Seq(Job) /\ told' \in [Ids -> Nat] /\ HistoryOk' /\ ToldOk' /\ EndsStep
<1>1. jobs \in Seq(Job) /\ told \in [Ids -> Nat] /\ HistoryOk /\ ToldOk
  BY DEF JobInv, JobsTyped
<1>2. CASE ~ \E k \in Held(i) : jobs[k].status = "running"
  <2>1. jobs' = jobs /\ told' = told
    BY <1>2 DEF Finish
  <2>. QED
    BY <1>1, <2>1, HistoryKept
<1>3. CASE \E k \in Held(i) : jobs[k].status = "running"
  <2> DEFINE k == CHOOSE k \in Held(i) : TRUE
             job == jobs[k]
             now == jobClock - job.started
             elapsed == IF now > job.timeout THEN job.timeout ELSE now
             cost == RunCost(RunSecondsFor(job.size, elapsed)) + JobPrice
             paid == IF cost > job.hold THEN job.hold ELSE cost
             rec == [job EXCEPT !.status = status, !.ended = jobClock, !.cost = paid]
  <2>1. jobs' = [jobs EXCEPT ![k] = rec] /\ Completion(i, cfg)
    BY <1>3, Zenon DEF Finish
  <2>2. k \in DOMAIN jobs /\ job.id = i /\ job.status = "running"
    <3>1. PICK m \in Held(i) : jobs[m].status = "running"
      BY <1>3
    <3>2. k \in Held(i)
      BY <3>1
    <3>3. k = m
      BY <1>1, <3>1, <3>2 DEF Held, HistoryOk
    <3>. QED
      BY <3>1, <3>2, <3>3 DEF Held
  <2>3. job \in Job
    BY <2>2, JobNumbers
  <2>4. job.size \in Sizes /\ elapsed \in Int /\ job.hold \in Nat /\ jobClock \in Nat
    <3>1. job.started \in Nat /\ job.timeout \in Nat /\ job.size \in Sizes /\ job.hold \in Nat
      BY <2>3 DEF Job
    <3>2. jobClock \in Nat
      BY JobNumbers
    <3> HIDE DEF job
    <3>. QED
      BY <3>1, <3>2
  <2>5. paid \in Nat /\ paid <= job.hold
    <3>1. cost \in Nat
      <4> HIDE DEF job, elapsed
      <4>. QED
        BY <2>4, CostTyped
    <3> HIDE DEF cost, job
    <3>. QED
      BY <2>4, <3>1
  <2> HIDE DEF paid
  <2>6. rec \in Job /\ rec.id = i /\ rec.status = status /\ rec.hold = job.hold /\ rec.cost = paid
    <3>1. rec = [job EXCEPT !.status = status, !.ended = jobClock, !.cost = paid]
      OBVIOUS
    <3> HIDE DEF job, rec
    <3>2. jobClock \in Nat /\ paid \in Nat
      BY <2>4, <2>5
    <3>3. rec \in Job /\ rec.id = job.id /\ rec.status = status /\ rec.hold = job.hold /\ rec.cost = paid
      BY <2>3, <3>1, <3>2 DEF Job, Ended
    <3>. QED
      BY <2>2, <3>3
  <2> HIDE DEF rec, k
  <2>7. /\ jobs' \in Seq(Job) /\ DOMAIN jobs' = DOMAIN jobs
        /\ \A l \in DOMAIN jobs : jobs'[l] = IF l = k THEN rec ELSE jobs[l]
    BY <1>1, <2>1, <2>2, <2>6
  <2>8. /\ told' \in [Ids -> Nat]
        /\ \A j \in Ids : told'[j] = IF j = i /\ cfg.onComplete THEN told[j] + 1 ELSE told[j]
    BY <1>1, <2>1 DEF Completion
  <2>9. told[i] = 0
    BY <1>1, <2>2 DEF ToldOk
  <2>10. HistoryOk'
    <3>1. \A l \in DOMAIN jobs : jobs'[l].id = jobs[l].id /\ jobs'[l].hold = jobs[l].hold
      BY <2>2, <2>6, <2>7
    <3>2. \A l \in DOMAIN jobs : jobs'[l].cost <= jobs'[l].hold
      BY <1>1, <2>5, <2>6, <2>7 DEF HistoryOk
    <3>3. \A l \in DOMAIN jobs : jobs[l].id \in Ids
      BY JobNumbers
    <3>. QED
      BY <1>1, <2>7, <3>1, <3>2, <3>3 DEF HistoryOk, ConfigsKept
  <2>11. rec.status # "running"
    BY <2>6 DEF Ended
  <2>12. ToldOk'
    <3> SUFFICES ASSUME NEW j \in Ids
                 PROVE  /\ told'[j] \in {0, 1}
                        /\ told'[j] = 1 => j <= launched' /\ \A l \in DOMAIN jobs' :
                                              jobs'[l].id = j => jobs'[l].status # "running"
      BY DEF ToldOk
    <3>1. CASE j = i
      <4>1. told'[j] \in {0, 1}
        BY <2>8, <2>9, <3>1
      <4>2. \A l \in DOMAIN jobs' : jobs'[l].id = j => l = k
        BY <1>1, <2>2, <2>6, <2>7, <3>1 DEF HistoryOk
      <4>. QED
        BY <2>7, <2>11, <3>1, <4>1, <4>2
    <3>2. CASE j # i
      BY <1>1, <2>6, <2>7, <2>8, <3>2 DEF ToldOk
    <3>. QED
      BY <3>1, <3>2
  <2>13. EndsStep
    <3>1. ASSUME NEW m \in DOMAIN jobs, jobs[m].status # "running",
                 NEW l \in DOMAIN jobs', jobs'[l].id = jobs[m].id
          PROVE  jobs'[l] = jobs[m]
      <4>1. jobs[l].id = jobs[m].id
        BY <2>2, <2>6, <2>7, <3>1
      <4>2. l = m
        BY <1>1, <2>7, <3>1, <4>1 DEF HistoryOk
      <4>. QED
        BY <2>2, <2>7, <3>1, <4>2
    <3>2. \A j \in Ids : told'[j] <= 1
      BY <2>12 DEF ToldOk
    <3>3. ASSUME NEW j \in Ids, told'[j] > told[j]
          PROVE  \E l \in DOMAIN jobs' : jobs'[l].id = j /\ jobs'[l].status # "running"
      <4>1. j = i
        BY <2>8, <3>3
      <4>. QED
        BY <2>2, <2>6, <2>7, <2>11, <4>1
    <3>. QED
      BY <3>1, <3>2, <3>3 DEF EndsStep
  <2>. QED
    BY <2>7, <2>8, <2>10, <2>12, <2>13
<1>. QED
  BY <1>2, <1>3

LEMMA RecordsKeep ==
    ASSUME JobInv, NEW i \in Ids, RunRecords(i)
    PROVE  JobInv' /\ EndsStep
<1> DEFINE q == [runner[i] EXCEPT !.at = "over", !.ctx = "canceled", !.deadline = 0]
<1>1. runner[i].at # "none" /\ launched' = launched /\ runner' = [runner EXCEPT ![i] = q]
  BY DEF RunRecords
<1>2. runner[i] \in Runner /\ i <= launched
  BY <1>1, RunnerOf
<1>3. q \in Runner /\ q.cfg = runner[i].cfg /\ runner[i].cfg \in JobConfigs
  BY <1>2 DEF Runner
<1>4. RunnersTyped' /\ ConfigsKept
  <2> HIDE DEF q
  <2>. QED
    BY <1>1, <1>3, RunnerMoves
<1>5. runner[i].at \in Ended /\ Finish(i, runner[i].cfg, runner[i].at)
  BY DEF RunRecords, Ended
<1>6. jobs' \in Seq(Job) /\ told' \in [Ids -> Nat] /\ HistoryOk' /\ ToldOk' /\ EndsStep
  BY <1>1, <1>2, <1>3, <1>4, <1>5, FinishKeeps
<1>7. JobsTyped'
  BY <1>6 DEF JobInv, JobsTyped, RunRecords
<1>8. RequestsTyped' /\ Launching' = Launching
  BY DEF JobInv, RequestsTyped, Launching, LaunchOk, CancelOk, RunRecords
<1>. QED
  BY <1>1, <1>4, <1>6, <1>7, <1>8 DEF JobInv

-----------------------------------------------------------------------------
(* Steps of a request *)

\* One client's request changes to q, of which the rest of the model knows only its kind.
LEMMA RequestMoves ==
    ASSUME JobInv, NEW c \in JobClients, NEW q, jobReq' = [jobReq EXCEPT ![c] = q],
           launched' \in Nat, launched <= launched',
           q.op = "launch" => LaunchOk(q), q.op \in {"cancel", "canceled"} => CancelOk(q, launched)
    PROVE  /\ RequestsTyped'
           /\ Launching' = IF q.op = "launch" THEN Launching \cup {c} ELSE Launching \ {c}
<1>1. /\ DOMAIN jobReq' = JobClients
      /\ \A d \in JobClients : jobReq'[d] = IF d = c THEN q ELSE jobReq[d]
  BY DEF JobInv, RequestsTyped
<1>2. \A d \in JobClients : jobReq'[d].op = "launch" => LaunchOk(jobReq'[d])
  BY <1>1 DEF JobInv, RequestsTyped
<1>3. \A d \in JobClients : jobReq'[d].op \in {"cancel", "canceled"} => CancelOk(jobReq'[d], launched')
  <2> SUFFICES ASSUME NEW d \in JobClients, jobReq'[d].op \in {"cancel", "canceled"}
               PROVE  CancelOk(jobReq'[d], launched')
    OBVIOUS
  <2>1. CancelOk(jobReq'[d], launched)
    BY <1>1 DEF JobInv, RequestsTyped
  <2>. QED
    BY <2>1, JobNumbers DEF CancelOk, Ids
<1>4. RequestsTyped'
  BY <1>1, <1>2, <1>3 DEF RequestsTyped, LaunchOk, CancelOk
<1>5. Launching' = IF q.op = "launch" THEN Launching \cup {c} ELSE Launching \ {c}
  BY <1>1 DEF Launching
<1>. QED
  BY <1>4, <1>5

LEMMA LaunchCounts ==
    ASSUME NEW c \in JobClients
    PROVE  /\ Cardinality(Launching \cup {c}) <= Cardinality(Launching) + 1
           /\ Cardinality(Launching \ {c}) <= Cardinality(Launching)
           /\ c \in Launching => Cardinality(Launching \ {c}) + 1 = Cardinality(Launching)
           /\ Cardinality(Launching \cup {c}) \in Nat /\ Cardinality(Launching \ {c}) \in Nat
<1>1. IsFiniteSet(Launching) /\ Cardinality(Launching) \in Nat
  BY LaunchingCount
<1>2. /\ IsFiniteSet(Launching \cup {c})
      /\ Cardinality(Launching \cup {c}) = IF c \in Launching THEN Cardinality(Launching)
                                           ELSE Cardinality(Launching) + 1
  BY <1>1, FS_AddElement
<1>3. /\ IsFiniteSet(Launching \ {c})
      /\ Cardinality(Launching \ {c}) = IF c \in Launching THEN Cardinality(Launching) - 1
                                        ELSE Cardinality(Launching)
  BY <1>1, FS_RemoveElement
<1>4. Cardinality(Launching \cup {c}) \in Nat /\ Cardinality(Launching \ {c}) \in Nat
  BY <1>2, <1>3, FS_CardinalityType
<1>. QED
  BY <1>1, <1>2, <1>3, <1>4

\* A step of a request that is about one that exists, or about none.
LEMMA RequestAlone ==
    ASSUME JobInv, NEW c \in JobClients, NEW q, jobReq' = [jobReq EXCEPT ![c] = q],
           q.op = "launch" => LaunchOk(q) /\ launched + Cardinality(Launching) < MaxLaunches,
           q.op \in {"cancel", "canceled"} => CancelOk(q, launched),
           UNCHANGED <<jobCfg, jobs, runner, jobClock, told, launched>>
    PROVE  JobInv' /\ EndsStep
<1>1. RunnersTyped' /\ ConfigsKept
  BY DEF JobInv, RunnersTyped, ConfigsKept
<1>2. HistoryOk' /\ ToldOk' /\ EndsStep
  BY <1>1, HistoryKept
<1>3. JobsTyped'
  BY DEF JobInv, JobsTyped
<1>4. /\ RequestsTyped'
      /\ Launching' = IF q.op = "launch" THEN Launching \cup {c} ELSE Launching \ {c}
  <2>1. launched' \in Nat /\ launched <= launched'
    BY JobNumbers
  <2>. QED
    BY <2>1, RequestMoves, Zenon
<1>5. launched' + Cardinality(Launching') <= MaxLaunches
  <2>1. launched + Cardinality(Launching) <= MaxLaunches /\ launched' = launched
    BY DEF JobInv
  <2>2. launched \in Nat /\ Cardinality(Launching) \in Nat /\ MaxLaunches \in Nat
    BY JobNumbers, LaunchingCount, PriceNumbers
  <2>3. CASE q.op = "launch"
    <3>1. /\ Cardinality(Launching \cup {c}) <= Cardinality(Launching) + 1
          /\ Cardinality(Launching \cup {c}) \in Nat
      BY LaunchCounts
    <3>2. Launching' = Launching \cup {c} /\ launched + Cardinality(Launching) < MaxLaunches
      BY <1>4, <2>3
    <3>. QED
      BY <2>1, <2>2, <3>1, <3>2
  <2>4. CASE q.op # "launch"
    <3>1. /\ Cardinality(Launching \ {c}) <= Cardinality(Launching)
          /\ Cardinality(Launching \ {c}) \in Nat
      BY LaunchCounts
    <3>2. Launching' = Launching \ {c}
      BY <1>4, <2>4
    <3>. QED
      BY <2>1, <2>2, <3>1, <3>2
  <2>. QED
    BY <2>3, <2>4
<1>. QED
  BY <1>1, <1>2, <1>3, <1>4, <1>5 DEF JobInv

LEMMA ChecksKeep ==
    ASSUME JobInv, NEW c \in JobClients, NEW image, NEW size \in Sizes, NEW asked \in JobTimeouts,
           LaunchChecked(c, image, size, asked)
    PROVE  JobInv' /\ EndsStep
<1> DEFINE timeout == IF asked = 0 THEN Settings.maxTimeout ELSE asked
           q == [op |-> "launch", cfg |-> Settings, size |-> size, timeout |-> timeout,
                 hold |-> WorstCaseHold(size, timeout)]
<1>1. Settings \in JobConfigs
  BY DEF Settings, JobInv, JobsTyped
<1>2. timeout \in Nat
  BY <1>1, PriceNumbers, JobsAssumption
<1>3. /\ jobReq' = [jobReq EXCEPT ![c] = q] /\ MayLaunch(image, size, timeout)
      /\ launched + Cardinality(Launching) < MaxLaunches
      /\ UNCHANGED <<jobCfg, jobs, runner, jobClock, told, launched>>
  BY DEF LaunchChecked, Launching
<1> HIDE DEF timeout
<1>4. WorstCaseHold(size, timeout) \in Nat
  BY <1>2, CostTyped DEF WorstCaseHold
<1>5. WorstCaseHold(size, timeout) <= Settings.maxCost
  BY <1>3 DEF MayLaunch
<1>6. LaunchOk(q) /\ q.op = "launch"
  BY <1>1, <1>2, <1>4, <1>5 DEF LaunchOk
<1> HIDE DEF q
<1>. QED
  BY <1>3, <1>6, RequestAlone

LEMMA CancelsKeep ==
    ASSUME JobInv, NEW c \in JobClients,
           (\E i \in Ids : CancelFinds(c, i)) \/ CancelStops(c) \/ CancelRecords(c)
    PROVE  JobInv' /\ EndsStep
<1>1. ASSUME NEW i \in Ids, CancelFinds(c, i)
      PROVE  JobInv' /\ EndsStep
  <2> DEFINE q == [op |-> "cancel", cfg |-> Settings, id |-> i]
  <2>1. i <= launched
    BY <1>1 DEF CancelFinds, Held, JobInv, HistoryOk
  <2>2. CancelOk(q, launched) /\ q.op = "cancel"
    BY <2>1 DEF CancelOk, Settings, JobInv, JobsTyped
  <2>3. jobReq' = [jobReq EXCEPT ![c] = q] /\ UNCHANGED <<jobCfg, jobs, runner, jobClock, told, launched>>
    BY <1>1 DEF CancelFinds
  <2> HIDE DEF q
  <2>. QED
    BY <2>2, <2>3, RequestAlone
<1>2. CASE CancelStops(c)
  <2> DEFINE i == jobReq[c].id
             q == [jobReq[c] EXCEPT !.op = "canceled"]
             p == [runner[i] EXCEPT !.ctx = "canceled"]
  <2>1. CancelOk(jobReq[c], launched)
    BY <1>2 DEF CancelStops, JobInv, RequestsTyped
  <2>2. CancelOk(q, launched) /\ q.op = "canceled" /\ i \in Ids /\ i <= launched
    BY <2>1 DEF CancelOk
  <2>3. runner[i] \in Runner
    BY <2>2 DEF JobInv, RunnersTyped
  <2>4. p \in Runner /\ p.cfg = runner[i].cfg
    BY <2>3 DEF Runner
  <2>5. /\ jobReq' = [jobReq EXCEPT ![c] = q] /\ UNCHANGED <<jobCfg, jobs, jobClock, told, launched>>
        /\ runner' = runner \/ runner' = [runner EXCEPT ![i] = p]
    BY <1>2 DEF CancelStops
  <2> HIDE DEF p, q, i
  <2>6. RunnersTyped' /\ ConfigsKept
    <3>1. RunnersTyped /\ launched' = launched
      BY <2>5 DEF JobInv
    <3>2. DOMAIN runner' = Ids /\ \A j \in Ids : runner'[j] = runner[j] \/ (j = i /\ runner'[j] = p)
      <4>1. DOMAIN runner = Ids
        BY <3>1 DEF RunnersTyped
      <4>2. CASE runner' = runner
        BY <4>1, <4>2
      <4>3. CASE runner' = [runner EXCEPT ![i] = p]
        BY <2>2, <4>1, <4>3
      <4>. QED
        BY <2>5, <4>2, <4>3
    <3>. QED
      BY <2>2, <2>4, <3>1, <3>2 DEF RunnersTyped, ConfigsKept
  <2>7. HistoryOk' /\ ToldOk' /\ EndsStep
    BY <2>5, <2>6, HistoryKept
  <2>8. JobsTyped'
    BY <2>5 DEF JobInv, JobsTyped
  <2>9. RequestsTyped' /\ Launching' = Launching \ {c}
    <3>1. launched' \in Nat /\ launched <= launched'
      BY <2>5, JobNumbers
    <3>2. q.op # "launch"
      BY <2>2
    <3>. QED
      BY <2>2, <2>5, <3>1, <3>2, RequestMoves, Zenon
  <2>10. launched' + Cardinality(Launching') <= MaxLaunches
    <3>1. launched + Cardinality(Launching) <= MaxLaunches /\ launched' = launched
      BY <2>5 DEF JobInv
    <3>. QED
      <4>1. /\ Cardinality(Launching \ {c}) <= Cardinality(Launching) /\ Cardinality(Launching \ {c}) \in Nat
            /\ Cardinality(Launching) \in Nat /\ launched \in Nat /\ MaxLaunches \in Nat
        BY LaunchCounts, LaunchingCount, JobNumbers, PriceNumbers
      <4>2. Cardinality(Launching') = Cardinality(Launching \ {c})
        BY <2>9
      <4>. QED
        BY <3>1, <4>1, <4>2
  <2>. QED
    BY <2>6, <2>7, <2>8, <2>9, <2>10 DEF JobInv
<1>3. CASE CancelRecords(c)
  <2>1. CancelOk(jobReq[c], launched)
    BY <1>3 DEF CancelRecords, JobInv, RequestsTyped
  <2>2. jobReq[c].id \in Ids /\ jobReq[c].id <= launched /\ jobReq[c].cfg \in JobConfigs
    BY <2>1 DEF CancelOk
  <2>3. /\ Finish(jobReq[c].id, jobReq[c].cfg, "canceled") /\ jobReq' = [jobReq EXCEPT ![c] = NoReq]
        /\ UNCHANGED <<jobCfg, runner, jobClock, launched>>
    BY <1>3 DEF CancelRecords
  <2>4. RunnersTyped' /\ ConfigsKept
    BY <2>3 DEF JobInv, RunnersTyped, ConfigsKept
  <2>5. jobs' \in Seq(Job) /\ told' \in [Ids -> Nat] /\ HistoryOk' /\ ToldOk' /\ EndsStep
    <3>1. "canceled" \in Ended
      BY DEF Ended
    <3>. QED
      BY <2>2, <2>3, <2>4, <3>1, FinishKeeps
  <2>6. JobsTyped'
    BY <2>3, <2>5 DEF JobInv, JobsTyped
  <2>7. NoReq.op = "none"
    BY DEF NoReq
  <2>8. RequestsTyped' /\ Launching' = Launching \ {c}
    <3>1. launched' \in Nat /\ launched <= launched'
      BY <2>3, JobNumbers
    <3>2. NoReq.op # "launch" /\ NoReq.op \notin {"cancel", "canceled"}
      BY <2>7
    <3>. QED
      BY <2>3, <3>1, <3>2, RequestMoves, Zenon
  <2>9. launched' + Cardinality(Launching') <= MaxLaunches
    <3>1. launched + Cardinality(Launching) <= MaxLaunches /\ launched' = launched
      BY <2>3 DEF JobInv
    <3>. QED
      <4>1. /\ Cardinality(Launching \ {c}) <= Cardinality(Launching) /\ Cardinality(Launching \ {c}) \in Nat
            /\ Cardinality(Launching) \in Nat /\ launched \in Nat /\ MaxLaunches \in Nat
        BY LaunchCounts, LaunchingCount, JobNumbers, PriceNumbers
      <4>2. Cardinality(Launching') = Cardinality(Launching \ {c})
        BY <2>8
      <4>. QED
        BY <3>1, <4>1, <4>2
  <2>. QED
    BY <2>4, <2>5, <2>6, <2>8, <2>9 DEF JobInv
<1>. QED
  BY <1>1, <1>2, <1>3

\* A launch reaches the lock: the history takes it, pruned, or the cap turns it away.
LEMMA StoresKeep ==
    ASSUME JobInv, NEW c \in JobClients, LaunchStored(c)
    PROVE  JobInv' /\ EndsStep
<1> DEFINE r == jobReq[c]
           id == launched + 1
           job == [id |-> id, status |-> "running", size |-> r.size, timeout |-> r.timeout,
                   hold |-> r.hold, started |-> StartedAt, ended |-> 0, cost |-> 0]
           q == [at |-> "start", cfg |-> r.cfg, ctx |-> "live", box |-> "none",
                 deadline |-> jobClock + r.timeout]
           js == Append(jobs, job)
<1>1. /\ r.op = "launch" /\ jobReq' = [jobReq EXCEPT ![c] = NoReq]
      /\ UNCHANGED <<jobCfg, jobClock, told>>
  BY DEF LaunchStored
<1>2. NoReq.op # "launch" /\ NoReq.op \notin {"cancel", "canceled"}
  BY DEF NoReq
<1>3. LaunchOk(r) /\ c \in Launching
  BY <1>1 DEF JobInv, RequestsTyped, Launching
<1>4. launched \in Nat /\ jobClock \in Nat /\ Cardinality(Launching) \in Nat /\ MaxLaunches \in Nat
  BY JobNumbers, LaunchingCount, PriceNumbers
<1>5. /\ Cardinality(Launching \ {c}) + 1 = Cardinality(Launching) /\ Cardinality(Launching \ {c}) \in Nat
      /\ launched + Cardinality(Launching) <= MaxLaunches
  BY <1>3, LaunchCounts DEF JobInv
<1>6. CASE UNCHANGED <<jobs, runner, launched>>
  BY <1>1, <1>2, <1>6, RequestAlone
<1>7. CASE /\ jobs' = PruneFinished(js) /\ launched' = id
           /\ runner' = [runner EXCEPT ![id] = q]
  <2>1. id \in Nat /\ id \in Ids /\ launched < id
    BY <1>4, <1>5 DEF Ids
  <2>2. job \in Job /\ q \in Runner
    <3>1. r.cfg \in JobConfigs /\ r.size \in Sizes /\ r.timeout \in Nat /\ r.hold \in Nat
      BY <1>3 DEF LaunchOk
    <3>2. StartedAt \in Nat
      <4>1. jobs # <<>> => Last(jobs) \in Job
        BY DEF JobInv, JobsTyped, Last
      <4>. QED
        BY <1>4, <4>1 DEF StartedAt, Job
    <3>3. jobClock + r.timeout \in Nat
      BY <1>4, <3>1
    <3> HIDE DEF r, id
    <3>. QED
      BY <2>1, <3>1, <3>2, <3>3 DEF Job, Runner
  <2>3. job.id = id /\ job.status = "running" /\ job.cost = 0 /\ job.hold = r.hold
        /\ r.hold \in Nat /\ r.hold <= r.cfg.maxCost /\ q.cfg = r.cfg
    BY <1>3 DEF LaunchOk
  <2> HIDE DEF job, q, r, id
  <2>4. jobs \in Seq(Job) /\ js \in Seq(Job)
    BY <2>2 DEF JobInv, JobsTyped
  <2>5. \A k \in DOMAIN js : (js[k] = job /\ k = Len(jobs) + 1) \/ (k \in DOMAIN jobs /\ js[k] = jobs[k])
    BY <2>2, <2>4
  <2>6. \A k \in DOMAIN jobs : jobs[k].id <= launched /\ jobs[k].id # id /\ jobs[k].id \in Nat
    <3>1. \A k \in DOMAIN jobs : jobs[k].id <= launched /\ jobs[k].id \in Nat
      BY JobNumbers DEF JobInv, HistoryOk, Ids
    <3>. QED
      BY <1>4, <2>1, <3>1
  <2>7. \A k, l \in DOMAIN js : js[k].id = js[l].id => k = l
    BY <2>3, <2>5, <2>6 DEF JobInv, HistoryOk
  <2> HIDE DEF js
  <2>8. /\ jobs' \in Seq(Job)
        /\ \A n \in DOMAIN jobs' : \E k \in DOMAIN js : jobs'[n] = js[k]
        /\ \A n, m \in DOMAIN jobs' : jobs'[n].id = jobs'[m].id => n = m
    <3> DEFINE res == PruneFinished(js)
    <3>1. res \in Seq(Job) /\ \A n \in DOMAIN res : \E k \in DOMAIN js : res[n] = js[k]
      BY <2>4, Pruned
    <3>2. \A n, m \in DOMAIN res : res[n].id = res[m].id => n = m
      BY <2>4, <2>7, Pruned
    <3>3. jobs' = res
      BY <1>7
    <3> HIDE DEF res
    <3>. QED
      BY <3>1, <3>2, <3>3
  <2>9. ASSUME NEW n \in DOMAIN jobs'
        PROVE  jobs'[n] = job \/ \E k \in DOMAIN jobs : jobs'[n] = jobs[k]
    BY <2>5, <2>8
  <2>10. RunnersTyped /\ DOMAIN runner' = Ids /\ runner'[id] = q
         /\ \A j \in Ids : j # id => runner'[j] = runner[j]
    BY <1>7, <2>1 DEF JobInv, RunnersTyped
  <2>11. RunnersTyped' /\ ConfigsKept
    <3>1. \A j \in Ids : j # id => (j <= launched' <=> j <= launched)
      BY <1>4, <1>7, <2>1 DEF Ids, id
    <3>2. \A j \in Ids : j <= launched => j # id
      BY <1>4, <2>1 DEF Ids
    <3>. QED
      BY <1>7, <2>1, <2>2, <2>10, <3>1, <3>2 DEF RunnersTyped, ConfigsKept
  <2>12. HistoryOk'
    <3>1. ASSUME NEW n \in DOMAIN jobs'
          PROVE  /\ jobs'[n].id <= launched' /\ jobs'[n].cost <= jobs'[n].hold
                 /\ jobs'[n].hold <= runner'[jobs'[n].id].cfg.maxCost
      <4>1. CASE jobs'[n] = job
        BY <1>7, <2>1, <2>3, <2>10, <4>1
      <4>2. CASE \E k \in DOMAIN jobs : jobs'[n] = jobs[k]
        <5>1. PICK k \in DOMAIN jobs : jobs'[n] = jobs[k]
          BY <4>2
        <5>2. jobs[k].id \in Ids /\ runner'[jobs[k].id] = runner[jobs[k].id]
          BY <2>6, <2>10, JobNumbers
        <5>3. jobs[k].cost <= jobs[k].hold /\ jobs[k].hold <= runner[jobs[k].id].cfg.maxCost
          BY DEF JobInv, HistoryOk
        <5>4. jobs[k].id <= launched'
          BY <1>4, <1>7, <2>1, <2>6
        <5>. QED
          BY <5>1, <5>2, <5>3, <5>4
      <4>. QED
        BY <2>9, <4>1, <4>2
    <3>. QED
      BY <2>8, <3>1 DEF HistoryOk
  <2>13. ToldOk'
    <3>1. ASSUME NEW j \in Ids
          PROVE  /\ told'[j] \in {0, 1}
                 /\ told'[j] = 1 => j <= launched' /\ \A n \in DOMAIN jobs' :
                                       jobs'[n].id = j => jobs'[n].status # "running"
      <4>1. told' = told /\ told[j] \in {0, 1}
        BY <1>1 DEF JobInv, ToldOk
      <4>2. ASSUME told[j] = 1
            PROVE  j <= launched /\ \A k \in DOMAIN jobs : jobs[k].id = j => jobs[k].status # "running"
        BY <4>2 DEF JobInv, ToldOk
      <4>3. told[j] = 1 => j <= launched' /\ j # id
        BY <1>4, <1>7, <2>1, <4>2 DEF Ids
      <4>. QED
        BY <2>3, <2>9, <4>1, <4>2, <4>3
    <3>. QED
      BY <3>1 DEF ToldOk
  <2>14. EndsStep
    <3>1. ASSUME NEW k \in DOMAIN jobs, NEW n \in DOMAIN jobs', jobs'[n].id = jobs[k].id
          PROVE  jobs'[n] = jobs[k]
      <4>1. jobs'[n] # job
        BY <2>3, <2>6, <3>1
      <4>. QED
        BY <2>9, <3>1, <4>1 DEF JobInv, HistoryOk
    <3>2. \A i \in Ids : told'[i] = told[i] /\ told[i] \in {0, 1}
      BY <1>1 DEF JobInv, ToldOk
    <3>. QED
      BY <3>1, <3>2 DEF EndsStep
  <2>15. JobsTyped'
    <3>1. launched' \in 0..MaxLaunches
      BY <1>7, <2>1, PriceNumbers DEF Ids
    <3>. QED
      BY <1>1, <2>8, <3>1 DEF JobInv, JobsTyped
  <2>16. RequestsTyped' /\ Launching' = Launching \ {c}
    <3>1. launched' \in Nat /\ launched <= launched'
      BY <1>4, <1>7, <2>1
    <3>. QED
      BY <1>1, <1>2, <3>1, RequestMoves, Zenon
  <2>17. launched' + Cardinality(Launching') <= MaxLaunches
    BY <1>4, <1>5, <1>7, <2>16 DEF id
  <2>. QED
    BY <2>11, <2>12, <2>13, <2>14, <2>15, <2>16, <2>17 DEF JobInv
<1>. QED
  BY <1>6, <1>7, Zenon DEF LaunchStored

-----------------------------------------------------------------------------
LEMMA InitJobs ==
    ASSUME JobsInit
    PROVE  JobInv
<1>1. \A c \in JobClients : jobReq[c].op = "none"
  BY DEF JobsInit, NoReq
<1>2. Launching = {}
  BY <1>1 DEF Launching
<1>3. Cardinality(Launching) = 0
  BY <1>2, FS_EmptySet
<1>4. launched + Cardinality(Launching) <= MaxLaunches /\ launched = 0
  BY <1>3, PriceNumbers DEF JobsInit
<1>5. RequestsTyped
  BY <1>1 DEF JobsInit, RequestsTyped
<1>6. DOMAIN jobs = {}
  BY DEF JobsInit
<1>7. HistoryOk /\ ToldOk
  BY <1>6 DEF JobsInit, HistoryOk, ToldOk
<1>8. RunnersTyped
  BY <1>4 DEF JobsInit, RunnersTyped, Ids
<1>9. JobsTyped
  BY PriceNumbers DEF JobsInit, JobsTyped
<1>. QED
  BY <1>4, <1>5, <1>7, <1>8, <1>9 DEF JobInv

\* A step that moves nothing but the configuration or a reader of the list.
LEMMA OthersKeep ==
    ASSUME JobInv, UNCHANGED <<jobs, runner, jobReq, jobClock, told, launched>>, jobCfg' \in JobConfigs
    PROVE  JobInv' /\ EndsStep
<1>1. RunnersTyped' /\ ConfigsKept
  BY DEF JobInv, RunnersTyped, ConfigsKept
<1>2. HistoryOk' /\ ToldOk' /\ EndsStep
  BY <1>1, HistoryKept
<1>3. JobsTyped'
  BY DEF JobInv, JobsTyped
<1>4. RequestsTyped' /\ Launching' = Launching
  BY DEF JobInv, RequestsTyped, Launching
<1>. QED
  BY <1>1, <1>2, <1>3, <1>4 DEF JobInv

LEMMA JobsStep ==
    ASSUME JobInv, [JobsNext]_JobsVars
    PROVE  JobInv' /\ [EndsStep]_JobsVars
<1>0. jobCfg \in JobConfigs
  BY DEF JobInv, JobsTyped
<1>1. CASE SaveJobConfig
  BY <1>1, OthersKeep DEF SaveJobConfig
<1>2. CASE JobLists
  BY <1>0, <1>2, OthersKeep DEF JobLists, ListStart, ListPage, ListDone
<1>3. CASE JobLaunches
  <2>1. PICK c \in JobClients :
           \/ \E image \in JobImages, size \in Sizes, t \in JobTimeouts : LaunchChecked(c, image, size, t)
           \/ LaunchStored(c)
    BY <1>3 DEF JobLaunches
  <2>. QED
    BY <2>1, ChecksKeep, StoresKeep
<1>4. CASE JobCancels
  <2>1. PICK c \in JobClients : (\E i \in Ids : CancelFinds(c, i)) \/ CancelStops(c) \/ CancelRecords(c)
    BY <1>4 DEF JobCancels
  <2>. QED
    BY <2>1, CancelsKeep
<1>5. CASE JobTick
  BY <1>5, JobTickKeeps
<1>6. ASSUME NEW i \in Ids,
             \/ RunStart(i) \/ BoxUp(i) \/ BoxExits(i) \/ RunReturns(i) \/ RunKills(i) \/ RunWaited(i)
             \/ RunRecords(i)
      PROVE  JobInv' /\ EndsStep
  BY <1>6, RunKeeps, RecordsKeep
<1>7. CASE UNCHANGED JobsVars
  BY <1>0, <1>7, OthersKeep DEF JobsVars
<1>. QED
  BY <1>1, <1>2, <1>3, <1>4, <1>5, <1>6, <1>7 DEF JobsNext

-----------------------------------------------------------------------------
(* Lists of jobs *)

\* Along the history the times at which jobs started grow.
JobOrder ==
    /\ \A k \in DOMAIN jobs : jobs[k].started # 0
    /\ \A k, l \in DOMAIN jobs : k < l => jobs[k].started < jobs[l].started

\* What a client that lists has seen started at its cursor or later; what it is owed and has not
\* seen started before it.
Walking ==
    /\ walk.before \in Nat
    /\ \A k \in DOMAIN jobs : jobs[k].id \in walk.base =>
          jobs[k].id \in walk.seen \/ walk.before = 0 \/ jobs[k].started < walk.before
    /\ \A k \in DOMAIN jobs : jobs[k].id \in walk.seen =>
          walk.before # 0 /\ walk.before <= jobs[k].started

WalkOk ==
    walk.at \in {"walking", "read"} =>
       /\ walk.base \subseteq 1..launched /\ walk.seen \subseteq 1..launched /\ walk.twice = {}
       /\ walk.at = "walking" => Walking
       /\ walk.at = "read" => \A k \in DOMAIN jobs : jobs[k].id \in walk.base => jobs[k].id \in walk.seen

\* A step after which the history has old jobs, as they started, and new ones.
HistoryGoesOn ==
    /\ launched' \in Nat /\ launched <= launched'
    /\ \A n \in DOMAIN jobs' : \/ jobs'[n].id \notin 1..launched
                              \/ \E k \in DOMAIN jobs : /\ jobs[k].id = jobs'[n].id
                                                       /\ jobs[k].started = jobs'[n].started

LEMMA WalkGoesOn ==
    ASSUME JobInv, WalkOk, HistoryGoesOn, walk' = walk
    PROVE  WalkOk'
<1> SUFFICES ASSUME walk.at \in {"walking", "read"}
             PROVE  /\ walk.base \subseteq 1..launched' /\ walk.seen \subseteq 1..launched' /\ walk.twice = {}
                    /\ walk.at = "walking" => Walking'
                    /\ walk.at = "read" => \A n \in DOMAIN jobs' :
                                              jobs'[n].id \in walk.base => jobs'[n].id \in walk.seen
  BY DEF WalkOk
<1>1. walk.base \subseteq 1..launched /\ walk.seen \subseteq 1..launched /\ walk.twice = {}
  BY DEF WalkOk
<1>2. 1..launched \subseteq 1..launched'
  BY JobNumbers DEF HistoryGoesOn
<1>3. ASSUME NEW n \in DOMAIN jobs', jobs'[n].id \in walk.base \cup walk.seen
      PROVE  \E k \in DOMAIN jobs : jobs[k].id = jobs'[n].id /\ jobs[k].started = jobs'[n].started
  BY <1>1, <1>3 DEF HistoryGoesOn
<1>4. ASSUME walk.at = "walking" PROVE Walking'
  BY <1>3, <1>4 DEF WalkOk, Walking
<1>5. ASSUME walk.at = "read", NEW n \in DOMAIN jobs', jobs'[n].id \in walk.base
      PROVE  jobs'[n].id \in walk.seen
  BY <1>3, <1>5 DEF WalkOk
<1>. QED
  BY <1>1, <1>2, <1>4, <1>5

\* How an ending is recorded leaves every job where it was, and when it started.
LEMMA FinishInPlace ==
    ASSUME JobInv, JobOrder, NEW i, NEW cfg, NEW status, Finish(i, cfg, status), launched' = launched
    PROVE  JobOrder' /\ HistoryGoesOn
<1>1. jobs \in Seq(Job) /\ launched \in Nat
  BY JobNumbers DEF JobInv, JobsTyped
<1>2. /\ DOMAIN jobs' = DOMAIN jobs
      /\ \A k \in DOMAIN jobs : jobs'[k].id = jobs[k].id /\ jobs'[k].started = jobs[k].started
  <2>1. CASE jobs' = jobs
    BY <2>1
  <2>2. CASE jobs' # jobs
    <3> DEFINE k == CHOOSE k \in Held(i) : TRUE
               job == jobs[k]
               now == jobClock - job.started
               elapsed == IF now > job.timeout THEN job.timeout ELSE now
               cost == RunCost(RunSecondsFor(job.size, elapsed)) + JobPrice
               paid == IF cost > job.hold THEN job.hold ELSE cost
               rec == [job EXCEPT !.status = status, !.ended = jobClock, !.cost = paid]
    <3>1. jobs' = [jobs EXCEPT ![k] = rec]
      BY <2>2, Zenon DEF Finish
    <3> HIDE DEF k, paid
    <3>2. ASSUME k \in DOMAIN jobs PROVE rec.id = jobs[k].id /\ rec.started = jobs[k].started
      <4>1. jobs[k] \in Job
        BY <1>1, <3>2
      <4>. QED
        BY <4>1 DEF Job
    <3> HIDE DEF rec
    <3>3. DOMAIN jobs' = DOMAIN jobs /\ \A l \in DOMAIN jobs : jobs'[l] = IF l = k THEN rec ELSE jobs[l]
      BY <3>1
    <3>. QED
      BY <3>2, <3>3 DEF rec
  <2>. QED
    BY <2>1, <2>2
<1>3. JobOrder'
  BY <1>2 DEF JobOrder
<1>. QED
  BY <1>1, <1>2, <1>3 DEF HistoryGoesOn

\* A launch stores a job that started after those before it, and pruning keeps their order.
LEMMA StoredInOrder ==
    ASSUME JobInv, JobOrder, NEW c \in JobClients, LaunchStored(c)
    PROVE  JobOrder' /\ HistoryGoesOn
<1> DEFINE r == jobReq[c]
           id == launched + 1
           job == [id |-> id, status |-> "running", size |-> r.size, timeout |-> r.timeout,
                   hold |-> r.hold, started |-> StartedAt, ended |-> 0, cost |-> 0]
           js == Append(jobs, job)
<1>1. launched \in Nat /\ jobs \in Seq(Job) /\ jobClock \in Nat /\ jobClock # 0
  BY JobNumbers, PriceNumbers DEF JobInv, JobsTyped
<1>2. r.op = "launch" /\ c \in Launching
  BY DEF LaunchStored, Launching
<1>3. CASE UNCHANGED <<jobs, launched>>
  <2>1. JobOrder'
    BY <1>3 DEF JobOrder
  <2>. QED
    BY <1>1, <1>3, <2>1 DEF HistoryGoesOn
<1>4. CASE jobs' = PruneFinished(js) /\ launched' = id
  <2>1. StartedAt \in Nat /\ StartedAt # 0 /\ \A k \in DOMAIN jobs : jobs[k].started < StartedAt
    <3>1. CASE jobs = <<>>
      BY <1>1, <3>1 DEF StartedAt
    <3>2. CASE jobs # <<>>
      <4>1. Len(jobs) \in DOMAIN jobs /\ Last(jobs) = jobs[Len(jobs)] /\ DOMAIN jobs = 1..Len(jobs)
            /\ Len(jobs) \in Nat
        BY <1>1, <3>2 DEF Last
      <4>2. \A k \in DOMAIN jobs : jobs[k].started \in Nat
        BY JobNumbers DEF Job
      <4>3. Last(jobs).started < StartedAt /\ StartedAt \in Nat /\ StartedAt # 0
        <5>1. Last(jobs).started \in Nat
          BY <4>1, <4>2
        <5>2. StartedAt = IF jobClock <= Last(jobs).started THEN Last(jobs).started + 1 ELSE jobClock
          BY <3>2 DEF StartedAt
        <5> DEFINE last == Last(jobs).started
        <5> HIDE DEF last
        <5>3. last \in Nat /\ StartedAt = IF jobClock <= last THEN last + 1 ELSE jobClock
          BY <5>1, <5>2 DEF last
        <5>4. last < StartedAt /\ StartedAt \in Nat /\ StartedAt # 0
          BY <1>1, <5>3
        <5>. QED
          BY <5>4 DEF last
      <4>4. ASSUME NEW k \in DOMAIN jobs PROVE jobs[k].started < StartedAt
        <5>1. k = Len(jobs) \/ jobs[k].started < Last(jobs).started
          BY <4>1 DEF JobOrder
        <5>2. jobs[k].started \in Nat /\ Last(jobs).started \in Nat
          BY <4>1, <4>2
        <5>. QED
          BY <4>1, <4>3, <5>1, <5>2
      <4>. QED
        BY <4>3, <4>4
    <3>. QED
      BY <3>1, <3>2
  <2>2. job \in Job
    <3>1. LaunchOk(r) /\ id \in Ids
      <4>1. Cardinality(Launching \ {c}) + 1 = Cardinality(Launching) /\ Cardinality(Launching \ {c}) \in Nat
            /\ launched + Cardinality(Launching) <= MaxLaunches /\ MaxLaunches \in Nat
        BY <1>2, LaunchCounts, PriceNumbers DEF JobInv
      <4>2. LaunchOk(r)
        BY <1>2 DEF JobInv, RequestsTyped, Launching
      <4>3. id \in Nat /\ 1 <= id /\ id <= MaxLaunches
        BY <1>1, <4>1
      <4>. QED
        BY <4>1, <4>2, <4>3 DEF Ids
    <3>2. r.size \in Sizes /\ r.timeout \in Nat /\ r.hold \in Nat
      BY <3>1 DEF LaunchOk
    <3> HIDE DEF r, id
    <3>. QED
      BY <2>1, <3>1, <3>2 DEF Job
  <2>3. job.id = id /\ job.started = StartedAt /\ id \notin 1..launched /\ id \in Nat /\ launched <= id
    BY <1>1
  <2> HIDE DEF job, id, r
  <2>4. /\ js \in Seq(Job) /\ DOMAIN js = 1..Len(jobs) + 1 /\ DOMAIN jobs = 1..Len(jobs) /\ Len(jobs) \in Nat
        /\ js[Len(jobs) + 1] = job /\ \A k \in 1..Len(jobs) : js[k] = jobs[k]
    BY <1>1, <2>2
  <2> HIDE DEF js
  <2>5. ASSUME NEW k \in DOMAIN js
        PROVE  (k = Len(jobs) + 1 /\ js[k] = job) \/ (k \in DOMAIN jobs /\ js[k] = jobs[k])
    BY <2>4
  <2>6. ASSUME NEW k \in DOMAIN js, NEW l \in DOMAIN js, k < l
        PROVE  js[k].started < js[l].started
    <3>1. k \in 1..Len(jobs) + 1 /\ l \in 1..Len(jobs) + 1
      BY <2>4
    <3>2. k \in DOMAIN jobs /\ js[k] = jobs[k]
      BY <2>4, <2>6, <3>1
    <3>3. CASE l \in DOMAIN jobs /\ js[l] = jobs[l]
      BY <2>6, <3>2, <3>3 DEF JobOrder
    <3>4. CASE js[l] = job
      BY <2>1, <2>3, <3>2, <3>4
    <3>. QED
      BY <2>5, <3>3, <3>4
  <2> DEFINE res == PruneFinished(js)
  <2>12. /\ \A n \in DOMAIN res : \E k \in DOMAIN js : res[n] = js[k]
         /\ \A n, m \in DOMAIN res : n < m => \E k, l \in DOMAIN js : k < l /\ res[n] = js[k] /\ res[m] = js[l]
    BY <2>4, Pruned
  <2>13. jobs' = res
    BY <1>4
  <2> HIDE DEF res
  <2>7. ASSUME NEW n \in DOMAIN jobs'
        PROVE  \E k \in DOMAIN js : jobs'[n] = js[k]
    BY <2>12, <2>13
  <2>8. ASSUME NEW n \in DOMAIN jobs', NEW m \in DOMAIN jobs', n < m
        PROVE  jobs'[n].started < jobs'[m].started
    <3>1. PICK k \in DOMAIN js, l \in DOMAIN js : k < l /\ jobs'[n] = js[k] /\ jobs'[m] = js[l]
      BY <2>8, <2>12, <2>13
    <3>. QED
      BY <2>6, <3>1
  <2>9. ASSUME NEW n \in DOMAIN jobs' PROVE jobs'[n].started # 0
    BY <2>1, <2>3, <2>5, <2>7 DEF JobOrder
  <2>10. ASSUME NEW n \in DOMAIN jobs'
         PROVE  \/ jobs'[n].id \notin 1..launched
                \/ \E k \in DOMAIN jobs : jobs[k].id = jobs'[n].id /\ jobs[k].started = jobs'[n].started
    BY <2>3, <2>5, <2>7
  <2>11. launched' \in Nat /\ launched <= launched'
    BY <1>4, <2>3
  <2>. QED
    BY <2>8, <2>9, <2>10, <2>11 DEF JobOrder, HistoryGoesOn
<1>. QED
  BY <1>3, <1>4, Zenon DEF LaunchStored

\* A page of the newest jobs found: what it leaves out is older than its last.
LEMMA NewestPage ==
    ASSUME NEW m \in Nat, NEW S \in SUBSET (1..m), NEW P \in SUBSET S, P # S,
           \A k \in S : k \in P <=> Cardinality({l \in S : l > k}) < JobPage
    PROVE  Min(P) \in P /\ (\A k \in P : Min(P) <= k) /\ \A k \in S : k \notin P => k < Min(P)
<1> DEFINE rank == [k \in S |-> Cardinality({l \in S : l > k})]
<1>1. JobPage \in Nat /\ JobPage > 0
  BY JobsAssumption
<1>2. \A k \in S : k \in Nat
  OBVIOUS
<1>3. ASSUME NEW k \in S PROVE IsFiniteSet({l \in S : l > k}) /\ Cardinality({l \in S : l > k}) \in Nat
  <2> DEFINE A == {l \in S : l > k}
  <2>1. A \in SUBSET (1..m)
    OBVIOUS
  <2> HIDE DEF A
  <2>2. IsFiniteSet(A) /\ Cardinality(A) \in Nat
    BY <2>1, FinitePlaces
  <2>. QED
    BY <2>2 DEF A
<1>4. rank \in [S -> Nat] /\ \A k \in S : k \in P <=> rank[k] < JobPage
  BY <1>3
<1>5. ASSUME NEW a \in S, NEW b \in S, a < b PROVE rank[b] < rank[a]
  <2> DEFINE A == {l \in S : l > a}
             B == {l \in S : l > b}
  <2>1. a \in Nat /\ b \in Nat
    BY <1>2
  <2>2. B \subseteq A /\ b \in A /\ b \notin B
    <3>1. \A l \in S : l > b => l > a
      BY <1>2, <1>5, <2>1
    <3>2. b > a /\ ~(b > b)
      BY <1>5, <2>1
    <3>. QED
      BY <3>1, <3>2
  <2>3. IsFiniteSet(A) /\ IsFiniteSet(B) /\ Cardinality(A) \in Nat /\ Cardinality(B) \in Nat
    BY <1>3
  <2> HIDE DEF A, B
  <2>4. Cardinality(B) <= Cardinality(A) /\ (Cardinality(B) = Cardinality(A) => B = A)
    BY <2>2, <2>3, FS_Subset
  <2>5. Cardinality(B) < Cardinality(A)
    BY <2>2, <2>3, <2>4
  <2>. QED
    BY <2>5 DEF A, B
<1>6. ASSUME NEW k \in S, \A l \in S : rank[k] <= rank[l] PROVE rank[k] = 0
  <2>1. ASSUME NEW l \in S, l > k PROVE FALSE
    <3>1. k < l
      BY <1>2, <2>1
    <3>2. rank[l] < rank[k]
      BY <1>5, <3>1
    <3>3. rank[k] <= rank[l] /\ rank[k] \in Nat /\ rank[l] \in Nat
      BY <1>4, <1>6
    <3> HIDE DEF rank
    <3>. QED
      BY <3>2, <3>3
  <2>2. {l \in S : l > k} = {}
    BY <2>1
  <2>. QED
    BY <2>2, FS_EmptySet
<1> HIDE DEF rank
<1>7. PICK k \in P : (\A l \in P : rank[l] <= rank[k]) /\ \A l \in S : l \notin P => rank[k] < rank[l]
  BY <1>1, <1>4, <1>6, RankedPage
<1>8. ASSUME NEW l \in P PROVE k <= l
  <2>1. k \in S /\ l \in S /\ k \in Nat /\ l \in Nat /\ rank[l] <= rank[k]
    BY <1>2, <1>7
  <2>2. rank[k] \in Nat /\ rank[l] \in Nat
    BY <1>4, <2>1
  <2>3. ~(rank[k] < rank[l])
    BY <2>1, <2>2
  <2>. QED
    BY <1>5, <2>1, <2>3
<1>9. ASSUME NEW l \in S, l \notin P PROVE l < k
  <2>1. k \in S /\ k # l /\ k \in Nat /\ l \in Nat /\ rank[k] < rank[l]
    BY <1>2, <1>7, <1>9
  <2>2. rank[k] \in Nat /\ rank[l] \in Nat
    BY <1>4, <2>1
  <2>3. ~(rank[l] < rank[k])
    BY <2>1, <2>2
  <2>. QED
    BY <1>5, <2>1, <2>3
<1>10. Min(P) = k
  <2>1. \A x \in P : x \in Nat
    BY <1>2
  <2>2. \A x \in P : (\A y \in P : x <= y) => x = k
    BY <1>8, <2>1
  <2>3. Min(P) \in P /\ \A y \in P : Min(P) <= y
    BY <1>8 DEF Min
  <2>. QED
    BY <2>2, <2>3
<1>. QED
  BY <1>8, <1>9, <1>10

LEMMA PageKeepsWalk ==
    ASSUME JobInv, JobOrder, WalkOk, ListPage
    PROVE  WalkOk'
<1> DEFINE found == Listed(walk.before)
           newest == {k \in found : Cardinality({l \in found : l > k}) < JobPage}
           page == {jobs[k].id : k \in newest}
           w == [at |-> IF newest = found THEN "read" ELSE "walking", base |-> walk.base,
                 before |-> IF newest = found THEN 0 ELSE jobs[Min(newest)].started,
                 seen |-> walk.seen \cup page, twice |-> walk.twice \cup (walk.seen \cap page)]
<1>1. walk.at = "walking" /\ walk' = w /\ jobs' = jobs /\ launched' = launched
  BY DEF ListPage
<1>2. /\ walk.base \subseteq 1..launched /\ walk.seen \subseteq 1..launched /\ walk.twice = {}
      /\ walk.before \in Nat
  BY <1>1 DEF WalkOk, Walking
<1>3. /\ jobs \in Seq(Job) /\ DOMAIN jobs = 1..Len(jobs) /\ Len(jobs) \in Nat
  BY DEF JobInv, JobsTyped
<1>4. \A k \in DOMAIN jobs : jobs[k].started \in Nat /\ jobs[k].id \in 1..launched /\ k \in Nat
  <2>1. \A k \in DOMAIN jobs : jobs[k] \in Job /\ jobs[k].id <= launched /\ k \in Nat
    BY <1>3 DEF JobInv, HistoryOk
  <2>. QED
    BY <2>1, JobNumbers DEF Job, Ids
<1>5. found \subseteq DOMAIN jobs /\ newest \subseteq found
      /\ \A k \in DOMAIN jobs : k \in found <=> walk.before = 0 \/ jobs[k].started < walk.before
  BY DEF Listed
<1>6. \A k \in found : k \in newest <=> Cardinality({l \in found : l > k}) < JobPage
  OBVIOUS
<1> HIDE DEF found, newest
<1>7. page \subseteq 1..launched
  BY <1>4, <1>5
<1>8. ASSUME NEW k \in newest PROVE jobs[k].id \notin walk.seen
  <2>1. k \in DOMAIN jobs /\ (walk.before = 0 \/ jobs[k].started < walk.before) /\ jobs[k].started \in Nat
    BY <1>4, <1>5
  <2>2. jobs[k].id \in walk.seen => walk.before # 0 /\ walk.before <= jobs[k].started
    BY <1>1, <2>1 DEF WalkOk, Walking
  <2>. QED
    BY <1>2, <2>1, <2>2
<1>9. w.base \subseteq 1..launched /\ w.seen \subseteq 1..launched /\ w.twice = {}
  BY <1>2, <1>7, <1>8
<1>10. ASSUME NEW k \in DOMAIN jobs, jobs[k].id \in page PROVE k \in newest
  BY <1>5, <1>10 DEF JobInv, HistoryOk
<1>11. ASSUME NEW k \in DOMAIN jobs, jobs[k].id \in walk.base, k \notin found
       PROVE  jobs[k].id \in walk.seen
  BY <1>1, <1>5, <1>11 DEF WalkOk, Walking
<1>12. CASE newest = found
  <2>1. w.at = "read"
    BY <1>12
  <2>2. ASSUME NEW k \in DOMAIN jobs, jobs[k].id \in w.base PROVE jobs[k].id \in w.seen
    BY <1>11, <1>12, <2>2
  <2>. QED
    BY <1>1, <1>9, <2>1, <2>2 DEF WalkOk
<1>13. CASE newest # found
  <2> DEFINE m == Min(newest)
  <2>1. m \in newest /\ (\A k \in newest : m <= k) /\ \A k \in found : k \notin newest => k < m
    BY <1>3, <1>5, <1>6, <1>13, NewestPage
  <2>2. w.at = "walking" /\ w.before = jobs[m].started /\ w.before \in Nat /\ w.before # 0
        /\ m \in DOMAIN jobs /\ m \in found
    BY <1>4, <1>5, <1>13, <2>1 DEF JobOrder
  <2> HIDE DEF m
  <2>3. ASSUME NEW k \in DOMAIN jobs, jobs[k].id \in w.base
        PROVE  jobs[k].id \in w.seen \/ jobs[k].started < w.before
    <3>1. CASE k \notin found
      BY <1>11, <2>3, <3>1
    <3>2. CASE k \in newest
      BY <3>2
    <3>3. CASE k \in found /\ k \notin newest
      BY <2>1, <2>2, <3>3 DEF JobOrder
    <3>. QED
      BY <3>1, <3>2, <3>3
  <2>4. ASSUME NEW k \in DOMAIN jobs, jobs[k].id \in w.seen
        PROVE  w.before <= jobs[k].started
    <3>0. w.before \in Nat /\ jobs[k].started \in Nat /\ jobs[m].started \in Nat
          /\ k \in Nat /\ m \in Nat /\ w.before = jobs[m].started
      BY <1>4, <2>2
    <3>1. CASE jobs[k].id \in page
      <4>1. k = m \/ m < k
        BY <1>10, <2>1, <3>0, <3>1
      <4>2. m < k => jobs[m].started < jobs[k].started
        BY <2>2 DEF JobOrder
      <4>. QED
        BY <3>0, <4>1, <4>2
    <3>2. CASE jobs[k].id \in walk.seen
      <4>1. walk.before # 0 /\ walk.before <= jobs[k].started
        BY <1>1, <3>2 DEF WalkOk, Walking
      <4>2. jobs[m].started < walk.before
        BY <1>5, <2>2, <4>1
      <4>. QED
        BY <1>2, <3>0, <4>1, <4>2
    <3>. QED
      BY <2>4, <3>1, <3>2
  <2>. QED
    BY <1>1, <1>9, <2>2, <2>3, <2>4 DEF WalkOk, Walking
<1>. QED
  BY <1>12, <1>13

LEMMA NextWalk ==
    ASSUME JobInv, JobOrder, WalkOk, [JobsNext]_JobsVars
    PROVE  JobOrder' /\ WalkOk'
<1>1. CASE UNCHANGED <<jobs, launched>> /\ walk' = walk
  <2>1. JobOrder' /\ HistoryGoesOn
    BY <1>1, JobNumbers DEF JobOrder, HistoryGoesOn
  <2>. QED
    BY <1>1, <2>1, WalkGoesOn
<1>2. CASE ListStart
  <2>1. /\ walk' = [at |-> "walking", before |-> 0, seen |-> {}, twice |-> {},
                    base |-> {jobs[k].id : k \in DOMAIN jobs}]
        /\ UNCHANGED <<jobs, launched>>
    BY <1>2 DEF ListStart
  <2>2. \A k \in DOMAIN jobs : jobs[k].id \in 1..launched
    BY JobNumbers DEF JobInv, HistoryOk, Ids
  <2>3. JobOrder'
    BY <2>1 DEF JobOrder
  <2>4. WalkOk'
    BY <2>1, <2>2 DEF WalkOk, Walking
  <2>. QED
    BY <2>3, <2>4
<1>3. CASE ListPage
  <2>1. JobOrder'
    BY <1>3 DEF ListPage, JobOrder
  <2>. QED
    BY <1>3, <2>1, PageKeepsWalk
<1>4. CASE ListDone
  BY <1>4 DEF ListDone, NoWalk, JobOrder, WalkOk
<1>5. ASSUME NEW c \in JobClients, LaunchStored(c) PROVE JobOrder' /\ WalkOk'
  <2>1. walk' = walk
    BY <1>5 DEF LaunchStored
  <2>. QED
    BY <1>5, <2>1, StoredInOrder, WalkGoesOn
<1>6. ASSUME NEW c \in JobClients, CancelRecords(c) PROVE JobOrder' /\ WalkOk'
  <2>1. Finish(jobReq[c].id, jobReq[c].cfg, "canceled") /\ walk' = walk /\ launched' = launched
    BY <1>6 DEF CancelRecords
  <2>. QED
    BY <2>1, FinishInPlace, WalkGoesOn
<1>7. ASSUME NEW i \in Ids, RunRecords(i) PROVE JobOrder' /\ WalkOk'
  <2>1. Finish(i, runner[i].cfg, runner[i].at) /\ walk' = walk /\ launched' = launched
    BY <1>7 DEF RunRecords
  <2>. QED
    BY <2>1, FinishInPlace, WalkGoesOn
<1>8. CASE SaveJobConfig \/ JobTick \/ UNCHANGED JobsVars
  BY <1>1, <1>8 DEF SaveJobConfig, JobTick, JobsVars
<1>9. CASE JobLaunches
  BY <1>1, <1>5, <1>9 DEF JobLaunches, LaunchChecked
<1>10. CASE JobCancels
  BY <1>1, <1>6, <1>10 DEF JobCancels, CancelFinds, CancelStops
<1>11. ASSUME NEW i \in Ids,
              RunStart(i) \/ BoxUp(i) \/ BoxExits(i) \/ RunReturns(i) \/ RunKills(i) \/ RunWaited(i)
       PROVE  JobOrder' /\ WalkOk'
  BY <1>1, <1>11 DEF RunStart, BoxUp, BoxExits, RunReturns, RunKills, RunWaited
<1>. QED
  BY <1>2, <1>3, <1>4, <1>7, <1>8, <1>9, <1>10, <1>11 DEF JobsNext, JobLists

\* What a job may cost, under any configurations an admin saves, any prices and any number of
\* launches, cancels and runs at once: no more than the ceiling it was launched under; and the
\* timeout a refusal for cost suggests is one the ceiling pays for.
THEOREM JobsKept == JobsSpec => []JobsHold
<1>1. JobsInit => JobInv /\ JobOrder /\ WalkOk
  <2>1. JobsInit => JobOrder /\ WalkOk
    BY DEF JobsInit, JobOrder, WalkOk, NoWalk
  <2>. QED
    BY <2>1, InitJobs
<1>2. JobInv /\ JobOrder /\ WalkOk /\ [JobsNext]_JobsVars => (JobInv /\ JobOrder /\ WalkOk)'
  BY JobsStep, NextWalk
<1>3. JobInv /\ WalkOk => JobsHold
  <2> SUFFICES ASSUME JobInv, WalkOk PROVE JobsHold
    OBVIOUS
  <2>1. \A k \in DOMAIN jobs : jobs[k].cost <= runner[jobs[k].id].cfg.maxCost
    <3> SUFFICES ASSUME NEW k \in DOMAIN jobs PROVE jobs[k].cost <= runner[jobs[k].id].cfg.maxCost
      OBVIOUS
    <3>1. jobs[k].cost <= jobs[k].hold /\ jobs[k].hold <= runner[jobs[k].id].cfg.maxCost
      BY DEF JobInv, HistoryOk
    <3>2. jobs[k].cost \in Nat /\ jobs[k].hold \in Nat /\ jobs[k].id \in Ids /\ jobs[k].id <= launched
      BY JobNumbers DEF Job, JobInv, HistoryOk
    <3>3. runner[jobs[k].id].cfg.maxCost \in Nat
      BY <3>2, PriceNumbers DEF JobInv, RunnersTyped, Runner
    <3>. QED
      BY <3>1, <3>2, <3>3
  <2>2. \A size \in Sizes : jobCfg.maxCost > JobPrice =>
           WorstCaseHold(size, MaxTimeoutForBudget(size, jobCfg.maxCost)) <= jobCfg.maxCost
    <3>1. jobCfg.maxCost \in Nat
      BY PriceNumbers DEF JobInv, JobsTyped
    <3>. QED
      BY <3>1, BudgetFits
  <2>3. ListComplete
    <3>1. ASSUME walk.at = "read", NEW i \in walk.base, Held(i) # {} PROVE i \in walk.seen
      BY <3>1 DEF WalkOk, Held
    <3>. QED
      BY <3>1 DEF ListComplete, WalkOk
  <2>. QED
    BY <2>1, <2>2, <2>3 DEF JobsHold, JobInv, SpendBounded
<1>. QED
  BY <1>1, <1>2, <1>3, PTL DEF JobsSpec

\* A job ends once, however its exit, its deadline and any number of cancels race: an ended
\* record never changes again, and completion is called at most once and for an ended job.
THEOREM EndsKept == JobsSpec => EndsOnce
<1>1. JobsInit => JobInv
  BY InitJobs
<1>2. JobInv /\ [JobsNext]_JobsVars => JobInv' /\ [EndsStep]_JobsVars
  BY JobsStep
<1>. QED
  BY <1>1, <1>2, PTL DEF JobsSpec, EndsOnce, EndsStep

-----------------------------------------------------------------------------
(* A job's log *)

\* What is in the buffer is what was printed last, so a place in it stands for a later line whenever
\* some were dropped; what was read is before the cursor's place.
LogInv ==
    /\ log.lines \in Seq(Nat) /\ Len(log.lines) <= LogLines /\ log.dropped \in Nat
    /\ printed \in Nat /\ printed <= MaxPrinted /\ log.dropped + Len(log.lines) = printed
    /\ \A k \in 1..Len(log.lines) : log.lines[k] = log.dropped + k
    /\ logReader.from \in Nat /\ logReader.from <= Len(log.lines) /\ logReader.read \in Seq(Nat)
    /\ \A k \in 1..Len(logReader.read) : logReader.read[k] <= log.dropped + logReader.from
    /\ LogInOrder

LEMMA LogNumbers == LogLines \in Nat /\ LogLines > 0 /\ LogPage \in Nat /\ LogPage > 0 /\ MaxPrinted \in Nat
  BY LogAssumption

LEMMA NoneRead == NewReader.from = 0 /\ NewReader.read = <<>> /\ DOMAIN NewReader.read = {}
  BY DEF NewReader

LEMMA InitLog == ASSUME LogInit PROVE LogInv
<1>1. log.lines = <<>> /\ log.dropped = 0 /\ printed = 0 /\ logReader = NewReader
  BY DEF LogInit
<1>2. <<>> \in Seq(Nat) /\ Len(<<>>) = 0
  OBVIOUS
<1>. QED
  BY <1>1, <1>2, NoneRead, LogNumbers DEF LogInv, LogInOrder

LEMMA AddKeeps == ASSUME LogInv, LogAdd PROVE LogInv'
<1> DEFINE all == Append(log.lines, printed')
           over == IF Len(all) > LogLines THEN Len(all) - LogLines ELSE 0
           d == log.dropped
           n == Len(log.lines)
           now == SubSeq(all, over + 1, Len(all))
<1>1. /\ printed' = printed + 1 /\ printed < MaxPrinted /\ logReader' = logReader
      /\ log' = [lines |-> now, dropped |-> d + over]
  BY DEF LogAdd
<1>2. /\ log.lines \in Seq(Nat) /\ n \in Nat /\ n <= LogLines /\ d \in Nat /\ printed \in Nat /\ d + n = printed
      /\ \A k \in 1..n : log.lines[k] = d + k
  BY DEF LogInv
<1>3. all \in Seq(Nat) /\ Len(all) = n + 1 /\ \A k \in 1..(n + 1) : all[k] = d + k
  <2>1. printed' \in Nat /\ printed' = d + (n + 1)
    BY <1>1, <1>2
  <2> HIDE DEF d
  <2>2. /\ all \in Seq(Nat) /\ Len(all) = n + 1 /\ all[n + 1] = printed'
        /\ \A k \in 1..n : all[k] = log.lines[k]
    BY <1>2, <2>1, AppendProperties
  <2> HIDE DEF all, n
  <2>3. ASSUME NEW k \in 1..(n + 1) PROVE all[k] = d + k
    <3>1. k \in 1..n \/ k = n + 1
      BY <1>2
    <3>. QED
      BY <1>2, <2>1, <2>2, <3>1
  <2>. QED
    BY <2>2, <2>3
<1> HIDE DEF all, d, n
<1>4. over \in 0..1 /\ over <= n /\ (over = 1 => n = LogLines) /\ (over = 0 => n + 1 <= LogLines)
  BY <1>2, <1>3, LogNumbers
<1> HIDE DEF over
<1>5. now \in Seq(Nat) /\ Len(now) = n + 1 - over /\ \A k \in 1..(n + 1 - over) : now[k] = d + over + k
  <2>1. \A k \in (over + 1)..(n + 1) : all[k] \in Nat
    BY <1>2, <1>3, <1>4
  <2>2. /\ now \in Seq(Nat)
        /\ Len(now) = IF over + 1 <= n + 1 THEN (n + 1) - (over + 1) + 1 ELSE 0
        /\ \A k \in 1..((n + 1) - (over + 1) + 1) : now[k] = all[(over + 1) + k - 1]
    BY <1>2, <1>3, <1>4, <2>1, SubSeqProperties
  <2> HIDE DEF now
  <2>3. over \in Nat /\ over <= n /\ n \in Nat /\ d \in Nat
    BY <1>2, <1>4
  <2>4. Len(now) = n + 1 - over /\ (n + 1) - (over + 1) + 1 = n + 1 - over
    BY <2>2, <2>3
  <2>5. ASSUME NEW k \in 1..(n + 1 - over) PROVE now[k] = d + over + k
    <3>1. (over + 1) + k - 1 = over + k /\ over + k \in 1..(n + 1) /\ d + (over + k) = d + over + k
      BY <2>3
    <3>2. now[k] = all[(over + 1) + k - 1]
      BY <2>2, <2>4
    <3>. QED
      BY <1>3, <3>1, <3>2
  <2>. QED
    BY <2>2, <2>4, <2>5
<1> HIDE DEF now
<1>6. log'.lines = now /\ log'.dropped = d + over
  BY <1>1
<1>7. /\ logReader.from \in Nat /\ logReader.from <= n /\ logReader.read \in Seq(Nat) /\ LogInOrder
      /\ \A k \in 1..Len(logReader.read) : logReader.read[k] <= d + logReader.from
  BY DEF LogInv, n, d
<1>8. ASSUME NEW k \in 1..Len(logReader.read)
      PROVE  logReader.read[k] \in Nat /\ logReader.read[k] <= d + over + logReader.from
  <2>1. logReader.read[k] \in Nat /\ logReader.read[k] <= d + logReader.from
    BY <1>7
  <2>2. d \in Nat /\ over \in Nat /\ logReader.from \in Nat
    BY <1>2, <1>4, <1>7
  <2>. QED
    BY <2>1, <2>2
<1>9. LogInOrder'
  BY <1>1, <1>7 DEF LogInOrder
<1>10. /\ n + 1 - over <= LogLines /\ d + over \in Nat /\ printed' \in Nat /\ printed' <= MaxPrinted
       /\ d + over + (n + 1 - over) = printed' /\ logReader.from <= n + 1 - over
  BY <1>1, <1>2, <1>4, <1>7, LogNumbers
<1>. QED
  BY <1>1, <1>5, <1>6, <1>7, <1>8, <1>9, <1>10 DEF LogInv

LEMMA ReadKeeps == ASSUME LogInv, LogRead PROVE LogInv'
<1> DEFINE from == logReader.from
           n == Len(log.lines)
           d == log.dropped
           was == logReader.read
           end == Min2(from + LogPage, n)
           page == SubSeq(log.lines, from + 1, end)
<1>1. /\ log.lines \in Seq(Nat) /\ n \in Nat /\ d \in Nat /\ from \in Nat /\ from <= n /\ was \in Seq(Nat)
      /\ \A k \in 1..n : log.lines[k] = d + k
      /\ \A k \in 1..Len(was) : was[k] <= d + from
  BY DEF LogInv
<1>2. PageFrom(from) = from
  BY <1>1 DEF PageFrom
<1>3. /\ logReader'.from = end /\ logReader'.read = was \o page /\ log' = log /\ printed' = printed
  BY <1>2 DEF LogRead, LogLinesFrom, PageEnd
<1>4. end \in Nat /\ from <= end /\ end <= n
  BY <1>1, LogNumbers DEF Min2
<1> HIDE DEF end
<1>5. page \in Seq(Nat) /\ Len(page) = end - from /\ \A k \in 1..(end - from) : page[k] = d + from + k
  <2>1. ASSUME NEW k \in (from + 1)..end PROVE log.lines[k] \in Nat
    <3> HIDE DEF from, n, d
    <3>1. k \in 1..n /\ d \in Nat /\ k \in Nat
      BY <1>1, <1>4
    <3>2. log.lines[k] = d + k
      BY <1>1, <3>1
    <3>. QED
      BY <3>1, <3>2
  <2> HIDE DEF from
  <2>2. /\ page \in Seq(Nat)
        /\ Len(page) = IF from + 1 <= end THEN end - (from + 1) + 1 ELSE 0
        /\ \A k \in 1..(end - (from + 1) + 1) : page[k] = log.lines[(from + 1) + k - 1]
    <3> HIDE DEF n, d
    <3>1. from + 1 \in Int /\ end \in Int
      BY <1>1, <1>4
    <3> DEFINE first == from + 1
    <3>2. \A k \in first..end : log.lines[k] \in Nat
      BY <2>1
    <3> HIDE DEF first
    <3>3. first \in Int
      BY <3>1 DEF first
    <3>4. /\ SubSeq(log.lines, first, end) \in Seq(Nat)
          /\ Len(SubSeq(log.lines, first, end)) = IF first <= end THEN end - first + 1 ELSE 0
          /\ \A k \in 1..(end - first + 1) : SubSeq(log.lines, first, end)[k] = log.lines[first + k - 1]
      BY <3>1, <3>2, <3>3, SubSeqProperties
    <3>. QED
      BY <3>4 DEF first
  <2> HIDE DEF page, n, d
  <2>3. from \in Nat /\ end \in Nat /\ from <= end /\ end <= n /\ d \in Nat /\ n \in Nat
    BY <1>1, <1>4
  <2>4. Len(page) = end - from /\ end - (from + 1) + 1 = end - from
    BY <2>2, <2>3
  <2>5. ASSUME NEW k \in 1..(end - from) PROVE page[k] = d + from + k
    <3>1. (from + 1) + k - 1 = from + k /\ from + k \in 1..n /\ d + (from + k) = d + from + k
      BY <2>3
    <3>2. page[k] = log.lines[(from + 1) + k - 1]
      BY <2>2, <2>4
    <3>. QED
      BY <1>1, <3>1, <3>2
  <2>. QED
    BY <2>2, <2>4, <2>5
<1> HIDE DEF page, from, n, d, was
<1> DEFINE now == was \o page
<1>6. /\ now \in Seq(Nat) /\ Len(now) = Len(was) + Len(page) /\ Len(was) \in Nat
      /\ \A k \in 1..(Len(was) + Len(page)) : now[k] = IF k <= Len(was) THEN was[k] ELSE page[k - Len(was)]
  BY <1>1, <1>5, ConcatProperties, LenProperties
<1>7. \A k, l \in 1..Len(was) : k < l => was[k] < was[l]
  <2>1. LogInOrder
    BY DEF LogInv
  <2>2. DOMAIN logReader.read = 1..Len(logReader.read)
    BY DEF LogInv
  <2>. QED
    BY <2>1, <2>2, Zenon DEF LogInOrder, was
<1>8. \A k \in 1..Len(was) : was[k] \in Nat
  BY <1>1
<1> HIDE DEF now
<1>9. \A k \in 1..Len(now) : \/ k <= Len(was) /\ now[k] = was[k] /\ now[k] <= d + from
                             \/ k > Len(was) /\ now[k] = d + from + (k - Len(was)) /\ k - Len(was) <= end - from
  <2> TAKE k \in 1..Len(now)
  <2>1. Len(page) = end - from /\ from \in Nat /\ end \in Nat /\ d \in Nat
    BY <1>1, <1>4, <1>5
  <2>2. CASE k <= Len(was)
    <3>1. k \in 1..Len(was) /\ now[k] = was[k]
      BY <1>6, <2>1, <2>2
    <3> QED BY <1>1, <2>2, <3>1
  <2>3. CASE k > Len(was)
    <3>1. k - Len(was) \in 1..(end - from) /\ now[k] = page[k - Len(was)]
      BY <1>6, <2>1, <2>3
    <3>2. now[k] = d + from + (k - Len(was))
      BY <1>5, <3>1
    <3> QED BY <2>3, <3>1, <3>2
  <2> QED BY <1>6, <2>2, <2>3
<1> DEFINE m == Len(was)
<1>0. d \in Nat /\ from \in Nat /\ end \in Nat /\ from <= end /\ m \in Nat /\ Len(now) \in Nat
  BY <1>1, <1>4, <1>5, <1>6 DEF now
<1>a. \A k \in 1..Len(now) :
        k \in Nat /\ (k <= m => k \in 1..m /\ now[k] = was[k] /\ now[k] \in Nat /\ now[k] <= d + from)
                  /\ (k > m => now[k] = d + from + (k - m) /\ k - m <= end - from)
  <2> SUFFICES ASSUME NEW k \in 1..Len(now)
               PROVE  k \in Nat /\ (k <= m => k \in 1..m /\ now[k] = was[k] /\ now[k] \in Nat /\ now[k] <= d + from)
                                /\ (k > m => now[k] = d + from + (k - m) /\ k - m <= end - from)
    OBVIOUS
  <2>1. k \in Nat /\ k >= 1
    BY <1>0
  <2>2. \/ k <= m /\ now[k] = was[k] /\ now[k] <= d + from
        \/ k > m /\ now[k] = d + from + (k - m) /\ k - m <= end - from
    BY <1>9
  <2>3. k <= m => was[k] \in Nat /\ k \in 1..m
    BY <1>0, <1>8, <2>1
  <2> HIDE DEF m
  <2>. QED
    BY <1>0, <2>1, <2>2, <2>3
<1> HIDE DEF m
<1>10. \A k \in 1..Len(now) : now[k] <= d + end
  <2> SUFFICES ASSUME NEW k \in 1..Len(now) PROVE now[k] <= d + end
    OBVIOUS
  <2>1. CASE k <= m
    BY <1>0, <1>a, <2>1
  <2>2. CASE k > m
    BY <1>0, <1>a, <2>2
  <2>. QED
    BY <1>0, <1>a, <2>1, <2>2
<1>11. \A k, l \in 1..Len(now) : k < l => now[k] < now[l]
  <2> SUFFICES ASSUME NEW k \in 1..Len(now), NEW l \in 1..Len(now), k < l PROVE now[k] < now[l]
    OBVIOUS
  <2>0. k \in Nat /\ l \in Nat
    BY <1>0
  <2>1. CASE l <= m
    <3>1. k \in 1..m /\ l \in 1..m /\ now[k] = was[k] /\ now[l] = was[l]
      BY <1>0, <1>a, <2>0, <2>1
    <3>. QED
      BY <1>7, <3>1 DEF m
  <2>2. CASE k <= m /\ l > m
    <3>1. now[k] \in Nat /\ now[k] <= d + from /\ now[l] = d + from + (l - m)
      BY <1>a, <2>2
    <3>. QED
      BY <1>0, <2>0, <2>2, <3>1
  <2>3. CASE k > m
    <3>0. l > m
      BY <1>0, <2>0, <2>3
    <3>1. now[k] = d + from + (k - m) /\ now[l] = d + from + (l - m)
      BY <1>a, <2>3, <3>0
    <3>. QED
      BY <1>0, <2>0, <2>3, <3>1
  <2>. QED
    BY <1>0, <2>0, <2>1, <2>2, <2>3
<1>12. LogInOrder'
  BY <1>3, <1>6, <1>11 DEF LogInOrder, now
<1>13. /\ log.lines \in Seq(Nat) /\ Len(log.lines) <= LogLines /\ log.dropped \in Nat
       /\ printed \in Nat /\ printed <= MaxPrinted /\ log.dropped + Len(log.lines) = printed
       /\ \A k \in 1..Len(log.lines) : log.lines[k] = log.dropped + k
  BY DEF LogInv
<1>14. \A k \in 1..Len(logReader'.read) : logReader'.read[k] <= log.dropped + logReader'.from
  BY <1>3, <1>10 DEF now, d
<1>15. logReader'.from <= Len(log.lines) /\ logReader'.from \in Nat /\ logReader'.read \in Seq(Nat)
  BY <1>3, <1>4, <1>6 DEF now, n
<1>. QED
  BY <1>3, <1>12, <1>13, <1>14, <1>15 DEF LogInv

LEMMA AgainKeeps == ASSUME LogInv, LogReadAgain \/ UNCHANGED LogVars PROVE LogInv'
<1>1. CASE LogReadAgain
  <2>1. logReader' = NewReader /\ UNCHANGED <<log, printed>>
    BY <1>1 DEF LogReadAgain
  <2>2. NewReader.read \in Seq(Nat) /\ Len(NewReader.read) = 0 /\ 0 <= Len(log.lines)
    BY NoneRead DEF LogInv
  <2>. QED
    BY <2>1, <2>2, NoneRead DEF LogInv, LogInOrder
<1>2. CASE UNCHANGED LogVars
  BY <1>2 DEF LogVars, LogInv, LogInOrder
<1>. QED
  BY <1>1, <1>2

\* However many lines a job prints between two pages and however many fall off the buffer, a client
\* that follows the cursors reads each at most once and in the order they were printed.
THEOREM LogKept == LogSpec => []LogHolds
<1>1. LogInit => LogInv
  BY InitLog
<1>2. LogInv /\ [LogNext]_LogVars => LogInv'
  BY AddKeeps, ReadKeeps, AgainKeeps DEF LogNext
<1>3. LogInv => LogHolds
  <2> SUFFICES ASSUME LogInv PROVE LogHolds
    OBVIOUS
  <2>1. printed \in 0..MaxPrinted /\ log.dropped \in 0..MaxPrinted
    BY LogNumbers DEF LogInv
  <2>2. \A k \in 1..Len(log.lines) : log.lines[k] \in 1..MaxPrinted
    <3>0. log.lines \in Seq(Nat)
      BY DEF LogInv
    <3>a. Len(log.lines) \in Nat
      BY <3>0, LenProperties
    <3>1. /\ log.dropped \in Nat /\ printed \in Nat /\ printed <= MaxPrinted
          /\ log.dropped + Len(log.lines) = printed
          /\ \A k \in 1..Len(log.lines) : log.lines[k] = log.dropped + k
      BY DEF LogInv
    <3> DEFINE n == Len(log.lines)
               d == log.dropped
               x(k) == log.lines[k]
    <3>2. /\ d \in Nat /\ n \in Nat /\ d + n <= MaxPrinted /\ \A k \in 1..n : x(k) = d + k
      BY <3>1, <3>a, LogNumbers
    <3> HIDE DEF n, d, x
    <3>3. \A k \in 1..n : x(k) \in 1..MaxPrinted
      BY <3>2, LogNumbers
    <3>. QED
      BY <3>3 DEF n, x
  <2>3. log.lines \in Seq(1..MaxPrinted)
    <3>1. Len(log.lines) \in Nat /\ log.lines = [k \in 1..Len(log.lines) |-> log.lines[k]]
      BY DEF LogInv
    <3> DEFINE n == Len(log.lines)
               f == log.lines
    <3>2. f \in [1..n -> 1..MaxPrinted] /\ n \in Nat
      BY <2>2, <3>1
    <3> HIDE DEF n, f
    <3>3. f \in Seq(1..MaxPrinted)
      BY <3>2, SeqDef
    <3>. QED
      BY <3>3 DEF f
  <2>. QED
    BY <2>1, <2>3 DEF LogInv, LogHolds, LogTyped
<1>. QED
  BY <1>1, <1>2, <1>3, PTL DEF LogSpec

-----------------------------------------------------------------------------
(* The tasks that writes add *)

\* A write has its depth, and the changes it tells of are finitely many.
IsWrite(r) ==
    /\ r.phase \in {"read", "told"} => r.depth \in 0..MaxTriggerDepth
    /\ r.phase = "read" => r.keys \in Seq(DocKeys) /\ r.op \in {"put", "delete", "transaction"}
    /\ r.phase = "told" => DOMAIN r.changes \in SUBSET Nat /\ IsFiniteSet(DOMAIN r.changes)

\* A goroutine has its depth and its tries, and none of its tasks is too large.
IsFiring(f) ==
    /\ DOMAIN f = {"depth", "tasks", "tries"}
    /\ f.depth \in 0..MaxTriggerDepth /\ f.tries \in 0..(FireAttempts - 1)
    /\ \A t \in f.tasks : Cardinality(DOMAIN t.events) <= MaxEvents

IsWaitingTask(t) ==
    t.queue \in queued /\ t.depth \in 0..MaxTriggerDepth /\ Cardinality(DOMAIN t.events) <= MaxEvents

TriggerInv ==
    /\ present \subseteq DocKeys /\ rules \in RuleLists /\ queued \subseteq EventQueues
    /\ DOMAIN writes = Writers /\ \A w \in Writers : IsWrite(writes[w])
    /\ DOMAIN firing = Firings /\ \A g \in Firings : IsFiring(firing[g])
    /\ \A t \in DOMAIN added : IsWaitingTask(t)
    /\ DOMAIN owed = Firings /\ EachEventAdded

-----------------------------------------------------------------------------
\* Of a finite set of places, a later one has more before it.
LEMMA PlacesBefore ==
  ASSUME NEW M \in SUBSET Nat, IsFiniteSet(M), NEW p \in M, NEW q \in M, p < q
  PROVE  /\ Cardinality({x \in M : x < p}) \in Nat
         /\ Cardinality({x \in M : x < p}) < Cardinality({x \in M : x < q})
<1> DEFINE P == {x \in M : x < p}
           Q == {x \in M : x < q}
<1>1. P \subseteq Q /\ P # Q /\ Q \subseteq M
  <2>1. p \in Q /\ p \notin P
    OBVIOUS
  <2>2. ASSUME NEW x \in P PROVE x \in Q
    OBVIOUS
  <2> QED BY <2>1, <2>2
<1> HIDE DEF P, Q
<1>2. IsFiniteSet(Q)
  BY <1>1, FS_Subset
<1>3. IsFiniteSet(P) /\ Cardinality(P) <= Cardinality(Q) /\ Cardinality(P) # Cardinality(Q)
  BY <1>1, <1>2, FS_Subset
<1>4. Cardinality(P) \in Nat /\ Cardinality(Q) \in Nat
  BY <1>2, <1>3, FS_CardinalityType
<1>5. Cardinality(P) < Cardinality(Q)
  BY <1>3, <1>4
<1> QED BY <1>4, <1>5 DEF P, Q

\* The chunks of a set of places are its parts: all of it, each place in one, and none too large.
LEMMA ChunksPart ==
  ASSUME NEW M \in SUBSET Nat, IsFiniteSet(M)
  PROVE  /\ UNION Chunks(M) = M
         /\ \A c, d \in Chunks(M) : c = d \/ c \cap d = {}
         /\ \A c \in Chunks(M) : Cardinality(c) <= MaxEvents
<1> DEFINE Nth(p) == Cardinality({x \in M : x < p})
           Of(first) == {p \in M : Nth(p) \div MaxEvents = Nth(first) \div MaxEvents}
<1>1. Chunks(M) = {Of(first) : first \in M}
  BY DEF Chunks
<1>2. \A p \in M : p \in Of(p)
  OBVIOUS
<1>3. \A c \in Chunks(M) : c \subseteq M
  BY <1>1
<1>4. ASSUME NEW f \in M, NEW g \in M, NEW p \in M, p \in Of(f), p \in Of(g) PROVE Of(f) = Of(g)
  <2> HIDE DEF Nth
  <2> QED BY <1>4
<1>5. ASSUME NEW f \in M PROVE Cardinality(Of(f)) <= MaxEvents
  <2> DEFINE low == MaxEvents * (Nth(f) \div MaxEvents)
             high == low + (MaxEvents - 1)
             nth == [p \in Of(f) |-> Nth(p)]
  <2>1. \A p \in M : Nth(p) \in Nat
    <3> TAKE p \in M
    <3>1. {x \in M : x < p} \subseteq M
      OBVIOUS
    <3> HIDE DEF Nth
    <3>2. IsFiniteSet({x \in M : x < p})
      BY <3>1, FS_Subset
    <3> QED BY <3>2, FS_CardinalityType DEF Nth
  <2>2. \A p, q \in M : Nth(p) = Nth(q) => p = q
    <3> SUFFICES ASSUME NEW p \in M, NEW q \in M, p # q PROVE Nth(p) # Nth(q)
      OBVIOUS
    <3>1. CASE p < q
      <4>1. Nth(p) < Nth(q)
        BY <3>1, PlacesBefore
      <4> QED BY <2>1, <4>1
    <3>2. CASE q < p
      <4>1. Nth(q) < Nth(p)
        BY <3>2, PlacesBefore
      <4> QED BY <2>1, <4>1
    <3>3. p \in Nat /\ q \in Nat
      OBVIOUS
    <3> QED BY <3>1, <3>2, <3>3
  <2> HIDE DEF Nth
  <2>3. MaxEvents \in Nat \ {0} /\ Nth(f) \in Nat
    BY <2>1, TriggerAssumption
  <2>4. low \in Nat
    BY <2>3
  <2>5. ASSUME NEW p \in Of(f) PROVE nth[p] \in low..high
    <3>1. p \in M /\ Nth(p) \in Nat /\ Nth(p) \div MaxEvents = Nth(f) \div MaxEvents
      BY <2>1
    <3>2. MaxEvents * (Nth(p) \div MaxEvents) <= Nth(p) /\ Nth(p) < MaxEvents * (Nth(p) \div MaxEvents) + MaxEvents
      BY <2>3, <3>1
    <3>3. low <= Nth(p) /\ Nth(p) < low + MaxEvents
      BY <3>1, <3>2
    <3> HIDE DEF low
    <3> QED BY <2>3, <2>4, <3>1, <3>3
  <2>6. Of(f) \subseteq M
    OBVIOUS
  <2> HIDE DEF low, Of
  <2>7. nth \in Injection(Of(f), low..high)
    <3>1. nth \in [Of(f) -> low..high]
      BY <2>5
    <3>2. \A p, q \in Of(f) : nth[p] = nth[q] => p = q
      BY <2>2, <2>6
    <3> QED BY <3>1, <3>2 DEF Injection, IsInjective
  <2>8. IsFiniteSet(low..high) /\ Cardinality(low..high) = MaxEvents
    <3>1. low \in Int /\ high \in Int /\ ~(low > high) /\ high - low + 1 = MaxEvents
      BY <2>3, <2>4
    <3> HIDE DEF high
    <3> QED BY <3>1, FS_Interval
  <2> HIDE DEF nth, high
  <2> QED BY <2>7, <2>8, FS_Injection
<1> HIDE DEF Of
<1>6. UNION Chunks(M) = M
  BY <1>1, <1>2, <1>3
<1>7. ASSUME NEW c \in Chunks(M), NEW d \in Chunks(M), c \cap d # {} PROVE c = d
  <2>1. PICK f \in M, g \in M : c = Of(f) /\ d = Of(g)
    BY <1>1
  <2>2. PICK p \in c \cap d : TRUE
    BY <1>7
  <2> QED BY <1>3, <1>4, <2>1, <2>2
<1>8. \A c \in Chunks(M) : Cardinality(c) <= MaxEvents
  BY <1>1, <1>5
<1> QED BY <1>6, <1>7, <1>8

-----------------------------------------------------------------------------
LEMMA InitTriggers == TriggerInit => TriggerInv
<1> SUFFICES ASSUME TriggerInit PROVE TriggerInv
  OBVIOUS
<1>1. present \subseteq DocKeys /\ rules \in RuleLists /\ queued \subseteq EventQueues
  BY DEF TriggerInit
<1>2. DOMAIN writes = Writers /\ \A w \in Writers : IsWrite(writes[w])
  BY DEF TriggerInit, NoWriting, IsWrite
<1>3. DOMAIN firing = Firings /\ \A g \in Firings : IsFiring(firing[g])
  BY TriggerAssumption DEF TriggerInit, NotFiring, IsFiring
<1>4. \A t \in DOMAIN added : IsWaitingTask(t)
  BY DEF TriggerInit, EmptyBag, SetToBag
<1>5. DOMAIN owed = Firings /\ EachEventAdded
  BY DEF TriggerInit, EachEventAdded, NotFiring
<1> QED BY <1>1, <1>2, <1>3, <1>4, <1>5 DEF TriggerInv

\* What changes writes alone, and leaves them their types, keeps the rest.
LEMMA WritesMove ==
  ASSUME TriggerInv, NEW w \in Writers, NEW r, IsWrite(r), writes' = [writes EXCEPT ![w] = r],
         UNCHANGED <<rules, queued, firing, owed>>, present' \subseteq DocKeys,
         \A t \in DOMAIN added' : t \in DOMAIN added
  PROVE  TriggerInv'
<1>1. present' \subseteq DocKeys /\ rules' \in RuleLists /\ queued' \subseteq EventQueues
  BY DEF TriggerInv
<1>2. DOMAIN writes' = Writers /\ \A v \in Writers : IsWrite(writes[v])'
  BY DEF TriggerInv, IsWrite
<1>3. DOMAIN firing' = Firings /\ \A g \in Firings : IsFiring(firing[g])'
  BY DEF TriggerInv, IsFiring
<1>4. \A t \in DOMAIN added' : IsWaitingTask(t)'
  BY DEF TriggerInv, IsWaitingTask
<1>5. DOMAIN owed' = Firings /\ EachEventAdded'
  BY DEF TriggerInv, EachEventAdded
<1> QED BY <1>1, <1>2, <1>3, <1>4, <1>5 DEF TriggerInv

\* A request that begins has its depth and its keys.
LEMMA RequestTyped ==
  ASSUME TriggerInv, NEW op \in {"put", "delete", "transaction"}, NEW ks \in KeyLists, NEW d \in 0..MaxTriggerDepth
  PROVE  IsWrite(Request(op, ks, d))
  BY TriggerAssumption DEF IsWrite, Request

\* The places of a list are finitely many.
LEMMA PlacesFinite ==
  ASSUME NEW S, NEW s \in Seq(S)
  PROVE  DOMAIN s \in SUBSET Nat /\ IsFiniteSet(DOMAIN s) /\ \A i \in DOMAIN s : s[i] \in S
<1>1. DOMAIN s = 1..Len(s) /\ Len(s) \in Nat
  OBVIOUS
<1>2. IsFiniteSet(1..Len(s))
  BY <1>1, FS_Interval
<1> QED BY <1>1, <1>2

\* What a write tells of is at places of its list of keys.
LEMMA ToldPlaces ==
  ASSUME NEW r, r.keys \in Seq(DocKeys), r.op \in {"put", "delete", "transaction"}
  PROVE  DOMAIN Told(r) \in SUBSET Nat /\ IsFiniteSet(DOMAIN Told(r))
<1>1. DOMAIN r.keys \in SUBSET Nat /\ IsFiniteSet(DOMAIN r.keys)
  BY PlacesFinite
<1>2. DOMAIN Told(r) \subseteq DOMAIN r.keys
  <2>1. CASE r.op = "put"
    BY <2>1 DEF Told
  <2>2. CASE r.op = "delete"
    BY <2>2 DEF Told
  <2>3. CASE r.op = "transaction"
    BY <2>3 DEF Told
  <2> QED BY <2>1, <2>2, <2>3
<1> QED BY <1>1, <1>2, FS_Subset

LEMMA CommitTells == ASSUME TriggerInv, NEW w \in Writers, Commits(w) PROVE TriggerInv'
<1> DEFINE r == writes[w]
           tells == IF r.watched /\ Told(r) # <<>> THEN [phase |-> "told", depth |-> r.depth, changes |-> Told(r)] ELSE NoWriting
<1>1. r.phase = "read" /\ writes' = [writes EXCEPT ![w] = tells] /\ UNCHANGED <<rules, queued, firing, added, outside, owed>>
  BY Zenon DEF Commits
<1>2. r.depth \in 0..MaxTriggerDepth /\ r.keys \in Seq(DocKeys) /\ r.op \in {"put", "delete", "transaction"}
  BY <1>1 DEF TriggerInv, IsWrite
<1>3. DOMAIN Told(r) \in SUBSET Nat /\ IsFiniteSet(DOMAIN Told(r))
  BY <1>2, ToldPlaces
<1>4. IsWrite(tells)
  BY <1>2, <1>3 DEF IsWrite, NoWriting
<1>5. present' \subseteq DocKeys
  <2>1. \A i \in DOMAIN r.keys : r.keys[i] \in DocKeys
    BY <1>2, PlacesFinite
  <2>2. ToSet(r.keys) \subseteq DocKeys
    BY <2>1 DEF ToSet
  <2> QED BY <2>2 DEF TriggerInv, Commits
<1> HIDE DEF tells
<1> QED BY <1>1, <1>4, <1>5, WritesMove

LEMMA BlobTells ==
  ASSUME TriggerInv, NEW w \in Writers, NEW k, NEW op, NEW d \in 0..MaxTriggerDepth, BlobChanged(w, k, op, d),
         UNCHANGED <<present, rules, queued, firing, owed>>, \A t \in DOMAIN added' : t \in DOMAIN added
  PROVE  TriggerInv'
<1> DEFINE tells == IF rules = <<>> THEN writes[w] ELSE [phase |-> "told", depth |-> d, changes |-> <<Change(k, op)>>]
<1>1. writes' = [writes EXCEPT ![w] = tells]
  BY DEF BlobChanged
<1>2. DOMAIN <<Change(k, op)>> = 1..1
  OBVIOUS
<1>3. DOMAIN <<Change(k, op)>> \in SUBSET Nat /\ IsFiniteSet(DOMAIN <<Change(k, op)>>)
  <2>1. 1 \in Int /\ 1..1 \in SUBSET Nat
    OBVIOUS
  <2>2. IsFiniteSet(1..1)
    BY <2>1, FS_Interval
  <2> QED BY <1>2, <2>1, <2>2
<1>4. IsWrite(tells)
  BY <1>3 DEF IsWrite, TriggerInv
<1>5. present' \subseteq DocKeys
  BY DEF TriggerInv
<1> HIDE DEF tells
<1> QED BY <1>1, <1>4, <1>5, WritesMove

-----------------------------------------------------------------------------
\* The tasks of a write's changes tell of what the rules want, each of it in one task.
LEMMA TasksTell ==
  ASSUME NEW changes, DOMAIN changes \in SUBSET Nat, IsFiniteSet(DOMAIN changes)
  PROVE  /\ UNION {Telling(t) : t \in EventTasks(rules, changes)} = Wanted(changes)
         /\ \A t, u \in EventTasks(rules, changes) : t = u \/ Telling(t) \cap Telling(u) = {}
         /\ \A t \in EventTasks(rules, changes) : Cardinality(DOMAIN t.events) <= MaxEvents
<1> DEFINE M(i) == Matching(rules[i], changes)
           Task(i, c) == [rule |-> i, queue |-> rules[i].queue, events |-> [p \in c |-> changes[p]]]
<1>1. ASSUME NEW i \in DOMAIN rules
      PROVE  /\ UNION Chunks(M(i)) = M(i)
             /\ \A c, d \in Chunks(M(i)) : c = d \/ c \cap d = {}
             /\ \A c \in Chunks(M(i)) : Cardinality(c) <= MaxEvents
  <2>1. M(i) \subseteq DOMAIN changes
    BY DEF Matching
  <2>2. M(i) \in SUBSET Nat /\ IsFiniteSet(M(i))
    BY <2>1, FS_Subset
  <2> QED BY <2>2, ChunksPart
<1>2. ASSUME NEW i, NEW c PROVE Telling(Task(i, c)) = {i} \X c /\ DOMAIN Task(i, c).events = c
  BY DEF Telling
<1>3. EventTasks(rules, changes) = UNION {{Task(i, c) : c \in Chunks(M(i))} : i \in DOMAIN rules}
  BY DEF EventTasks
<1>4. Wanted(changes) = UNION {{i} \X M(i) : i \in DOMAIN rules}
  BY DEF Wanted
<1> HIDE DEF M, Task
<1>5. \A t : t \in EventTasks(rules, changes) <=> \E i \in DOMAIN rules : \E c \in Chunks(M(i)) : t = Task(i, c)
  BY <1>3
<1>6. UNION {Telling(t) : t \in EventTasks(rules, changes)} = Wanted(changes)
  <2>1. ASSUME NEW x \in Wanted(changes) PROVE x \in UNION {Telling(t) : t \in EventTasks(rules, changes)}
    <3>1. PICK i \in DOMAIN rules : x \in {i} \X M(i)
      BY <1>4
    <3>2. PICK p \in M(i) : x = <<i, p>>
      BY <3>1
    <3>3. PICK c \in Chunks(M(i)) : p \in c
      BY <1>1, <3>2
    <3>4. x \in Telling(Task(i, c)) /\ Task(i, c) \in EventTasks(rules, changes)
      BY <1>2, <1>5, <3>2, <3>3
    <3> QED BY <3>4
  <2>2. ASSUME NEW t \in EventTasks(rules, changes) PROVE Telling(t) \subseteq Wanted(changes)
    <3>1. PICK i \in DOMAIN rules : \E c \in Chunks(M(i)) : t = Task(i, c)
      BY <1>5
    <3>1a. PICK c \in Chunks(M(i)) : t = Task(i, c)
      BY <3>1
    <3>2. c \subseteq M(i)
      BY <1>1
    <3> QED BY <1>2, <1>4, <3>1a, <3>2
  <2> QED BY <2>1, <2>2
<1>7. ASSUME NEW t \in EventTasks(rules, changes), NEW u \in EventTasks(rules, changes), Telling(t) \cap Telling(u) # {}
      PROVE  t = u
  <2>1. PICK i \in DOMAIN rules : \E c \in Chunks(M(i)) : t = Task(i, c)
    BY <1>5
  <2>1a. PICK c \in Chunks(M(i)) : t = Task(i, c)
    BY <2>1
  <2>2. PICK j \in DOMAIN rules : \E d \in Chunks(M(j)) : u = Task(j, d)
    BY <1>5
  <2>2a. PICK d \in Chunks(M(j)) : u = Task(j, d)
    BY <2>2
  <2>3. PICK x : x \in {i} \X c /\ x \in {j} \X d
    BY <1>2, <1>7, <2>1a, <2>2a
  <2>4. i = j /\ c \cap d # {}
    BY <2>3
  <2>5. c = d
    BY <1>1, <2>1a, <2>2a, <2>4
  <2> QED BY <2>1a, <2>2a, <2>4, <2>5
<1>8. ASSUME NEW t \in EventTasks(rules, changes) PROVE Cardinality(DOMAIN t.events) <= MaxEvents
  <2>1. PICK i \in DOMAIN rules : \E c \in Chunks(M(i)) : t = Task(i, c)
    BY <1>5
  <2>1a. PICK c \in Chunks(M(i)) : t = Task(i, c)
    BY <2>1
  <2> QED BY <1>1, <1>2, <2>1a
<1> QED BY <1>6, <1>7, <1>8

\* A goroutine moves, and nothing but what it owes with it.
LEMMA GoroutineMoves ==
  ASSUME TriggerInv, NEW g \in Firings, NEW f, IsFiring(f), NEW o, o = UNION {Telling(t) : t \in f.tasks},
         \A t, u \in f.tasks : t = u \/ Telling(t) \cap Telling(u) = {},
         DOMAIN firing' = Firings, firing'[g] = f, \A h \in Firings \ {g} : firing'[h] = firing[h],
         DOMAIN owed' = Firings, owed'[g] = o, \A h \in Firings \ {g} : owed'[h] = owed[h],
         UNCHANGED <<present, rules, queued>>,
         DOMAIN writes' = Writers, \A w \in Writers : IsWrite(writes'[w]),
         \A t \in DOMAIN added' : IsWaitingTask(t)
  PROVE  TriggerInv'
<1>1. present' \subseteq DocKeys /\ rules' \in RuleLists /\ queued' \subseteq EventQueues
  BY DEF TriggerInv
<1>2. DOMAIN writes' = Writers /\ \A v \in Writers : IsWrite(writes[v])'
  BY DEF IsWrite
<1>3. DOMAIN firing' = Firings /\ DOMAIN owed' = Firings
  OBVIOUS
<1>4. firing'[g] = f /\ owed'[g] = o /\ \A h \in Firings \ {g} : firing'[h] = firing[h] /\ owed'[h] = owed[h]
  OBVIOUS
<1>5. ASSUME NEW h \in Firings PROVE IsFiring(firing'[h])
  <2>1. IsFiring(firing[h])
    BY DEF TriggerInv
  <2> QED BY <1>4, <2>1
<1>6. \A h \in Firings : IsFiring(firing[h])'
  BY <1>5 DEF IsFiring
<1>7. \A t \in DOMAIN added' : IsWaitingTask(t)'
  BY DEF IsWaitingTask
<1>8. ASSUME NEW h \in Firings
      PROVE  /\ owed'[h] = UNION {Telling(t) : t \in firing'[h].tasks}
             /\ \A t, u \in firing'[h].tasks : t = u \/ Telling(t) \cap Telling(u) = {}
  <2>1. CASE h = g
    BY <1>4, <2>1
  <2>2. CASE h # g
    <3>1. firing'[h] = firing[h] /\ owed'[h] = owed[h]
      BY <1>4, <2>2
    <3>2. /\ owed[h] = UNION {Telling(t) : t \in firing[h].tasks}
          /\ \A t, u \in firing[h].tasks : t = u \/ Telling(t) \cap Telling(u) = {}
      BY DEF TriggerInv, EachEventAdded
    <3> QED BY <3>1, <3>2
  <2> QED BY <2>1, <2>2
<1>9. EachEventAdded'
  BY <1>8 DEF EachEventAdded
<1> QED BY <1>1, <1>2, <1>3, <1>6, <1>7, <1>9 DEF TriggerInv

LEMMA FireTells == ASSUME TriggerInv, NEW w \in Writers, NEW g \in Firings, Fires(w, g) PROVE TriggerInv'
<1> DEFINE r == writes[w]
           d == EventDepth(r.depth)
           ts == EventTasks(rules, r.changes)
           goes == [depth |-> d, tasks |-> ts, tries |-> 0]
<1>1. /\ r.phase = "told" /\ firing[g] = NotFiring
      /\ firing' = IF d > MaxTriggerDepth \/ ts = {} THEN firing ELSE [firing EXCEPT ![g] = goes]
      /\ owed' = IF d > MaxTriggerDepth THEN owed ELSE [owed EXCEPT ![g] = owed[g] \cup Wanted(r.changes)]
      /\ writes' = [writes EXCEPT ![w] = NoWriting]
      /\ UNCHANGED <<present, rules, queued, added, outside>>
  BY Zenon DEF Fires
<1>2. r.depth \in 0..MaxTriggerDepth /\ DOMAIN r.changes \in SUBSET Nat /\ IsFiniteSet(DOMAIN r.changes)
  BY <1>1 DEF TriggerInv, IsWrite
<1>3. DOMAIN writes' = Writers /\ \A v \in Writers : IsWrite(writes'[v])
  BY <1>1 DEF TriggerInv, IsWrite, NoWriting
<1>4. owed[g] = {}
  BY <1>1 DEF TriggerInv, EachEventAdded, NotFiring
<1>5. \A t \in DOMAIN added' : IsWaitingTask(t)
  BY <1>1 DEF TriggerInv
<1>6. DOMAIN firing = Firings /\ DOMAIN owed = Firings
  BY DEF TriggerInv
<1>7. /\ UNION {Telling(t) : t \in ts} = Wanted(r.changes)
      /\ \A t, u \in ts : t = u \/ Telling(t) \cap Telling(u) = {}
      /\ \A t \in ts : Cardinality(DOMAIN t.events) <= MaxEvents
  BY <1>2, TasksTell
<1>8. CASE d > MaxTriggerDepth
  <2>1. owed' = owed /\ firing' = firing
    BY <1>1, <1>8
  <2>2. IsWrite(NoWriting)
    BY DEF IsWrite, NoWriting
  <2>3. present' \subseteq DocKeys
    BY <1>1 DEF TriggerInv
  <2> QED BY <1>1, <2>1, <2>2, <2>3, WritesMove
<1>9. CASE ~(d > MaxTriggerDepth)
  <2> DEFINE f == IF ts = {} THEN NotFiring ELSE goes
  <2>1. d \in 0..MaxTriggerDepth
    BY <1>2, <1>9, TriggerAssumption DEF EventDepth
  <2>2. IsFiring(NotFiring) /\ NotFiring.tasks = {}
    BY TriggerAssumption DEF IsFiring, NotFiring
  <2> HIDE DEF d, ts
  <2>3. IsFiring(goes) /\ goes.tasks = ts
    BY <1>7, <2>1, TriggerAssumption DEF IsFiring
  <2>4. IsFiring(f) /\ f.tasks = ts
    BY <2>2, <2>3
  <2>5. DOMAIN firing' = Firings /\ firing'[g] = f /\ \A h \in Firings \ {g} : firing'[h] = firing[h]
    <3> HIDE DEF goes
    <3> QED BY <1>1, <1>6, <1>9
  <2>6. DOMAIN owed' = Firings /\ owed'[g] = Wanted(r.changes) /\ \A h \in Firings \ {g} : owed'[h] = owed[h]
    BY <1>1, <1>4, <1>6, <1>9
  <2> HIDE DEF f
  <2>7. UNCHANGED <<present, rules, queued>>
    BY <1>1
  <2> QED BY <1>3, <1>5, <1>7, <2>4, <2>5, <2>6, <2>7, GoroutineMoves
<1> QED BY <1>8, <1>9

\* When the first queue's tasks are seen to, the others' are still owed, each once.
LEMMA NextAddTells ==
  ASSUME TriggerInv, NEW g \in Firings, NextAdd(g), UNCHANGED <<present, rules, queued, writes>>,
         \A t \in DOMAIN added' : IsWaitingTask(t)
  PROVE  TriggerInv'
<1> DEFINE f == firing[g]
           first == FirstAdd(g)
           left == Finished(g)
           seen == UNION {Telling(t) : t \in first}
<1>1. IsFiring(f) /\ first \subseteq f.tasks
  BY DEF TriggerInv, FirstAdd
<1>2. IsFiring(left) /\ left.tasks = f.tasks \ first
  <2>1. CASE first = f.tasks
    BY <2>1, TriggerAssumption DEF Finished, NotFiring, IsFiring
  <2>2. CASE first # f.tasks
    <3> DEFINE rest == [f EXCEPT !.tasks = f.tasks \ first, !.tries = 0]
    <3>1. left = rest
      BY <2>2 DEF Finished
    <3>2. DOMAIN rest = DOMAIN f /\ rest.tasks = f.tasks \ first /\ rest.tries = 0 /\ rest.depth = f.depth
      BY <1>1 DEF IsFiring
    <3> HIDE DEF rest
    <3> QED BY <1>1, <3>1, <3>2, TriggerAssumption DEF IsFiring
  <2> QED BY <2>1, <2>2
<1>3. /\ owed[g] = UNION {Telling(t) : t \in f.tasks}
      /\ \A t, u \in f.tasks : t = u \/ Telling(t) \cap Telling(u) = {}
  BY DEF TriggerInv, EachEventAdded
<1>4. /\ DOMAIN firing' = Firings /\ firing'[g] = left /\ \A h \in Firings \ {g} : firing'[h] = firing[h]
      /\ DOMAIN owed' = Firings /\ owed'[g] = owed[g] \ seen /\ \A h \in Firings \ {g} : owed'[h] = owed[h]
  <2>1. firing' = [firing EXCEPT ![g] = left] /\ owed' = [owed EXCEPT ![g] = owed[g] \ seen]
    BY DEF NextAdd, Settles
  <2>2. DOMAIN firing = Firings /\ DOMAIN owed = Firings
    BY DEF TriggerInv
  <2> HIDE DEF left, seen
  <2> QED BY <2>1, <2>2
<1> HIDE DEF left, first
<1>5. owed[g] \ seen = UNION {Telling(t) : t \in left.tasks}
  <2>1. ASSUME NEW t \in f.tasks \ first, NEW u \in first PROVE Telling(t) \cap Telling(u) = {}
    BY <1>1, <1>3
  <2> QED BY <1>1, <1>2, <1>3, <2>1
<1>6. \A t, u \in left.tasks : t = u \/ Telling(t) \cap Telling(u) = {}
  BY <1>2, <1>3
<1>7. DOMAIN writes' = Writers /\ \A v \in Writers : IsWrite(writes'[v])
  BY DEF TriggerInv
<1> HIDE DEF f, seen
<1> QED BY <1>2, <1>4, <1>5, <1>6, <1>7, GoroutineMoves

\* Adding, a missing queue and a failure, the last one or not.
LEMMA AddingTells == ASSUME TriggerInv, NEW g \in Firings, Adding(g) PROVE TriggerInv'
<1>1. CASE AddsTasks(g)
  <2> DEFINE made == {[rule |-> t.rule, queue |-> t.queue, events |-> t.events, depth |-> firing[g].depth] : t \in FirstAdd(g)}
  <2>1. NextAdd(g) /\ UNCHANGED <<present, rules, queued, writes>> /\ FirstQueue(g) \in queued /\ added' = added (+) SetToBag(made)
    BY <1>1 DEF AddsTasks
  <2>2. IsFiring(firing[g])
    BY DEF TriggerInv
  <2>3. ASSUME NEW m \in made PROVE IsWaitingTask(m)
    <3>1. PICK t \in FirstAdd(g) :
             m = [rule |-> t.rule, queue |-> t.queue, events |-> t.events, depth |-> firing[g].depth]
      OBVIOUS
    <3>2. t \in firing[g].tasks /\ t.queue \in queued
      BY <2>1 DEF FirstAdd
    <3>3. m.queue = t.queue /\ m.events = t.events /\ m.depth = firing[g].depth
      BY <3>1
    <3> QED BY <2>2, <3>2, <3>3 DEF IsFiring, IsWaitingTask
  <2> HIDE DEF made
  <2>4. DOMAIN added' = DOMAIN added \cup made
    BY <2>1 DEF (+), SetToBag
  <2>5. \A t \in DOMAIN added' : IsWaitingTask(t)
    BY <2>3, <2>4 DEF TriggerInv
  <2> QED BY <2>1, <2>5, NextAddTells
<1>2. CASE MissesQueue(g)
  BY <1>2, NextAddTells DEF MissesQueue, TriggerInv
<1>3. CASE AddFails(g)
  <2>1. CASE firing[g].tries + 1 < FireAttempts
    <3> DEFINE f == firing[g]
               again == [f EXCEPT !.tries = f.tries + 1]
    <3>1. firing' = [firing EXCEPT ![g] = again] /\ UNCHANGED <<present, rules, queued, writes, added, owed>>
      BY <1>3, <2>1 DEF AddFails
    <3>2. IsFiring(f) /\ DOMAIN owed = Firings
      BY DEF TriggerInv
    <3>3. DOMAIN again = DOMAIN f /\ again.tasks = f.tasks /\ again.depth = f.depth /\ again.tries = f.tries + 1
      BY <3>2 DEF IsFiring
    <3>4. f.tries + 1 \in 0..(FireAttempts - 1)
      BY <2>1, <3>2, TriggerAssumption DEF IsFiring
    <3> HIDE DEF again
    <3>5. IsFiring(again)
      BY <3>2, <3>3, <3>4 DEF IsFiring
    <3>6. /\ owed[g] = UNION {Telling(t) : t \in again.tasks}
          /\ \A t, u \in again.tasks : t = u \/ Telling(t) \cap Telling(u) = {}
      BY <3>3 DEF TriggerInv, EachEventAdded
    <3>7. /\ DOMAIN firing' = Firings /\ firing'[g] = again /\ \A h \in Firings \ {g} : firing'[h] = firing[h]
          /\ DOMAIN owed' = Firings /\ owed'[g] = owed[g] /\ \A h \in Firings \ {g} : owed'[h] = owed[h]
      BY <3>1, <3>2 DEF TriggerInv
    <3>8. DOMAIN writes' = Writers /\ (\A v \in Writers : IsWrite(writes'[v])) /\ \A t \in DOMAIN added' : IsWaitingTask(t)
      BY <3>1 DEF TriggerInv
    <3> HIDE DEF f
    <3> QED BY <3>1, <3>5, <3>6, <3>7, <3>8, GoroutineMoves
  <2>2. CASE ~(firing[g].tries + 1 < FireAttempts)
    <3>1. NextAdd(g) /\ UNCHANGED <<present, rules, queued, writes, added>>
      BY <1>3, <2>2 DEF AddFails
    <3>2. \A t \in DOMAIN added' : IsWaitingTask(t)
      BY <3>1 DEF TriggerInv
    <3> QED BY <3>1, <3>2, NextAddTells
  <2> QED BY <2>1, <2>2
<1> QED BY <1>1, <1>2, <1>3 DEF Adding

-----------------------------------------------------------------------------
\* What is taken out of the queues leaves the other tasks.
LEMMA LessWaiting == ASSUME NEW B, NEW t PROVE \A u \in DOMAIN (B (-) SetToBag({t})) : u \in DOMAIN B
  BY DEF (-), SetToBag

LEMMA RunsTell == ASSUME TriggerInv, NEW t \in DOMAIN added, Runs(t) PROVE TriggerInv'
<1>1. IsWaitingTask(t) /\ t.depth \in 0..MaxTriggerDepth
  BY DEF TriggerInv, IsWaitingTask
<1>2. ASSUME Takes(t) PROVE \A u \in DOMAIN added' : u \in DOMAIN added
  BY <1>2, LessWaiting DEF Takes
<1>3. ASSUME NEW w \in Writers, NEW op \in {"put", "delete", "transaction"}, NEW ks \in KeyLists, RunsWrite(t, w, op, ks) PROVE TriggerInv'
  <2> DEFINE r == Request(op, ks, t.depth)
  <2>1. IsWrite(r)
    BY <1>1, RequestTyped
  <2>2. writes' = [writes EXCEPT ![w] = r] /\ UNCHANGED <<present, rules, queued, firing, owed>> /\ Takes(t)
    BY <1>3 DEF RunsWrite
  <2>3. present' \subseteq DocKeys
    BY <2>2 DEF TriggerInv
  <2> HIDE DEF r
  <2> QED BY <1>2, <2>1, <2>2, <2>3, WritesMove
<1>4. ASSUME NEW w \in Writers, NEW op, RunsBlob(t, w, Object, op) PROVE TriggerInv'
  BY <1>1, <1>2, <1>4, BlobTells DEF RunsBlob
<1>5. ASSUME UNCHANGED <<present, rules, queued, writes, firing, owed>>, \A u \in DOMAIN added' : IsWaitingTask(u)
      PROVE  TriggerInv'
  <2>1. \A u \in DOMAIN added' : IsWaitingTask(u)'
    BY <1>5 DEF IsWaitingTask
  <2>2. EachEventAdded'
    BY <1>5 DEF TriggerInv, EachEventAdded
  <2>3. (\A v \in Writers : IsWrite(writes[v])') /\ \A g \in Firings : IsFiring(firing[g])'
    BY <1>5 DEF TriggerInv, IsWrite, IsFiring
  <2> QED BY <1>5, <2>1, <2>2, <2>3 DEF TriggerInv
<1>6. CASE RunsQuiet(t)
  <2>1. \A u \in DOMAIN added' : IsWaitingTask(u)
    BY <1>2, <1>6 DEF RunsQuiet, TriggerInv
  <2> QED BY <1>5, <1>6, <2>1 DEF RunsQuiet
<1>7. ASSUME NEW q \in EventQueues, RunsMail(t, q) PROVE TriggerInv'
  <2> DEFINE mail == [rule |-> 0, queue |-> q, events |-> <<>>, depth |-> 1]
             rest == added (-) SetToBag({t})
  <2>1. added' = rest (+) SetToBag({mail}) /\ q \in queued /\ UNCHANGED <<present, rules, queued, writes, firing, owed>>
    BY <1>7 DEF RunsMail
  <2>2. DOMAIN added' = DOMAIN rest \cup {mail}
    <3> HIDE DEF rest, mail
    <3> QED BY <2>1 DEF (+), SetToBag
  <2>3. \A u \in DOMAIN rest : u \in DOMAIN added
    BY LessWaiting
  <2>4. IsWaitingTask(mail)
    <3>1. DOMAIN <<>> = {} /\ Cardinality({}) = 0
      BY FS_EmptySet
    <3>2. 1 \in 0..MaxTriggerDepth /\ 0 <= MaxEvents
      BY <1>1, TriggerAssumption
    <3> QED BY <2>1, <3>1, <3>2 DEF IsWaitingTask
  <2> HIDE DEF rest, mail
  <2>5. \A u \in DOMAIN added' : IsWaitingTask(u)
    BY <2>2, <2>3, <2>4 DEF TriggerInv
  <2> QED BY <1>5, <2>1, <2>5
<1> QED BY <1>3, <1>4, <1>6, <1>7 DEF Runs

\* Rules are saved, queues go and come.
LEMMA QueuesTell ==
  ASSUME TriggerInv, rules' \in RuleLists, queued' \subseteq EventQueues, UNCHANGED <<present, writes, firing, owed>>,
         \A t \in DOMAIN added' : t \in DOMAIN added /\ t.queue \in queued'
  PROVE  TriggerInv'
<1>1. \A t \in DOMAIN added' : IsWaitingTask(t)'
  BY DEF TriggerInv, IsWaitingTask
<1>2. EachEventAdded'
  BY DEF TriggerInv, EachEventAdded
<1>3. (\A v \in Writers : IsWrite(writes[v])') /\ \A g \in Firings : IsFiring(firing[g])'
  BY DEF TriggerInv, IsWrite, IsFiring
<1> QED BY <1>1, <1>2, <1>3 DEF TriggerInv

LEMMA NextTriggers == TriggerInv /\ [TriggerNext]_triggerVars => TriggerInv'
<1> SUFFICES ASSUME TriggerInv, [TriggerNext]_triggerVars PROVE TriggerInv'
  OBVIOUS
<1>1. CASE UNCHANGED triggerVars
  <2>1. \A t \in DOMAIN added' : t \in DOMAIN added /\ t.queue \in queued'
    BY <1>1 DEF triggerVars, TriggerInv, IsWaitingTask
  <2> QED BY <1>1, <2>1, QueuesTell DEF triggerVars, TriggerInv
<1>2. ASSUME NEW w \in Writers, NEW op \in {"put", "delete", "transaction"}, NEW ks \in KeyLists, Asks(w, op, ks) PROVE TriggerInv'
  <2> DEFINE r == Request(op, ks, 0)
  <2>1. 0 \in 0..MaxTriggerDepth
    BY TriggerAssumption
  <2>2. IsWrite(r)
    BY <2>1, RequestTyped
  <2>3. writes' = [writes EXCEPT ![w] = r] /\ UNCHANGED <<present, rules, queued, firing, added, owed>>
    BY <1>2 DEF Asks
  <2>4. present' \subseteq DocKeys /\ \A t \in DOMAIN added' : t \in DOMAIN added
    BY <2>3 DEF TriggerInv
  <2> HIDE DEF r
  <2> QED BY <2>2, <2>3, <2>4, WritesMove
<1>3. ASSUME NEW w \in Writers, NEW op, AsksBlob(w, Object, op) PROVE TriggerInv'
  <2>1. 0 \in 0..MaxTriggerDepth
    BY TriggerAssumption
  <2>2. /\ BlobChanged(w, Object, op, 0) /\ UNCHANGED <<present, rules, queued, firing, owed>>
        /\ \A t \in DOMAIN added' : t \in DOMAIN added
    BY <1>3 DEF AsksBlob
  <2> QED BY <2>1, <2>2, BlobTells
<1>4. ASSUME NEW rs \in RuleLists, SaveRules(rs) PROVE TriggerInv'
  <2>1. \A t \in DOMAIN added' : t \in DOMAIN added /\ t.queue \in queued'
    BY <1>4 DEF SaveRules, TriggerInv, IsWaitingTask
  <2> QED BY <1>4, <2>1, QueuesTell DEF SaveRules, TriggerInv
<1>5. ASSUME NEW q \in EventQueues, DropEventQueue(q) PROVE TriggerInv'
  <2>1. \A t \in DOMAIN added' : t \in DOMAIN added /\ t.queue \in queued'
    BY <1>5 DEF DropEventQueue, TriggerInv, IsWaitingTask
  <2> QED BY <1>5, <2>1, QueuesTell DEF DropEventQueue, TriggerInv
<1>6. ASSUME NEW q \in EventQueues, MakeEventQueue(q) PROVE TriggerInv'
  <2>1. \A t \in DOMAIN added' : t \in DOMAIN added /\ t.queue \in queued'
    BY <1>6 DEF MakeEventQueue, TriggerInv, IsWaitingTask
  <2> QED BY <1>6, <2>1, QueuesTell DEF MakeEventQueue, TriggerInv
<1> QED BY <1>1, <1>2, <1>3, <1>4, <1>5, <1>6, CommitTells, FireTells, AddingTells, RunsTell DEF TriggerNext

-----------------------------------------------------------------------------
\* For any rules, queues, requests and goroutines: what a rule asks for of a write's changes is
\* still to be added, in one task of at most so many events, until its queue's turn has come; a
\* goroutine that is done owes nothing, whatever queue was missing or failed, and no task is
\* deeper than the limit.
THEOREM TriggersKept == TriggerSpec => []TriggersHold
<1>1. TriggerInv => TriggersHold
  BY DEF TriggerInv, TriggersHold, TriggerTyped, IsFiring, IsWaitingTask
<1> QED BY <1>1, InitTriggers, NextTriggers, PTL DEF TriggerSpec

=============================================================================
