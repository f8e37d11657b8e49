--------------------------- MODULE SchedulingProofs ---------------------------
(***************************************************************************)
(* Proofs about what decides when work may run: a queue's token bucket,    *)
(* the settings clients give a queue, and the schedules of functions.      *)
(***************************************************************************)
EXTENDS RateBucket, QueueAdmin, FunctionSchedule, FiniteSetTheorems, WellFoundedInduction, TLAPS

-----------------------------------------------------------------------------
(* Least elements, and pages *)

\* A set of naturals that is not empty has a least element.
LEMMA LeastExists ==
    ASSUME NEW S \in SUBSET Nat, S # {}
    PROVE  \E k \in S : \A i \in S : k <= i
  <1>. DEFINE R == OpToRel(<, Nat)
  <1>1. IsWellFoundedOn(R, Nat)
    BY NatLessThanWellFounded
  <1>2. \A x, y \in Nat : x < y => <<x, y>> \in R
    BY DEF OpToRel
  <1>. HIDE DEF R
  <1>3. PICK k \in S : \A i \in S : ~ (<<i, k>> \in R)
    BY <1>1, WFMin
  <1>4. \A i \in S : ~ (i < k)
    BY <1>2, <1>3
  <1>5. \A i \in S : k <= i
    BY <1>4
  <1>. QED  BY <1>5

\* A function of the naturals can be given by its first value and by what follows each value: two
\* beginnings of it agree as far as both go, and there is one of every length.
LEMMA NatRecursion ==
  ASSUME NEW V, NEW first \in V, NEW grow \in [V -> V]
  PROVE  \E f \in [Nat -> V] : f[0] = first /\ \A n \in Nat : f[n + 1] = grow[f[n]]
<1> DEFINE Upto(n) == {f \in [0..n -> V] : f[0] = first /\ \A i \in 0..n : i < n => f[i + 1] = grow[f[i]]}
<1>1. ASSUME NEW n \in Nat PROVE Upto(n) # {}
  <2> DEFINE Without == {k \in Nat : Upto(k) = {}}
  <2>1. SUFFICES ASSUME Without # {} PROVE FALSE
    BY <1>1
  <2>2. PICK k \in Without : \A i \in Without : k <= i
    BY <2>1, LeastExists
  <2>3. CASE k = 0
    <3>1. [i \in 0..0 |-> first] \in Upto(0)
      OBVIOUS
    <3> QED BY <2>2, <2>3, <3>1
  <2>4. CASE k # 0
    <3>1. k - 1 \in Nat /\ k - 1 \notin Without
      <4> HIDE DEF Without
      <4>1. k \in Nat
        BY <2>2 DEF Without
      <4>2. k - 1 \in Nat /\ ~(k <= k - 1)
        BY <2>4, <4>1
      <4> QED BY <2>2, <4>2
    <3>2. PICK g \in Upto(k - 1) : TRUE
      BY <3>1
    <3> DEFINE h == [i \in 0..k |-> IF i = k THEN grow[g[k - 1]] ELSE g[i]]
    <3>3. g \in [0..(k - 1) -> V] /\ g[0] = first /\ \A i \in 0..(k - 1) : i < k - 1 => g[i + 1] = grow[g[i]]
      BY <3>2
    <3>4. h \in [0..k -> V]
      <4> SUFFICES ASSUME NEW i \in 0..k PROVE (IF i = k THEN grow[g[k - 1]] ELSE g[i]) \in V
        OBVIOUS
      <4> QED BY <2>2, <2>4, <3>1, <3>3
    <3>5. h[0] = first
      BY <2>2, <2>4, <3>3
    <3>6. ASSUME NEW i \in 0..k, i < k PROVE h[i + 1] = grow[h[i]]
      <4>1. CASE i = k - 1
        BY <2>2, <2>4, <3>6, <4>1
      <4>2. CASE i # k - 1
        BY <2>2, <2>4, <3>3, <3>6, <4>2
      <4> QED BY <4>1, <4>2
    <3> HIDE DEF h
    <3>7. h \in Upto(k)
      BY <3>4, <3>5, <3>6
    <3> QED BY <2>2, <3>7
  <2> QED BY <2>3, <2>4
<1>2. ASSUME NEW m \in Nat, NEW n \in Nat, NEW f \in Upto(m), NEW g \in Upto(n)
      PROVE  \A i \in Nat : i <= m /\ i <= n => f[i] = g[i]
  <2> DEFINE Apart == {i \in Nat : i <= m /\ i <= n /\ f[i] # g[i]}
  <2>1. SUFFICES ASSUME Apart # {} PROVE FALSE
    OBVIOUS
  <2>2. PICK k \in Apart : \A i \in Apart : k <= i
    BY <2>1, LeastExists
  <2>3. k # 0
    BY <2>2
  <2>4. k - 1 \in Nat /\ k - 1 \notin Apart
    BY <2>2, <2>3
  <2>5. f[k - 1] = g[k - 1] /\ k - 1 \in 0..m /\ k - 1 \in 0..n /\ k - 1 < m /\ k - 1 < n /\ (k - 1) + 1 = k
    BY <2>2, <2>3, <2>4
  <2>6. f[(k - 1) + 1] = grow[f[k - 1]] /\ g[(k - 1) + 1] = grow[g[k - 1]]
    BY <2>5
  <2> QED BY <2>2, <2>5, <2>6
<1> DEFINE begins(n) == CHOOSE f : f \in Upto(n)
           whole == [n \in Nat |-> begins(n)[n]]
<1>3. ASSUME NEW n \in Nat PROVE begins(n) \in Upto(n)
  BY <1>1
<1>4. ASSUME NEW n \in Nat PROVE begins(n)[n] \in V
  <2>1. \A f \in Upto(n) : f \in [0..n -> V]
    OBVIOUS
  <2>2. n \in 0..n
    OBVIOUS
  <2> HIDE DEF begins, Upto
  <2> QED BY <1>3, <2>1, <2>2
<1>5. begins(0)[0] = first
  BY <1>3
<1>6. ASSUME NEW n \in Nat PROVE begins(n + 1)[n + 1] = grow[begins(n)[n]]
  <2>1. begins(n) \in Upto(n) /\ begins(n + 1) \in Upto(n + 1) /\ n + 1 \in Nat
    <3> HIDE DEF begins, Upto
    <3>1. n + 1 \in Nat
      OBVIOUS
    <3> QED BY <1>3, <3>1
  <2> HIDE DEF begins
  <2>2. begins(n + 1)[n + 1] = grow[begins(n + 1)[n]]
    BY <2>1
  <2>3. begins(n + 1)[n] = begins(n)[n]
    <3> HIDE DEF Upto
    <3> QED BY <1>2, <2>1
  <2> QED BY <2>2, <2>3
<1> HIDE DEF begins, Upto
<1>7. whole \in [Nat -> V] /\ whole[0] = first /\ \A n \in Nat : whole[n + 1] = grow[whole[n]]
  BY <1>4, <1>5, <1>6
<1> QED BY <1>7

\* The members of a set whose rank is under n, when they are not all, have one of the highest rank,
\* and the others' ranks are higher.
LEMMA RankedPage ==
    ASSUME NEW S, NEW rank \in [S -> Nat], NEW P \in SUBSET S, NEW n \in Nat, n > 0, P # S,
           \A b \in S : b \in P <=> rank[b] < n,
           \A b \in S : (\A d \in S : rank[b] <= rank[d]) => rank[b] = 0
    PROVE  \E m \in P : /\ \A d \in P : rank[d] <= rank[m]
                        /\ \A b \in S : b \notin P => rank[m] < rank[b]
<1>1. P # {}
  <2> DEFINE R == {rank[b] : b \in S}
  <2>1. R \in SUBSET Nat /\ R # {}
    OBVIOUS
  <2> HIDE DEF R
  <2>2. PICK k \in R : \A i \in R : k <= i
    BY <2>1, LeastExists
  <2>3. PICK m \in S : rank[m] = k
    BY <2>2 DEF R
  <2>4. \A b \in S : rank[m] <= rank[b]
    BY <2>2, <2>3 DEF R
  <2>. QED
    BY <2>3, <2>4
<1>2. PICK m \in P : \A d \in P : rank[d] <= rank[m]
  <2> DEFINE T == {n - rank[b] : b \in P}
  <2>1. T # {}
    BY <1>1
  <2>2. \A b \in P : n - rank[b] \in Nat
    OBVIOUS
  <2>3. T \in SUBSET Nat
    BY <2>2
  <2> HIDE DEF T
  <2>4. PICK k \in T : \A i \in T : k <= i
    BY <2>1, <2>3, LeastExists
  <2>5. PICK m \in P : n - rank[m] = k
    BY <2>4 DEF T
  <2>6. ASSUME NEW d \in P PROVE rank[d] <= rank[m]
    <3>1. n - rank[m] <= n - rank[d]
      BY <2>4, <2>5 DEF T
    <3>2. rank[m] \in Nat /\ rank[d] \in Nat
      OBVIOUS
    <3>. QED
      BY <3>1, <3>2
  <2>. QED
    BY <2>6
<1>3. ASSUME NEW b \in S, b \notin P PROVE rank[m] < rank[b]
  <2>1. rank[m] < n /\ ~(rank[b] < n) /\ rank[m] \in Nat /\ rank[b] \in Nat
    BY <1>3
  <2>. QED
    BY <2>1
<1>. QED
  BY <1>2, <1>3

-----------------------------------------------------------------------------
(* The token bucket *)

\* What the bucket holds and what was claimed within k ticks share one budget:
\* a full bucket, and what k ticks less the time since the last claim refill.
\* Before the last claim's tick, nothing was claimed.
Budget ==
    \A k \in 0..Window :
       /\ k >= elapsed => tokens + Unit * recent[k] <= Burst(MaxRate) + (k - elapsed) * MaxRate
       /\ k < elapsed  => recent[k] = 0

BucketInv == BucketTypeOK /\ Budget

-----------------------------------------------------------------------------
\* The constants are what the bucket's arithmetic needs.
LEMMA Numbers ==
    /\ Unit \in Nat /\ Unit > 0 /\ Second \in Nat /\ Slots \in Nat /\ MaxRate \in Nat
    /\ MaxDue \in Nat /\ Window \in Nat /\ Full \in Nat
    /\ \A r \in Rates : r \in Nat /\ 1 <= r /\ r <= MaxRate
    /\ Burst(MaxRate) \in Nat
  <1>1. MaxRate * Second \in Nat
    BY BucketAssumption
  <1>. QED
    BY <1>1, BucketAssumption DEF Burst, AtLeast

\* Multiplication by a natural number keeps the order of two others.
LEMMA TimesMonotone ==
    ASSUME NEW a \in Nat, NEW b \in Nat, NEW c \in Nat, a <= b
    PROVE  a * c <= b * c
  <1>1. PICK d \in Nat : b = a + d
    <2>1. b - a \in Nat /\ b = a + (b - a)
      OBVIOUS
    <2>. QED  BY <2>1
  <1>2. b * c = a * c + d * c
    BY <1>1
  <1>3. a * c \in Nat /\ d * c \in Nat
    BY <1>1
  <1>. QED  BY <1>2, <1>3

\* A faster queue has the larger burst.
LEMMA BurstBound ==
    ASSUME NEW r \in Rates
    PROVE  Burst(r) \in Nat /\ Burst(r) <= Burst(MaxRate)
  <1>1. r \in Nat /\ r <= MaxRate /\ MaxRate \in Nat /\ Second \in Nat /\ Unit \in Nat
    BY Numbers
  <1>2. r * Second <= MaxRate * Second
    BY <1>1, TimesMonotone
  <1>3. r * Second \in Nat /\ MaxRate * Second \in Nat
    BY <1>1
  <1>. QED
    BY <1>1, <1>2, <1>3 DEF Burst, AtLeast

\* A pass takes whole tokens that are there, and no more than is due or free.
LEMMA GrantBound ==
    ASSUME BucketTypeOK
    PROVE  /\ Level \in Nat /\ Level <= Burst(rate)
           /\ Level <= tokens + elapsed * rate
           /\ Grant \in Int /\ Grant <= due /\ Grant <= Slots - sending
           /\ Grant > 0 => Grant * Unit <= Level
  <1>1. /\ rate \in Nat /\ tokens \in Nat /\ elapsed \in Nat /\ due \in Nat /\ sending \in Nat
        /\ Unit \in Nat /\ Unit > 0 /\ Slots \in Nat
    BY Numbers DEF BucketTypeOK
  <1>2. Burst(rate) \in Nat
    BY BurstBound DEF BucketTypeOK
  <1>3. elapsed * rate \in Nat
    BY <1>1
  <1>4. Level \in Nat /\ Level <= Burst(rate) /\ Level <= tokens + elapsed * rate
    BY <1>1, <1>2, <1>3 DEF Level, AtMost
  <1>5. Level \div Unit \in Nat /\ Unit * (Level \div Unit) <= Level
    BY <1>1, <1>4
  <1>6. /\ Grant \in Int /\ Grant <= due /\ Grant <= Slots - sending
        /\ Grant <= Level \div Unit
    BY <1>1, <1>5 DEF Grant, AtMost
  <1>7. Grant > 0 => Grant * Unit <= (Level \div Unit) * Unit
    BY <1>1, <1>5, <1>6, TimesMonotone
  <1>8. (Level \div Unit) * Unit = Unit * (Level \div Unit)
    BY <1>1, <1>5
  <1>. QED
    BY <1>1, <1>4, <1>5, <1>6, <1>7, <1>8

-----------------------------------------------------------------------------
LEMMA InitBucketInv == BucketInit => BucketInv
  <1>. SUFFICES ASSUME BucketInit PROVE BucketInv
    OBVIOUS
  <1>1. Burst(rate) \in Nat /\ Burst(rate) <= Burst(MaxRate)
    BY BurstBound DEF BucketInit
  <1>2. BucketTypeOK
    <2>1. 0 \in 0..MaxDue /\ 0 \in 0..Slots /\ 0 \in 0..Full
      BY Numbers
    <2>2. tokens \in 0..Burst(MaxRate)
      BY <1>1, Numbers DEF BucketInit
    <2>3. recent \in [0..Window -> Nat]
      BY DEF BucketInit
    <2>. QED  BY <2>1, <2>2, <2>3 DEF BucketInit, BucketTypeOK
  <1>3. Budget
    <2>. SUFFICES ASSUME NEW k \in 0..Window
                  PROVE  tokens + Unit * recent[k] <= Burst(MaxRate) + (k - elapsed) * MaxRate
      BY Numbers DEF Budget, BucketInit
    <2>1. recent[k] = 0 /\ elapsed = 0 /\ tokens = Burst(rate)
      BY DEF BucketInit
    <2>2. k * MaxRate \in Nat /\ Unit * 0 = 0 /\ k - 0 = k
      BY Numbers
    <2>. QED  BY <1>1, <2>1, <2>2, Numbers
  <1>. QED  BY <1>2, <1>3 DEF BucketInv

\* A claim spends from the budget exactly what it adds to the window.
LEMMA ClaimBucketInv == BucketInv /\ BucketClaim => BucketInv'
  <1>. SUFFICES ASSUME BucketInv, BucketClaim PROVE BucketInv'
    OBVIOUS
  <1>. USE Numbers
  <1>1. /\ rate \in Nat /\ rate <= MaxRate /\ tokens \in Nat /\ elapsed \in Nat
        /\ recent \in [0..Window -> Nat]
    BY DEF BucketInv, BucketTypeOK
  <1>2. /\ Level \in Nat /\ Level <= Burst(rate) /\ Level <= tokens + elapsed * rate
        /\ Grant \in Nat /\ Grant <= due /\ Grant <= Slots - sending /\ Grant * Unit <= Level
    BY GrantBound DEF BucketInv, BucketClaim
  <1>3. Burst(rate) \in Nat /\ Burst(rate) <= Burst(MaxRate)
    BY BurstBound DEF BucketInv, BucketTypeOK
  <1>4. Grant * Unit \in Nat /\ tokens' = Level - Grant * Unit /\ elapsed' = 0
    BY <1>2 DEF BucketClaim
  <1>5. BucketTypeOK'
    <2>1. tokens' \in 0..Burst(MaxRate)
      BY <1>2, <1>3, <1>4
    <2>2. due' \in 0..MaxDue /\ sending' \in 0..Slots
      BY <1>2 DEF BucketClaim, BucketInv, BucketTypeOK
    <2>3. recent' \in [0..Window -> Nat]
      BY <1>1, <1>2 DEF BucketClaim, Taken
    <2>4. 0 \in 0..Full
      OBVIOUS
    <2>. QED  BY <1>4, <2>1, <2>2, <2>3, <2>4 DEF BucketClaim, BucketInv, BucketTypeOK
  <1>6. Budget'
    <2>. SUFFICES ASSUME NEW k \in 0..Window
                  PROVE  tokens' + Unit * recent'[k] <= Burst(MaxRate) + k * MaxRate
      BY <1>4 DEF Budget
    <2>1. recent[k] \in Nat /\ recent'[k] = recent[k] + Grant
      BY <1>1 DEF BucketClaim, Taken
    <2>2. Unit * recent'[k] = Unit * recent[k] + Grant * Unit
      BY <1>2, <2>1
    <2>3. /\ tokens' + Unit * recent'[k] = Level + Unit * recent[k]
          /\ Unit * recent[k] \in Nat
      BY <1>2, <1>4, <2>1, <2>2
    <2>4. k * MaxRate \in Nat
      OBVIOUS
    <2>5. CASE k < elapsed
      <3>1. recent[k] = 0
        BY <2>5 DEF BucketInv, Budget
      <3>2. Unit * recent[k] = 0
        BY <3>1
      <3>. QED  BY <1>2, <1>3, <2>3, <2>4, <3>2
    <2>6. CASE k >= elapsed
      <3>1. tokens + Unit * recent[k] <= Burst(MaxRate) + (k - elapsed) * MaxRate
        BY <2>6 DEF BucketInv, Budget
      <3>2. elapsed * rate <= elapsed * MaxRate
        BY <1>1, TimesMonotone
      <3>3. (k - elapsed) * MaxRate + elapsed * MaxRate = k * MaxRate
        BY <1>1, <2>6
      <3>4. /\ (k - elapsed) * MaxRate \in Int /\ elapsed * MaxRate \in Nat
            /\ elapsed * rate \in Nat
        BY <1>1
      <3>. DEFINE er == elapsed * rate  em == elapsed * MaxRate  km == k * MaxRate
                  kem == (k - elapsed) * MaxRate  ur == Unit * recent[k]
                  ur2 == Unit * recent'[k]
      <3>5. /\ tokens + ur <= Burst(MaxRate) + kem /\ er <= em /\ kem + em = km
            /\ Level <= tokens + er /\ tokens' + ur2 = Level + ur
            /\ kem \in Int /\ em \in Nat /\ er \in Nat /\ km \in Nat /\ ur \in Nat
        BY <1>2, <2>3, <2>4, <3>1, <3>2, <3>3, <3>4
      <3>6. tokens' + ur2 <= Burst(MaxRate) + km
        <4>. HIDE DEF er, em, km, kem, ur, ur2
        <4>. QED  BY <1>1, <1>2, <3>5
      <3>. QED  BY <3>6
    <2>. QED  BY <1>1, <2>5, <2>6
  <1>. QED  BY <1>5, <1>6 DEF BucketInv

\* A tick widens every window by one and the time since the last claim with it,
\* except where that time counts no further.
LEMMA TickBucketInv == BucketInv /\ BucketTick => BucketInv'
  <1>. SUFFICES ASSUME BucketInv, BucketTick PROVE BucketInv'
    OBVIOUS
  <1>. USE Numbers
  <1>1. /\ tokens \in 0..Burst(MaxRate) /\ elapsed \in 0..Full /\ tokens' = tokens
        /\ recent \in [0..Window -> Nat]
    BY DEF BucketInv, BucketTypeOK, BucketTick
  <1>2. /\ elapsed' \in 0..Full
        /\ elapsed' = elapsed + 1 \/ (elapsed = Full /\ elapsed' = Full)
    BY <1>1 DEF BucketTick, AtMost
  <1>8. elapsed \in Nat /\ elapsed' \in Nat
    BY <1>1, <1>2
  <1>3. recent'[0] = 0
    BY DEF BucketTick
  <1>4. \A k \in 0..Window : k > 0 => k - 1 \in 0..Window /\ recent'[k] = recent[k - 1]
    BY DEF BucketTick
  <1>5. BucketTypeOK'
    <2>1. recent' \in [0..Window -> Nat]
      BY <1>1, <1>4 DEF BucketTick
    <2>. QED  BY <1>1, <1>2, <2>1 DEF BucketTick, BucketInv, BucketTypeOK
  <1>6. PICK later \in Nat : later = elapsed'
    BY <1>8
  <1>7. /\ later \in 0..Full
        /\ later = elapsed + 1 \/ (elapsed = Full /\ later = Full)
    BY <1>2, <1>6
  <1>9. Budget'
    <2>. SUFFICES ASSUME NEW k \in 0..Window
                  PROVE  /\ k >= later => tokens + Unit * recent'[k]
                                              <= Burst(MaxRate) + (k - later) * MaxRate
                         /\ k < later  => recent'[k] = 0
      BY <1>1, <1>6 DEF Budget
    <2>1. CASE k = 0
      <3>1. recent'[k] = 0 /\ Unit * 0 = 0 /\ 0 * MaxRate = 0
        BY <1>3, <2>1
      <3>2. k >= later => k - later = 0
        BY <2>1
      <3>. QED  BY <1>1, <3>1, <3>2
    <2>2. CASE k > 0
      <3>1. k - 1 \in 0..Window /\ recent'[k] = recent[k - 1] /\ recent[k - 1] \in Nat
        BY <1>1, <1>4, <2>2
      <3>2. CASE k - 1 < elapsed
        <4>1. recent'[k] = 0 /\ Unit * 0 = 0
          BY <3>1, <3>2 DEF BucketInv, Budget
        <4>2. ASSUME k >= later PROVE (k - later) * MaxRate \in Nat
          <5>1. k - later \in Nat
            BY <4>2
          <5>. QED  BY <5>1
        <4>3. ASSUME k >= later
              PROVE  tokens + Unit * recent'[k] <= Burst(MaxRate) + (k - later) * MaxRate
          <5>. DEFINE is == (k - later) * MaxRate
          <5>1. is \in Nat
            BY <4>2, <4>3
          <5>. HIDE DEF is
          <5>2. tokens + 0 <= Burst(MaxRate) + is
            BY <1>1, <5>1
          <5>. QED  BY <4>1, <5>2 DEF is
        <4>. QED  BY <4>1, <4>3
      <3>3. CASE k - 1 >= elapsed
        <4>. DEFINE j == k - 1
        <4>1. /\ j \in 0..Window /\ j >= elapsed /\ j - elapsed \in Nat
              /\ k >= later /\ k - later \in Nat /\ j - elapsed <= k - later
          BY <1>7, <1>8, <3>1, <3>3
        <4>. HIDE DEF j
        <4>. DEFINE was == (j - elapsed) * MaxRate  is == (k - later) * MaxRate
                    ur == Unit * recent[j]
        <4>2. tokens + ur <= Burst(MaxRate) + was
          BY <4>1 DEF BucketInv, Budget
        <4>3. was <= is
          BY <4>1, TimesMonotone
        <4>4. was \in Nat /\ is \in Nat /\ ur \in Nat
          BY <1>1, <4>1
        <4>5. tokens + ur <= Burst(MaxRate) + is
          <5>. HIDE DEF was, is, ur
          <5>. QED  BY <1>1, <4>2, <4>3, <4>4
        <4>6. ur = Unit * recent'[k]
          BY <3>1 DEF j
        <4>. HIDE DEF ur
        <4>. QED  BY <4>1, <4>5, <4>6
      <3>. QED  BY <1>8, <3>1, <3>2, <3>3
    <2>. QED  BY <2>1, <2>2
  <1>. QED  BY <1>5, <1>9 DEF BucketInv

LEMMA NextBucketInv == BucketInv /\ [BucketNext]_bucketVars => BucketInv'
  <1>. SUFFICES ASSUME BucketInv, [BucketNext]_bucketVars PROVE BucketInv'
    OBVIOUS
  <1>1. CASE BucketClaim
    BY <1>1, ClaimBucketInv
  <1>2. CASE BucketTick
    BY <1>2, TickBucketInv
  <1>3. CASE BecomesDue
    BY <1>3, Numbers DEF BecomesDue, BucketInv, BucketTypeOK, Budget
  <1>4. CASE Leave
    BY <1>4, Numbers DEF Leave, BucketInv, BucketTypeOK, Budget
  <1>5. CASE BucketRestart
    BY <1>5, Numbers DEF BucketRestart, BucketInv, BucketTypeOK, Budget
  <1>6. ASSUME NEW r \in Rates, NEW p \in BOOLEAN, PutQueue(r, p)
        PROVE  BucketInv'
    BY <1>6 DEF PutQueue, BucketInv, BucketTypeOK, Budget
  <1>7. CASE UNCHANGED bucketVars
    BY <1>7 DEF bucketVars, BucketInv, BucketTypeOK, Budget
  <1>. QED  BY <1>1, <1>2, <1>3, <1>4, <1>5, <1>6, <1>7 DEF BucketNext

LEMMA BucketInductive == BucketSpec => []BucketInv
  <1>. QED  BY InitBucketInv, NextBucketInv, PTL DEF BucketSpec

-----------------------------------------------------------------------------
\* The bucket is never overdrawn and a queue's slots are never exceeded, for
\* every rate its settings may give it.
THEOREM BucketTyped == BucketSpec => []BucketTypeOK
  <1>1. BucketInv => BucketTypeOK
    BY DEF BucketInv
  <1>. QED  BY <1>1, BucketInductive, PTL

\* What a queue's passes claim within any k ticks is a burst and k ticks' refill
\* at most, whatever settings it was given in between.
THEOREM RateKept == BucketSpec => []WindowBound
  <1>1. BucketInv => WindowBound
    <2>. SUFFICES ASSUME BucketInv, NEW k \in 0..Window
                  PROVE  Unit * recent[k] <= Burst(MaxRate) + k * MaxRate
      BY DEF WindowBound
    <2>. USE Numbers
    <2>1. tokens \in Nat /\ elapsed \in Nat /\ recent[k] \in Nat
      BY DEF BucketInv, BucketTypeOK
    <2>2. k * MaxRate \in Nat /\ Unit * recent[k] \in Nat
      BY <2>1
    <2>3. CASE k < elapsed
      <3>1. recent[k] = 0 /\ Unit * 0 = 0
        BY <2>3 DEF BucketInv, Budget
      <3>. QED  BY <2>2, <3>1
    <2>4. CASE k >= elapsed
      <3>1. tokens + Unit * recent[k] <= Burst(MaxRate) + (k - elapsed) * MaxRate
        BY <2>4 DEF BucketInv, Budget
      <3>2. k - elapsed \in Nat /\ k - elapsed <= k
        BY <2>1, <2>4
      <3>3. (k - elapsed) * MaxRate <= k * MaxRate
        BY <3>2, TimesMonotone
      <3>4. (k - elapsed) * MaxRate \in Nat
        BY <3>2
      <3>. QED  BY <2>1, <2>2, <3>1, <3>3, <3>4
    <2>. QED  BY <2>1, <2>3, <2>4
  <1>. QED  BY <1>1, BucketInductive, PTL

\* The bucket is never overdrawn and keeps its rate, whatever the settings become.
THEOREM BucketKept == BucketSpec => []BucketHolds
  <1>1. BucketTypeOK /\ WindowBound => BucketHolds
    BY DEF BucketHolds
  <1>. QED  BY <1>1, BucketTyped, RateKept, PTL

-----------------------------------------------------------------------------
(* The settings of queues *)

\* What makes a record the settings of a queue.
IsSettings(s) == DOMAIN s = DOMAIN Defaults /\ s.mode \in {"push", "pull"} /\ \A f \in Amounts : s[f] \in Nat

\* A queue has settings or is missing.
SavedTyped == DOMAIN saved = QueueNames /\ \A q \in QueueNames : saved[q] = Missing \/ IsSettings(saved[q])

\* Each request is somewhere in its steps.
SavingTyped ==
    /\ DOMAIN saving = Savers
    /\ \A s \in Savers :
          /\ saving[s].step \in {"read", "look", "put"} => saving[s].queue \in QueueNames /\ saving[s].create \in BOOLEAN
          /\ saving[s].step = "read" => saving[s].patch \in Patches
          /\ saving[s].step \in {"look", "put"} => DOMAIN saving[s] = {"step", "queue", "create", "settings"}

\* What a request has checked of the settings it is about to write stays true until it writes.
Checked(a) ==
    /\ IsSettings(a.settings) /\ Acceptable(a.queue, a.settings)
    /\ a.settings.mode = "pull" => a.settings.target = "none"
    /\ a.settings.target = "channel" => <<a.queue, "channel">> \in granted
Prepared == \A s \in Savers : saving[s].step \in {"look", "put"} => Checked(saving[s])

AdminInv == SavedTyped /\ SavingTyped /\ SettingsHold /\ Prepared

-----------------------------------------------------------------------------
\* A missing queue has no settings.
LEMMA MissingNone == \A s : IsSettings(s) => s # Missing
  BY DEF IsSettings, Missing

\* A patch over settings gives settings, and a pull queue no target.
LEMMA MergedSettings ==
  ASSUME NEW base, IsSettings(base), NEW p \in Patches
  PROVE  /\ IsSettings(Merged(base, p))
         /\ Merged(base, p).mode = "pull" => Merged(base, p).target = "none"
<1> DEFINE all == [f \in DOMAIN base |-> IF f \in DOMAIN p THEN p[f] ELSE base[f]]
<1>1. IsSettings(all)
  <2>1. DOMAIN all = DOMAIN Defaults /\ all.mode \in {"push", "pull"}
    BY QueueAssumption DEF IsSettings
  <2>2. ASSUME NEW f \in Amounts PROVE all[f] \in Nat
    <3>1. f \in DOMAIN base /\ base[f] \in Nat /\ (f \in DOMAIN p => p[f] \in Nat)
      BY QueueAssumption DEF IsSettings
    <3> QED BY <3>1
  <2> HIDE DEF all
  <2> QED BY <2>1, <2>2 DEF IsSettings
<1>2. Merged(base, p) = IF all.mode = "pull" THEN [all EXCEPT !.target = "none"] ELSE all
  BY DEF Merged
<1> HIDE DEF all
<1>3. CASE all.mode = "pull"
  <2>1. "target" \in DOMAIN all /\ "target" \notin Amounts
    BY <1>1, QueueAssumption DEF IsSettings, Amounts
  <2> DEFINE less == [all EXCEPT !.target = "none"]
  <2>2. "mode" \in DOMAIN all /\ DOMAIN less = DOMAIN all /\ less.mode = all.mode /\ less.target = "none"
    BY <1>1, <2>1, QueueAssumption DEF IsSettings
  <2>3. \A f \in Amounts : less[f] = all[f]
    BY <1>1, <2>1, QueueAssumption DEF IsSettings
  <2> HIDE DEF less
  <2>4. IsSettings(less)
    BY <1>1, <2>2, <2>3 DEF IsSettings
  <2> QED BY <1>2, <1>3, <2>2, <2>4 DEF less
<1>4. CASE all.mode # "pull"
  BY <1>1, <1>2, <1>4 DEF IsSettings
<1> QED BY <1>3, <1>4

-----------------------------------------------------------------------------
LEMMA InitAdminInv == AdminInit => AdminInv
  BY QueueAssumption
  DEF AdminInit, AdminInv, SavedTyped, SavingTyped, SettingsHold, SettingsValid, TargetsGranted, Prepared,
      IsSettings, Missing, NotSaving, Existing

\* What leaves queues, requests and grants alone keeps all of it.
LEMMA Untouched == ASSUME AdminInv, UNCHANGED <<saved, saving, granted>> PROVE AdminInv'
  BY DEF AdminInv, SavedTyped, SavingTyped, SettingsHold, SettingsValid, TargetsGranted, Prepared,
         Checked, Existing, Acceptable, IsSettings, Missing

LEMMA AskKeeps ==
  ASSUME AdminInv, NEW s \in Savers, NEW who \in Asking, NEW q \in QueueNames, NEW create \in BOOLEAN, NEW p \in Patches,
         AskSave(s, who, q, create, p)
  PROVE  AdminInv'
<1>1. UNCHANGED <<saved, granted>> /\ saving' = [saving EXCEPT ![s] = saving'[s]] /\ saving'[s].step = "read"
  BY DEF AdminInv, SavingTyped, AskSave
<1>2. SavedTyped' /\ SettingsHold'
  BY <1>1 DEF AdminInv, SavedTyped, SettingsHold, SettingsValid, TargetsGranted, Existing, IsSettings, Missing
<1>3. SavingTyped'
  BY DEF AdminInv, SavingTyped, AskSave
<1>4. Prepared'
  BY <1>1 DEF AdminInv, SavingTyped, Prepared, Checked, IsSettings, Acceptable
<1> QED BY <1>2, <1>3, <1>4 DEF AdminInv

\* The settings read give settings that were checked, and a grant for a target that needed one.
LEMMA ReadKeeps == ASSUME AdminInv, NEW s \in Savers, ReadSettings(s) PROVE AdminInv'
<1> DEFINE a == saving[s]
           base == IF a.create THEN Defaults ELSE saved[a.queue]
           new == Merged(base, a.patch)
           asks == a.create \/ new.target # base.target
<1>1. saving[s].step = "read" /\ a.queue \in QueueNames /\ a.create \in BOOLEAN /\ a.patch \in Patches
  BY DEF AdminInv, SavingTyped, ReadSettings
<1>2. UNCHANGED saved /\ DOMAIN saved = QueueNames /\ DOMAIN saving = Savers
  BY DEF AdminInv, SavedTyped, SavingTyped, ReadSettings
<1>3. SavedTyped'
  BY <1>2 DEF AdminInv, SavedTyped, IsSettings, Missing
<1>4. CASE base = Missing \/ ~Acceptable(a.queue, new) \/ ~AsksGrant(a, base, new)
  <2>1. saving' = [saving EXCEPT ![s] = NotSaving] /\ UNCHANGED granted
    BY <1>4, Zenon DEF ReadSettings
  <2>2. SettingsHold'
    BY <1>2, <2>1 DEF AdminInv, SettingsHold, SettingsValid, TargetsGranted, Existing, Missing
  <2>3. SavingTyped' /\ Prepared'
    BY <1>2, <2>1 DEF AdminInv, SavingTyped, Prepared, Checked, NotSaving, IsSettings, Acceptable
  <2> QED BY <1>3, <2>2, <2>3 DEF AdminInv
<1>5. CASE base # Missing /\ Acceptable(a.queue, new) /\ AsksGrant(a, base, new)
  <2> DEFINE goes == [step |-> IF asks THEN "look" ELSE "put", queue |-> a.queue, create |-> a.create, settings |-> new]
  <2>1. saving' = [saving EXCEPT ![s] = goes]
    BY <1>5, Zenon DEF ReadSettings
  <2>2. granted' = IF MayName(a.who, new.target) /\ asks THEN granted \cup {<<a.queue, new.target>>} ELSE granted
    BY <1>5, Zenon DEF ReadSettings
  <2>3. IsSettings(base)
    BY <1>1, <1>5, QueueAssumption DEF AdminInv, SavedTyped, IsSettings
  <2>4. IsSettings(new) /\ (new.mode = "pull" => new.target = "none")
    BY <1>1, <2>3, MergedSettings
  <2>5. new.target = "channel" => <<a.queue, "channel">> \in granted'
    <3>1. CASE asks
      BY <1>5, <2>2, <3>1 DEF AsksGrant
    <3>2. CASE ~asks
      <4>1. ~a.create /\ new.target = saved[a.queue].target /\ a.queue \in Existing
        BY <1>1, <1>5, <3>2 DEF Existing
      <4> QED BY <2>2, <3>2, <4>1 DEF AdminInv, SettingsHold, TargetsGranted
    <3> QED BY <3>1, <3>2
  <2>6. granted \subseteq granted'
    BY <2>2
  <2> HIDE DEF new, asks
  <2>7. SettingsHold'
    BY <1>2, <2>6 DEF AdminInv, SettingsHold, SettingsValid, TargetsGranted, Existing, Missing
  <2>8. saving'[s] = goes /\ \A r \in Savers \ {s} : saving'[r] = saving[r]
    BY <1>2, <2>1
  <2>9. SavingTyped'
    BY <1>1, <1>2, <2>1, <2>8 DEF AdminInv, SavingTyped
  <2>10. Checked(saving[s])'
    BY <1>5, <2>4, <2>5, <2>8 DEF Checked, Acceptable, IsSettings
  <2>11. Prepared'
    <3> SUFFICES ASSUME NEW r \in Savers, saving'[r].step \in {"look", "put"} PROVE Checked(saving[r])'
      BY DEF Prepared
    <3>1. CASE r = s
      BY <2>10, <3>1
    <3>2. CASE r # s
      <4>1. Checked(saving[r]) /\ saving'[r] = saving[r]
        BY <2>8, <3>2 DEF AdminInv, Prepared
      <4> QED BY <2>6, <4>1 DEF Checked, Acceptable, IsSettings
    <3> QED BY <3>1, <3>2
  <2> QED BY <1>3, <2>7, <2>9, <2>11 DEF AdminInv
<1> QED BY <1>4, <1>5

LEMMA LookKeeps == ASSUME AdminInv, NEW s \in Savers, LookTarget(s) PROVE AdminInv'
<1>1. UNCHANGED <<saved, granted>> /\ DOMAIN saving = Savers /\ saving[s].step = "look"
  BY DEF AdminInv, SavingTyped, LookTarget
<1>2. saving' = [saving EXCEPT ![s] = saving'[s]] /\ saving'[s] \in {NotSaving, [saving[s] EXCEPT !.step = "put"]}
  BY <1>1 DEF LookTarget
<1>3. SavedTyped' /\ SettingsHold'
  BY <1>1 DEF AdminInv, SavedTyped, SettingsHold, SettingsValid, TargetsGranted, Existing, IsSettings, Missing
<1>4. SavingTyped'
  BY <1>1, <1>2 DEF AdminInv, SavingTyped, NotSaving
<1>5. Prepared'
  <2>1. ASSUME NEW r \in Savers, saving'[r].step \in {"look", "put"} PROVE Checked(saving[r])'
    <3>1. Checked(saving[r])
      BY <1>1, <1>2, <2>1 DEF AdminInv, Prepared, NotSaving
    <3>2. saving'[r].settings = saving[r].settings /\ saving'[r].queue = saving[r].queue
      BY <1>1, <1>2, <2>1 DEF AdminInv, SavingTyped, NotSaving
    <3> QED BY <1>1, <3>1, <3>2 DEF Checked, Acceptable, IsSettings
  <2> QED BY <2>1 DEF Prepared
<1> QED BY <1>3, <1>4, <1>5 DEF AdminInv

\* The dead-letter queue is there when the settings are written.
LEMMA PutKeeps == ASSUME AdminInv, NEW s \in Savers, PutSettings(s) PROVE AdminInv'
<1> DEFINE a == saving[s]
<1>1. /\ saving[s].step = "put" /\ UNCHANGED granted /\ saving' = [saving EXCEPT ![s] = NotSaving]
      /\ DOMAIN saving = Savers /\ DOMAIN saved = QueueNames
  BY DEF AdminInv, SavedTyped, SavingTyped, PutSettings
<1>2. SavingTyped' /\ Prepared'
  BY <1>1 DEF AdminInv, SavingTyped, Prepared, Checked, NotSaving, IsSettings, Acceptable
<1>3. CASE UNCHANGED saved
  BY <1>1, <1>2, <1>3 DEF AdminInv, SavedTyped, SettingsHold, SettingsValid, TargetsGranted, Existing, IsSettings, Missing
<1>4. CASE saved' = [saved EXCEPT ![a.queue] = a.settings] /\ a.settings.dlq \in Existing \cup {"none"}
  <2>1. Checked(a) /\ a.queue \in QueueNames
    BY <1>1 DEF AdminInv, SavingTyped, Prepared
  <2>2. saved'[a.queue] = a.settings /\ \A q \in QueueNames \ {a.queue} : saved'[q] = saved[q]
    BY <1>1, <1>4, <2>1
  <2>3. Existing' = Existing \cup {a.queue}
    BY <2>1, <2>2, MissingNone DEF Existing, Checked
  <2>4. SavedTyped'
    BY <1>1, <1>4, <2>1, <2>2 DEF AdminInv, SavedTyped, Checked, IsSettings, Missing
  <2>5. SettingsValid' /\ TargetsGranted'
    <3>1. ASSUME NEW q \in Existing' PROVE
             /\ saved'[q].dlq \in (Existing' \ {q}) \cup {"none"} /\ saved'[q].min <= saved'[q].max
             /\ saved'[q].mode = "pull" => saved'[q].target = "none"
             /\ saved'[q].target = "channel" => <<q, "channel">> \in granted'
      <4>1. CASE q = a.queue
        BY <1>1, <1>4, <2>1, <2>2, <2>3, <4>1 DEF Checked, Acceptable
      <4>2. CASE q # a.queue
        <5>1. q \in Existing /\ saved'[q] = saved[q]
          BY <2>2, <2>3, <3>1, <4>2 DEF Existing
        <5> QED BY <1>1, <2>3, <5>1 DEF AdminInv, SettingsHold, SettingsValid, TargetsGranted
      <4> QED BY <4>1, <4>2
    <3> QED BY <3>1 DEF SettingsValid, TargetsGranted
  <2> QED BY <1>2, <2>4, <2>5 DEF AdminInv, SettingsHold
<1>5. UNCHANGED saved \/ (saved' = [saved EXCEPT ![a.queue] = a.settings] /\ a.settings.dlq \in Existing \cup {"none"})
  BY Zenon DEF PutSettings
<1> QED BY <1>3, <1>4, <1>5

\* A queue goes only when no other sends its dead letters there.
LEMMA DropKeeps == ASSUME AdminInv, NEW q \in QueueNames, DropQueue(q) PROVE AdminInv'
<1>1. /\ q \in Existing /\ \A p \in Existing \ {q} : saved[p].dlq # q
      /\ saved' = [saved EXCEPT ![q] = Missing] /\ UNCHANGED <<saving, granted>>
      /\ DOMAIN saved = QueueNames
  BY DEF AdminInv, SavedTyped, DropQueue
<1>2. saved'[q] = Missing /\ \A p \in QueueNames \ {q} : saved'[p] = saved[p]
  BY <1>1
<1>3. Existing' = Existing \ {q}
  BY <1>2 DEF Existing, Missing
<1>4. SavedTyped'
  BY <1>1, <1>2 DEF AdminInv, SavedTyped, IsSettings, Missing
<1>5. SettingsValid' /\ TargetsGranted'
  <2>1. ASSUME NEW p \in Existing' PROVE
           /\ saved'[p].dlq \in (Existing' \ {p}) \cup {"none"} /\ saved'[p].min <= saved'[p].max
           /\ saved'[p].mode = "pull" => saved'[p].target = "none"
           /\ saved'[p].target = "channel" => <<p, "channel">> \in granted'
    <3>1. p \in Existing \ {q} /\ saved'[p] = saved[p]
      BY <1>2, <1>3, <2>1 DEF Existing
    <3> QED BY <1>1, <1>3, <3>1 DEF AdminInv, SettingsHold, SettingsValid, TargetsGranted
  <2> QED BY <2>1 DEF SettingsValid, TargetsGranted
<1>6. SavingTyped' /\ Prepared'
  BY <1>1 DEF AdminInv, SavingTyped, Prepared, Checked, IsSettings, Acceptable
<1> QED BY <1>4, <1>5, <1>6 DEF AdminInv, SettingsHold

LEMMA NextAdminInv == AdminInv /\ [AdminNext]_adminVars => AdminInv'
<1> SUFFICES ASSUME AdminInv, [AdminNext]_adminVars PROVE AdminInv'
  OBVIOUS
<1>1. CASE UNCHANGED adminVars
  BY <1>1, Untouched DEF adminVars
<1>2. ASSUME NEW s \in Savers, NEW who \in Asking, NEW q \in QueueNames, NEW create \in BOOLEAN, NEW p \in Patches,
             AskSave(s, who, q, create, p)
      PROVE AdminInv'
  BY <1>2, AskKeeps
<1>3. ASSUME NEW s \in Savers, Saves(s) PROVE AdminInv'
  BY <1>3, ReadKeeps, LookKeeps, PutKeeps DEF Saves
<1>4. ASSUME NEW q \in QueueNames, DropQueue(q) \/ FailsAgain(q) PROVE AdminInv'
  BY <1>4, DropKeeps, Untouched DEF FailsAgain
<1>5. ASSUME NEW t \in targets, DropTarget(t) PROVE AdminInv'
  BY <1>5, Untouched DEF DropTarget
<1>6. CASE TasksChange
  BY <1>6, Untouched DEF TasksChange, AddList, TaskMoves
<1>7. CASE Lists
  BY <1>7, Untouched DEF Lists, StartsList, ListTasks, ListEnds
<1> QED BY <1>1, <1>2, <1>3, <1>4, <1>5, <1>6, <1>7 DEF AdminNext

-----------------------------------------------------------------------------
\* For any number of requests, queues and patches: whatever saves and deletes fall between a
\* save's reading, its look at the target and its writing, dead letters go to a queue there is,
\* the waits are in order, a pull queue has no target, and a channel that is published to was
\* once asked for by somebody who may write it.
THEOREM SettingsKept == AdminSpec => []SettingsHold
<1>1. AdminInv => SettingsHold
  BY DEF AdminInv
<1> QED BY <1>1, InitAdminInv, NextAdminInv, PTL DEF AdminSpec

-----------------------------------------------------------------------------
(* The waits between attempts *)

\* Powers of two are what their recursion says.
LEMMA Powers == Power \in [Nat -> Nat] /\ Power[0] = 1 /\ \A n \in Nat : Power[n + 1] = 2 * Power[n]
<1> DEFINE twice == [v \in Nat |-> 2 * v]
           Doubles(f) == f = [n \in Nat |-> IF n = 0 THEN 1 ELSE 2 * f[n - 1]]
<1>1. twice \in [Nat -> Nat] /\ 1 \in Nat
  OBVIOUS
<1>2. PICK f \in [Nat -> Nat] : f[0] = 1 /\ \A n \in Nat : f[n + 1] = twice[f[n]]
  <2> DEFINE values == Nat
             one == 1
  <2>1. one \in values /\ twice \in [values -> values]
    BY <1>1
  <2> HIDE DEF twice, values, one
  <2>2. \E f \in [Nat -> values] : f[0] = one /\ \A n \in Nat : f[n + 1] = twice[f[n]]
    BY <2>1, NatRecursion
  <2> QED BY <2>2 DEF values, one
<1>3. \A n \in Nat : f[n] = IF n = 0 THEN 1 ELSE 2 * f[n - 1]
  <2> TAKE n \in Nat
  <2>1. CASE n # 0
    <3>1. n - 1 \in Nat /\ (n - 1) + 1 = n
      BY <2>1
    <3> QED BY <1>2, <2>1, <3>1
  <2> QED BY <1>2, <2>1
<1>4. Doubles(f)
  BY <1>2, <1>3
<1>5. Power = CHOOSE g : Doubles(g)
  BY DEF Power
<1> HIDE DEF Doubles
<1>6. Doubles(Power)
  BY <1>4, <1>5
<1> USE DEF Doubles
<1>7. ASSUME NEW n \in Nat PROVE Power[n] = f[n]
  <2> DEFINE Apart == {i \in Nat : Power[i] # f[i]}
  <2>1. SUFFICES ASSUME Apart # {} PROVE FALSE
    OBVIOUS
  <2>2. PICK k \in Apart : \A i \in Apart : k <= i
    BY <2>1, LeastExists
  <2>3. CASE k = 0
    BY <1>6, <1>2, <2>2, <2>3
  <2>4. CASE k # 0
    <3>1. k - 1 \in Nat /\ Power[k - 1] = f[k - 1]
      BY <2>2, <2>4
    <3> QED BY <1>3, <1>6, <2>2, <2>4, <3>1
  <2> QED BY <2>3, <2>4
<1>8. DOMAIN Power = Nat
  BY <1>6
<1>9. Power = [n \in Nat |-> Power[n]]
  BY <1>6
<1>10. \A n \in Nat : n + 1 \in Nat /\ twice[n] = 2 * n
  OBVIOUS
<1> HIDE DEF Doubles, twice
<1>11. Power \in [Nat -> Nat]
  BY <1>2, <1>7, <1>8, <1>9
<1>12. Power[0] = 1
  BY <1>2, <1>7
<1>13. ASSUME NEW n \in Nat PROVE Power[n + 1] = 2 * Power[n]
  <2>1. Power[n + 1] = twice[f[n]] /\ f[n] \in Nat /\ f[n] = Power[n]
    BY <1>2, <1>7, <1>10
  <2> QED BY <1>10, <2>1
<1> QED BY <1>11, <1>12, <1>13

\* The shorter of two amounts is one of them.
LEMMA ShorterNat == ASSUME NEW a \in Nat, NEW b \in Nat PROVE Shorter(a, b) \in Nat /\ Shorter(a, b) <= b
  BY DEF Shorter

\* A wait is an amount, and the one after it is the longest wait, or twice it, or longer by the last step.
LEMMA NextWait ==
  ASSUME NEW s, \A f \in Amounts : s[f] \in Nat, NEW n \in Nat \ {0}
  PROVE  /\ WaitAfter(s, n) \in Nat
         /\ WaitAfter(s, n + 1) = Shorter(s.max, IF n <= s.doublings THEN 2 * WaitAfter(s, n)
                                                 ELSE WaitAfter(s, n) + s.min * Power[s.doublings])
<1>1. s.min \in Nat /\ s.max \in Nat /\ s.doublings \in Nat
  BY DEF Amounts
<1> DEFINE D == s.doublings
           step == s.min * Power[D]
           half == s.min * Power[n - 1]
           past == (n - 1) - D
<1>2. n - 1 \in Nat /\ Power[n - 1] \in Nat /\ Power[D] \in Nat /\ Power[n] = 2 * Power[n - 1]
  <2>1. n - 1 \in Nat /\ (n - 1) + 1 = n
    OBVIOUS
  <2> QED BY <1>1, <2>1, Powers
<1>3. step \in Nat /\ half \in Nat /\ s.min * Power[n] = 2 * half
  BY <1>1, <1>2
<1>4. CASE n <= D
  <2>1. WaitAfter(s, n) = Shorter(half + 0, s.max)
    BY <1>1, <1>4 DEF WaitAfter, Shorter
  <2>2. WaitAfter(s, n + 1) = Shorter(s.min * Power[n] + 0, s.max)
    BY <1>1, <1>4 DEF WaitAfter, Shorter
  <2> HIDE DEF half, step
  <2> QED BY <1>1, <1>3, <1>4, <2>1, <2>2 DEF Shorter
<1>5. CASE n > D
  <2>1. past \in Nat
    BY <1>1, <1>5
  <2>2. WaitAfter(s, n) = Shorter(step + past * step, s.max)
    <3>1. CASE n - 1 > D
      <4>1. WaitAfter(s, n) = Shorter(s.min * Power[D] + past * s.min * Power[D], s.max)
        BY <1>1, <3>1 DEF WaitAfter, Shorter
      <4>2. past * s.min * Power[D] = past * (s.min * Power[D])
        BY <1>1, <1>2, <2>1
      <4> QED BY <4>1, <4>2
    <3>2. CASE n - 1 = D
      <4>1. WaitAfter(s, n) = Shorter(step + 0, s.max)
        BY <1>1, <3>2 DEF WaitAfter, Shorter
      <4>2. past = 0
        BY <1>1, <3>2
      <4>3. past * step = 0
        BY <1>3, <4>2
      <4> QED BY <4>1, <4>3
    <3> QED BY <1>1, <1>5, <3>1, <3>2
  <2>3. WaitAfter(s, n + 1) = Shorter(step + (past + 1) * step, s.max)
    <3>1. WaitAfter(s, n + 1) = Shorter(s.min * Power[D] + (past + 1) * s.min * Power[D], s.max)
      BY <1>1, <1>5 DEF WaitAfter, Shorter
    <3>2. (past + 1) * s.min * Power[D] = (past + 1) * (s.min * Power[D])
      BY <1>1, <1>2, <2>1
    <3> QED BY <3>1, <3>2
  <2>4. (past + 1) * step = past * step + step /\ past * step \in Nat
    BY <1>3, <2>1
  <2> DEFINE more == past * step
  <2>5. WaitAfter(s, n) = Shorter(step + more, s.max) /\ WaitAfter(s, n + 1) = Shorter(step + (more + step), s.max) /\ more \in Nat
    BY <2>2, <2>3, <2>4
  <2>6. ~(n <= D)
    BY <1>1, <1>5
  <2> HIDE DEF step, more
  <2>7. WaitAfter(s, n) \in Nat /\ WaitAfter(s, n + 1) = Shorter(s.max, WaitAfter(s, n) + step)
    BY <1>1, <1>3, <2>5 DEF Shorter
  <2> QED BY <2>6, <2>7 DEF step
<1> QED BY <1>1, <1>4, <1>5

\* A task that waits again waits as its policy says after that many failures.
WaitsInv ==
    retried # NotRetried =>
        /\ retried.attempts \in Nat \ {0} /\ retried.age \in Nat /\ \A f \in Amounts : retried.policy[f] \in Nat
        /\ retried.wait = WaitAfter(retried.policy, retried.attempts)

\* A failed attempt leaves the task spent, or waiting as the queue's policy says, under its age limit.
LEMMA FailsWaits ==
  ASSUME AdminInv, WaitsInv, NEW q \in QueueNames, FailsAgain(q)
  PROVE  \/ retried' = NotRetried
         \/ /\ WaitsInv' /\ retried'.attempts = retried.attempts + 1
            /\ retried'.policy.age > 0 => retried'.age <= retried'.policy.age
<1> DEFINE s == saved[q]
           n == retried.attempts + 1
           age == IF retried = NotRetried THEN 0 ELSE retried.age
           w == WaitAfter(s, n)
           waits == [attempts |-> n, queue |-> q, wait |-> w, age |-> age + w, policy |-> s]
<1>1. \A f \in Amounts : s[f] \in Nat
  BY DEF FailsAgain, AdminInv, SavedTyped, IsSettings, Existing
<1>2. n \in Nat \ {0}
  BY DEF WaitsInv, NotRetried
<1>3. retried' = IF n >= s.attempts \/ (s.age > 0 /\ age + w > s.age) THEN NotRetried ELSE waits
  BY Zenon DEF FailsAgain
<1>4. CASE retried' = waits /\ ~(s.age > 0 /\ age + w > s.age)
  <2>1. /\ retried'.attempts = n /\ retried'.policy = s /\ retried'.wait = w /\ retried'.age = age + w
    BY <1>4
  <2>2. age \in Nat /\ w \in Nat /\ s.age \in Nat
    BY <1>1, <1>2, NextWait DEF WaitsInv, Amounts
  <2>3. WaitsInv'
    BY <1>1, <1>2, <2>1, <2>2 DEF WaitsInv
  <2>4. s.age > 0 => age + w <= s.age
    BY <1>4, <2>2
  <2> QED BY <2>1, <2>3, <2>4
<1> QED BY <1>3, <1>4

\* For any policies, changed between the attempts or not: a wait is what the wait before it and
\* the policy say, doubled and then longer by equal steps, and no task waits past its age limit.
THEOREM WaitsGrow == AdminSpec => WaitsStep
<1> DEFINE OneWait == retried.attempts > 0 /\ retried'.attempts > retried.attempts /\ retried'.policy = retried.policy =>
                        LET s == retried.policy
                            n == retried.attempts IN
                        /\ retried'.wait = Shorter(s.max, IF n <= s.doublings THEN 2 * retried.wait
                                                         ELSE retried.wait + s.min * Power[s.doublings])
                        /\ s.age > 0 => retried'.age <= s.age
<1>1. AdminInit => WaitsInv
  BY DEF AdminInit, WaitsInv
<1>2. ASSUME AdminInv, WaitsInv, [AdminNext]_adminVars PROVE WaitsInv' /\ (UNCHANGED adminVars \/ OneWait)
  <2>1. CASE UNCHANGED retried
    <3>1. WaitsInv'
      BY <1>2, <2>1 DEF WaitsInv
    <3>2. ~(retried'.attempts > retried.attempts)
      BY <1>2, <2>1 DEF WaitsInv, NotRetried
    <3> QED BY <3>1, <3>2
  <2>2. ASSUME NEW q \in QueueNames, FailsAgain(q) PROVE WaitsInv' /\ OneWait
    <3>1. CASE retried' = NotRetried
      BY <1>2, <3>1 DEF WaitsInv, NotRetried
    <3>2. CASE /\ WaitsInv' /\ retried'.attempts = retried.attempts + 1
               /\ retried'.policy.age > 0 => retried'.age <= retried'.policy.age
      <4> SUFFICES ASSUME retried.attempts > 0, retried'.policy = retried.policy PROVE OneWait
        BY <3>2
      <4>1. retried # NotRetried /\ retried' # NotRetried
        BY <1>2, <3>2 DEF WaitsInv, NotRetried
      <4>2. /\ retried.wait = WaitAfter(retried.policy, retried.attempts) /\ retried.attempts \in Nat \ {0}
            /\ \A f \in Amounts : retried.policy[f] \in Nat
            /\ retried'.wait = WaitAfter(retried.policy, retried.attempts + 1)
        BY <1>2, <3>2, <4>1 DEF WaitsInv
      <4> QED BY <3>2, <4>2, NextWait
    <3> QED BY <1>2, <2>2, <3>1, <3>2, FailsWaits
  <2>3. (\E q \in QueueNames : FailsAgain(q)) \/ UNCHANGED retried
    BY <1>2 DEF AdminNext, adminVars, AskSave, Saves, ReadSettings, LookTarget, PutSettings, DropQueue, DropTarget,
                TasksChange, AddList, TaskMoves, Lists, StartsList, ListTasks, ListEnds
  <2> QED BY <2>1, <2>2, <2>3
<1>3. AdminInv /\ WaitsInv /\ [AdminNext]_adminVars => [OneWait]_adminVars
  BY <1>2
<1>4. AdminInv /\ WaitsInv /\ [AdminNext]_adminVars => (AdminInv /\ WaitsInv)'
  BY <1>2, NextAdminInv
<1>5. AdminInit => AdminInv /\ WaitsInv
  BY <1>1, InitAdminInv
<1> QED BY <1>3, <1>4, <1>5, PTL DEF AdminSpec, WaitsStep

-----------------------------------------------------------------------------
(* The tasks of a queue, and lists of them *)

States == {"scheduled", "running", "done"}
TaskRow == [queue : QueueNames, name : STRING, target : STRING, state : States, at : Nat]
Cursors == {<<>>} \cup (Nat \X TaskIds)
Listing == [step : {"ask", "done"}, queue : QueueNames, state : {"scheduled", "done", "any"}, after : Cursors,
            kept : SUBSET TaskIds, seen : SUBSET TaskIds, twice : SUBSET TaskIds]

\* A row is of a queue there is, and holds its name there alone.
RowsTyped == DOMAIN rows = TaskIds /\ \A i \in TaskIds : rows[i] = NoTask \/ (rows[i] \in TaskRow /\ rows[i].queue \in Existing)
NamesApart ==
    \A i, j \in TaskIds : rows[i] # NoTask /\ rows[j] # NoTask /\ rows[i].queue = rows[j].queue /\ rows[i].name # "" =>
          rows[i].name # rows[j].name \/ i = j
QueuesCounted == IsFiniteSet(Existing) /\ Cardinality(Existing) <= MaxQueues /\ DefaultQueue \in Existing

\* Of what a list is promised still, what it showed is not after its cursor, and the rest is.
Promised(l) ==
    /\ l.kept \subseteq Shows(l.queue, l.state) /\ l.kept \cap l.twice = {}
    /\ l.step = "ask" =>
          \A i \in l.kept : IF i \in l.seen THEN l.after # <<>> /\ ~Earlier(l.state, l.after, Key(i))
                                           ELSE l.after = <<>> \/ Earlier(l.state, l.after, Key(i))
    /\ l.step = "done" => l.kept \subseteq l.seen
ListerOk == lister = NotListing \/ (lister \in Listing /\ Promised(lister))

TasksInv == RowsTyped /\ NamesApart /\ QueuesCounted /\ ListerOk

LEMMA RowsDiffer == NoTask \notin TaskRow /\ \A r \in TaskRow : r.queue \in QueueNames /\ r.queue # "none"
  BY QueueAssumption DEF NoTask, TaskRow

LEMMA InitTasks == AdminInit => TasksInv
<1> SUFFICES ASSUME AdminInit PROVE TasksInv
  OBVIOUS
<1>1. Existing = {DefaultQueue}
  <2>1. Defaults # Missing
    BY QueueAssumption DEF Missing
  <2> QED BY <2>1, QueueAssumption DEF AdminInit, Existing
<1>2. QueuesCounted
  <2>1. IsFiniteSet({DefaultQueue}) /\ Cardinality({DefaultQueue}) = 1
    BY FS_Singleton
  <2>2. 1 <= MaxQueues
    BY QueueAssumption
  <2> QED BY <1>1, <2>1, <2>2 DEF QueuesCounted
<1> QED BY <1>2 DEF AdminInit, TasksInv, RowsTyped, NamesApart, ListerOk

\* A step that leaves the rows and the list alone, and adds a queue at most while there is room.
LEMMA QueuesAlone ==
  ASSUME TasksInv, UNCHANGED <<rows, lister>>, Existing \subseteq Existing', QueuesCounted'
  PROVE  TasksInv'
<1>1. RowsTyped' /\ NamesApart'
  BY DEF TasksInv, RowsTyped, NamesApart
<1>2. ListerOk'
  BY DEF TasksInv, ListerOk, Promised, Shows, Key
<1> QED BY <1>1, <1>2 DEF TasksInv

LEMMA SavesAlone == ASSUME TasksInv, UNCHANGED <<rows, lister, saved>> PROVE TasksInv'
<1>1. Existing' = Existing
  BY DEF Existing
<1>2. QueuesCounted'
  BY <1>1 DEF TasksInv, QueuesCounted
<1> QED BY <1>1, <1>2, QueuesAlone

\* A step after which the rows that the list is promised still are as they were.
LEMMA PromiseStays ==
  ASSUME TasksInv, NEW gone \in SUBSET TaskIds, Unlists(gone),
         \A i \in TaskIds \ gone : rows[i] # NoTask => rows'[i] = rows[i]
  PROVE  ListerOk'
<1>1. CASE lister = NotListing
  BY <1>1 DEF Unlists, ListerOk
<1>2. CASE lister # NotListing
  <2> DEFINE l == [lister EXCEPT !.kept = lister.kept \ gone]
  <2>1. lister \in Listing /\ Promised(lister) /\ lister' = l
    BY <1>2 DEF TasksInv, ListerOk, Unlists
  <2>2. /\ l \in Listing /\ l.kept = lister.kept \ gone /\ l.step = lister.step /\ l.queue = lister.queue
        /\ l.state = lister.state /\ l.after = lister.after /\ l.seen = lister.seen /\ l.twice = lister.twice
        /\ lister.queue \in QueueNames /\ lister.kept \subseteq TaskIds
    BY <2>1 DEF Listing
  <2> HIDE DEF l
  <2>3. ASSUME NEW i \in l.kept PROVE rows'[i] = rows[i]
    <3>1. i \in TaskIds \ gone /\ rows[i].queue = lister.queue
      BY <2>1, <2>2, <2>3 DEF Promised, Shows
    <3>2. rows[i] # NoTask
      BY <2>2, <3>1, QueueAssumption DEF NoTask
    <3> QED BY <3>1, <3>2
  <2>4. ASSUME NEW i \in l.kept
        PROVE  i \in TaskIds /\ rows'[i].queue = l.queue /\ l.state \in {"any", rows'[i].state}
    <3>1. i \in Shows(lister.queue, lister.state)
      BY <2>1, <2>2, <2>4 DEF Promised
    <3> QED BY <2>2, <2>3, <2>4, <3>1 DEF Shows
  <2>5. ASSUME l.step = "ask", NEW i \in l.kept
        PROVE  IF i \in l.seen THEN l.after # <<>> /\ ~Earlier(l.state, l.after, <<rows'[i].at, i>>)
               ELSE l.after = <<>> \/ Earlier(l.state, l.after, <<rows'[i].at, i>>)
    BY <2>1, <2>2, <2>3, <2>5 DEF Promised, Key
  <2>6. l.kept \cap l.twice = {} /\ (l.step = "done" => l.kept \subseteq l.seen)
    BY <2>1, <2>2 DEF Promised
  <2>7. lister' = l /\ l \in Listing
    BY <2>1, <2>2
  <2>8. l.kept \subseteq {i \in TaskIds : rows'[i].queue = l.queue /\ l.state \in {"any", rows'[i].state}}
    BY <2>4
  <2>9. lister'.kept \subseteq {i \in TaskIds : rows'[i].queue = lister'.queue /\ lister'.state \in {"any", rows'[i].state}}
    BY <2>7, <2>8
  <2>10. lister'.kept \cap lister'.twice = {} /\ (lister'.step = "done" => lister'.kept \subseteq lister'.seen)
    BY <2>6, <2>7
  <2>11. lister'.step = "ask" =>
           \A i \in lister'.kept :
              IF i \in lister'.seen
              THEN lister'.after # <<>> /\ ~Earlier(lister'.state, lister'.after, <<rows'[i].at, i>>)
              ELSE lister'.after = <<>> \/ Earlier(lister'.state, lister'.after, <<rows'[i].at, i>>)
    BY <2>5, <2>7
  <2>12. Promised(lister)'
    BY <2>9, <2>10, <2>11, Zenon DEF Promised, Shows, Key
  <2>13. lister' \in Listing
    BY <2>7
  <2> QED BY <2>12, <2>13 DEF ListerOk
<1> QED BY <1>1, <1>2

LEMMA PutTasks == ASSUME AdminInv, TasksInv, NEW s \in Savers, PutSettings(s) PROVE TasksInv'
<1> DEFINE a == saving[s]
<1>1. UNCHANGED <<rows, lister>> /\ a.queue \in QueueNames /\ IsSettings(a.settings) /\ DOMAIN saved = QueueNames
  BY DEF AdminInv, SavedTyped, SavingTyped, Prepared, Checked, PutSettings
<1>2. QueuesCounted
  BY DEF TasksInv
<1>3. CASE UNCHANGED saved
  BY <1>1, <1>3, SavesAlone
<1>4. CASE /\ a.create = (saved[a.queue] = Missing) /\ (a.create => Cardinality(Existing) < MaxQueues)
           /\ saved' = [saved EXCEPT ![a.queue] = a.settings]
  <2>1. saved'[a.queue] = a.settings /\ \A q \in QueueNames \ {a.queue} : saved'[q] = saved[q]
    BY <1>1, <1>4
  <2>2. Existing' = Existing \cup {a.queue}
    BY <1>1, <2>1, MissingNone DEF Existing
  <2>3. IsFiniteSet(Existing') /\ Cardinality(Existing') <= MaxQueues
    <3>1. CASE a.queue \in Existing
      BY <1>2, <2>2, <3>1 DEF QueuesCounted
    <3>2. CASE a.queue \notin Existing
      <4>1. Cardinality(Existing) < MaxQueues /\ MaxQueues \in Nat
        BY <1>1, <1>4, <3>2, QueueAssumption DEF Existing
      <4>2. IsFiniteSet(Existing') /\ Cardinality(Existing') = Cardinality(Existing) + 1 /\ Cardinality(Existing) \in Nat
        BY <1>2, <2>2, <3>2, FS_AddElement, FS_CardinalityType DEF QueuesCounted
      <4> QED BY <4>1, <4>2
    <3> QED BY <3>1, <3>2
  <2> QED BY <1>1, <1>2, <2>2, <2>3, QueuesAlone DEF QueuesCounted
<1>5. \/ UNCHANGED saved
      \/ /\ a.create = (saved[a.queue] = Missing) /\ (a.create => Cardinality(Existing) < MaxQueues)
         /\ saved' = [saved EXCEPT ![a.queue] = a.settings]
  BY Zenon DEF PutSettings
<1> QED BY <1>3, <1>4, <1>5

\* A queue takes its tasks with it.
LEMMA DropTasks == ASSUME AdminInv, TasksInv, NEW q \in QueueNames, DropQueue(q) PROVE TasksInv'
<1>1. /\ q \in Existing \ {DefaultQueue} /\ saved' = [saved EXCEPT ![q] = Missing] /\ DOMAIN saved = QueueNames
      /\ rows' = [i \in TaskIds |-> IF rows[i].queue = q THEN NoTask ELSE rows[i]]
      /\ Unlists({i \in TaskIds : rows[i].queue = q})
  BY DEF AdminInv, SavedTyped, DropQueue
<1>2. Existing' = Existing \ {q}
  BY <1>1 DEF Existing, Missing
<1>3. QueuesCounted'
  <2>1. IsFiniteSet(Existing') /\ Cardinality(Existing') <= Cardinality(Existing)
    BY <1>2, FS_Subset DEF TasksInv, QueuesCounted
  <2>2. Cardinality(Existing') \in Nat /\ Cardinality(Existing) \in Nat /\ MaxQueues \in Nat
    BY <2>1, FS_CardinalityType, QueueAssumption DEF TasksInv, QueuesCounted
  <2> QED BY <1>1, <1>2, <2>1, <2>2 DEF TasksInv, QueuesCounted
<1>4. \A i \in TaskIds : rows'[i] = NoTask \/ (rows'[i] = rows[i] /\ rows[i].queue # q)
  BY <1>1
<1>5. RowsTyped' /\ NamesApart'
  <2>1. ASSUME NEW i \in TaskIds, rows[i] # NoTask PROVE rows[i] \in TaskRow /\ rows[i].queue \in Existing
    BY <2>1 DEF TasksInv, RowsTyped
  <2>2. \A i \in TaskIds : rows'[i] = NoTask \/ (rows'[i] \in TaskRow /\ rows'[i].queue \in Existing')
    BY <1>2, <1>4, <2>1
  <2>3. RowsTyped'
    BY <1>1, <2>2 DEF RowsTyped
  <2>4. NamesApart'
    BY <1>4 DEF TasksInv, NamesApart
  <2> QED BY <2>3, <2>4
<1>6. ListerOk'
  <2> DEFINE gone == {i \in TaskIds : rows[i].queue = q}
  <2>1. \A i \in TaskIds \ gone : rows'[i] = rows[i]
    BY <1>1
  <2> QED BY <1>1, <2>1, PromiseStays
<1> QED BY <1>3, <1>5, <1>6 DEF TasksInv

\* The names of a list that are free are free of each other.
LEMMA AddTasks ==
  ASSUME TasksInv, NEW who \in Asking, NEW q \in QueueNames, NEW list \in TaskLists, NEW at \in RunTimes,
         AddList(who, q, list, at)
  PROVE  TasksInv'
<1> DEFINE F == Fresh(q, list)
<1>1. q \in Existing /\ UNCHANGED <<saved, lister>>
  BY DEF AddList
<1>2. PICK id \in [F -> {i \in TaskIds : rows[i] = NoTask}] :
         /\ \A k, l \in F : id[k] = id[l] => k = l
         /\ rows' = [i \in TaskIds |-> IF \E k \in F : id[k] = i
                                       THEN Row(q, list[CHOOSE k \in F : id[k] = i], at) ELSE rows[i]]
  BY DEF AddList
<1>3. /\ list \in Seq([name : STRING, target : STRING]) /\ DOMAIN list = 1..Len(list) /\ Len(list) \in Nat
      /\ at \in Nat
  BY QueueAssumption
<1>4. /\ \A k \in F : k \in DOMAIN list /\ k \in Nat /\ list[k] \in [name : STRING, target : STRING]
      /\ \A k \in F : list[k].name # "" => \A i \in TaskIds : rows[i].queue = q => rows[i].name # list[k].name
      /\ \A k, l \in F : l < k /\ list[k].name # "" => list[l].name # list[k].name
  <2>1. ASSUME NEW k \in F PROVE k \in DOMAIN list /\ k \in Nat /\ k >= 1 /\ list[k] \in [name : STRING, target : STRING]
    <3>1. k \in 1..Len(list)
      BY <1>3 DEF Fresh
    <3> HIDE DEF F
    <3> DEFINE R == [name : STRING, target : STRING]
    <3>2. list \in Seq(R)
      BY <1>3
    <3> HIDE DEF R
    <3>3. list[k] \in R
      BY <3>1, <3>2
    <3>4. k \in DOMAIN list /\ k \in Nat /\ k >= 1
      BY <1>3, <3>1
    <3> QED BY <3>3, <3>4 DEF R
  <2>2. ASSUME NEW k \in F, NEW l \in F, l < k PROVE l \in 1..(k - 1)
    <3> HIDE DEF F
    <3> QED BY <2>1, <2>2
  <2>3. \A k \in F : list[k].name # "" => \A i \in TaskIds : rows[i].queue = q => rows[i].name # list[k].name
    BY DEF Fresh
  <2>4. \A k \in F : list[k].name # "" => \A j \in 1..(k - 1) : list[j].name # list[k].name
    BY DEF Fresh
  <2> HIDE DEF F
  <2> QED BY <2>1, <2>2, <2>3, <2>4
<1> HIDE DEF F
<1>5. \A k, l \in F : k # l /\ list[k].name # "" => list[l].name # list[k].name
  <2>1. ASSUME NEW k \in F, NEW l \in F, k # l, list[k].name # "" PROVE list[l].name # list[k].name
    <3>1. k \in Nat /\ l \in Nat
      BY <1>4
    <3>2. k # l
      BY <2>1
    <3>3. k < l \/ l < k
      BY <3>1, <3>2
    <3> QED BY <1>4, <2>1, <3>3
  <2> QED BY <2>1
<1>6. ASSUME NEW i \in TaskIds
      PROVE  \/ rows'[i] = rows[i] /\ \A k \in F : id[k] # i
             \/ rows[i] = NoTask /\ \E k \in F : id[k] = i /\ rows'[i] = Row(q, list[k], at)
  <2>1. CASE \E k \in F : id[k] = i
    <3>1. PICK k \in F : id[k] = i
      BY <2>1
    <3>2. (CHOOSE m \in F : id[m] = i) = k
      BY <1>2, <3>1
    <3> QED BY <1>2, <3>1, <3>2
  <2>2. CASE ~ \E k \in F : id[k] = i
    BY <1>2, <2>2
  <2> QED BY <2>1, <2>2
<1>7. \A k \in F : Row(q, list[k], at) \in TaskRow /\ Row(q, list[k], at).queue = q
                   /\ Row(q, list[k], at).name = list[k].name
  <2> SUFFICES ASSUME NEW k \in F
               PROVE  /\ Row(q, list[k], at) \in TaskRow /\ Row(q, list[k], at).queue = q
                      /\ Row(q, list[k], at).name = list[k].name
    OBVIOUS
  <2>1. list[k].name \in STRING /\ list[k].target \in STRING
    BY <1>4
  <2> QED BY <1>3, <2>1 DEF Row, TaskRow, States
<1>8. Existing' = Existing /\ QueuesCounted'
  BY <1>1 DEF TasksInv, QueuesCounted, Existing
<1>9. RowsTyped'
  BY <1>1, <1>2, <1>6, <1>7, <1>8 DEF TasksInv, RowsTyped
<1>10. NamesApart'
  <2> SUFFICES ASSUME NEW i \in TaskIds, NEW j \in TaskIds, rows'[i] # NoTask, rows'[j] # NoTask,
                      rows'[i].queue = rows'[j].queue, rows'[i].name # "", rows'[i].name = rows'[j].name
               PROVE  i = j
    BY DEF NamesApart
  <2>1. CASE rows'[i] = rows[i] /\ rows'[j] = rows[j]
    BY <2>1 DEF TasksInv, NamesApart
  <2>2. ASSUME NEW k \in F, rows'[i] = Row(q, list[k], at), rows'[j] = rows[j] PROVE FALSE
    <3>1. rows'[i].queue = q /\ rows'[i].name = list[k].name
      BY <1>7, <2>2
    <3>2. rows[j].queue = q /\ rows[j].name = list[k].name /\ list[k].name # ""
      BY <2>2, <3>1
    <3> QED BY <1>4, <3>2
  <2>3. ASSUME NEW k \in F, rows'[j] = Row(q, list[k], at), rows'[i] = rows[i] PROVE FALSE
    <3>1. rows'[j].queue = q /\ rows'[j].name = list[k].name
      BY <1>7, <2>3
    <3>2. rows[i].queue = q /\ rows[i].name = list[k].name /\ list[k].name # ""
      BY <2>3, <3>1
    <3> QED BY <1>4, <3>2
  <2>4. ASSUME NEW k \in F, NEW l \in F, id[k] = i, id[l] = j, rows'[i] = Row(q, list[k], at),
               rows'[j] = Row(q, list[l], at)
        PROVE  i = j
    <3>1. list[k].name = list[l].name /\ list[k].name # ""
      BY <1>7, <2>4
    <3>2. k = l
      BY <1>5, <3>1
    <3> QED BY <2>4, <3>2
  <2> QED BY <1>6, <2>1, <2>2, <2>3, <2>4
<1>11. ListerOk'
  <2>1. Unlists({})
    <3>1. lister # NotListing => lister \in Listing
      BY DEF TasksInv, ListerOk
    <3>2. \A l \in Listing : [l EXCEPT !.kept = @ \ {}] = l
      BY DEF Listing
    <3> QED BY <1>1, <3>1, <3>2 DEF Unlists
  <2>2. \A i \in TaskIds : rows[i] # NoTask => rows'[i] = rows[i]
    BY <1>6
  <2> QED BY <2>1, <2>2, PromiseStays
<1> QED BY <1>8, <1>9, <1>10, <1>11 DEF TasksInv

LEMMA MovesTasks ==
  ASSUME TasksInv, NEW i \in TaskIds, NEW state \in States, NEW at \in RunTimes, TaskMoves(i, state, at)
  PROVE  TasksInv'
<1> DEFINE r == [rows[i] EXCEPT !.state = state, !.at = at]
<1>1. rows[i] # NoTask /\ rows' = [rows EXCEPT ![i] = r] /\ Unlists({i}) /\ UNCHANGED saved /\ DOMAIN rows = TaskIds
  BY DEF TasksInv, RowsTyped, TaskMoves
<1>2. rows[i] \in TaskRow /\ rows[i].queue \in Existing
  BY <1>1 DEF TasksInv, RowsTyped
<1>3. r \in TaskRow /\ r.queue = rows[i].queue /\ r.name = rows[i].name
  BY <1>2, QueueAssumption DEF TaskRow
<1> HIDE DEF r
<1>4. \A j \in TaskIds : rows'[j] = IF j = i THEN r ELSE rows[j]
  BY <1>1
<1>5. Existing' = Existing /\ QueuesCounted'
  BY <1>1 DEF TasksInv, QueuesCounted, Existing
<1>6. RowsTyped'
  BY <1>1, <1>2, <1>3, <1>4, <1>5 DEF TasksInv, RowsTyped
<1>7. NamesApart'
  <2> SUFFICES ASSUME NEW j \in TaskIds, NEW k \in TaskIds, rows'[j] # NoTask, rows'[k] # NoTask,
                      rows'[j].queue = rows'[k].queue, rows'[j].name # "", rows'[j].name = rows'[k].name
               PROVE  j = k
    BY DEF NamesApart
  <2>1. \A m \in TaskIds : rows'[m] # NoTask => rows[m] # NoTask /\ rows'[m].queue = rows[m].queue /\ rows'[m].name = rows[m].name
    BY <1>1, <1>3, <1>4
  <2> QED BY <2>1 DEF TasksInv, NamesApart
<1>8. ListerOk'
  <2>1. \A j \in TaskIds \ {i} : rows'[j] = rows[j]
    BY <1>4
  <2> QED BY <1>1, <2>1, PromiseStays
<1> QED BY <1>5, <1>6, <1>7, <1>8 DEF TasksInv

\* Every list has an order without ties.
LEMMA EarlierOrders ==
  ASSUME NEW state \in {"scheduled", "running", "done", "any"}
  PROVE  /\ \A a \in Nat \X TaskIds : ~Earlier(state, a, a)
         /\ \A a, b \in Nat \X TaskIds : a[2] = b[2] \/ Earlier(state, a, b) \/ Earlier(state, b, a)
         /\ \A a, b, c \in Nat \X TaskIds : Earlier(state, a, b) /\ Earlier(state, b, c) => Earlier(state, a, c)
<1>0. \A a \in Nat \X TaskIds : a[1] \in Nat /\ a[2] \in Nat
  BY QueueAssumption DEF TaskIds
<1>1. ASSUME NEW a \in Nat \X TaskIds PROVE ~Earlier(state, a, a)
  <2>1. a[1] \in Nat /\ a[2] \in Nat
    BY <1>0
  <2> QED BY <2>1 DEF Earlier
<1>2. ASSUME NEW a \in Nat \X TaskIds, NEW b \in Nat \X TaskIds
      PROVE  a[2] = b[2] \/ Earlier(state, a, b) \/ Earlier(state, b, a)
  <2>1. a[1] \in Nat /\ a[2] \in Nat /\ b[1] \in Nat /\ b[2] \in Nat
    BY <1>0
  <2> QED BY <2>1 DEF Earlier
<1>3. ASSUME NEW a \in Nat \X TaskIds, NEW b \in Nat \X TaskIds, NEW c \in Nat \X TaskIds,
             Earlier(state, a, b), Earlier(state, b, c)
      PROVE  Earlier(state, a, c)
  <2>1. /\ a[1] \in Nat /\ a[2] \in Nat /\ b[1] \in Nat /\ b[2] \in Nat /\ c[1] \in Nat /\ c[2] \in Nat
    BY <1>0
  <2> QED BY <1>3, <2>1 DEF Earlier
<1> QED BY <1>1, <1>2, <1>3

FoundEarlier(state, S, i) == {j \in S : Earlier(state, Key(j), Key(i))}

\* The tasks of a page that is not the last come before one of them, and what is left after it.
LEMMA TaskPageEnds ==
  ASSUME NEW state \in {"scheduled", "running", "done", "any"}, NEW S \in SUBSET TaskIds,
         \A i \in S : Key(i) \in Nat \X TaskIds, NEW P \in SUBSET S, P # S,
         \A i \in S : i \in P <=> Cardinality(FoundEarlier(state, S, i)) < TaskPage
  PROVE  \E m \in P : /\ \A j \in P : j = m \/ Earlier(state, Key(j), Key(m))
                      /\ \A i \in S : i \in P \/ Earlier(state, Key(m), Key(i))
<1> DEFINE rank == [i \in S |-> Cardinality(FoundEarlier(state, S, i))]
           Goes(i, j) == Earlier(state, Key(i), Key(j))
<1>1. TaskPage \in Nat /\ TaskPage > 0 /\ IsFiniteSet(S)
  <2>1. IsFiniteSet(TaskIds)
    BY QueueAssumption, FS_Interval DEF TaskIds
  <2> QED BY <2>1, FS_Subset, QueueAssumption
<1>2. ASSUME NEW i \in S
      PROVE  IsFiniteSet(FoundEarlier(state, S, i)) /\ Cardinality(FoundEarlier(state, S, i)) \in Nat
  <2>1. FoundEarlier(state, S, i) \subseteq S
    BY DEF FoundEarlier
  <2>2. IsFiniteSet(FoundEarlier(state, S, i))
    BY <1>1, <2>1, FS_Subset
  <2> QED BY <2>2, FS_CardinalityType
<1>3. /\ \A i \in S : ~Goes(i, i)
      /\ \A i, j \in S : i = j \/ Goes(i, j) \/ Goes(j, i)
      /\ \A i, j, k \in S : Goes(i, j) /\ Goes(j, k) => Goes(i, k)
  <2>1. \A i \in S : Key(i)[2] = i
    BY DEF Key
  <2> QED BY <2>1, EarlierOrders
<1>4. ASSUME NEW i \in S, NEW j \in S, Goes(i, j) PROVE rank[i] < rank[j]
  <2> DEFINE A == FoundEarlier(state, S, i)
             B == FoundEarlier(state, S, j)
  <2>1. A \subseteq B /\ i \in B /\ i \notin A
    BY <1>3, <1>4 DEF FoundEarlier
  <2>2. IsFiniteSet(A) /\ IsFiniteSet(B) /\ Cardinality(A) \in Nat /\ Cardinality(B) \in Nat
    BY <1>2
  <2> HIDE DEF A, B
  <2>3. Cardinality(A) <= Cardinality(B) /\ (Cardinality(B) = Cardinality(A) => B = A)
    BY <2>1, <2>2, FS_Subset
  <2>4. Cardinality(A) < Cardinality(B)
    BY <2>1, <2>2, <2>3
  <2> QED BY <2>4 DEF A, B
<1>5. rank \in [S -> Nat] /\ \A i \in S : i \in P <=> rank[i] < TaskPage
  BY <1>2
<1>6. \A i \in S : FoundEarlier(state, S, i) = {} => rank[i] = 0
  BY FS_EmptySet
<1> HIDE DEF rank
<1>7. ASSUME NEW i \in S, \A j \in S : rank[i] <= rank[j] PROVE rank[i] = 0
  <2>1. ASSUME NEW j \in S, Goes(j, i) PROVE FALSE
    <3>1. rank[j] < rank[i] /\ rank[i] <= rank[j] /\ rank[j] \in Nat /\ rank[i] \in Nat
      BY <1>4, <1>5, <1>7, <2>1
    <3> QED BY <3>1
  <2>2. FoundEarlier(state, S, i) = {}
    BY <2>1 DEF FoundEarlier
  <2> QED BY <1>6, <2>2
<1>8. PICK m \in P : (\A j \in P : rank[j] <= rank[m]) /\ \A i \in S : i \notin P => rank[m] < rank[i]
  BY <1>1, <1>5, <1>7, RankedPage
<1> HIDE DEF Goes
<1>9. ASSUME NEW j \in P, j # m PROVE Goes(j, m)
  <2>1. rank[j] <= rank[m] /\ rank[m] \in Nat /\ rank[j] \in Nat /\ m \in S /\ j \in S
    BY <1>5, <1>8
  <2>2. ~(rank[m] < rank[j])
    BY <2>1
  <2>3. ~Goes(m, j)
    BY <1>4, <2>1, <2>2
  <2> QED BY <1>3, <1>9, <2>1, <2>3
<1>10. ASSUME NEW i \in S, i \notin P PROVE Goes(m, i)
  <2>1. rank[m] < rank[i] /\ rank[m] \in Nat /\ rank[i] \in Nat /\ m \in S /\ m # i
    BY <1>5, <1>8, <1>10
  <2>2. ~(rank[i] < rank[m])
    BY <2>1
  <2>3. ~Goes(i, m)
    BY <1>4, <2>1, <2>2
  <2> QED BY <1>3, <2>1, <2>3
<1> QED BY <1>9, <1>10 DEF Goes

LEMMA PageTasks == ASSUME TasksInv, ListTasks PROVE TasksInv'
<1> DEFINE l == lister
           Goes(i, j) == Earlier(l.state, Key(i), Key(j))
           past == Past
           page == {i \in past : Cardinality({j \in past : Goes(j, i)}) < TaskPage}
           last == CHOOSE i \in page : \A j \in page : j = i \/ Goes(j, i)
           n == [step |-> IF page = past THEN "done" ELSE "ask", queue |-> l.queue, state |-> l.state,
                 after |-> IF page = past THEN <<>> ELSE Key(last), kept |-> l.kept,
                 seen |-> l.seen \cup page, twice |-> l.twice \cup (l.seen \cap page)]
<1>1. l.step = "ask" /\ UNCHANGED <<rows, saved>> /\ (lister' = NotListing \/ lister' = n)
  BY Zenon DEF ListTasks
<1>2. RowsTyped' /\ NamesApart' /\ QueuesCounted'
  BY <1>1 DEF TasksInv, RowsTyped, NamesApart, QueuesCounted, Existing
<1>3. CASE lister' = NotListing
  BY <1>2, <1>3 DEF TasksInv, ListerOk
<1>4. CASE lister' = n
  <2>1. l \in Listing /\ Promised(l)
    BY <1>1 DEF TasksInv, ListerOk, NotListing
  <2>2. /\ l.queue \in QueueNames /\ l.state \in {"scheduled", "running", "done", "any"} /\ l.after \in Cursors
        /\ l.kept \subseteq TaskIds /\ l.seen \subseteq TaskIds /\ l.twice \subseteq TaskIds
        /\ l.state \in {"scheduled", "done", "any"}
    BY <2>1 DEF Listing
  <2>3. /\ past \subseteq TaskIds /\ l.kept \subseteq Shows(l.queue, l.state) /\ l.kept \cap l.twice = {}
        /\ \A i \in TaskIds : i \in past <=> i \in Shows(l.queue, l.state) /\ (l.after # <<>> => Earlier(l.state, l.after, Key(i)))
    BY <2>1 DEF Past, Shows, Promised
  <2>4. \A i \in Shows(l.queue, l.state) : Key(i) \in Nat \X TaskIds
    <3>1. ASSUME NEW i \in Shows(l.queue, l.state) PROVE rows[i].at \in Nat /\ i \in TaskIds
      <4>1. i \in TaskIds /\ rows[i].queue \in QueueNames
        BY <2>2 DEF Shows
      <4>2. rows[i] # NoTask
        BY <4>1, QueueAssumption DEF NoTask
      <4> QED BY <4>1, <4>2 DEF TasksInv, RowsTyped, TaskRow
    <3> QED BY <3>1 DEF Key
  <2>5. \A i \in l.kept : IF i \in l.seen THEN l.after # <<>> /\ ~Earlier(l.state, l.after, Key(i))
                          ELSE l.after = <<>> \/ Earlier(l.state, l.after, Key(i))
    BY <1>1, <2>1 DEF Promised
  <2>6. page \subseteq past /\ \A i \in past : i \in page <=> Cardinality(FoundEarlier(l.state, past, i)) < TaskPage
    BY DEF FoundEarlier
  <2>7. /\ n.step = (IF page = past THEN "done" ELSE "ask") /\ n.queue = l.queue /\ n.state = l.state
        /\ n.after = (IF page = past THEN <<>> ELSE Key(last)) /\ n.kept = l.kept
        /\ n.seen = l.seen \cup page /\ n.twice = l.twice \cup (l.seen \cap page)
    OBVIOUS
  <2> HIDE DEF past, page
  <2>8. n.kept \subseteq Shows(n.queue, n.state) /\ n.kept \cap n.twice = {}
    BY <2>3, <2>5, <2>6, <2>7
  <2>9. ASSUME NEW i \in l.kept, i \notin l.seen PROVE i \in past
    BY <2>2, <2>3, <2>5, <2>9
  <2>10. CASE page = past
    <3>1. n \in Listing
      BY <2>2, <2>3, <2>6, <2>10 DEF Listing, Cursors
    <3>2. n.kept \subseteq n.seen /\ n.step = "done"
      BY <2>7, <2>9, <2>10
    <3> QED BY <1>1, <1>2, <1>4, <2>8, <3>1, <3>2 DEF TasksInv, ListerOk, Promised, Shows
  <2>11. CASE page # past
    <3>1. PICK m \in page : (\A j \in page : j = m \/ Goes(j, m)) /\ \A i \in past : i \in page \/ Goes(m, i)
      BY <2>2, <2>3, <2>4, <2>6, <2>11, TaskPageEnds
    <3>2. \A i \in past : Key(i) \in Nat \X TaskIds
      BY <2>3, <2>4
    <3>3. last = m
      <4>1. last \in page /\ \A j \in page : j = last \/ Goes(j, last)
        BY <3>1
      <4>2. m \in past /\ last \in past
        BY <2>6, <4>1
      <4> QED BY <2>2, <3>1, <3>2, <4>1, <4>2, EarlierOrders
    <3>4. n.after = Key(m) /\ Key(m) \in Nat \X TaskIds /\ m \in past /\ Key(m) # <<>> /\ n.step = "ask"
      BY <2>6, <2>7, <2>11, <3>2, <3>3 DEF Key
    <3>5. n \in Listing
      BY <2>2, <2>3, <2>6, <2>7, <2>11, <3>4 DEF Listing, Cursors
    <3>6. ASSUME NEW i \in l.kept, i \in n.seen PROVE ~Earlier(l.state, Key(m), Key(i))
      <4>0. Key(i) \in Nat \X TaskIds
        BY <2>3, <2>4
      <4>1. CASE i \in page
        BY <2>2, <3>1, <3>4, <4>0, <4>1, EarlierOrders
      <4>2. CASE i \in l.seen
        <5>1. l.after # <<>> /\ ~Earlier(l.state, l.after, Key(i)) /\ l.after \in Nat \X TaskIds
          BY <2>2, <2>5, <4>2 DEF Cursors
        <5>2. Earlier(l.state, l.after, Key(m))
          BY <2>3, <3>4, <5>1
        <5> QED BY <2>2, <3>4, <4>0, <5>1, <5>2, EarlierOrders
      <4> QED BY <2>7, <3>6, <4>1, <4>2
    <3>7. ASSUME NEW i \in l.kept, i \notin n.seen PROVE Earlier(l.state, Key(m), Key(i))
      BY <2>7, <2>9, <3>1, <3>7
    <3>8. Promised(n)
      BY <2>7, <2>8, <3>4, <3>6, <3>7 DEF Promised
    <3> QED BY <1>1, <1>2, <1>4, <3>5, <3>8 DEF TasksInv, ListerOk, Promised, Shows, Key
  <2> QED BY <2>10, <2>11
<1> QED BY <1>1, <1>3, <1>4

LEMMA StartTasks ==
  ASSUME TasksInv, NEW q \in QueueNames, NEW state \in {"scheduled", "done", "any"}, StartsList(q, state)
  PROVE  TasksInv'
<1>1. UNCHANGED <<rows, saved>> /\ lister' \in Listing /\ lister'.kept = Shows(q, state) /\ lister'.seen = {}
      /\ lister'.queue = q /\ lister'.state = state /\ lister'.step = "ask" /\ lister'.after = <<>>
  BY DEF StartsList, Listing, Cursors, Shows
<1>2. RowsTyped' /\ NamesApart' /\ QueuesCounted'
  BY <1>1 DEF TasksInv, RowsTyped, NamesApart, QueuesCounted, Existing
<1>3. lister'.twice = {}
  BY DEF StartsList
<1> QED BY <1>1, <1>2, <1>3 DEF TasksInv, ListerOk, Promised, Shows

LEMMA NextTasksInv == AdminInv /\ TasksInv /\ [AdminNext]_adminVars => TasksInv'
<1> SUFFICES ASSUME AdminInv, TasksInv, [AdminNext]_adminVars PROVE TasksInv'
  OBVIOUS
<1>1. CASE UNCHANGED <<rows, lister, saved>>
  BY <1>1, SavesAlone
<1>2. ASSUME NEW s \in Savers, NEW who \in Asking, NEW q \in QueueNames, NEW create \in BOOLEAN, NEW p \in Patches,
             AskSave(s, who, q, create, p)
      PROVE TasksInv'
  BY <1>1, <1>2 DEF AskSave
<1>3. ASSUME NEW s \in Savers, Saves(s) PROVE TasksInv'
  BY <1>1, <1>3, PutTasks DEF Saves, ReadSettings, LookTarget
<1>4. ASSUME NEW q \in QueueNames, DropQueue(q) \/ FailsAgain(q) PROVE TasksInv'
  BY <1>1, <1>4, DropTasks DEF FailsAgain
<1>5. ASSUME NEW t \in targets, DropTarget(t) PROVE TasksInv'
  BY <1>1, <1>5 DEF DropTarget
<1>6. CASE TasksChange
  BY <1>6, AddTasks, MovesTasks DEF TasksChange, States
<1>7. CASE Lists
  <2>1. CASE ListEnds
    BY <2>1 DEF ListEnds, TasksInv, ListerOk, RowsTyped, NamesApart, QueuesCounted, Existing
  <2> QED BY <1>7, <2>1, StartTasks, PageTasks DEF Lists
<1>8. CASE UNCHANGED adminVars
  BY <1>1, <1>8 DEF adminVars
<1> QED BY <1>2, <1>3, <1>4, <1>5, <1>6, <1>7, <1>8 DEF AdminNext

\* A task that is neither moved nor deleted while a client reads its queue's list page by page, in
\* any of the list's orders, is shown to it exactly once, and no two tasks of a queue hold one name.
THEOREM TasksKept == AdminSpec => []TasksHold
<1>1. AdminInit => AdminInv /\ TasksInv
  BY InitAdminInv, InitTasks
<1>2. AdminInv /\ TasksInv /\ [AdminNext]_adminVars => (AdminInv /\ TasksInv)'
  BY NextAdminInv, NextTasksInv
<1>3. AdminInv /\ TasksInv => TasksHold
  <2> SUFFICES ASSUME AdminInv, TasksInv PROVE TasksHold
    OBVIOUS
  <2>1. \A q \in Existing : DOMAIN saved[q] = DOMAIN Defaults
    BY DEF AdminInv, SavedTyped, IsSettings, Existing
  <2>2. TasksListed
    BY DEF TasksInv, ListerOk, NotListing, Promised, TasksListed
  <2> QED BY <2>1, <2>2 DEF TasksHold, AdminTyped, TasksInv, RowsTyped, NamesApart, QueuesCounted
<1> QED BY <1>1, <1>2, <1>3, PTL DEF AdminSpec

-----------------------------------------------------------------------------
(* Schedules *)

\* A tick is under way only after a minute has turned, and a next run that is
\* known came after the first of them.
ScheduleInv ==
    /\ ScheduleTypeOK /\ OneAtATime
    /\ tick.at # "asleep" => uptime >= 1
    /\ tick.at \in {"look", "start"} =>
          tick.due \cup tick.left \subseteq {f \in Fn : tick.sched[f] # {}}
    /\ \A f \in Fn : next[f] # Unseen => next[f] + uptime >= 2

-----------------------------------------------------------------------------
(* Time *)

LEMMA Wrap ==
    ASSUME NEW a \in Minutes
    PROVE  a % Hour = a /\ (a + Hour) % Hour = a
  <1>1. a \in Nat /\ Hour \in Nat /\ a < Hour
    BY ScheduleAssumption DEF Minutes
  <1>. QED  BY <1>1, ScheduleAssumption, SMTT(60)

\* Every schedule has a next occurrence within the hour, and this minute's is
\* not it.
LEMMA SoonestWithin ==
    ASSUME NEW S \in SUBSET Minutes, S # {}, minute \in Minutes
    PROVE  Soonest(S) \in 1..Hour
  <1>. DEFINE T == {k \in 1..Hour : (minute + k) % Hour \in S}
  <1>1. T # {}
    <2>. PICK s \in S : TRUE
      OBVIOUS
    <2>. DEFINE k == IF s > minute THEN s - minute ELSE (s + Hour) - minute
    <2>1. s \in Minutes /\ Hour \in Nat
      BY ScheduleAssumption
    <2>2. k \in 1..Hour /\ (minute + k = s \/ minute + k = s + Hour)
      BY <2>1 DEF Minutes
    <2>3. (minute + k) % Hour = s
      BY <2>1, <2>2, Wrap
    <2>. QED  BY <2>2, <2>3
  <1>2. PICK k \in T : \A i \in T : k <= i
    <2>1. T \in SUBSET Nat
      OBVIOUS
    <2>. HIDE DEF T
    <2>. QED  BY <1>1, <2>1, LeastExists
  <1>3. \A j \in 1..(k - 1) : (minute + j) % Hour \notin S
    <2>. SUFFICES ASSUME NEW j \in 1..(k - 1), (minute + j) % Hour \in S PROVE FALSE
      OBVIOUS
    <2>1. j \in 1..Hour /\ j < k
      BY ScheduleAssumption
    <2>2. j \in T
      BY <2>1
    <2>. QED  BY <1>2, <2>1, <2>2
  <1>4. k \in 1..Hour /\ (minute + k) % Hour \in S
    BY <1>2
  <1>. QED  BY <1>3, <1>4 DEF Soonest

\* What a minute does to a next run.
LEMMA CloserTyped ==
    ASSUME NEW k \in (-Late)..Hour \cup {Unseen}
    PROVE  /\ Closer(k) \in (-Late)..Hour \cup {Unseen}
           /\ Closer(k) = Unseen <=> k = Unseen
           /\ k # Unseen => Closer(k) >= k - 1 /\ Closer(k) >= -Late
  BY ScheduleAssumption DEF Closer, Unseen

-----------------------------------------------------------------------------
LEMMA InitScheduleInv == ScheduleInit => ScheduleInv
  BY ScheduleAssumption DEF ScheduleInit, ScheduleInv, ScheduleTypeOK, OneAtATime, Minutes, Sleeping, Unseen

LEMMA DeployScheduleInv ==
    ASSUME ScheduleInv, NEW f \in Fn, NEW S \in Schedules \cup {{}}, Deploy(f, S)
    PROVE  ScheduleInv'
  BY DEF ScheduleInv, ScheduleTypeOK, OneAtATime, Deploy

LEMMA TickScheduleInv ==
    ASSUME ScheduleInv, SchedulerTick
    PROVE  ScheduleInv'
  <1>1. \A r \in Looking : /\ r.at \in {"look", "start"} /\ r.due \subseteq Fn /\ r.left \subseteq Fn
                           /\ r.sched \in [Fn -> Schedules \cup {{}}]
    BY DEF Looking
  <1>2. Sleeping.at = "asleep" /\ [at |-> "awake"].at = "awake"
    BY DEF Sleeping
  <1>3. tick.at \in {"look", "start"} => tick \in Looking
    BY <1>2 DEF ScheduleInv, ScheduleTypeOK
  <1>4. ASSUME NEW f \in Fn, tick \in Looking, tick.sched[f] # {}
        PROVE  Soonest(tick.sched[f]) \in 1..Hour
    <2>1. tick.sched[f] \in SUBSET Minutes /\ minute \in Minutes
      BY <1>1, <1>4, ScheduleAssumption DEF ScheduleInv, ScheduleTypeOK
    <2>. QED  BY <1>4, <2>1, SoonestWithin
  <1>5. CASE TickBegin
    <2>. DEFINE r == [at |-> "look", sched |-> sched, due |-> {}, left |-> {f \in Fn : sched[f] # {}}]
    <2>1. /\ r \in Looking /\ r.at = "look" /\ r.due = {}
          /\ r.left = {f \in Fn : r.sched[f] # {}}
      BY DEF ScheduleInv, ScheduleTypeOK, Looking
    <2>2. tick' = r /\ UNCHANGED <<minute, uptime, sched, next, running, runs, unwaited, restarts>>
      BY <1>5 DEF TickBegin
    <2>3. tick.at = "awake"
      BY <1>5 DEF TickBegin
    <2>. HIDE DEF r
    <2>. QED  BY <2>1, <2>2, <2>3 DEF ScheduleInv, ScheduleTypeOK, OneAtATime
  <1>6. CASE \E f \in Fn : Look(f)
    <2>. PICK f \in Fn : Look(f)
      BY <1>6
    <2>1. tick.at = "look" /\ tick \in Looking /\ f \in tick.left /\ tick.sched[f] # {} /\ uptime >= 1
      BY <1>3 DEF Look, ScheduleInv
    <2>. DEFINE nx == IF next[f] = Unseen THEN Soonest(tick.sched[f]) ELSE next[f]
                du == IF next[f] <= 0 /\ f \notin running THEN tick.due \cup {f} ELSE tick.due
    <2>2. Soonest(tick.sched[f]) \in 1..Hour
      BY <1>4, <2>1
    <2>3. next[f] \in (-Late)..Hour \cup {Unseen} /\ uptime \in Nat
      BY ScheduleAssumption DEF ScheduleInv, ScheduleTypeOK
    <2>4. /\ nx \in (-Late)..Hour \cup {Unseen} /\ nx # Unseen /\ nx + uptime >= 2
      BY <2>1, <2>2, <2>3, ScheduleAssumption DEF ScheduleInv, Unseen
    <2>5. du \subseteq tick.due \cup {f} /\ du \subseteq Fn
      BY <1>1, <2>1
    <2>6. tick' = [tick EXCEPT !.left = @ \ {f}, !.due = du]
      BY DEF Look
    <2>7. /\ tick' \in Looking /\ tick'.at = "look" /\ tick'.due = du
          /\ tick'.left = tick.left \ {f} /\ tick'.sched = tick.sched
      BY <1>1, <2>1, <2>5, <2>6 DEF Looking
    <2>8. next' = [next EXCEPT ![f] = nx] /\ UNCHANGED <<minute, uptime, sched, running, runs, unwaited, restarts>>
      BY DEF Look
    <2>. HIDE DEF nx, du
    <2>9. ScheduleTypeOK' /\ OneAtATime'
      BY <2>4, <2>7, <2>8 DEF ScheduleInv, ScheduleTypeOK, OneAtATime
    <2>10. tick'.due \cup tick'.left \subseteq {g \in Fn : tick'.sched[g] # {}}
      BY <2>1, <2>5, <2>7 DEF ScheduleInv
    <2>11. \A g \in Fn : next'[g] # Unseen => next'[g] + uptime' >= 2
      BY <2>4, <2>8 DEF ScheduleInv, ScheduleTypeOK
    <2>. QED  BY <2>1, <2>7, <2>8, <2>9, <2>10, <2>11 DEF ScheduleInv
  <1>7. CASE \E T \in SUBSET Fn : Sort(T)
    <2>. PICK T \in SUBSET Fn : Sort(T)
      BY <1>7
    <2>1. tick.at = "look" /\ tick \in Looking /\ tick.left = {} /\ T \subseteq tick.due /\ uptime >= 1
      BY <1>3 DEF Sort, First, ScheduleInv
    <2>2. tick' = [tick EXCEPT !.at = "start", !.due = T]
          /\ UNCHANGED <<minute, uptime, sched, next, running, runs, unwaited, restarts>>
      BY DEF Sort
    <2>3. /\ tick' \in Looking /\ tick'.at = "start" /\ tick'.due = T
          /\ tick'.left = {} /\ tick'.sched = tick.sched
      BY <2>1, <2>2 DEF Looking
    <2>. QED  BY <2>1, <2>2, <2>3 DEF ScheduleInv, ScheduleTypeOK, OneAtATime
  <1>8. CASE \E f \in Fn : Start(f)
    <2>. PICK f \in Fn : Start(f)
      BY <1>8
    <2>1. tick.at = "start" /\ tick \in Looking /\ f \in tick.due /\ tick.sched[f] # {} /\ uptime >= 1
      BY <1>3 DEF Start, ScheduleInv
    <2>2. Soonest(tick.sched[f]) \in 1..Hour
      BY <1>4, <2>1
    <2>3. /\ tick' = [tick EXCEPT !.due = @ \ {f}]
          /\ UNCHANGED <<minute, uptime, sched, unwaited, restarts>>
      BY DEF Start
    <2>4. /\ tick' \in Looking /\ tick'.at = "start" /\ tick'.due = tick.due \ {f}
          /\ tick'.left = tick.left /\ tick'.sched = tick.sched
      BY <1>1, <2>1, <2>3 DEF Looking
    <2>. DEFINE nx == Soonest(tick.sched[f])
    <2>5. nx \in (-Late)..Hour /\ nx # Unseen /\ nx >= 1
      BY <2>2, ScheduleAssumption DEF Unseen
    <2>6. \/ /\ MayClaim(f) /\ next' = [next EXCEPT ![f] = nx]
             /\ running' = running \cup {f} /\ runs' = [runs EXCEPT ![f] = @ + 1]
          \/ UNCHANGED <<next, running, runs>>
      BY DEF Start
    <2>. HIDE DEF nx
    <2>7. ScheduleTypeOK'
      BY <2>3, <2>4, <2>5, <2>6 DEF ScheduleInv, ScheduleTypeOK
    <2>8. OneAtATime'
      BY <2>6 DEF ScheduleInv, ScheduleTypeOK, OneAtATime, MayClaim
    <2>9. \A g \in Fn : next'[g] # Unseen => next'[g] + uptime' >= 2
      BY <2>1, <2>3, <2>5, <2>6 DEF ScheduleInv, ScheduleTypeOK
    <2>10. tick'.due \cup tick'.left \subseteq {g \in Fn : tick'.sched[g] # {}}
      BY <2>1, <2>4 DEF ScheduleInv
    <2>. QED  BY <2>1, <2>3, <2>4, <2>7, <2>8, <2>9, <2>10 DEF ScheduleInv
  <1>9. CASE TickEnd
    BY <1>2, <1>9 DEF TickEnd, ScheduleInv, ScheduleTypeOK, OneAtATime
  <1>. QED  BY <1>5, <1>6, <1>7, <1>8, <1>9 DEF SchedulerTick

\* A run keeps its lease until it ends, waited for or not.
LEMMA RunsScheduleInv ==
    ASSUME ScheduleInv, NEW f \in Fn, Timeout(f) \/ Finish(f)
    PROVE  ScheduleInv'
  <1>1. CASE Timeout(f)
    BY <1>1 DEF ScheduleInv, ScheduleTypeOK, OneAtATime, Timeout
  <1>2. CASE Finish(f)
    <2>1. f \in running /\ runs[f] = 1
      BY <1>2 DEF ScheduleInv, OneAtATime, Finish
    <2>. QED  BY <1>2, <2>1 DEF ScheduleInv, ScheduleTypeOK, OneAtATime, Finish
  <1>. QED  BY <1>1, <1>2

LEMMA MinuteScheduleInv ==
    ASSUME ScheduleInv, Minute
    PROVE  ScheduleInv'
  <1>1. Hour \in Nat \ {0} /\ minute \in 0..(Hour - 1) /\ Late \in Nat /\ uptime \in 0..(Late + 2)
    BY ScheduleAssumption DEF ScheduleInv, ScheduleTypeOK, Minutes
  <1>2. (minute + 1) % Hour \in Minutes
    BY <1>1 DEF Minutes
  <1>3. uptime' \in 0..(Late + 2) /\ uptime' >= 1 /\ (uptime' = uptime + 1 \/ uptime' = Late + 2)
    BY <1>1 DEF Minute
  <1>4. \A f \in Fn : /\ next'[f] \in (-Late)..Hour \cup {Unseen}
                      /\ next'[f] = Unseen <=> next[f] = Unseen
                      /\ next[f] # Unseen => next'[f] >= next[f] - 1 /\ next'[f] >= -Late
    BY CloserTyped DEF Minute, ScheduleInv, ScheduleTypeOK
  <1>5. \A f \in Fn : next'[f] # Unseen => next'[f] + uptime' >= 2
    <2>. SUFFICES ASSUME NEW f \in Fn, next'[f] # Unseen PROVE next'[f] + uptime' >= 2
      OBVIOUS
    <2>1. /\ next[f] \in (-Late)..Hour /\ next'[f] \in (-Late)..Hour
          /\ next'[f] >= next[f] - 1 /\ next[f] + uptime >= 2
      BY <1>4 DEF ScheduleInv, ScheduleTypeOK
    <2>. QED  BY <1>1, <1>3, <2>1
  <1>6. next' \in [Fn -> (-Late)..Hour \cup {Unseen}]
    BY <1>4 DEF Minute
  <1>. QED  BY <1>2, <1>3, <1>5, <1>6 DEF Minute, ScheduleInv, ScheduleTypeOK, OneAtATime

LEMMA RestartScheduleInv ==
    ASSUME ScheduleInv, SchedulerRestart
    PROVE  ScheduleInv'
  BY ScheduleAssumption DEF ScheduleInv, ScheduleTypeOK, OneAtATime, SchedulerRestart, Sleeping

LEMMA NextScheduleInv == ScheduleInv /\ [ScheduleNext]_scheduleVars => ScheduleInv'
  <1>. SUFFICES ASSUME ScheduleInv, [ScheduleNext]_scheduleVars PROVE ScheduleInv'
    OBVIOUS
  <1>1. CASE UNCHANGED scheduleVars
    BY <1>1 DEF scheduleVars, ScheduleInv, ScheduleTypeOK, OneAtATime
  <1>. QED  BY <1>1, DeployScheduleInv, TickScheduleInv, RunsScheduleInv, MinuteScheduleInv, RestartScheduleInv DEF ScheduleNext

LEMMA SpecScheduleInv == ScheduleSpec => []ScheduleInv
  BY InitScheduleInv, NextScheduleInv, PTL DEF ScheduleSpec

\* A function never runs beside itself on a schedule, and its lease is held
\* exactly while it runs, however long that takes.
THEOREM RunsOneAtATime == ScheduleSpec => []OneAtATime
  <1>1. ScheduleInv => OneAtATime
    BY DEF ScheduleInv
  <1>. QED  BY <1>1, SpecScheduleInv, PTL

-----------------------------------------------------------------------------
\* Only a tick that claims a function starts it.
LEMMA StartsClaimed ==
    ASSUME ScheduleInv, [ScheduleNext]_scheduleVars, NEW f \in Fn, Starts(f)
    PROVE  /\ MayClaim(f) /\ next[f] # Unseen
           /\ next'[f] >= 1
  <1>1. runs \in [Fn -> Nat] /\ next \in [Fn -> (-Late)..Hour \cup {Unseen}]
    BY DEF ScheduleInv, ScheduleTypeOK
  <1>2. CASE \E g \in Fn : Start(g)
    <2>. PICK g \in Fn : Start(g)
      BY <1>2
    <2>1. g = f /\ MayClaim(f) /\ next' = [next EXCEPT ![f] = Soonest(tick.sched[f])]
      BY <1>1 DEF Starts, Start
    <2>2. tick \in Looking /\ tick.sched[f] # {} /\ f \in Fn
      BY <2>1 DEF ScheduleInv, ScheduleTypeOK, Start, Sleeping
    <2>3. tick.sched[f] \in SUBSET Minutes /\ minute \in Minutes
      BY <2>2, ScheduleAssumption DEF ScheduleInv, ScheduleTypeOK, Looking
    <2>4. Soonest(tick.sched[f]) \in 1..Hour
      BY <2>2, <2>3, SoonestWithin
    <2>5. next'[f] \in 1..Hour
      BY <1>1, <2>1, <2>4
    <2>. QED  BY <2>1, <2>5, ScheduleAssumption DEF MayClaim, Unseen
  <1>3. CASE UNCHANGED runs
    BY <1>1, <1>3 DEF Starts
  <1>4. CASE \E g \in Fn : Finish(g)
    BY <1>1, <1>4 DEF Starts, Finish
  <1>5. CASE SchedulerRestart
    BY <1>1, <1>5 DEF Starts, SchedulerRestart
  <1>. QED
    BY <1>2, <1>3, <1>4, <1>5
    DEF ScheduleNext, SchedulerTick, Deploy, TickBegin, Look, Sort, TickEnd, Timeout, Minute, scheduleVars

\* Starting the process runs nothing by itself: a run answers a time later than
\* the scheduler's first tick.
THEOREM NothingRunsOnStartup == ScheduleSpec => NotOnStartup
  <1>1. ScheduleInv /\ [ScheduleNext]_scheduleVars => [\A f \in Fn : Starts(f) => 1 - next[f] < uptime]_scheduleVars
    <2>. SUFFICES ASSUME ScheduleInv, [ScheduleNext]_scheduleVars, NEW f \in Fn, Starts(f) PROVE 1 - next[f] < uptime
      OBVIOUS
    <2>1. next[f] # Unseen /\ next[f] \in (-Late)..Hour \cup {Unseen} /\ uptime \in 0..(Late + 2)
      BY StartsClaimed DEF ScheduleInv, ScheduleTypeOK
    <2>2. next[f] + uptime >= 2
      BY <2>1 DEF ScheduleInv
    <2>. QED  BY <2>1, <2>2, ScheduleAssumption
  <1>. QED  BY <1>1, SpecScheduleInv, PTL DEF ScheduleSpec, NotOnStartup

\* A run answers all that was missed: the next one lies ahead.
THEOREM NoneIsQueued == ScheduleSpec => MissedAreSkipped
  <1>1. ScheduleInv /\ [ScheduleNext]_scheduleVars => [\A f \in Fn : Starts(f) => next'[f] > 0]_scheduleVars
    <2>. SUFFICES ASSUME ScheduleInv, [ScheduleNext]_scheduleVars, NEW f \in Fn, Starts(f) PROVE next'[f] > 0
      OBVIOUS
    <2>1. next'[f] >= 1 /\ next'[f] \in (-Late)..Hour \cup {Unseen}
      BY StartsClaimed, NextScheduleInv DEF ScheduleInv, ScheduleTypeOK
    <2>. QED  BY <2>1, ScheduleAssumption DEF Unseen
  <1>. QED  BY <1>1, SpecScheduleInv, PTL DEF ScheduleSpec, MissedAreSkipped

\* Leases and runs agree, for any functions, schedules and cap on a tick.
THEOREM RunsKept == ScheduleSpec => []RunsHold
  <1>1. ScheduleInv => RunsHold
    BY DEF ScheduleInv, RunsHold
  <1>. QED  BY <1>1, SpecScheduleInv, PTL

\* Neither a restart nor a long run makes a function run for a time gone by.
THEOREM NoneForTimeGone == ScheduleSpec => OnlyNewRuns
  BY NothingRunsOnStartup, NoneIsQueued, PTL DEF OnlyNewRuns

=============================================================================
