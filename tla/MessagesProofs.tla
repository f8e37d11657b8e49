---------------------------- MODULE MessagesProofs ----------------------------
(***************************************************************************)
(* Proofs about the mailbox, for any messages, routes, retries, clocks and *)
(* bounds: however a message's own goroutine, the loop, a replay and a     *)
(* removal go around each other, what is claimed is what is being run.     *)
(* However SMTP commands, injected mail and sends follow each other, only  *)
(* admitted mail is stored and the day's counters cover what is held.      *)
(* Whatever is stored and removed between two pages, a reader steps over   *)
(* nothing.  However often a client's socket is lost and dialled again,    *)
(* the server comes to have the channels it asked for.                     *)
(***************************************************************************)
EXTENDS MailDelivery, MailIntake, MailPolling, ChannelSocket, FiniteSetTheorems, WellFoundedInduction, TLAPS

-----------------------------------------------------------------------------
(* What goroutines and tables hold *)

Statuses == {"pending", "ok", "error"}
WorkPlaces == {"idle", "filed", "stored", "trying", "removing", "expiring", "redriving", "replaying", "reset"}
\* An attempt is left as long as the delivery is pending.
Tries == [action : RouteActions, attempts : 0 .. (MaxDeliveryAttempts - 1)]
Dues == [mail : MailIds, action : RouteActions, attempts : 0 .. (MaxDeliveryAttempts - 1)]
Results == {r \in [action : RouteActions, attempts : 0 .. MaxDeliveryAttempts, next : Int, status : Statuses] :
              r.status = "pending" => r.attempts < MaxDeliveryAttempts}
DeliveryRows == {r \in [status : Statuses, attempts : 0 .. MaxDeliveryAttempts, next : Int] :
                   r.status = "pending" => r.attempts < MaxDeliveryAttempts}
Places == {D \in SUBSET Nat : IsFiniteSet(D)}
Lists == UNION {[D -> Tries] : D \in Places}
Work == [at : WorkPlaces, mail : 0 .. MaxMails, since : 0 .. MaxMailClock, todo : Lists, results : Seq(Results),
         mine : SUBSET RouteActions, ids : SUBSET MailIds, due : {S \in SUBSET Dues : IsFiniteSet(S)}]

Holds(d) == Keys(d.mail, d.mine)

\* Claims are held while trying, and whoever works on a message works on one there is.
Busy(d) ==
  /\ d.mine # {} => d.at = "trying"
  /\ d.at \in {"filed", "stored", "trying", "removing", "replaying", "reset"} => d.mail \in MailIds

Desks(o, n) ==
  /\ o \in [MailProcs -> Work] /\ \A p \in MailProcs : Busy(o[p])
  /\ \A i \in MailIds : o[Inline(i)].at # "idle" => i <= n

Shares(I, o) ==
  /\ I = UNION {Holds(o[p]) : p \in MailProcs}
  /\ \A p, q \in MailProcs : p # q => Holds(o[p]) \cap Holds(o[q]) = {}

Table(R) == DOMAIN R \subseteq MailIds \X RouteActions /\ IsFiniteSet(DOMAIN R) /\ \A k \in DOMAIN R : R[k] \in DeliveryRows

MailInv ==
  /\ mailNow \in 0 .. MaxMailClock /\ routed \in RouteChoices /\ taken \in 0 .. MaxMails
  /\ DOMAIN mails \subseteq 1 .. taken /\ Table(rows)
  /\ Desks(doing, taken) /\ Shares(inflight, doing)
  /\ \A k \in DOMAIN mailTasks : mailTasks[k] \in {0, 1}

-----------------------------------------------------------------------------
(* Claims *)

LEMMA SharesSame ==
    ASSUME NEW I, NEW o, DOMAIN o = MailProcs, Shares(I, o), NEW p \in MailProcs, NEW d, Holds(d) = Holds(o[p])
    PROVE  Shares(I, [o EXCEPT ![p] = d])
  <1>. DEFINE v == [o EXCEPT ![p] = d]
  <1>1. \A q \in MailProcs : Holds(v[q]) = Holds(o[q])
    OBVIOUS
  <1>. HIDE DEF v
  <1>. QED  BY <1>1 DEF Shares, v

LEMMA SharesTaken ==
    ASSUME NEW I, NEW o, DOMAIN o = MailProcs, Shares(I, o), NEW p \in MailProcs, NEW d, Holds(o[p]) = {}, Holds(d) \cap I = {}
    PROVE  Shares(I \cup Holds(d), [o EXCEPT ![p] = d])
  <1>. DEFINE v == [o EXCEPT ![p] = d]
  <1>1. Holds(v[p]) = Holds(d) /\ \A q \in MailProcs \ {p} : Holds(v[q]) = Holds(o[q])
    OBVIOUS
  <1>. HIDE DEF v
  <1>2. \A q \in MailProcs : Holds(o[q]) \subseteq I
    BY DEF Shares
  <1>3. I \cup Holds(d) = UNION {Holds(v[q]) : q \in MailProcs}
    BY <1>1 DEF Shares
  <1>4. ASSUME NEW q \in MailProcs, NEW r \in MailProcs, q # r PROVE Holds(v[q]) \cap Holds(v[r]) = {}
    BY <1>1, <1>2, <1>4 DEF Shares
  <1>. QED  BY <1>3, <1>4 DEF Shares, v

LEMMA SharesReleased ==
    ASSUME NEW I, NEW o, DOMAIN o = MailProcs, Shares(I, o), NEW p \in MailProcs, NEW d, Holds(d) = {}
    PROVE  Shares(I \ Holds(o[p]), [o EXCEPT ![p] = d])
  <1>. DEFINE v == [o EXCEPT ![p] = d]
  <1>1. Holds(v[p]) = {} /\ \A q \in MailProcs \ {p} : Holds(v[q]) = Holds(o[q])
    OBVIOUS
  <1>. HIDE DEF v
  <1>2. I \ Holds(o[p]) = UNION {Holds(v[q]) : q \in MailProcs}
    BY <1>1 DEF Shares
  <1>3. ASSUME NEW q \in MailProcs, NEW r \in MailProcs, q # r PROVE Holds(v[q]) \cap Holds(v[r]) = {}
    BY <1>1, <1>3 DEF Shares
  <1>. QED  BY <1>2, <1>3 DEF Shares, v

LEMMA NoneHeld ==
    ASSUME NEW d, d.mine = {}
    PROVE  Holds(d) = {}
  BY DEF Holds, Keys

LEMMA DesksStep ==
    ASSUME NEW o, NEW n, Desks(o, n), NEW p \in MailProcs, NEW d \in Work, Busy(d),
           d.at # "idle" => o[p].at # "idle" \/ \A i \in MailIds : p = Inline(i) => i <= n
    PROVE  Desks([o EXCEPT ![p] = d], n)
  <1>. DEFINE v == [o EXCEPT ![p] = d]
  <1>1. v \in [MailProcs -> Work] /\ v[p] = d /\ \A q \in MailProcs \ {p} : v[q] = o[q]
    BY DEF Desks
  <1>2. \A i \in MailIds : Inline(i) \in MailProcs
    BY DEF MailProcs
  <1>. HIDE DEF v
  <1>3. \A i \in MailIds : v[Inline(i)].at # "idle" => i <= n
    BY <1>1, <1>2 DEF Desks
  <1>4. \A q \in MailProcs : Busy(v[q])
    BY <1>1 DEF Desks
  <1>. QED  BY <1>1, <1>3, <1>4 DEF Desks, v

-----------------------------------------------------------------------------
(* Lists and tables *)

LEMMA ImageFinite ==
    ASSUME NEW S, IsFiniteSet(S), NEW f, DOMAIN f = S
    PROVE  IsFiniteSet({f[x] : x \in S})
  <1>. DEFINE T == {f[x] : x \in S}
              g == [x \in S |-> f[x]]
  <1>1. g \in Surjection(S, T)
    BY DEF Surjection
  <1>. QED  BY <1>1, FS_Surjection

LEMMA ListMade ==
    ASSUME NEW D \in Places, NEW f \in [D -> Tries]
    PROVE  f \in Lists
  BY DEF Lists

LEMMA ListFacts ==
    ASSUME NEW f \in Lists
    PROVE  /\ DOMAIN f \in Places /\ IsFiniteSet(DOMAIN f) /\ f \in [DOMAIN f -> Tries]
           /\ \A k \in DOMAIN f : f[k] \in Tries /\ f[k].action \in RouteActions
  <1>1. PICK D \in Places : f \in [D -> Tries]
    BY DEF Lists
  <1>2. DOMAIN f = D
    BY <1>1
  <1>. QED  BY <1>1, <1>2 DEF Places, Tries

LEMMA ListCut ==
    ASSUME NEW f \in Lists, NEW D \in SUBSET (DOMAIN f)
    PROVE  [k \in D |-> f[k]] \in Lists
  <1>1. D \in Places
    BY ListFacts, FS_Subset DEF Places
  <1>2. [k \in D |-> f[k]] \in [D -> Tries]
    BY ListFacts
  <1>. QED  BY <1>1, <1>2, ListMade

LEMMA AttemptsThereAre == MaxDeliveryAttempts \in Nat /\ 0 \in 0 .. (MaxDeliveryAttempts - 1)
  <1>1. Len(RetryAfter) \in Nat /\ Len(RetryAfter) > 0
    BY MailDeliveryAssumption
  <1>. QED  BY <1>1 DEF MaxDeliveryAttempts

LEMMA UntriedList ==
    ASSUME NEW r \in RouteChoices
    PROVE  Untried(r) \in Lists
  <1>1. r \in Seq(ToSet(r)) /\ ToSet(r) \subseteq RouteActions
    BY MailDeliveryAssumption DEF RouteActions
  <1>2. Len(r) \in Nat /\ DOMAIN r = 1 .. Len(r) /\ \A k \in DOMAIN r : r[k] \in RouteActions
    BY <1>1
  <1>3. IsFiniteSet(1 .. Len(r))
    BY <1>2, FS_Interval
  <1>4. DOMAIN r \in Places
    BY <1>2, <1>3 DEF Places
  <1>5. Untried(r) \in [DOMAIN r -> Tries]
    BY <1>2, AttemptsThereAre DEF Untried, Tries
  <1>. QED  BY <1>4, <1>5, ListMade

LEMMA NoList == <<>> \in Lists
  <1>1. {} \in Places
    BY FS_EmptySet DEF Places
  <1>2. <<>> \in [{} -> Tries]
    OBVIOUS
  <1>. QED  BY <1>1, <1>2, ListMade

LEMMA SetListed ==
    ASSUME NEW S \in SUBSET Tries, IsFiniteSet(S)
    PROVE  SetToSeq(S) \in Lists
  <1>. DEFINE n == Cardinality(S)
  <1>1. n \in Nat /\ ExistsBijection(1 .. n, S)
    BY FS_CardinalityType
  <1>. HIDE DEF n
  <1>2. \E f \in [1 .. n -> S] : IsInjective(f)
    BY <1>1 DEF ExistsBijection, Bijection, Injection, IsInjective
  <1>3. SetToSeq(S) \in [1 .. n -> S]
    BY <1>2 DEF SetToSeq, n
  <1>4. 1 .. n \in Places
    BY <1>1, FS_Interval DEF Places
  <1>5. SetToSeq(S) \in [1 .. n -> Tries]
    BY <1>3
  <1>. QED  BY <1>4, <1>5, ListMade

LEMMA TableWritten ==
    ASSUME NEW R, Table(R), NEW k, NEW r \in DeliveryRows
    PROVE  k \in DOMAIN R => Table([R EXCEPT ![k] = r])
  BY DEF Table

LEMMA TableCut ==
    ASSUME NEW R, Table(R), NEW S
    PROVE  Table(Dropped(R, S))
  <1>1. DOMAIN R \ S \in SUBSET (DOMAIN R)
    OBVIOUS
  <1>2. IsFiniteSet(DOMAIN R \ S)
    BY <1>1, FS_Subset DEF Table
  <1>. QED  BY <1>2 DEF Table, Dropped

LEMMA FreshTable ==
    ASSUME NEW i \in MailIds, NEW f \in Lists, NEW at \in Int
    PROVE  Table(FreshRows(i, ActionsOf(f), at))
  <1>. DEFINE g == [k \in DOMAIN f |-> <<i, f[k].action>>]
              R == FreshRows(i, ActionsOf(f), at)
  <1>1. ToSet(ActionsOf(f)) = {f[k].action : k \in DOMAIN f}
    BY DEF ToSet, ActionsOf
  <1>2. DOMAIN R = {g[k] : k \in DOMAIN f}
    BY <1>1 DEF FreshRows
  <1>3. IsFiniteSet({g[k] : k \in DOMAIN f})
    BY ListFacts, ImageFinite
  <1>4. DOMAIN R \subseteq MailIds \X RouteActions
    BY <1>2, ListFacts
  <1>5. \A k \in DOMAIN R : R[k] \in DeliveryRows
    BY AttemptsThereAre DEF FreshRows, DeliveryRows, Statuses
  <1>. HIDE DEF g, R
  <1>. QED  BY <1>2, <1>3, <1>4, <1>5 DEF Table, R

LEMMA TableJoined ==
    ASSUME NEW R, Table(R), NEW Q, Table(Q)
    PROVE  Table(With(R, Q))
  <1>1. IsFiniteSet(DOMAIN R \cup DOMAIN Q)
    BY FS_Union DEF Table
  <1>. QED  BY <1>1 DEF Table, With

LEMMA ResultTyped ==
    ASSUME NEW d \in Tries, NEW outcome \in Outcomes, NEW now \in 0 .. MaxMailClock
    PROVE  Result(d, d.attempts + 1, outcome, now) \in Results
  <1>. DEFINE n == d.attempts + 1
              next == IF outcome = "failed" THEN RetryAt(n, now) ELSE 0
              status == CASE outcome = "ok" -> "ok" [] next = 0 -> "error" [] OTHER -> "pending"
  <1>1. n \in 1 .. MaxDeliveryAttempts /\ d.action \in RouteActions
    BY AttemptsThereAre DEF Tries
  <1>2. RetryAt(n, now) \in Int /\ (RetryAt(n, now) # 0 => n < MaxDeliveryAttempts)
    <2>1. n < MaxDeliveryAttempts => n \in 1 .. Len(RetryAfter)
      BY <1>1, MailDeliveryAssumption DEF MaxDeliveryAttempts
    <2>2. n < MaxDeliveryAttempts => RetryAfter[n] \in Nat
      BY <2>1, MailDeliveryAssumption
    <2>3. MaxMailClock \in Nat
      BY MailDeliveryAssumption
    <2>. HIDE DEF n
    <2>. QED  BY <1>1, <2>2, <2>3, AttemptsThereAre DEF RetryAt, Soon
  <1>. HIDE DEF n
  <1>3. next \in Int /\ status \in Statuses /\ (status = "pending" => n < MaxDeliveryAttempts)
    BY <1>2 DEF Statuses, Outcomes
  <1>4. Result(d, n, outcome, now) = [action |-> d.action, attempts |-> n, next |-> next, status |-> status]
    BY DEF Result
  <1>5. n \in 0 .. MaxDeliveryAttempts
    BY <1>1
  <1>. HIDE DEF next, status
  <1>6. Result(d, n, outcome, now) \in Results
    BY <1>1, <1>3, <1>4, <1>5 DEF Results
  <1>. QED  BY <1>6 DEF n

-----------------------------------------------------------------------------
(* One attempt *)

LEMMA RestingWork == Resting \in Work /\ Busy(Resting) /\ Resting.mine = {} /\ Resting.at = "idle"
  <1>1. 0 \in 0 .. MaxMails /\ 0 \in 0 .. MaxMailClock
    BY MailDeliveryAssumption
  <1>2. IsFiniteSet({})
    BY FS_EmptySet
  <1>. QED  BY <1>1, <1>2, NoList DEF Resting, Work, Busy, WorkPlaces

LEMMA InitMailInv == MailInit => MailInv
  <1>. SUFFICES ASSUME MailInit PROVE MailInv
    OBVIOUS
  <1>. USE DEF MailInit
  <1>1. Table(rows)
    BY FS_EmptySet DEF Table
  <1>2. \A p \in MailProcs : doing[p] = Resting
    OBVIOUS
  <1>3. \A i \in MailIds : Inline(i) \in MailProcs
    BY DEF MailProcs
  <1>4. Desks(doing, taken)
    BY <1>2, <1>3, RestingWork DEF Desks
  <1>5. Shares(inflight, doing)
    BY <1>2, RestingWork, NoneHeld DEF Shares
  <1>. QED  BY <1>1, <1>4, <1>5, MailDeliveryAssumption DEF MailInv

LEMMA AttemptMailInv ==
    ASSUME MailInv, NEW p \in MailProcs, Attempt(p)
    PROVE  MailInv'
  <1>1. PICK k \in DOMAIN doing[p].todo, outcome \in Outcomes :
          LET d == doing[p].todo[k] IN
            /\ doing' = [doing EXCEPT ![p].todo = Dropped(@, {k}),
                          ![p].results = Append(@, Result(d, d.attempts + 1, outcome, doing[p].since))]
            /\ mailTasks' = Enqueued(doing[p].mail, d.action, outcome)
    BY DEF Attempt
  <1>2. UNCHANGED <<mailNow, routed, mails, rows, inflight, taken>>
    BY DEF Attempt
  <1>. DEFINE w == doing[p]
              e == w.todo[k]
              new == Result(e, e.attempts + 1, outcome, w.since)
              left == Dropped(w.todo, {k})
              d == [w EXCEPT !.todo = left, !.results = Append(w.results, new)]
  <1>3. Desks(doing, taken) /\ doing \in [MailProcs -> Work] /\ w \in Work /\ Busy(w)
    BY DEF MailInv, Desks
  <1>4. w.todo \in Lists /\ w.results \in Seq(Results) /\ w.since \in 0 .. MaxMailClock
    BY <1>3 DEF Work
  <1>5. e \in Tries
    BY <1>4, ListFacts
  <1>6. new \in Results
    BY <1>4, <1>5, ResultTyped
  <1>7. left \in Lists
    BY <1>4, ListCut DEF Dropped
  <1>8. doing' = [doing EXCEPT ![p] = d]
    BY <1>1
  <1>. HIDE DEF new, left, e
  <1>9. Append(w.results, new) \in Seq(Results)
    BY <1>4, <1>6
  <1>10. d \in Work /\ d.at = w.at /\ d.mail = w.mail /\ d.mine = w.mine
    BY <1>3, <1>7, <1>9 DEF Work
  <1>. HIDE DEF d, w
  <1>11. Busy(d) /\ Holds(d) = Holds(doing[p])
    BY <1>3, <1>10 DEF Busy, Holds, w
  <1>12. Desks(doing', taken')
    BY <1>2, <1>3, <1>8, <1>10, <1>11, DesksStep DEF w
  <1>13. Shares(inflight', doing')
    BY <1>2, <1>3, <1>8, <1>11, SharesSame DEF MailInv
  <1>14. \A j \in DOMAIN mailTasks' : mailTasks'[j] \in {0, 1}
    BY <1>1 DEF MailInv, Enqueued, TasksWith
  <1>. QED  BY <1>2, <1>12, <1>13, <1>14 DEF MailInv

LEMMA RecordMailInv ==
    ASSUME MailInv, NEW p \in MailProcs, Record(p)
    PROVE  MailInv'
  <1>. DEFINE w == doing[p]
              r == Head(w.results)
              k == <<w.mail, r.action>>
              row == [status |-> r.status, attempts |-> r.attempts, next |-> r.next]
              d == [w EXCEPT !.results = Tail(w.results)]
  <1>1. /\ rows' = IF k \notin DOMAIN rows THEN rows ELSE [rows EXCEPT ![k] = row]
        /\ doing' = [doing EXCEPT ![p] = d] /\ w.results # <<>>
        /\ UNCHANGED <<mailNow, routed, mails, inflight, mailTasks, taken>>
    BY DEF Record
  <1>2. Desks(doing, taken) /\ doing \in [MailProcs -> Work] /\ w \in Work /\ Busy(w)
    BY DEF MailInv, Desks
  <1>3. w.results \in Seq(Results)
    BY <1>2 DEF Work
  <1>4. r \in Results /\ Tail(w.results) \in Seq(Results)
    BY <1>1, <1>3
  <1>5. d \in Work /\ d.at = w.at /\ d.mail = w.mail /\ d.mine = w.mine
    BY <1>2, <1>4 DEF Work
  <1>. HIDE DEF r
  <1>6. row \in DeliveryRows
    BY <1>4 DEF Results, DeliveryRows
  <1>. HIDE DEF row, k, d
  <1>7. Table(rows')
    BY <1>1, <1>6, TableWritten DEF MailInv
  <1>8. Busy(d) /\ Holds(d) = Holds(doing[p])
    BY <1>2, <1>5 DEF Busy, Holds
  <1>9. Desks(doing', taken')
    BY <1>1, <1>2, <1>5, <1>8, DesksStep
  <1>10. Shares(inflight', doing')
    BY <1>1, <1>2, <1>8, SharesSame DEF MailInv
  <1>. QED  BY <1>1, <1>7, <1>9, <1>10 DEF MailInv

LEMMA ReleaseMailInv ==
    ASSUME MailInv, NEW p \in MailProcs, Release(p)
    PROVE  MailInv'
  <1>. DEFINE w == doing[p]
              d == IF p = Loop THEN [Resting EXCEPT !.at = "redriving", !.since = w.since, !.due = w.due] ELSE Resting
  <1>1. /\ w.at = "trying" /\ inflight' = inflight \ Holds(w) /\ doing' = [doing EXCEPT ![p] = d]
        /\ UNCHANGED <<mailNow, routed, mails, rows, mailTasks, taken>>
    BY DEF Release, Holds
  <1>2. Desks(doing, taken) /\ doing \in [MailProcs -> Work] /\ w \in Work
    BY DEF MailInv, Desks
  <1>3. d \in Work /\ Busy(d) /\ d.mine = {}
    BY <1>2, RestingWork DEF Work, Busy, WorkPlaces, Resting
  <1>. HIDE DEF d
  <1>4. Desks(doing', taken')
    BY <1>1, <1>2, <1>3, DesksStep
  <1>5. Holds(d) = {}
    BY <1>3, NoneHeld
  <1>6. Shares(inflight', doing')
    BY <1>1, <1>2, <1>5, SharesReleased DEF MailInv
  <1>. QED  BY <1>1, <1>4, <1>6 DEF MailInv

-----------------------------------------------------------------------------
\* Who starts claims only what nobody has.
LEMMA StartsFits ==
    ASSUME MailInv, NEW p \in MailProcs, doing[p].mine = {}, doing[p].at # "idle", NEW i \in MailIds,
           NEW list \in Lists, NEW now \in 0 .. MaxMailClock, Starts(p, i, list, now), taken' = taken
    PROVE  Desks(doing', taken') /\ Shares(inflight', doing')
  <1>. DEFINE w == doing[p]
              mine == Claimable(i, {list[k].action : k \in DOMAIN list})
              todo == Claimed(list, mine)
              d == [w EXCEPT !.at = "trying", !.mail = i, !.since = now, !.mine = mine, !.todo = todo]
  <1>1. inflight' = inflight \cup Keys(i, mine) /\ doing' = [doing EXCEPT ![p] = d]
    BY DEF Starts
  <1>2. Desks(doing, taken) /\ doing \in [MailProcs -> Work] /\ w \in Work
    BY DEF MailInv, Desks
  <1>3. mine \subseteq RouteActions /\ Keys(i, mine) \cap inflight = {}
    BY ListFacts DEF Claimable, Keys
  <1>4. todo \in Lists
    BY ListCut DEF Claimed
  <1>. HIDE DEF mine, todo
  <1>5. i \in 0 .. MaxMails
    BY DEF MailIds
  <1>6. d \in Work /\ d.at = "trying" /\ d.mail = i /\ d.mine = mine
    BY <1>2, <1>3, <1>4, <1>5 DEF Work, WorkPlaces
  <1>. HIDE DEF d
  <1>7. Busy(d) /\ Holds(d) = Keys(i, mine)
    BY <1>6 DEF Busy, Holds
  <1>8. Desks(doing', taken')
    BY <1>1, <1>2, <1>6, <1>7, DesksStep
  <1>9. Holds(w) = {}
    BY NoneHeld
  <1>10. Shares(inflight', doing')
    BY <1>1, <1>2, <1>3, <1>7, <1>9, SharesTaken DEF MailInv
  <1>. QED  BY <1>8, <1>10

\* What only moves a goroutine that holds nothing, and leaves it holding nothing.
LEMMA Moves ==
    ASSUME MailInv, NEW p \in MailProcs, doing[p].mine = {}, NEW d \in Work, Busy(d), d.mine = {},
           d.at # "idle" => doing[p].at # "idle" \/ \A i \in MailIds : p = Inline(i) => i <= taken,
           doing' = [doing EXCEPT ![p] = d], taken' = taken, inflight' = inflight
    PROVE  Desks(doing', taken') /\ Shares(inflight', doing')
  <1>1. Desks(doing, taken) /\ doing \in [MailProcs -> Work]
    BY DEF MailInv, Desks
  <1>2. Desks(doing', taken')
    BY <1>1, DesksStep
  <1>3. Holds(d) = Holds(doing[p])
    BY NoneHeld
  <1>4. Shares(inflight', doing')
    BY <1>1, <1>3, SharesSame DEF MailInv
  <1>. QED  BY <1>2, <1>4

LEMMA Deskwork ==
    ASSUME MailInv, NEW p \in MailProcs
    PROVE  /\ doing[p] \in Work /\ Busy(doing[p]) /\ (doing[p].at # "trying" => doing[p].mine = {})
           /\ doing[p].todo \in Lists /\ doing[p].since \in 0 .. MaxMailClock /\ doing[p].mail \in 0 .. MaxMails
           /\ doing[p].ids \subseteq MailIds /\ doing[p].due \subseteq Dues /\ IsFiniteSet(doing[p].due)
  <1>1. doing[p] \in Work /\ Busy(doing[p])
    BY DEF MailInv, Desks
  <1>. QED  BY <1>1 DEF Work, Busy

LEMMA ProcsDiffer ==
    /\ Loop \in MailProcs /\ Replaying \in MailProcs /\ Remover \in MailProcs
    /\ \A i \in MailIds : Inline(i) \in MailProcs /\ Inline(i) \notin {Loop, Replaying, Remover}
    /\ \A i, j \in MailIds : Inline(i) = Inline(j) => i = j
  BY DEF MailProcs, Loop, Replaying, Remover, Inline

-----------------------------------------------------------------------------
(* A message comes in *)

LEMMA IngestMailInv ==
    ASSUME MailInv, NEW i \in MailIds, IngestFiles(i)
    PROVE  MailInv'
  <1>. DEFINE p == Inline(i)
              d == [Resting EXCEPT !.at = "filed", !.mail = i, !.since = mailNow, !.todo = Untried(routed)]
  <1>1. /\ i = taken + 1 /\ taken' = i /\ doing' = [doing EXCEPT ![p] = d]
        /\ mailTasks' = With(mailTasks, [k \in {<<i, "queue">>} |-> 0])
        /\ UNCHANGED <<mailNow, routed, mails, rows, inflight>>
    BY DEF IngestFiles
  <1>2. p \in MailProcs /\ Untried(routed) \in Lists /\ mailNow \in 0 .. MaxMailClock /\ i \in 0 .. MaxMails
    BY ProcsDiffer, UntriedList DEF MailInv, MailIds
  <1>3. d \in Work /\ Busy(d) /\ d.mine = {}
    BY <1>2, RestingWork DEF Work, Busy, WorkPlaces, Resting
  <1>. HIDE DEF d, p
  <1>4. Desks(doing, taken) /\ taken \in Nat /\ i \in Nat
    BY <1>1 DEF MailInv, MailIds
  <1>5. Desks(doing, i)
    BY <1>1, <1>4 DEF Desks, MailIds
  <1>6. \A j \in MailIds : p = Inline(j) => j <= i
    BY <1>4, ProcsDiffer DEF p
  <1>7. Desks(doing', taken')
    BY <1>1, <1>2, <1>3, <1>5, <1>6, DesksStep
  <1>8. doing[p].at = "idle"
    BY <1>1, <1>4 DEF Desks, p
  <1>9. doing[p].mine = {}
    BY <1>2, <1>8, Deskwork
  <1>10. Holds(d) = Holds(doing[p])
    BY <1>3, <1>9, NoneHeld
  <1>11. Shares(inflight', doing')
    BY <1>1, <1>2, <1>4, <1>10, SharesSame DEF MailInv, Desks
  <1>12. DOMAIN mails' \subseteq 1 .. taken' /\ taken' \in 0 .. MaxMails
    BY <1>1, <1>2, <1>4 DEF MailInv
  <1>13. \A k \in DOMAIN mailTasks' : mailTasks'[k] \in {0, 1}
    BY <1>1 DEF MailInv, With
  <1>. QED  BY <1>1, <1>7, <1>11, <1>12, <1>13 DEF MailInv

LEMMA StoreMailInv ==
    ASSUME MailInv, NEW i \in MailIds, StoreMessage(i)
    PROVE  MailInv'
  <1>. DEFINE p == Inline(i)
              w == doing[p]
              d == [w EXCEPT !.at = "stored"]
              new == FreshRows(i, ActionsOf(w.todo), w.since)
  <1>1. /\ w.at = "filed" /\ rows' = With(rows, new) /\ doing' = [doing EXCEPT ![p] = d]
        /\ DOMAIN mails' = DOMAIN mails \cup {i}
        /\ UNCHANGED <<mailNow, routed, inflight, mailTasks, taken>>
    BY DEF StoreMessage, With
  <1>2. p \in MailProcs
    BY ProcsDiffer
  <1>3. w \in Work /\ w.mine = {} /\ w.todo \in Lists /\ w.since \in Int /\ Busy(w)
    BY <1>1, <1>2, Deskwork
  <1>4. i \in 1 .. taken
    BY <1>1 DEF MailInv, Desks, MailIds
  <1>5. Table(rows')
    BY <1>1, <1>3, FreshTable, TableJoined DEF MailInv
  <1>6. d \in Work /\ Busy(d) /\ d.mine = {}
    BY <1>1, <1>3 DEF Work, WorkPlaces, Busy
  <1>. HIDE DEF d
  <1>7. Desks(doing', taken') /\ Shares(inflight', doing')
    BY <1>1, <1>2, <1>3, <1>6, Moves
  <1>. QED  BY <1>1, <1>4, <1>5, <1>7 DEF MailInv

LEMMA DeliverMailInv ==
    ASSUME MailInv, NEW i \in MailIds, DeliverAsync(i)
    PROVE  MailInv'
  <1>. DEFINE p == Inline(i)
  <1>1. doing[p].at = "stored" /\ UNCHANGED <<mailNow, routed, mails, rows, mailTasks, tried, taken>>
    BY DEF DeliverAsync
  <1>2. p \in MailProcs /\ mailNow \in 0 .. MaxMailClock
    BY ProcsDiffer DEF MailInv
  <1>3. doing[p].mine = {} /\ doing[p].todo \in Lists
    BY <1>1, <1>2, Deskwork
  <1>4. Desks(doing', taken') /\ Shares(inflight', doing')
    <2>1. CASE i \in DOMAIN mails
      <3>1. Starts(p, i, doing[p].todo, mailNow)
        BY <2>1 DEF DeliverAsync
      <3>. HIDE DEF p
      <3>. QED  BY <1>1, <1>2, <1>3, <3>1, StartsFits
    <2>2. CASE i \notin DOMAIN mails
      <3>1. doing' = [doing EXCEPT ![p] = Resting] /\ inflight' = inflight
        BY <2>2 DEF DeliverAsync
      <3>. HIDE DEF p
      <3>. QED  BY <1>1, <1>2, <1>3, <3>1, RestingWork, Moves
    <2>. QED  BY <2>1, <2>2
  <1>. QED  BY <1>1, <1>4 DEF MailInv

-----------------------------------------------------------------------------
(* Removing and keeping *)

LEMMA RemoveFilesMailInv ==
    ASSUME MailInv, NEW p \in {Loop, Remover}, doing[p].at \in {"idle", "expiring"}, NEW i \in MailIds, RemoveFiles(p, i)
    PROVE  MailInv'
  <1>. DEFINE w == doing[p]
              d == [w EXCEPT !.at = "removing", !.mail = i]
  <1>1. doing' = [doing EXCEPT ![p] = d] /\ UNCHANGED <<mailNow, routed, mails, rows, inflight, mailTasks, taken>>
    BY DEF RemoveFiles
  <1>2. p \in MailProcs /\ i \in 0 .. MaxMails /\ \A j \in MailIds : p # Inline(j)
    BY ProcsDiffer DEF MailIds
  <1>3. w \in Work /\ w.mine = {}
    BY <1>2, Deskwork
  <1>4. d \in Work /\ Busy(d) /\ d.mine = {}
    BY <1>2, <1>3 DEF Work, WorkPlaces, Busy
  <1>. HIDE DEF d
  <1>5. Desks(doing', taken') /\ Shares(inflight', doing')
    BY <1>1, <1>2, <1>3, <1>4, Moves
  <1>. QED  BY <1>1, <1>5 DEF MailInv

LEMMA RemoveRowsMailInv ==
    ASSUME MailInv, NEW p \in {Loop, Remover}, RemoveRows(p)
    PROVE  MailInv'
  <1>. DEFINE w == doing[p]
              d == IF p = Loop THEN [w EXCEPT !.at = "expiring", !.ids = w.ids \ {w.mail}] ELSE Resting
  <1>1. /\ w.at = "removing" /\ doing' = [doing EXCEPT ![p] = d]
        /\ mails' = Dropped(mails, {w.mail}) /\ rows' = Dropped(rows, RowsOf(w.mail))
        /\ UNCHANGED <<mailNow, routed, inflight, mailTasks, taken>>
    BY DEF RemoveRows
  <1>2. p \in MailProcs /\ \A j \in MailIds : p # Inline(j)
    BY ProcsDiffer
  <1>3. w \in Work /\ w.mine = {} /\ w.ids \subseteq MailIds
    BY <1>1, <1>2, Deskwork
  <1>4. d \in Work /\ Busy(d) /\ d.mine = {}
    BY <1>3, RestingWork DEF Work, WorkPlaces, Busy
  <1>. HIDE DEF d
  <1>5. Desks(doing', taken') /\ Shares(inflight', doing')
    BY <1>1, <1>2, <1>3, <1>4, Moves
  <1>6. Table(rows') /\ DOMAIN mails' \subseteq DOMAIN mails
    BY <1>1, TableCut DEF MailInv, Dropped
  <1>. QED  BY <1>1, <1>5, <1>6 DEF MailInv

LEMMA KeepMailInv ==
    ASSUME MailInv, NEW i, NEW days, NEW full, Keep(i, days, full)
    PROVE  MailInv'
  BY DEF MailInv, Keep, SetExpiry

-----------------------------------------------------------------------------
(* The loop *)

LEMMA LoopStartsMailInv ==
    ASSUME MailInv, LoopStarts
    PROVE  MailInv'
  <1>. DEFINE w == doing[Loop]
              d == [w EXCEPT !.at = "expiring", !.since = mailNow, !.ids = Expired(mailNow)]
  <1>1. /\ w.at = "idle" /\ doing' = [doing EXCEPT ![Loop] = d]
        /\ UNCHANGED <<mailNow, routed, mails, rows, inflight, mailTasks, taken>>
    BY DEF LoopStarts
  <1>2. Loop \in MailProcs /\ \A j \in MailIds : Loop # Inline(j)
    BY ProcsDiffer
  <1>3. w \in Work /\ w.mine = {}
    BY <1>1, <1>2, Deskwork
  <1>4. Expired(mailNow) \subseteq MailIds /\ mailNow \in 0 .. MaxMailClock
    BY MailDeliveryAssumption DEF MailInv, Expired, MailIds
  <1>5. d \in Work /\ Busy(d) /\ d.mine = {}
    BY <1>3, <1>4 DEF Work, WorkPlaces, Busy
  <1>. HIDE DEF d
  <1>6. Desks(doing', taken') /\ Shares(inflight', doing')
    BY <1>1, <1>2, <1>3, <1>5, Moves
  <1>. QED  BY <1>1, <1>6 DEF MailInv

LEMMA LoopExpiresMailInv ==
    ASSUME MailInv, LoopExpires
    PROVE  MailInv'
  <1>. DEFINE w == doing[Loop]
  <1>1. PICK i \in w.ids :
          IF i \in DOMAIN mails THEN RemoveFiles(Loop, i)
          ELSE /\ doing' = [doing EXCEPT ![Loop].ids = @ \ {i}]
               /\ UNCHANGED <<mailNow, routed, mails, rows, inflight, mailTasks, taken>>
    BY DEF LoopExpires
  <1>2. w.at = "expiring" /\ Loop \in MailProcs /\ \A j \in MailIds : Loop # Inline(j)
    BY ProcsDiffer DEF LoopExpires
  <1>3. w \in Work /\ w.mine = {} /\ w.ids \subseteq MailIds
    BY <1>2, Deskwork
  <1>4. CASE i \in DOMAIN mails
    <2>1. i \in MailIds /\ RemoveFiles(Loop, i)
      BY <1>1, <1>3, <1>4
    <2>. QED  BY <1>2, <2>1, RemoveFilesMailInv
  <1>5. CASE i \notin DOMAIN mails
    <2>. DEFINE d == [w EXCEPT !.ids = w.ids \ {i}]
    <2>1. doing' = [doing EXCEPT ![Loop] = d] /\ UNCHANGED <<mailNow, routed, mails, rows, inflight, mailTasks, taken>>
      BY <1>1, <1>5
    <2>2. d \in Work /\ Busy(d) /\ d.mine = {}
      BY <1>2, <1>3 DEF Work, Busy
    <2>. HIDE DEF d
    <2>3. Desks(doing', taken') /\ Shares(inflight', doing')
      BY <1>2, <1>3, <2>1, <2>2, Moves
    <2>. QED  BY <2>1, <2>3 DEF MailInv
  <1>. QED  BY <1>4, <1>5

LEMMA LoopReadsMailInv ==
    ASSUME MailInv, LoopReads
    PROVE  MailInv'
  <1>. DEFINE w == doing[Loop]
              due == Due(w.since)
              g == [r \in due |-> [mail |-> r[1], action |-> r[2], attempts |-> rows[r].attempts]]
              dues == {g[r] : r \in due}
              d == [w EXCEPT !.at = IF due = {} THEN "idle" ELSE "redriving", !.due = dues]
  <1>1. /\ w.at = "expiring" /\ doing' = [doing EXCEPT ![Loop] = d]
        /\ UNCHANGED <<mailNow, routed, mails, rows, inflight, mailTasks, taken>>
    BY DEF LoopReads
  <1>2. Loop \in MailProcs /\ \A j \in MailIds : Loop # Inline(j)
    BY ProcsDiffer
  <1>3. w \in Work /\ w.mine = {}
    BY <1>1, <1>2, Deskwork
  <1>4. Table(rows) /\ due \subseteq DOMAIN rows /\ \A r \in due : rows[r].status = "pending"
    BY DEF MailInv, Due
  <1>5. IsFiniteSet(due)
    BY <1>4, FS_Subset DEF Table
  <1>. HIDE DEF due
  <1>6. \A r \in due : g[r] \in Dues
    <2>. SUFFICES ASSUME NEW r \in due PROVE g[r] \in Dues
      OBVIOUS
    <2>1. r \in MailIds \X RouteActions /\ rows[r] \in DeliveryRows /\ rows[r].status = "pending"
      BY <1>4 DEF Table
    <2>2. rows[r].attempts \in 0 .. (MaxDeliveryAttempts - 1)
      BY <2>1, AttemptsThereAre DEF DeliveryRows
    <2>. QED  BY <2>1, <2>2 DEF Dues
  <1>7. IsFiniteSet(dues)
    BY <1>5, ImageFinite
  <1>8. dues \subseteq Dues
    BY <1>6
  <1>. HIDE DEF g, dues
  <1>9. d \in Work /\ Busy(d) /\ d.mine = {}
    BY <1>3, <1>7, <1>8 DEF Work, WorkPlaces, Busy
  <1>. HIDE DEF d
  <1>10. Desks(doing', taken') /\ Shares(inflight', doing')
    BY <1>1, <1>2, <1>3, <1>9, Moves
  <1>. QED  BY <1>1, <1>10 DEF MailInv

LEMMA LoopEndsMailInv ==
    ASSUME MailInv, LoopEnds
    PROVE  MailInv'
  <1>1. /\ doing[Loop].at = "redriving" /\ doing' = [doing EXCEPT ![Loop] = Resting]
        /\ UNCHANGED <<mailNow, routed, mails, rows, inflight, mailTasks, taken>>
    BY DEF LoopEnds
  <1>2. Loop \in MailProcs /\ \A j \in MailIds : Loop # Inline(j)
    BY ProcsDiffer
  <1>3. doing[Loop].mine = {}
    BY <1>1, <1>2, Deskwork
  <1>4. Desks(doing', taken') /\ Shares(inflight', doing')
    BY <1>1, <1>2, <1>3, RestingWork, Moves
  <1>. QED  BY <1>1, <1>4 DEF MailInv

\* A message of the pass keeps for the pass what is of other messages.
LEMMA PassGoesOn ==
    ASSUME MailInv, doing[Loop].at = "redriving", NEW S
    PROVE  LET d == [doing[Loop] EXCEPT !.due = doing[Loop].due \ S]
           IN  d \in Work /\ Busy(d) /\ d.mine = {} /\ d.at = "redriving"
  <1>. DEFINE w == doing[Loop]
              left == w.due \ S
              d == [w EXCEPT !.due = left]
  <1>1. w \in Work /\ w.mine = {} /\ w.due \subseteq Dues /\ IsFiniteSet(w.due)
    BY ProcsDiffer, Deskwork
  <1>2. IsFiniteSet(left) /\ left \subseteq Dues
    BY <1>1, FS_Subset
  <1>. HIDE DEF left
  <1>3. d \in Work /\ d.at = "redriving" /\ d.mine = {}
    BY <1>1, <1>2 DEF Work
  <1>. HIDE DEF d
  <1>4. Busy(d)
    BY <1>3 DEF Busy
  <1>. QED  BY <1>3, <1>4 DEF d, left

\* The loop's list for a message: what was due of it.
LEMMA DueListed ==
    ASSUME NEW S \in SUBSET Dues, IsFiniteSet(S)
    PROVE  SetToSeq({[action |-> d.action, attempts |-> d.attempts] : d \in S}) \in Lists
  <1>. DEFINE f == [d \in S |-> [action |-> d.action, attempts |-> d.attempts]]
  <1>1. IsFiniteSet({f[d] : d \in S})
    BY ImageFinite
  <1>2. {f[d] : d \in S} = {[action |-> d.action, attempts |-> d.attempts] : d \in S}
    OBVIOUS
  <1>3. {[action |-> d.action, attempts |-> d.attempts] : d \in S} \subseteq Tries
    BY DEF Dues, Tries
  <1>. HIDE DEF f
  <1>. QED  BY <1>1, <1>2, <1>3, SetListed

LEMMA RowMarked ==
    ASSUME NEW x \in DeliveryRows
    PROVE  [x EXCEPT !.status = "error", !.next = 0] \in DeliveryRows
  <1>. DEFINE y == [x EXCEPT !.status = "error", !.next = 0]
  <1>1. x \in [status : Statuses, attempts : 0 .. MaxDeliveryAttempts, next : Int]
    BY DEF DeliveryRows
  <1>2. "error" \in Statuses /\ 0 \in Int
    BY DEF Statuses
  <1>3. y \in [status : Statuses, attempts : 0 .. MaxDeliveryAttempts, next : Int]
    BY <1>1, <1>2
  <1>4. y.status = "error"
    BY <1>1
  <1>. HIDE DEF y
  <1>5. y \in DeliveryRows
    BY <1>3, <1>4 DEF DeliveryRows
  <1>. QED  BY <1>5 DEF y

\* Marking rows as in error leaves a table.
LEMMA TableMarked ==
    ASSUME NEW R, Table(R), NEW S
    PROVE  Table([r \in DOMAIN R |-> IF r \in S THEN [R[r] EXCEPT !.status = "error", !.next = 0] ELSE R[r]])
  <1>. DEFINE Q == [r \in DOMAIN R |-> IF r \in S THEN [R[r] EXCEPT !.status = "error", !.next = 0] ELSE R[r]]
  <1>1. ASSUME NEW r \in DOMAIN R PROVE Q[r] \in DeliveryRows
    <2>1. R[r] \in DeliveryRows
      BY DEF Table
    <2>. QED  BY <2>1, RowMarked
  <1>2. DOMAIN Q = DOMAIN R
    OBVIOUS
  <1>. HIDE DEF Q
  <1>. QED  BY <1>1, <1>2 DEF Table, Q

LEMMA LoopClaimsMailInv ==
    ASSUME MailInv, LoopClaims
    PROVE  MailInv'
  <1>. DEFINE w == doing[Loop]
              mine(i) == {d \in w.due : d.mail = i}
              list(i) == SetToSeq({[action |-> d.action, attempts |-> d.attempts] : d \in mine(i)})
              free(i) == Claimable(i, {d.action : d \in mine(i)})
              rest(i) == [w EXCEPT !.due = w.due \ mine(i)]
              try(i) == [rest(i) EXCEPT !.at = "trying", !.mail = i, !.mine = free(i), !.todo = Claimed(list(i), free(i))]
              gone(i) == {<<i, d.action>> : d \in mine(i)} \cap DOMAIN rows
              marked(i) == [r \in DOMAIN rows |-> IF r \in gone(i)
                              THEN [rows[r] EXCEPT !.status = "error", !.next = 0] ELSE rows[r]]
  <1>0. doing \in [MailProcs -> Work] /\ Loop \in MailProcs
    BY ProcsDiffer DEF MailInv, Desks
  <1>1. PICK i \in {d.mail : d \in w.due} :
          \/ doing' = [doing EXCEPT ![Loop] = rest(i)] /\ rows' = rows /\ inflight' = inflight
          \/ /\ inflight' = inflight \cup Keys(i, free(i))
             /\ doing' = [doing EXCEPT ![Loop] = try(i)] /\ rows' = rows
          \/ doing' = [doing EXCEPT ![Loop] = rest(i)] /\ rows' = marked(i) /\ inflight' = inflight
    <2>. DEFINE less(i) == [doing EXCEPT ![Loop].due = doing[Loop].due \ mine(i)]
                more(i) == [less(i) EXCEPT ![Loop].at = "trying", ![Loop].mail = i, ![Loop].mine = free(i),
                                           ![Loop].todo = Claimed(list(i), free(i))]
    <2>1. PICK i \in {d.mail : d \in w.due} :
            IF free(i) = {} THEN doing' = less(i) /\ UNCHANGED <<rows, inflight>>
            ELSE IF i \in DOMAIN mails
            THEN inflight' = inflight \cup Keys(i, free(i)) /\ doing' = more(i) /\ UNCHANGED rows
            ELSE rows' = marked(i) /\ doing' = less(i) /\ UNCHANGED inflight
      BY DEF LoopClaims
    <2>. HIDE DEF mine, list, free, gone, marked
    <2>2. less(i) = [doing EXCEPT ![Loop] = rest(i)]
      OBVIOUS
    <2>3. more(i) = [doing EXCEPT ![Loop] = try(i)]
      BY <1>0
    <2>. HIDE DEF less, more, rest, try
    <2>. QED  BY <2>1, <2>2, <2>3
  <1>2. w.at = "redriving" /\ UNCHANGED <<mailNow, routed, mails, mailTasks, taken>>
    BY DEF LoopClaims
  <1>3. Loop \in MailProcs /\ w.mine = {} /\ w.due \subseteq Dues /\ IsFiniteSet(w.due)
    BY <1>2, ProcsDiffer, Deskwork
  <1>4. rest(i) \in Work /\ Busy(rest(i)) /\ rest(i).mine = {} /\ rest(i).at = "redriving"
    <2>. HIDE DEF mine
    <2>. QED  BY <1>2, PassGoesOn
  <1>5. mine(i) \in SUBSET Dues /\ IsFiniteSet(mine(i))
    BY <1>3, FS_Subset
  <1>6. list(i) \in Lists
    <2>. HIDE DEF mine
    <2>. QED  BY <1>5, DueListed
  <1>7. free(i) \subseteq RouteActions /\ Keys(i, free(i)) \cap inflight = {}
    BY <1>5 DEF Claimable, Keys, Dues
  <1>8. Table(marked(i))
    <2>. HIDE DEF gone
    <2>. QED  BY TableMarked DEF MailInv
  <1>9. i \in MailIds /\ i \in 0 .. MaxMails
    BY <1>3 DEF Dues, MailIds
  <1>. HIDE DEF list, free, gone, mine, marked
  <1>10. Claimed(list(i), free(i)) \in Lists
    BY <1>6, ListCut DEF Claimed
  <1>. HIDE DEF rest
  <1>11. try(i) \in Work /\ try(i).at = "trying" /\ try(i).mail = i /\ try(i).mine = free(i)
    BY <1>4, <1>7, <1>9, <1>10 DEF Work, WorkPlaces
  <1>. HIDE DEF try
  <1>12. CASE doing' = [doing EXCEPT ![Loop] = rest(i)] /\ inflight' = inflight
    <2>1. Desks(doing', taken') /\ Shares(inflight', doing')
      BY <1>2, <1>3, <1>4, <1>12, Moves
    <2>2. Table(rows')
      BY <1>1, <1>8 DEF MailInv
    <2>. QED  BY <1>2, <2>1, <2>2 DEF MailInv
  <1>13. CASE /\ inflight' = inflight \cup Keys(i, free(i))
              /\ doing' = [doing EXCEPT ![Loop] = try(i)] /\ rows' = rows
    <2>1. Desks(doing, taken) /\ doing \in [MailProcs -> Work]
      BY DEF MailInv, Desks
    <2>2. Busy(try(i)) /\ Holds(try(i)) = Keys(i, free(i)) /\ Holds(w) = {}
      BY <1>3, <1>9, <1>11, NoneHeld DEF Busy, Holds
    <2>3. Desks(doing', taken')
      BY <1>2, <1>3, <1>11, <1>13, <2>1, <2>2, DesksStep
    <2>4. Shares(inflight', doing')
      BY <1>3, <1>7, <1>13, <2>1, <2>2, SharesTaken DEF MailInv
    <2>. QED  BY <1>2, <1>13, <2>3, <2>4 DEF MailInv
  <1>. QED  BY <1>1, <1>12, <1>13

-----------------------------------------------------------------------------
(* Replay *)

LEMMA ReplayReadsMailInv ==
    ASSUME MailInv, NEW i \in MailIds, ReplayReads(i)
    PROVE  MailInv'
  <1>. DEFINE w == doing[Replaying]
              d == [w EXCEPT !.at = "replaying", !.mail = i, !.todo = Untried(routed)]
  <1>1. /\ w.at = "idle" /\ doing' = [doing EXCEPT ![Replaying] = d]
        /\ UNCHANGED <<mailNow, routed, mails, rows, inflight, mailTasks, taken>>
    BY DEF ReplayReads
  <1>2. Replaying \in MailProcs /\ \A j \in MailIds : Replaying # Inline(j)
    BY ProcsDiffer
  <1>3. w \in Work /\ w.mine = {}
    BY <1>1, <1>2, Deskwork
  <1>4. Untried(routed) \in Lists /\ i \in 0 .. MaxMails
    BY UntriedList DEF MailInv, MailIds
  <1>5. d \in Work /\ Busy(d) /\ d.mine = {}
    BY <1>3, <1>4 DEF Work, WorkPlaces, Busy
  <1>. HIDE DEF d
  <1>6. Desks(doing', taken') /\ Shares(inflight', doing')
    BY <1>1, <1>2, <1>3, <1>5, Moves
  <1>. QED  BY <1>1, <1>6 DEF MailInv

LEMMA ReplayResetsMailInv ==
    ASSUME MailInv, ReplayResets
    PROVE  MailInv'
  <1>. DEFINE w == doing[Replaying]
              d == [w EXCEPT !.at = "reset"]
              cut == Dropped(rows, RowsOf(w.mail))
              new == FreshRows(w.mail, ActionsOf(w.todo), mailNow)
  <1>1. /\ w.at = "replaying" /\ doing' = [doing EXCEPT ![Replaying] = d] /\ rows' = With(cut, new)
        /\ UNCHANGED <<mailNow, routed, mails, inflight, mailTasks, taken>>
    BY DEF ReplayResets
  <1>2. Replaying \in MailProcs /\ \A j \in MailIds : Replaying # Inline(j)
    BY ProcsDiffer
  <1>3. w \in Work /\ Busy(w) /\ w.mine = {} /\ w.todo \in Lists
    BY <1>1, <1>2, Deskwork
  <1>4. w.mail \in MailIds
    BY <1>1, <1>3 DEF Busy
  <1>5. mailNow \in Int
    BY DEF MailInv
  <1>6. Table(cut) /\ Table(new)
    BY <1>3, <1>4, <1>5, TableCut, FreshTable DEF MailInv
  <1>7. Table(rows')
    BY <1>1, <1>6, TableJoined
  <1>8. d \in Work /\ Busy(d) /\ d.mine = {}
    BY <1>3, <1>4 DEF Work, WorkPlaces, Busy
  <1>. HIDE DEF d
  <1>9. Desks(doing', taken') /\ Shares(inflight', doing')
    BY <1>1, <1>2, <1>3, <1>8, Moves
  <1>. QED  BY <1>1, <1>7, <1>9 DEF MailInv

LEMMA ReplayClaimsMailInv ==
    ASSUME MailInv, ReplayClaims
    PROVE  MailInv'
  <1>1. /\ doing[Replaying].at = "reset" /\ Starts(Replaying, doing[Replaying].mail, doing[Replaying].todo, mailNow)
        /\ UNCHANGED <<mailNow, routed, mails, rows, mailTasks, taken>>
    BY DEF ReplayClaims
  <1>2. Replaying \in MailProcs /\ mailNow \in 0 .. MaxMailClock
    BY ProcsDiffer DEF MailInv
  <1>3. Busy(doing[Replaying]) /\ doing[Replaying].mine = {} /\ doing[Replaying].todo \in Lists
    BY <1>1, <1>2, Deskwork
  <1>4. doing[Replaying].mail \in MailIds
    BY <1>1, <1>3 DEF Busy
  <1>5. Desks(doing', taken') /\ Shares(inflight', doing')
    BY <1>1, <1>2, <1>3, <1>4, StartsFits
  <1>. QED  BY <1>1, <1>5 DEF MailInv

-----------------------------------------------------------------------------
(* The rest of the world, and every step *)

LEMMA MailCrashMailInv ==
    ASSUME MailInv, MailCrash
    PROVE  MailInv'
  <1>1. /\ doing' = [p \in MailProcs |-> Resting] /\ inflight' = {}
        /\ UNCHANGED <<mailNow, routed, mails, rows, mailTasks, taken>>
    BY DEF MailCrash
  <1>2. \A p \in MailProcs : doing'[p] = Resting
    BY <1>1
  <1>3. Desks(doing', taken')
    BY <1>1, <1>2, RestingWork, ProcsDiffer DEF Desks
  <1>4. Shares(inflight', doing')
    BY <1>1, <1>2, RestingWork, NoneHeld DEF Shares
  <1>. QED  BY <1>1, <1>3, <1>4 DEF MailInv

LEMMA DrivesMailInv ==
    ASSUME MailInv, NEW p \in MailProcs, Drives(p)
    PROVE  MailInv'
  BY AttemptMailInv, RecordMailInv, ReleaseMailInv DEF Drives

LEMMA RequestsMailInv ==
    ASSUME MailInv, MailRequests
    PROVE  MailInv'
  <1>1. PICK i \in MailIds : \/ IngestFiles(i)
                             \/ ReplayReads(i)
                             \/ RemoveStarts(i)
                             \/ \E days \in KeepFor, full \in BOOLEAN : Keep(i, days, full)
    BY DEF MailRequests
  <1>2. CASE IngestFiles(i)
    BY <1>2, IngestMailInv
  <1>3. CASE ReplayReads(i)
    BY <1>3, ReplayReadsMailInv
  <1>4. CASE RemoveStarts(i)
    BY <1>4, RemoveFilesMailInv DEF RemoveStarts
  <1>5. CASE \E days \in KeepFor, full \in BOOLEAN : Keep(i, days, full)
    BY <1>5, KeepMailInv
  <1>. QED  BY <1>1, <1>2, <1>3, <1>4, <1>5

LEMMA LoopMailInv ==
    ASSUME MailInv, LoopGoesOn
    PROVE  MailInv'
  <1>1. CASE RemoveRows(Loop)
    BY <1>1, RemoveRowsMailInv
  <1>2. CASE Drives(Loop)
    BY <1>2, ProcsDiffer, DrivesMailInv
  <1>. QED  BY <1>1, <1>2, LoopStartsMailInv, LoopExpiresMailInv, LoopReadsMailInv, LoopClaimsMailInv,
               LoopEndsMailInv DEF LoopGoesOn

LEMMA NextMailInv ==
    ASSUME MailInv, [MailNext]_mailVars
    PROVE  MailInv'
  <1>1. CASE MailRequests
    BY <1>1, RequestsMailInv
  <1>2. ASSUME NEW i \in MailIds, InlineGoesOn(i) PROVE MailInv'
    BY <1>2, ProcsDiffer, StoreMailInv, DeliverMailInv, DrivesMailInv DEF InlineGoesOn
  <1>3. CASE LoopGoesOn
    BY <1>3, LoopMailInv
  <1>4. CASE ReplayGoesOn
    BY <1>4, ProcsDiffer, ReplayResetsMailInv, ReplayClaimsMailInv, DrivesMailInv DEF ReplayGoesOn
  <1>5. CASE RemoveGoesOn
    BY <1>5, RemoveRowsMailInv DEF RemoveGoesOn
  <1>6. CASE SaveRoutes
    BY <1>6 DEF MailInv, SaveRoutes
  <1>7. CASE MailTick
    BY <1>7, MailDeliveryAssumption DEF MailInv, MailTick
  <1>8. CASE MailCrash
    BY <1>8, MailCrashMailInv
  <1>9. CASE UNCHANGED mailVars
    BY <1>9 DEF MailInv, mailVars
  <1>. QED  BY <1>1, <1>2, <1>3, <1>4, <1>5, <1>6, <1>7, <1>8, <1>9 DEF MailNext

LEMMA MailInvDelivers == MailInv => DeliversOnce
  <1>. SUFFICES ASSUME MailInv PROVE DeliversOnce
    OBVIOUS
  <1>1. HeldOnce
    BY DEF MailInv, Shares, Holds, HeldOnce
  <1>2. QueuedOnce
    BY DEF MailInv, QueuedOnce
  <1>3. DOMAIN doing = MailProcs
    BY DEF MailInv, Desks
  <1>4. \A p \in MailProcs : Holds(doing[p]) \subseteq MailIds \X RouteActions
    <2>. SUFFICES ASSUME NEW p \in MailProcs PROVE Holds(doing[p]) \subseteq MailIds \X RouteActions
      OBVIOUS
    <2>1. doing[p] \in Work /\ Busy(doing[p])
      BY Deskwork
    <2>2. doing[p].mine \subseteq RouteActions /\ (doing[p].mine # {} => doing[p].mail \in MailIds)
      BY <2>1 DEF Work, Busy
    <2>. QED  BY <2>2 DEF Holds, Keys
  <1>5. inflight \subseteq MailIds \X RouteActions
    BY <1>4 DEF MailInv, Shares
  <1>6. \A r \in DOMAIN rows : /\ r[1] \in MailIds /\ r[2] \in RouteActions
                               /\ rows[r].status \in {"pending", "ok", "error"}
                               /\ rows[r].attempts \in 0 .. MaxDeliveryAttempts
    BY DEF MailInv, Table, DeliveryRows, Statuses
  <1>7. MailTyped
    BY <1>3, <1>5, <1>6 DEF MailInv, MailTyped
  <1>. QED  BY <1>1, <1>2, <1>7 DEF DeliversOnce

LEMMA MailInductive == MailInit /\ [][MailNext]_mailVars => []MailInv
  <1>1. MailInit => MailInv
    BY InitMailInv
  <1>2. MailInv /\ [MailNext]_mailVars => MailInv'
    BY NextMailInv
  <1>. QED  BY <1>1, <1>2, PTL

\* However the goroutine of a message, the loop, a replay, a removal and a crash go around each other,
\* the deliveries in flight are exactly those some goroutine has claimed, each claimed by one of them, so
\* no delivery is attempted twice at once and none stays claimed by nobody; and however often a delivery
\* to a queue is attempted, its message is one task there (claim, deliverAsync and redrive of triggers.go).
THEOREM DeliveredOnce == MailSpec => []DeliversOnce
  <1>1. MailInv => DeliversOnce
    BY MailInvDelivers
  <1>. QED  BY <1>1, MailInductive, PTL DEF MailSpec

\* No delivery waits for an attempt it may not have: while one is pending it has been attempted fewer
\* times than the schedule allows, whoever attempted it and however often it was replayed, so the loop
\* never runs one past its last retry (retryAt and its callers in triggers.go).
AttemptsLeft == \A r \in DOMAIN rows : rows[r].status = "pending" => rows[r].attempts < MaxDeliveryAttempts

THEOREM AttemptsBounded == MailSpec => []AttemptsLeft
  <1>1. MailInv => AttemptsLeft
    BY DEF MailInv, Table, DeliveryRows, AttemptsLeft
  <1>. QED  BY <1>1, MailInductive, PTL DEF MailSpec

-----------------------------------------------------------------------------
(* How mail gets in and out *)

\* Messages counted in, each with its day; messages held; recipients counted and not yet stored.
Stock(c, b) == UNION {{d} \X (1 .. c[<<b, "in", d>>]) : d \in Days}
InOf(K, b) == {k \in DOMAIN K : K[k].box = b /\ K[k].direction = "in"}
OutOf(K, b, d) == {k \in DOMAIN K : K[k].box = b /\ K[k].direction = "out" /\ K[k].day = d}
Going(K, way) == {k \in DOMAIN K : K[k].direction = way}
For(list, b) == {k \in DOMAIN list : list[k][1] = b}
Waiting(s) == IF s.at = "data" THEN s.left ELSE s.rcpts
Inject(p, b) == IF p["inject"].at = "admitted" /\ p["inject"].box = b THEN 1 ELSE 0
SendOf(p, b, d) == IF p["send"].at # "idle" /\ p["send"].box = b /\ p["send"].day = d THEN 1 ELSE 0

Letter(m) == m.box \in Boxes /\ m.direction \in {"in", "out"} /\ m.day \in Days /\ m.tx \in Nat
Letters(K) == IsFiniteSet(DOMAIN K) /\ \A k \in DOMAIN K : Letter(K[k])

Counters == [Boxes \X {"in", "out"} \X Days -> Nat]
SessionRow == [greeted : BOOLEAN, inTx : BOOLEAN, from : Strangers \cup {NoSession.from}, rcpts : Seq(Addresses),
               left : Seq(Addresses), at : {"ready", "data"}]
PostRow == [at : {"admitted", "slot", "loopback"}, box : Boxes, local : Locals, to : Seq(Addresses \cup Strangers),
            day : Days]

\* Whoever is named in a transaction was admitted in it.
GrantedIn(list, t, g) == \A k \in DOMAIN list : <<t, list[k][1], list[k][2]>> \in g
SessionOk(s, t, g) ==
  /\ s \in SessionRow /\ Len(s.rcpts) <= MaxRecipients
  /\ ~s.inTx => s.rcpts = <<>>
  /\ s.at = "data" => s.inTx
  /\ s.at = "ready" => s.left = <<>>
  /\ GrantedIn(s.rcpts, t, g) /\ GrantedIn(s.left, t, g)

PostsOk(p) ==
  /\ DOMAIN p = {"inject", "send"}
  /\ \A k \in DOMAIN p : p[k] \in PostRow \cup {Quiet}
  /\ p["inject"].at \in {"idle", "admitted"} /\ p["send"].at \in {"idle", "slot", "loopback"}

GrantedAll(K, g) == \A k \in DOMAIN K : K[k].tx > 0 => <<K[k].tx, K[k].box, K[k].local>> \in g

\* Capped, and what is held and about to be is counted.
Capped(c, t, B) == \A b \in B, d \in Days : c[<<b, "in", d>>] <= t[b].inCap /\ c[<<b, "out", d>>] <= t[b].outCap
SentCounted(c, K, p, B) == \A b \in B, d \in Days : c[<<b, "out", d>>] >= Cardinality(OutOf(K, b, d)) + SendOf(p, b, d)
HeldCounted(c, K, s, p, B) == \A b \in B :
  Cardinality(InOf(K, b)) + Cardinality(For(Waiting(s), b)) + Inject(p, b) <= Cardinality(Stock(c, b))
Stocked(c) == \A b \in Boxes : IsFiniteSet(Stock(c, b))
Roomy(K, p, n) ==
  /\ Cardinality(Going(K, "in")) <= MaxStored
  /\ Cardinality(Going(K, "out")) + n + (IF p["send"].at # "idle" THEN 1 ELSE 0) <= MaxOps

IntakeInv ==
  /\ today \in Days /\ boxes \subseteq Boxes /\ settings \in [Boxes -> MailSettings] /\ DOMAIN addresses \subseteq Addresses
  /\ dayCount \in Counters /\ org.n \in 0 .. OrgSendsPerDay /\ transaction \in Nat /\ sentBack \in Nat
  /\ Letters(kept) /\ SessionOk(session, transaction, granted) /\ PostsOk(posts) /\ GrantedAll(kept, granted)
  /\ Capped(dayCount, settings, boxes) /\ SentCounted(dayCount, kept, posts, boxes)
  /\ HeldCounted(dayCount, kept, session, posts, boxes) /\ Stocked(dayCount) /\ Roomy(kept, posts, sentBack)

-----------------------------------------------------------------------------
LEMMA Grown ==
    ASSUME NEW S, IsFiniteSet(S), NEW x, NEW T \in SUBSET (S \cup {x})
    PROVE  IsFiniteSet(T) /\ Cardinality(T) \in Nat /\ Cardinality(S) \in Nat /\ Cardinality(T) <= Cardinality(S) + 1
  <1>1. IsFiniteSet(S \cup {x}) /\ Cardinality(S \cup {x}) <= Cardinality(S) + 1 /\ Cardinality(S) \in Nat
    BY FS_AddElement, FS_CardinalityType
  <1>2. IsFiniteSet(T) /\ Cardinality(T) <= Cardinality(S \cup {x})
    BY <1>1, FS_Subset
  <1>3. Cardinality(T) \in Nat /\ Cardinality(S \cup {x}) \in Nat
    BY <1>1, <1>2, FS_CardinalityType
  <1>. QED  BY <1>1, <1>2, <1>3

LEMMA Shrunk ==
    ASSUME NEW S, IsFiniteSet(S), NEW T \in SUBSET S
    PROVE  IsFiniteSet(T) /\ Cardinality(T) \in Nat /\ Cardinality(S) \in Nat /\ Cardinality(T) <= Cardinality(S)
  BY FS_Subset, FS_CardinalityType

LEMMA LettersFinite ==
    ASSUME NEW K, Letters(K)
    PROVE  /\ \A b, d : IsFiniteSet(OutOf(K, b, d)) /\ Cardinality(OutOf(K, b, d)) \in Nat
           /\ \A b : IsFiniteSet(InOf(K, b)) /\ Cardinality(InOf(K, b)) \in Nat
           /\ \A way : IsFiniteSet(Going(K, way)) /\ Cardinality(Going(K, way)) \in Nat
  <1>1. \A b, d : OutOf(K, b, d) \in SUBSET (DOMAIN K)
    BY DEF OutOf
  <1>2. \A b : InOf(K, b) \in SUBSET (DOMAIN K)
    BY DEF InOf
  <1>3. \A way : Going(K, way) \in SUBSET (DOMAIN K)
    BY DEF Going
  <1>. QED  BY <1>1, <1>2, <1>3, Shrunk DEF Letters

\* A message filed is one more where it belongs, and none more elsewhere.
LEMMA FiledCounts ==
    ASSUME NEW K, Letters(K), NEW m, Letter(m)
    PROVE  /\ Letters(Filed(K, m))
           /\ \A b, d : Cardinality(OutOf(Filed(K, m), b, d)) <=
                          Cardinality(OutOf(K, b, d)) + (IF m.box = b /\ m.direction = "out" /\ m.day = d THEN 1 ELSE 0)
           /\ \A b : Cardinality(InOf(Filed(K, m), b)) <=
                       Cardinality(InOf(K, b)) + (IF m.box = b /\ m.direction = "in" THEN 1 ELSE 0)
           /\ \A way : Cardinality(Going(Filed(K, m), way)) <= Cardinality(Going(K, way)) + (IF m.direction = way THEN 1 ELSE 0)
  <1>. DEFINE x == Free(K)
              L == Filed(K, m)
  <1>1. DOMAIN L = DOMAIN K \cup {x} /\ L[x] = m /\ \A k \in DOMAIN K \ {x} : L[k] = K[k]
    BY DEF Filed
  <1>. HIDE DEF x, L
  <1>2. IsFiniteSet(DOMAIN L)
    BY <1>1, FS_AddElement DEF Letters
  <1>3. Letters(L)
    BY <1>1, <1>2 DEF Letters
  <1>4. ASSUME NEW b, NEW d
        PROVE  Cardinality(OutOf(L, b, d)) <=
                 Cardinality(OutOf(K, b, d)) + (IF m.box = b /\ m.direction = "out" /\ m.day = d THEN 1 ELSE 0)
    <2>1. IsFiniteSet(OutOf(K, b, d))
      BY LettersFinite
    <2>2. OutOf(L, b, d) \in SUBSET (OutOf(K, b, d) \cup {x})
      BY <1>1 DEF OutOf
    <2>3. ~(m.box = b /\ m.direction = "out" /\ m.day = d) => OutOf(L, b, d) \in SUBSET OutOf(K, b, d)
      BY <1>1 DEF OutOf
    <2>4. /\ Cardinality(OutOf(L, b, d)) \in Nat /\ Cardinality(OutOf(K, b, d)) \in Nat
          /\ Cardinality(OutOf(L, b, d)) <= Cardinality(OutOf(K, b, d)) + 1
      BY <2>1, <2>2, Grown
    <2>5. ~(m.box = b /\ m.direction = "out" /\ m.day = d) => Cardinality(OutOf(L, b, d)) <= Cardinality(OutOf(K, b, d))
      BY <2>1, <2>3, Shrunk
    <2>. QED  BY <2>4, <2>5
  <1>5. ASSUME NEW b
        PROVE  Cardinality(InOf(L, b)) <= Cardinality(InOf(K, b)) + (IF m.box = b /\ m.direction = "in" THEN 1 ELSE 0)
    <2>1. IsFiniteSet(InOf(K, b))
      BY LettersFinite
    <2>2. InOf(L, b) \in SUBSET (InOf(K, b) \cup {x})
      BY <1>1 DEF InOf
    <2>3. ~(m.box = b /\ m.direction = "in") => InOf(L, b) \in SUBSET InOf(K, b)
      BY <1>1 DEF InOf
    <2>4. /\ Cardinality(InOf(L, b)) \in Nat /\ Cardinality(InOf(K, b)) \in Nat
          /\ Cardinality(InOf(L, b)) <= Cardinality(InOf(K, b)) + 1
      BY <2>1, <2>2, Grown
    <2>5. ~(m.box = b /\ m.direction = "in") => Cardinality(InOf(L, b)) <= Cardinality(InOf(K, b))
      BY <2>1, <2>3, Shrunk
    <2>. QED  BY <2>4, <2>5
  <1>6. ASSUME NEW way
        PROVE  Cardinality(Going(L, way)) <= Cardinality(Going(K, way)) + (IF m.direction = way THEN 1 ELSE 0)
    <2>1. IsFiniteSet(Going(K, way))
      BY LettersFinite
    <2>2. Going(L, way) \in SUBSET (Going(K, way) \cup {x})
      BY <1>1 DEF Going
    <2>3. ~(m.direction = way) => Going(L, way) \in SUBSET Going(K, way)
      BY <1>1 DEF Going
    <2>4. /\ Cardinality(Going(L, way)) \in Nat /\ Cardinality(Going(K, way)) \in Nat
          /\ Cardinality(Going(L, way)) <= Cardinality(Going(K, way)) + 1
      BY <2>1, <2>2, Grown
    <2>5. ~(m.direction = way) => Cardinality(Going(L, way)) <= Cardinality(Going(K, way))
      BY <2>1, <2>3, Shrunk
    <2>. QED  BY <2>4, <2>5
  <1>. QED  BY <1>3, <1>4, <1>5, <1>6 DEF L

\* What is left of the table is no more anywhere.
LEMMA CutCounts ==
    ASSUME NEW K, Letters(K), NEW S
    PROVE  /\ Letters(Within(K, S))
           /\ \A b, d : Cardinality(OutOf(Within(K, S), b, d)) <= Cardinality(OutOf(K, b, d))
           /\ \A b : Cardinality(InOf(Within(K, S), b)) <= Cardinality(InOf(K, b))
           /\ \A way : Cardinality(Going(Within(K, S), way)) <= Cardinality(Going(K, way))
  <1>. DEFINE L == Within(K, S)
  <1>1. DOMAIN L \in SUBSET (DOMAIN K) /\ \A k \in DOMAIN L : L[k] = K[k]
    BY DEF Within
  <1>. HIDE DEF L
  <1>2. IsFiniteSet(DOMAIN L)
    BY <1>1, FS_Subset DEF Letters
  <1>3. Letters(L)
    BY <1>1, <1>2 DEF Letters
  <1>4. \A b, d : OutOf(L, b, d) \in SUBSET OutOf(K, b, d)
    BY <1>1 DEF OutOf
  <1>5. \A b : InOf(L, b) \in SUBSET InOf(K, b)
    BY <1>1 DEF InOf
  <1>6. \A way : Going(L, way) \in SUBSET Going(K, way)
    BY <1>1 DEF Going
  <1>7. \A b, d : Cardinality(OutOf(L, b, d)) <= Cardinality(OutOf(K, b, d))
    BY <1>4, LettersFinite, Shrunk
  <1>8. \A b : Cardinality(InOf(L, b)) <= Cardinality(InOf(K, b))
    BY <1>5, LettersFinite, Shrunk
  <1>9. \A way : Cardinality(Going(L, way)) <= Cardinality(Going(K, way))
    BY <1>6, LettersFinite, Shrunk
  <1>. QED  BY <1>3, <1>7, <1>8, <1>9 DEF L

-----------------------------------------------------------------------------
(* Recipients *)

LEMMA ForFinite ==
    ASSUME NEW s \in Seq(Addresses), NEW b
    PROVE  IsFiniteSet(For(s, b)) /\ Cardinality(For(s, b)) \in Nat
  <1>1. IsFiniteSet(1 .. Len(s)) /\ DOMAIN s = 1 .. Len(s)
    BY FS_Interval
  <1>2. For(s, b) \in SUBSET (1 .. Len(s))
    BY <1>1 DEF For
  <1>. QED  BY <1>1, <1>2, Shrunk

LEMMA ForNone ==
    ASSUME NEW b
    PROVE  Cardinality(For(<<>>, b)) = 0
  <1>1. For(<<>>, b) = {}
    BY DEF For
  <1>. QED  BY <1>1, FS_EmptySet

LEMMA ForAppended ==
    ASSUME NEW s \in Seq(Addresses), NEW x \in Addresses, NEW b
    PROVE  Cardinality(For(Append(s, x), b)) <= Cardinality(For(s, b)) + (IF x[1] = b THEN 1 ELSE 0)
  <1>. DEFINE t == Append(s, x)
              n == Len(s) + 1
  <1>1. DOMAIN t = DOMAIN s \cup {n} /\ t[n] = x /\ \A k \in DOMAIN s : t[k] = s[k]
    OBVIOUS
  <1>. HIDE DEF t, n
  <1>2. For(t, b) \in SUBSET (For(s, b) \cup {n}) /\ (x[1] # b => For(t, b) \in SUBSET For(s, b))
    BY <1>1 DEF For
  <1>3. IsFiniteSet(For(s, b))
    BY ForFinite
  <1>4. /\ Cardinality(For(t, b)) \in Nat /\ Cardinality(For(s, b)) \in Nat
        /\ Cardinality(For(t, b)) <= Cardinality(For(s, b)) + 1
    BY <1>2, <1>3, Grown
  <1>5. x[1] # b => Cardinality(For(t, b)) <= Cardinality(For(s, b))
    BY <1>2, <1>3, Shrunk
  <1>. QED  BY <1>4, <1>5 DEF t

LEMMA ForTail ==
    ASSUME NEW s \in Seq(Addresses), s # <<>>, NEW b
    PROVE  Cardinality(For(Tail(s), b)) + (IF Head(s)[1] = b THEN 1 ELSE 0) <= Cardinality(For(s, b))
  <1>. DEFINE S == For(s, b) \ {1}
              T == For(Tail(s), b)
              f == [k \in T |-> k + 1]
  <1>1. Len(s) \in Nat /\ Len(s) >= 1 /\ DOMAIN s = 1 .. Len(s) /\ s[1] = Head(s)
        /\ DOMAIN Tail(s) = 1 .. (Len(s) - 1) /\ \A k \in 1 .. (Len(s) - 1) : Tail(s)[k] = s[k + 1]
    OBVIOUS
  <1>2. \A k \in T : k \in Nat /\ k >= 1 /\ k + 1 \in S
    BY <1>1 DEF For
  <1>3. IsFiniteSet(S) /\ Cardinality(S) = IF 1 \in For(s, b) THEN Cardinality(For(s, b)) - 1 ELSE Cardinality(For(s, b))
    BY ForFinite, FS_RemoveElement
  <1>4. 1 \in For(s, b) <=> Head(s)[1] = b
    BY <1>1 DEF For
  <1>5. T \in SUBSET Nat
    BY <1>2
  <1>. HIDE DEF S, T
  <1>6. f \in Injection(T, S)
    BY <1>2, <1>5 DEF Injection, IsInjective
  <1>7. IsFiniteSet(T) /\ Cardinality(T) <= Cardinality(S)
    BY <1>3, <1>6, FS_Injection
  <1>8. Cardinality(T) \in Nat /\ Cardinality(For(s, b)) \in Nat
    BY <1>7, ForFinite, FS_CardinalityType
  <1>. QED  BY <1>3, <1>4, <1>7, <1>8 DEF T

-----------------------------------------------------------------------------
(* Counters *)

LEMMA StockTaken ==
    ASSUME NEW c \in Counters, Stocked(c), NEW b \in Boxes, NEW d \in Days
    PROVE  LET e == [c EXCEPT ![<<b, "in", d>>] = c[<<b, "in", d>>] + 1] IN
             /\ e \in Counters /\ Stocked(e)
             /\ Cardinality(Stock(e, b)) = Cardinality(Stock(c, b)) + 1
             /\ \A a \in Boxes \ {b} : Stock(e, a) = Stock(c, a)
  <1>. DEFINE key(a, x) == <<a, "in", x>>
              n == c[key(b, d)] + 1
              e == [c EXCEPT ![<<b, "in", d>>] = n]
  <1>1. key(b, d) \in Boxes \X {"in", "out"} \X Days /\ c[key(b, d)] \in Nat /\ n \in Nat
    BY DEF Counters
  <1>2. e \in Counters /\ e[key(b, d)] = n
    BY <1>1 DEF Counters
  <1>3. \A a \in Boxes, x \in Days : <<a, x>> # <<b, d>> => e[key(a, x)] = c[key(a, x)]
    BY DEF Counters
  <1>. HIDE DEF e, n
  <1>4. \A a \in Boxes \ {b} : Stock(e, a) = Stock(c, a)
    BY <1>3 DEF Stock
  <1>5. Stock(e, b) = Stock(c, b) \cup {<<d, n>>} /\ <<d, n>> \notin Stock(c, b)
    <2>0. /\ \A p : p \in Stock(c, b) <=> \E x \in Days : p \in {x} \X (1 .. c[key(b, x)])
          /\ \A p : p \in Stock(e, b) <=> \E x \in Days : p \in {x} \X (1 .. e[key(b, x)])
      BY DEF Stock
    <2>. HIDE DEF key
    <2>1. \A x, i : <<x, i>> \in Stock(c, b) <=> x \in Days /\ i \in 1 .. c[key(b, x)]
      BY <2>0
    <2>2. \A x, i : <<x, i>> \in Stock(e, b) <=> x \in Days /\ i \in 1 .. e[key(b, x)]
      BY <2>0
    <2>3. \A p \in Stock(c, b) \cup Stock(e, b) : p = <<p[1], p[2]>>
      BY <2>0
    <2>4. 1 .. n = (1 .. c[key(b, d)]) \cup {n} /\ n \notin 1 .. c[key(b, d)]
      BY <1>1 DEF n
    <2>5. \A x, i : <<x, i>> \in Stock(e, b) <=> <<x, i>> \in Stock(c, b) \/ (x = d /\ i = n)
      BY <1>2, <1>3, <2>1, <2>2, <2>4
    <2>6. <<d, n>> \notin Stock(c, b)
      BY <2>1, <2>4
    <2>7. Stock(e, b) \subseteq Stock(c, b) \cup {<<d, n>>}
      BY <2>3, <2>5
    <2>8. Stock(c, b) \cup {<<d, n>>} \subseteq Stock(e, b)
      BY <2>3, <2>5
    <2>. QED  BY <2>6, <2>7, <2>8
  <1>6. IsFiniteSet(Stock(c, b)) /\ Cardinality(Stock(c, b)) \in Nat
    BY FS_CardinalityType DEF Stocked
  <1>7. IsFiniteSet(Stock(e, b)) /\ Cardinality(Stock(e, b)) = Cardinality(Stock(c, b)) + 1
    BY <1>5, <1>6, FS_AddElement
  <1>8. Stocked(e)
    BY <1>4, <1>7 DEF Stocked
  <1>. QED  BY <1>2, <1>4, <1>7, <1>8 DEF e, n

-----------------------------------------------------------------------------
(* What a step leaves as it was *)

LEMMA IntakeNumbers ==
    /\ MaxMailDay \in Nat /\ MaxStored \in Nat /\ MaxOps \in Nat /\ MaxRecipients \in Nat /\ OrgSendsPerDay \in Nat
    /\ 0 \in Days /\ Days \subseteq Nat /\ \A c \in MailSettings : c.inCap \in Nat /\ c.outCap \in Nat
  BY MailIntakeAssumption DEF Days

LEMMA BoxNumbers ==
    ASSUME IntakeInv, NEW b \in boxes
    PROVE  /\ b \in Boxes /\ settings[b].inCap \in Nat /\ settings[b].outCap \in Nat
           /\ Cardinality(Stock(dayCount, b)) \in Nat /\ Cardinality(InOf(kept, b)) \in Nat
           /\ Cardinality(For(Waiting(session), b)) \in Nat
           /\ \A d \in Days : /\ dayCount[<<b, "in", d>>] \in Nat /\ dayCount[<<b, "out", d>>] \in Nat
                              /\ Cardinality(OutOf(kept, b, d)) \in Nat
  <1>1. b \in Boxes /\ settings[b] \in MailSettings
    BY DEF IntakeInv
  <1>2. settings[b].inCap \in Nat /\ settings[b].outCap \in Nat
    BY <1>1, IntakeNumbers
  <1>3. Cardinality(Stock(dayCount, b)) \in Nat
    BY <1>1, FS_CardinalityType DEF IntakeInv, Stocked
  <1>4. Letters(kept) /\ session.left \in Seq(Addresses) /\ session.rcpts \in Seq(Addresses)
    BY DEF IntakeInv, SessionOk, SessionRow
  <1>5. Cardinality(For(Waiting(session), b)) \in Nat
    BY <1>4, ForFinite DEF Waiting
  <1>6. \A d \in Days : dayCount[<<b, "in", d>>] \in Nat /\ dayCount[<<b, "out", d>>] \in Nat
    BY <1>1 DEF IntakeInv, Counters
  <1>. QED  BY <1>1, <1>2, <1>3, <1>4, <1>5, <1>6, LettersFinite

\* A transaction that goes on with no more recipients.
LEMMA SessionMoves ==
    ASSUME IntakeInv, SessionOk(session', transaction', granted'), transaction' \in Nat, granted' = granted,
           \A b \in boxes : Cardinality(For(Waiting(session'), b)) \in Nat
                            /\ Cardinality(For(Waiting(session'), b)) <= Cardinality(For(Waiting(session), b)),
           UNCHANGED <<today, boxes, settings, addresses, dayCount, org, kept, posts, sentBack>>
    PROVE  IntakeInv'
  <1>1. HeldCounted(dayCount, kept, session', posts, boxes)
    <2>. SUFFICES ASSUME NEW b \in boxes
                  PROVE  Cardinality(InOf(kept, b)) + Cardinality(For(Waiting(session'), b)) + Inject(posts, b)
                           <= Cardinality(Stock(dayCount, b))
      BY DEF HeldCounted
    <2>1. Inject(posts, b) \in {0, 1}
      BY DEF Inject
    <2>2. Cardinality(InOf(kept, b)) + Cardinality(For(Waiting(session), b)) + Inject(posts, b) <= Cardinality(Stock(dayCount, b))
      BY DEF IntakeInv, HeldCounted
    <2>. QED  BY <2>1, <2>2, BoxNumbers
  <1>. QED  BY <1>1 DEF IntakeInv

LEMMA CountedIn ==
    ASSUME IntakeInv, NEW b, NEW l, Admits(b, l), dayCount' = Counted(b, "in")
    PROVE  /\ b \in Boxes /\ b \in boxes /\ dayCount' \in Counters /\ Stocked(dayCount') /\ Capped(dayCount', settings, boxes)
           /\ \A a \in boxes, d \in Days : dayCount'[<<a, "out", d>>] = dayCount[<<a, "out", d>>]
           /\ \A a \in boxes : Cardinality(Stock(dayCount', a)) = Cardinality(Stock(dayCount, a)) + (IF a = b THEN 1 ELSE 0)
  <1>1. b \in boxes /\ b \in Boxes /\ today \in Days /\ boxes \subseteq Boxes /\ dayCount \in Counters /\ Stocked(dayCount)
        /\ HasRoom(dayCount[<<b, "in", today>>], settings[b].inCap)
    BY DEF IntakeInv, Admits, Refuses
  <1>2. dayCount' = [dayCount EXCEPT ![<<b, "in", today>>] = dayCount[<<b, "in", today>>] + 1]
    BY DEF Counted
  <1>3. /\ dayCount' \in Counters /\ Stocked(dayCount')
        /\ Cardinality(Stock(dayCount', b)) = Cardinality(Stock(dayCount, b)) + 1
        /\ \A a \in Boxes \ {b} : Stock(dayCount', a) = Stock(dayCount, a)
    BY <1>1, <1>2, StockTaken
  <1>4. \A a \in boxes : Cardinality(Stock(dayCount', a)) = Cardinality(Stock(dayCount, a)) + (IF a = b THEN 1 ELSE 0)
    BY <1>1, <1>3, BoxNumbers
  <1>5. \A a \in boxes, d \in Days : dayCount'[<<a, "out", d>>] = dayCount[<<a, "out", d>>]
    BY <1>1, <1>2 DEF Counters
  <1>6. \A a \in boxes, d \in Days : dayCount'[<<a, "in", d>>] = dayCount[<<a, "in", d>>] + (IF a = b /\ d = today THEN 1 ELSE 0)
    <2>. SUFFICES ASSUME NEW a \in boxes, NEW d \in Days
                  PROVE  dayCount'[<<a, "in", d>>] = dayCount[<<a, "in", d>>] + (IF a = b /\ d = today THEN 1 ELSE 0)
      OBVIOUS
    <2>1. <<a, "in", d>> \in Boxes \X {"in", "out"} \X Days /\ dayCount[<<a, "in", d>>] \in Nat
      BY <1>1, BoxNumbers
    <2>2. a = b /\ d = today => dayCount'[<<a, "in", d>>] = dayCount[<<a, "in", d>>] + 1
      BY <1>1, <1>2, <2>1 DEF Counters
    <2>3. ~(a = b /\ d = today) => dayCount'[<<a, "in", d>>] = dayCount[<<a, "in", d>>]
      BY <1>1, <1>2, <2>1 DEF Counters
    <2>. QED  BY <2>1, <2>2, <2>3
  <1>7. Capped(dayCount', settings, boxes)
    <2>. SUFFICES ASSUME NEW a \in boxes, NEW d \in Days
                  PROVE  /\ dayCount'[<<a, "in", d>>] <= settings[a].inCap
                         /\ dayCount'[<<a, "out", d>>] <= settings[a].outCap
      BY DEF Capped
    <2>1. dayCount[<<a, "in", d>>] <= settings[a].inCap /\ dayCount[<<a, "out", d>>] <= settings[a].outCap
      BY DEF IntakeInv, Capped
    <2>2. a = b /\ d = today => dayCount[<<a, "in", d>>] < settings[a].inCap
      BY <1>1 DEF HasRoom
    <2>3. dayCount[<<a, "in", d>>] \in Nat /\ settings[a].inCap \in Nat
      BY BoxNumbers
    <2>. QED  BY <1>5, <1>6, <2>1, <2>2, <2>3
  <1>. QED  BY <1>1, <1>3, <1>4, <1>5, <1>7

LEMMA CountedOut ==
    ASSUME IntakeInv, NEW b \in Boxes, NEW d \in Days, NEW n \in Nat, dayCount' = [dayCount EXCEPT ![<<b, "out", d>>] = n]
    PROVE  /\ dayCount' \in Counters /\ Stocked(dayCount') /\ \A a \in boxes : Stock(dayCount', a) = Stock(dayCount, a)
           /\ \A a \in boxes, x \in Days : dayCount'[<<a, "in", x>>] = dayCount[<<a, "in", x>>]
           /\ \A a \in boxes, x \in Days : dayCount'[<<a, "out", x>>] = IF a = b /\ x = d THEN n ELSE dayCount[<<a, "out", x>>]
  <1>1. dayCount \in Counters /\ Stocked(dayCount) /\ boxes \subseteq Boxes
    BY DEF IntakeInv
  <1>2. dayCount' \in Counters
    BY <1>1 DEF Counters
  <1>3. \A a \in Boxes, x \in Days : dayCount'[<<a, "in", x>>] = dayCount[<<a, "in", x>>]
    BY <1>1 DEF Counters
  <1>4. \A a \in Boxes, x \in Days : dayCount'[<<a, "out", x>>] = IF a = b /\ x = d THEN n ELSE dayCount[<<a, "out", x>>]
    BY <1>1 DEF Counters
  <1>5. \A a \in Boxes : Stock(dayCount', a) = Stock(dayCount, a)
    BY <1>3 DEF Stock
  <1>6. Stocked(dayCount')
    BY <1>1, <1>5 DEF Stocked
  <1>. QED  BY <1>1, <1>2, <1>3, <1>4, <1>5, <1>6

\* Posts.
LEMMA PostsAt ==
    ASSUME NEW p, PostsOk(p), NEW k \in {"inject", "send"}
    PROVE  /\ p[k].at # "idle" <=> p[k] \in PostRow
           /\ p[k].at = "idle" <=> p[k] = Quiet
           /\ \A r \in PostRow : r.at # "idle"
           /\ Quiet.at = "idle"
  <1>1. Quiet.at = "idle"
    BY DEF Quiet
  <1>2. \A r \in PostRow : r.at # "idle"
    BY DEF PostRow
  <1>3. p[k] \in PostRow \cup {Quiet}
    BY DEF PostsOk
  <1>. QED  BY <1>1, <1>2, <1>3

LEMMA PostsStep ==
    ASSUME NEW p, PostsOk(p), NEW q, NEW k \in {"inject", "send"}, DOMAIN q = DOMAIN p, q[k] \in PostRow \cup {Quiet},
           k = "inject" => q[k].at \in {"idle", "admitted"}, k = "send" => q[k].at \in {"idle", "slot", "loopback"},
           \A j \in {"inject", "send"} \ {k} : q[j] = p[j]
    PROVE  PostsOk(q)
  BY DEF PostsOk

-----------------------------------------------------------------------------
(* The SMTP listener *)

LEMMA SessionNow ==
    ASSUME IntakeInv
    PROVE  /\ SessionOk(session, transaction, granted) /\ session \in SessionRow
           /\ session.left \in Seq(Addresses) /\ session.rcpts \in Seq(Addresses) /\ Len(session.rcpts) <= MaxRecipients
           /\ transaction \in Nat
  BY DEF IntakeInv, SessionOk, SessionRow

\* A session with no recipients waits for nobody.
LEMMA NoneWaiting ==
    ASSUME NEW s, Waiting(s) = <<>>
    PROVE  \A b : Cardinality(For(Waiting(s), b)) = 0
  BY ForNone

LEMMA EmptyOk ==
    ASSUME NEW s \in SessionRow, s.rcpts = <<>>, s.left = <<>>, s.at = "ready", NEW t, NEW g
    PROVE  SessionOk(s, t, g) /\ Waiting(s) = <<>>
  BY IntakeNumbers DEF SessionOk, GrantedIn, Waiting

LEMMA ResetRow ==
    ASSUME NEW s \in SessionRow
    PROVE  /\ TransactionReset(s) \in SessionRow /\ TransactionReset(s).rcpts = <<>>
           /\ TransactionReset(s).left = s.left /\ TransactionReset(s).at = s.at
  <1>. DEFINE d == [s EXCEPT !.inTx = FALSE, !.rcpts = <<>>]
  <1>1. <<>> \in Seq(Addresses)
    OBVIOUS
  <1>2. d \in SessionRow /\ d.rcpts = <<>> /\ d.left = s.left /\ d.at = s.at
    BY <1>1 DEF SessionRow
  <1>. QED  BY <1>2 DEF TransactionReset

LEMMA EmptiesIntakeInv ==
    ASSUME IntakeInv, session' \in SessionRow, session'.rcpts = <<>>, session'.left = <<>>, session'.at = "ready",
           transaction' \in Nat, granted' = granted,
           UNCHANGED <<today, boxes, settings, addresses, dayCount, org, kept, posts, sentBack>>
    PROVE  IntakeInv'
  <1>1. SessionOk(session', transaction', granted') /\ Waiting(session') = <<>>
    BY EmptyOk
  <1>2. \A b \in boxes : Cardinality(For(Waiting(session'), b)) = 0
    BY <1>1, NoneWaiting
  <1>3. \A b \in boxes : Cardinality(For(Waiting(session), b)) \in Nat
    BY BoxNumbers
  <1>. QED  BY <1>1, <1>2, <1>3, SessionMoves

LEMMA HelloIntakeInv == ASSUME IntakeInv, SmtpHello PROVE IntakeInv'
  <1>. DEFINE r == TransactionReset(session)
              d == [r EXCEPT !.greeted = TRUE]
  <1>1. session.at = "ready" /\ session' = d /\ transaction' = transaction /\ granted' = granted
        /\ UNCHANGED <<today, boxes, settings, addresses, dayCount, org, kept, posts, sentBack>>
    BY DEF SmtpHello, SmtpIdle
  <1>2. session.left = <<>> /\ session \in SessionRow /\ transaction \in Nat
    BY <1>1, SessionNow DEF SessionOk
  <1>3. r \in SessionRow /\ r.rcpts = <<>> /\ r.left = session.left /\ r.at = session.at
    BY <1>2, ResetRow
  <1>. HIDE DEF r
  <1>4. d \in SessionRow /\ d.rcpts = r.rcpts /\ d.left = r.left /\ d.at = r.at
    BY <1>3 DEF SessionRow
  <1>. HIDE DEF d
  <1>. QED  BY <1>1, <1>2, <1>3, <1>4, EmptiesIntakeInv

LEMMA MailCommandIntakeInv == ASSUME IntakeInv, SmtpMail PROVE IntakeInv'
  <1>1. PICK from \in Strangers : session' = [session EXCEPT !.inTx = TRUE, !.from = from]
    BY DEF SmtpMail
  <1>2. session.at = "ready" /\ ~session.inTx /\ transaction' = transaction + 1 /\ granted' = granted
        /\ UNCHANGED <<today, boxes, settings, addresses, dayCount, org, kept, posts, sentBack>>
    BY DEF SmtpMail, SmtpIdle
  <1>3. session.left = <<>> /\ session.rcpts = <<>> /\ session \in SessionRow /\ transaction \in Nat
    BY <1>2, SessionNow DEF SessionOk
  <1>4. session' \in SessionRow /\ session'.rcpts = <<>> /\ session'.left = <<>> /\ session'.at = "ready"
    BY <1>1, <1>2, <1>3 DEF SessionRow
  <1>. QED  BY <1>2, <1>3, <1>4, EmptiesIntakeInv

LEMMA DataIntakeInv == ASSUME IntakeInv, SmtpData PROVE IntakeInv'
  <1>. DEFINE s == session
              d == [s EXCEPT !.at = "data", !.left = s.rcpts]
  <1>1. s.at = "ready" /\ s.inTx /\ session' = d /\ transaction' = transaction /\ granted' = granted
        /\ UNCHANGED <<today, boxes, settings, addresses, dayCount, org, kept, posts, sentBack>>
    BY DEF SmtpData, SmtpIdle
  <1>2. SessionOk(s, transaction, granted) /\ s \in SessionRow /\ s.rcpts \in Seq(Addresses) /\ transaction \in Nat
    BY SessionNow
  <1>3. d \in SessionRow /\ d.rcpts = s.rcpts /\ d.left = s.rcpts /\ d.at = "data" /\ d.inTx = s.inTx
    BY <1>2 DEF SessionRow
  <1>. HIDE DEF d
  <1>4. SessionOk(d, transaction, granted)
    BY <1>1, <1>2, <1>3 DEF SessionOk
  <1>5. Waiting(d) = Waiting(s)
    BY <1>1, <1>3 DEF Waiting
  <1>6. \A b \in boxes : Cardinality(For(Waiting(s), b)) \in Nat
    BY BoxNumbers
  <1>. HIDE DEF s
  <1>. QED  BY <1>1, <1>2, <1>4, <1>5, <1>6, SessionMoves DEF s

LEMMA AnswersIntakeInv == ASSUME IntakeInv, SmtpAnswers PROVE IntakeInv'
  <1>. DEFINE r == TransactionReset(session)
              d == [r EXCEPT !.at = "ready"]
  <1>1. session.left = <<>> /\ session' = d /\ transaction' = transaction /\ granted' = granted
        /\ UNCHANGED <<today, boxes, settings, addresses, dayCount, org, kept, posts, sentBack>>
    BY DEF SmtpAnswers
  <1>2. session \in SessionRow /\ transaction \in Nat
    BY SessionNow
  <1>3. r \in SessionRow /\ r.rcpts = <<>> /\ r.left = session.left
    BY <1>2, ResetRow
  <1>. HIDE DEF r
  <1>4. d \in SessionRow /\ d.rcpts = r.rcpts /\ d.left = r.left /\ d.at = "ready"
    BY <1>3 DEF SessionRow
  <1>. HIDE DEF d
  <1>. QED  BY <1>1, <1>2, <1>3, <1>4, EmptiesIntakeInv

LEMMA NoSessionRow == NoSession \in SessionRow /\ NoSession.rcpts = <<>> /\ NoSession.left = <<>> /\ NoSession.at = "ready"
  BY DEF NoSession, SessionRow

LEMMA ResetsIntakeInv == ASSUME IntakeInv, SmtpResets PROVE IntakeInv'
  <1>1. session.at = "ready" /\ session' \in {TransactionReset(session), NoSession} /\ transaction' = transaction
        /\ granted' = granted /\ UNCHANGED <<today, boxes, settings, addresses, dayCount, org, kept, posts, sentBack>>
    BY DEF SmtpResets, SmtpIdle
  <1>2. session.left = <<>> /\ session \in SessionRow /\ transaction \in Nat
    BY <1>1, SessionNow DEF SessionOk
  <1>3. session' \in SessionRow /\ session'.rcpts = <<>> /\ session'.left = <<>> /\ session'.at = "ready"
    BY <1>1, <1>2, ResetRow, NoSessionRow
  <1>. QED  BY <1>1, <1>2, <1>3, EmptiesIntakeInv

\* A recipient was counted when it was admitted, and waits for the body.
LEMMA RcptIntakeInv == ASSUME IntakeInv, NEW b \in Boxes, NEW l \in Locals, SmtpRcpt(b, l) PROVE IntakeInv'
  <1>. DEFINE s == session
              x == <<b, l>>
              d == [s EXCEPT !.rcpts = Append(s.rcpts, x)]
  <1>1. /\ s.at = "ready" /\ s.inTx /\ Len(s.rcpts) < MaxRecipients /\ Admits(b, l) /\ session' = d
        /\ dayCount' = Counted(b, "in") /\ granted' = granted \cup {<<transaction, b, l>>}
        /\ UNCHANGED <<today, boxes, settings, addresses, org, kept, posts, transaction, sentBack>>
    BY DEF SmtpRcpt, SmtpIdle
  <1>2. SessionOk(s, transaction, granted) /\ s \in SessionRow /\ s.rcpts \in Seq(Addresses) /\ x \in Addresses
    BY SessionNow DEF Addresses
  <1>0. Append(s.rcpts, x) \in Seq(Addresses)
    BY <1>2
  <1>3. d \in SessionRow /\ d.rcpts = Append(s.rcpts, x) /\ d.left = s.left /\ d.at = s.at /\ d.inTx = s.inTx
    BY <1>0, <1>2 DEF SessionRow
  <1>4. Len(Append(s.rcpts, x)) = Len(s.rcpts) + 1
        /\ \A k \in DOMAIN Append(s.rcpts, x) : Append(s.rcpts, x)[k] = x \/ (k \in DOMAIN s.rcpts /\ Append(s.rcpts, x)[k] = s.rcpts[k])
    BY <1>2
  <1>. HIDE DEF d
  <1>5. GrantedIn(d.rcpts, transaction, granted')
    <2>1. x[1] = b /\ x[2] = l
      OBVIOUS
    <2>2. <<transaction, x[1], x[2]>> \in granted' /\ granted \subseteq granted'
      BY <1>1, <2>1
    <2>3. \A k \in DOMAIN s.rcpts : <<transaction, s.rcpts[k][1], s.rcpts[k][2]>> \in granted
      BY <1>1, <1>2 DEF SessionOk, GrantedIn
    <2>. HIDE DEF x
    <2>. QED  BY <1>3, <1>4, <2>2, <2>3 DEF GrantedIn
  <1>6. GrantedIn(d.left, transaction, granted')
    BY <1>1, <1>2, <1>3 DEF SessionOk, GrantedIn
  <1>7. Len(d.rcpts) <= MaxRecipients
    BY <1>1, <1>2, <1>3, <1>4, IntakeNumbers
  <1>8. SessionOk(d, transaction, granted')
    BY <1>1, <1>2, <1>3, <1>5, <1>6, <1>7 DEF SessionOk
  <1>9. GrantedAll(kept, granted')
    BY <1>1 DEF IntakeInv, GrantedAll
  <1>10. /\ dayCount' \in Counters /\ Stocked(dayCount') /\ Capped(dayCount', settings, boxes)
         /\ \A a \in boxes, y \in Days : dayCount'[<<a, "out", y>>] = dayCount[<<a, "out", y>>]
         /\ \A a \in boxes : Cardinality(Stock(dayCount', a)) = Cardinality(Stock(dayCount, a)) + (IF a = b THEN 1 ELSE 0)
    BY <1>1, CountedIn
  <1>11. HeldCounted(dayCount', kept, d, posts, boxes)
    <2>. SUFFICES ASSUME NEW a \in boxes
                  PROVE  Cardinality(InOf(kept, a)) + Cardinality(For(Waiting(d), a)) + Inject(posts, a)
                           <= Cardinality(Stock(dayCount', a))
      BY DEF HeldCounted
    <2>1. Inject(posts, a) \in {0, 1}
      BY DEF Inject
    <2>2. Cardinality(InOf(kept, a)) + Cardinality(For(Waiting(s), a)) + Inject(posts, a) <= Cardinality(Stock(dayCount, a))
      BY DEF IntakeInv, HeldCounted
    <2>3. Waiting(d) = Append(s.rcpts, x) /\ Waiting(s) = s.rcpts
      BY <1>1, <1>3 DEF Waiting
    <2>4. Cardinality(For(Append(s.rcpts, x), a)) <= Cardinality(For(s.rcpts, a)) + (IF x[1] = a THEN 1 ELSE 0)
      BY <1>2, ForAppended
    <2>5. Cardinality(For(Append(s.rcpts, x), a)) \in Nat /\ Cardinality(For(s.rcpts, a)) \in Nat
      BY <1>0, <1>2, ForFinite
    <2>6. x[1] = b
      OBVIOUS
    <2>7. Cardinality(InOf(kept, a)) \in Nat /\ Cardinality(Stock(dayCount, a)) \in Nat
      BY BoxNumbers
    <2>. HIDE DEF s, x
    <2>. QED  BY <1>10, <2>1, <2>2, <2>3, <2>4, <2>5, <2>6, <2>7
  <1>12. SentCounted(dayCount', kept, posts, boxes)
    BY <1>10 DEF IntakeInv, SentCounted
  <1>. QED  BY <1>1, <1>8, <1>9, <1>10, <1>11, <1>12 DEF IntakeInv

\* What filing a message leaves true.
LEMMA FiledIntake ==
    ASSUME IntakeInv, NEW m, Letter(m), m.tx > 0 => <<m.tx, m.box, m.local>> \in granted,
           NEW K, K = Filed(kept, m)
    PROVE  /\ Letters(K) /\ GrantedAll(K, granted)
           /\ m.direction = "in" => \A b \in boxes, d \in Days : Cardinality(OutOf(K, b, d)) <= Cardinality(OutOf(kept, b, d))
           /\ m.direction = "out" => \A b \in boxes : Cardinality(InOf(K, b)) <= Cardinality(InOf(kept, b))
           /\ \A b \in boxes, d \in Days : Cardinality(OutOf(K, b, d)) <=
                Cardinality(OutOf(kept, b, d)) + (IF m.box = b /\ m.day = d THEN 1 ELSE 0)
           /\ \A b \in boxes : Cardinality(InOf(K, b)) <= Cardinality(InOf(kept, b)) + (IF m.box = b THEN 1 ELSE 0)
           /\ \A way : Cardinality(Going(K, way)) <= Cardinality(Going(kept, way)) + (IF m.direction = way THEN 1 ELSE 0)
           /\ \A b, d : Cardinality(OutOf(K, b, d)) \in Nat
           /\ \A b : Cardinality(InOf(K, b)) \in Nat
           /\ \A way : Cardinality(Going(K, way)) \in Nat
  <1>1. Letters(kept) /\ GrantedAll(kept, granted)
    BY DEF IntakeInv
  <1>2. /\ \A b, d : Cardinality(OutOf(K, b, d)) <=
             Cardinality(OutOf(kept, b, d)) + (IF m.box = b /\ m.direction = "out" /\ m.day = d THEN 1 ELSE 0)
        /\ \A b : Cardinality(InOf(K, b)) <= Cardinality(InOf(kept, b)) + (IF m.box = b /\ m.direction = "in" THEN 1 ELSE 0)
        /\ \A way : Cardinality(Going(K, way)) <= Cardinality(Going(kept, way)) + (IF m.direction = way THEN 1 ELSE 0)
        /\ Letters(K)
    BY <1>1, FiledCounts
  <1>3. \A k \in DOMAIN K : K[k] = m \/ (k \in DOMAIN kept /\ K[k] = kept[k])
    BY DEF Filed
  <1>4. GrantedAll(K, granted)
    BY <1>1, <1>3 DEF GrantedAll
  <1>5. /\ \A b, d : Cardinality(OutOf(K, b, d)) \in Nat /\ Cardinality(OutOf(kept, b, d)) \in Nat
        /\ \A b : Cardinality(InOf(K, b)) \in Nat /\ Cardinality(InOf(kept, b)) \in Nat
        /\ \A way : Cardinality(Going(K, way)) \in Nat /\ Cardinality(Going(kept, way)) \in Nat
    BY <1>1, <1>2, LettersFinite
  <1>6. \A b \in boxes, d \in Days : Cardinality(OutOf(K, b, d)) <=
                Cardinality(OutOf(kept, b, d)) + (IF m.box = b /\ m.day = d THEN 1 ELSE 0)
    BY <1>2, <1>5
  <1>7. \A b \in boxes : Cardinality(InOf(K, b)) <= Cardinality(InOf(kept, b)) + (IF m.box = b THEN 1 ELSE 0)
    BY <1>2, <1>5
  <1>8. m.direction = "in" => \A b \in boxes, d \in Days : Cardinality(OutOf(K, b, d)) <= Cardinality(OutOf(kept, b, d))
    BY <1>2, <1>5
  <1>9. m.direction = "out" => \A b \in boxes : Cardinality(InOf(K, b)) <= Cardinality(InOf(kept, b))
    BY <1>2, <1>5
  <1>. QED  BY <1>2, <1>4, <1>5, <1>6, <1>7, <1>8, <1>9

\* A message counted in is stored: one more is held, one fewer waited for or one more counted.
LEMMA FiledIn ==
    ASSUME IntakeInv, NEW m, Letter(m), m.direction = "in", m.tx > 0 => <<m.tx, m.box, m.local>> \in granted,
           kept' = Filed(kept, m), Cardinality(DOMAIN kept) < MaxStored
    PROVE  /\ Letters(kept') /\ GrantedAll(kept', granted)
           /\ \A b \in boxes : Cardinality(InOf(kept', b)) \in Nat
                /\ Cardinality(InOf(kept', b)) <= Cardinality(InOf(kept, b)) + (IF m.box = b THEN 1 ELSE 0)
           /\ \A c, p : (\A b \in boxes, d \in Days : c[<<b, "out", d>>] = dayCount[<<b, "out", d>>] /\ SendOf(p, b, d) = SendOf(posts, b, d))
                          => SentCounted(c, kept', p, boxes)
           /\ \A p : (p["send"].at # "idle" <=> posts["send"].at # "idle") => Roomy(kept', p, sentBack)
  <1>1. /\ Letters(kept') /\ GrantedAll(kept', granted)
        /\ \A b \in boxes, d \in Days : Cardinality(OutOf(kept', b, d)) <= Cardinality(OutOf(kept, b, d))
        /\ \A b \in boxes : Cardinality(InOf(kept', b)) <= Cardinality(InOf(kept, b)) + (IF m.box = b THEN 1 ELSE 0)
        /\ \A way : Cardinality(Going(kept', way)) <= Cardinality(Going(kept, way)) + (IF m.direction = way THEN 1 ELSE 0)
        /\ \A b, d : Cardinality(OutOf(kept', b, d)) \in Nat
        /\ \A b : Cardinality(InOf(kept', b)) \in Nat
        /\ \A way : Cardinality(Going(kept', way)) \in Nat
    BY FiledIntake
  <1>2. Letters(kept) /\ Roomy(kept, posts, sentBack) /\ SentCounted(dayCount, kept, posts, boxes) /\ sentBack \in Nat
    BY DEF IntakeInv
  <1>3. Going(kept, "in") \in SUBSET DOMAIN kept /\ IsFiniteSet(DOMAIN kept)
    BY <1>2 DEF Going, Letters
  <1>4. Cardinality(Going(kept, "in")) <= Cardinality(DOMAIN kept) /\ Cardinality(DOMAIN kept) \in Nat
        /\ Cardinality(Going(kept, "in")) \in Nat /\ Cardinality(Going(kept, "out")) \in Nat
    BY <1>2, <1>3, Shrunk, LettersFinite
  <1>5. Cardinality(Going(kept', "in")) <= MaxStored
    BY <1>1, <1>4, IntakeNumbers
  <1>6. Cardinality(Going(kept', "out")) <= Cardinality(Going(kept, "out"))
    BY <1>1, <1>4
  <1>7. ASSUME NEW p, p["send"].at # "idle" <=> posts["send"].at # "idle"
        PROVE  Roomy(kept', p, sentBack)
    <2>1. (IF p["send"].at # "idle" THEN 1 ELSE 0) = (IF posts["send"].at # "idle" THEN 1 ELSE 0)
          /\ (IF posts["send"].at # "idle" THEN 1 ELSE 0) \in Nat
      BY <1>7
    <2>2. Cardinality(Going(kept', "out")) \in Nat
      BY <1>1
    <2>. QED  BY <1>2, <1>4, <1>5, <1>6, <2>1, <2>2, IntakeNumbers DEF Roomy
  <1>8. ASSUME NEW c, NEW p,
               \A b \in boxes, d \in Days : c[<<b, "out", d>>] = dayCount[<<b, "out", d>>] /\ SendOf(p, b, d) = SendOf(posts, b, d)
        PROVE  SentCounted(c, kept', p, boxes)
    <2>. SUFFICES ASSUME NEW b \in boxes, NEW d \in Days
                  PROVE  c[<<b, "out", d>>] >= Cardinality(OutOf(kept', b, d)) + SendOf(p, b, d)
      BY DEF SentCounted
    <2>1. dayCount[<<b, "out", d>>] >= Cardinality(OutOf(kept, b, d)) + SendOf(posts, b, d)
      BY <1>2 DEF SentCounted
    <2>2. SendOf(posts, b, d) \in {0, 1}
      BY DEF SendOf
    <2>3. dayCount[<<b, "out", d>>] \in Nat /\ Cardinality(OutOf(kept, b, d)) \in Nat
      BY BoxNumbers
    <2>. QED  BY <1>1, <1>8, <2>1, <2>2, <2>3
  <1>. QED  BY <1>1, <1>7, <1>8

LEMMA DeliversIntakeInv == ASSUME IntakeInv, SmtpDelivers PROVE IntakeInv'
  <1>. DEFINE s == session
              to == Head(s.left)
              m == [box |-> to[1], local |-> to[2], direction |-> "in", from |-> s.from,
                    verified |-> SmtpAuthenticated, day |-> today, tx |-> transaction]
  <1>1. /\ s.at = "data" /\ s.left # <<>>
        /\ \/ to[1] \in boxes /\ Cardinality(DOMAIN kept) < MaxStored /\ kept' = Filed(kept, m)
              /\ session' = [s EXCEPT !.left = Tail(s.left)]
           \/ session' = [s EXCEPT !.left = Tail(s.left)] /\ kept' = kept
           \/ session' = [s EXCEPT !.left = <<>>] /\ kept' = kept
        /\ UNCHANGED <<today, boxes, settings, addresses, dayCount, org, posts, transaction, granted, sentBack>>
    BY DEF SmtpDelivers, Stored
  <1>2. SessionOk(s, transaction, granted) /\ s.left \in Seq(Addresses) /\ transaction \in Nat /\ today \in Days
    BY SessionNow DEF IntakeInv
  <1>. HIDE DEF s
  <1>3. Tail(s.left) \in Seq(Addresses) /\ to \in Addresses /\ <<>> \in Seq(Addresses) /\ 1 \in DOMAIN s.left /\ s.left[1] = to
        /\ \A k \in DOMAIN Tail(s.left) : k + 1 \in DOMAIN s.left /\ Tail(s.left)[k] = s.left[k + 1]
    BY <1>1, <1>2
  <1>4. GrantedIn(Tail(s.left), transaction, granted) /\ <<transaction, to[1], to[2]>> \in granted /\ GrantedIn(<<>>, transaction, granted)
    <2>1. GrantedIn(s.left, transaction, granted)
      BY <1>2 DEF SessionOk
    <2>2. GrantedIn(<<>>, transaction, granted)
      BY DEF GrantedIn
    <2>. HIDE DEF to
    <2>3. <<transaction, to[1], to[2]>> \in granted
      BY <1>3, <2>1 DEF GrantedIn
    <2>4. GrantedIn(Tail(s.left), transaction, granted)
      <3>. DEFINE u == Tail(s.left)
      <3>1. \A k \in DOMAIN u : k + 1 \in DOMAIN s.left /\ u[k] = s.left[k + 1]
        BY <1>3
      <3>. HIDE DEF u
      <3>2. GrantedIn(u, transaction, granted)
        BY <2>1, <3>1 DEF GrantedIn
      <3>. QED  BY <3>2 DEF u
    <2>. QED  BY <2>2, <2>3, <2>4
  <1>10. s \in SessionRow
    BY <1>2 DEF SessionOk
  <1>. DEFINE w(b) == Cardinality(For(s.left, b))
              v(b) == Cardinality(For(Tail(s.left), b))
  <1>5. \A b : w(b) \in Nat /\ v(b) \in Nat /\ v(b) + (IF to[1] = b THEN 1 ELSE 0) <= w(b)
    BY <1>1, <1>2, <1>3, ForFinite, ForTail
  <1>6. Waiting(s) = s.left
    BY <1>1 DEF Waiting
  <1>7. CASE session' = [s EXCEPT !.left = Tail(s.left)] /\ kept' = kept
    <2>1. SessionOk(session', transaction, granted) /\ Waiting(session') = Tail(s.left)
      <3>1. /\ session' \in SessionRow /\ session'.left = Tail(s.left) /\ session'.rcpts = s.rcpts
            /\ session'.inTx = s.inTx /\ session'.at = s.at
        BY <1>3, <1>7, <1>10 DEF SessionRow
      <3>. QED  BY <1>1, <1>2, <1>4, <3>1 DEF SessionOk, Waiting
    <2>2. \A b : Cardinality(For(Waiting(session'), b)) \in Nat /\ Cardinality(For(Waiting(session'), b)) <= Cardinality(For(Waiting(session), b))
      BY <1>5, <1>6, <2>1 DEF s
    <2>. QED  BY <1>1, <1>2, <1>7, <2>1, <2>2, SessionMoves
  <1>8. CASE session' = [s EXCEPT !.left = <<>>] /\ kept' = kept
    <2>1. SessionOk(session', transaction, granted) /\ Waiting(session') = <<>>
      <3>1. /\ session' \in SessionRow /\ session'.left = <<>> /\ session'.rcpts = s.rcpts
            /\ session'.inTx = s.inTx /\ session'.at = s.at
        BY <1>3, <1>8, <1>10 DEF SessionRow
      <3>. QED  BY <1>1, <1>2, <1>4, <3>1 DEF SessionOk, Waiting
    <2>2. \A b : Cardinality(For(Waiting(session'), b)) \in Nat /\ Cardinality(For(Waiting(session'), b)) <= Cardinality(For(Waiting(session), b))
      BY <1>5, <1>6, <2>1, ForNone DEF s
    <2>. QED  BY <1>1, <1>2, <1>8, <2>1, <2>2, SessionMoves
  <1>9. CASE /\ to[1] \in boxes /\ Cardinality(DOMAIN kept) < MaxStored /\ kept' = Filed(kept, m)
             /\ session' = [s EXCEPT !.left = Tail(s.left)]
    <2>1. SessionOk(session', transaction, granted) /\ Waiting(session') = Tail(s.left)
      <3>1. /\ session' \in SessionRow /\ session'.left = Tail(s.left) /\ session'.rcpts = s.rcpts
            /\ session'.inTx = s.inTx /\ session'.at = s.at
        BY <1>3, <1>9, <1>10 DEF SessionRow
      <3>. QED  BY <1>1, <1>2, <1>4, <3>1 DEF SessionOk, Waiting
    <2>2. to[1] \in Boxes
      BY <1>3 DEF Addresses
    <2>3. m.box = to[1] /\ m.local = to[2] /\ m.direction = "in" /\ m.day = today /\ m.tx = transaction
      OBVIOUS
    <2>. HIDE DEF m, to
    <2>4. Letter(m) /\ <<m.tx, m.box, m.local>> \in granted
      BY <1>2, <1>4, <2>2, <2>3 DEF Letter
    <2>5. /\ Letters(kept') /\ GrantedAll(kept', granted)
          /\ \A b \in boxes : Cardinality(InOf(kept', b)) \in Nat
               /\ Cardinality(InOf(kept', b)) <= Cardinality(InOf(kept, b)) + (IF m.box = b THEN 1 ELSE 0)
          /\ SentCounted(dayCount, kept', posts, boxes)
          /\ Roomy(kept', posts, sentBack)
      BY <1>9, <2>3, <2>4, FiledIn
    <2>6. HeldCounted(dayCount, kept', session', posts, boxes)
      <3>. SUFFICES ASSUME NEW b \in boxes
                    PROVE  Cardinality(InOf(kept', b)) + Cardinality(For(Waiting(session'), b)) + Inject(posts, b)
                             <= Cardinality(Stock(dayCount, b))
        BY DEF HeldCounted
      <3>1. Inject(posts, b) \in {0, 1}
        BY DEF Inject
      <3>2. Cardinality(InOf(kept, b)) + w(b) + Inject(posts, b) <= Cardinality(Stock(dayCount, b))
        BY <1>6 DEF IntakeInv, HeldCounted, s
      <3>3. Cardinality(InOf(kept, b)) \in Nat /\ Cardinality(Stock(dayCount, b)) \in Nat
        BY BoxNumbers
      <3>4. Cardinality(InOf(kept', b)) \in Nat /\ Cardinality(InOf(kept', b)) <= Cardinality(InOf(kept, b)) + (IF to[1] = b THEN 1 ELSE 0)
        BY <2>3, <2>5
      <3>5. Cardinality(For(Waiting(session'), b)) = v(b)
        BY <2>1
      <3>6. w(b) \in Nat /\ v(b) \in Nat /\ v(b) + (IF to[1] = b THEN 1 ELSE 0) <= w(b)
        BY <1>5
      <3>. HIDE DEF w, v
      <3>. QED  BY <3>1, <3>2, <3>3, <3>4, <3>5, <3>6
    <2>. QED  BY <1>1, <2>1, <2>5, <2>6 DEF IntakeInv
  <1>. QED  BY <1>1, <1>7, <1>8, <1>9

-----------------------------------------------------------------------------
(* Inject and send *)

LEMMA AdmitsIntakeInv == ASSUME IntakeInv, NEW b \in Boxes, NEW l \in Locals, InjectAdmits(b, l) PROVE IntakeInv'
  <1>. DEFINE r == [Quiet EXCEPT !.at = "admitted", !.box = b, !.local = l]
  <1>1. /\ posts["inject"].at = "idle" /\ Admits(b, l) /\ dayCount' = Counted(b, "in")
        /\ posts' = [posts EXCEPT !["inject"] = r]
        /\ UNCHANGED <<today, boxes, settings, addresses, org, kept, session, transaction, granted, sentBack>>
    BY DEF InjectAdmits
  <1>2. r \in PostRow /\ r.at = "admitted" /\ r.box = b
    <2>1. <<>> \in Seq(Addresses \cup Strangers)
      OBVIOUS
    <2>. QED  BY <2>1, IntakeNumbers DEF PostRow, Quiet
  <1>. HIDE DEF r
  <1>3. PostsOk(posts)
    BY DEF IntakeInv
  <1>4. DOMAIN posts' = DOMAIN posts /\ posts'["inject"] = r /\ posts'["send"] = posts["send"]
    BY <1>1, <1>3 DEF PostsOk
  <1>5. PostsOk(posts')
    <2>1. \A j \in {"inject", "send"} \ {"inject"} : posts'[j] = posts[j]
      BY <1>4
    <2>. QED  BY <1>2, <1>3, <1>4, <2>1, PostsStep
  <1>6. /\ dayCount' \in Counters /\ Stocked(dayCount') /\ Capped(dayCount', settings, boxes)
        /\ \A a \in boxes, y \in Days : dayCount'[<<a, "out", y>>] = dayCount[<<a, "out", y>>]
        /\ \A a \in boxes : Cardinality(Stock(dayCount', a)) = Cardinality(Stock(dayCount, a)) + (IF a = b THEN 1 ELSE 0)
    BY <1>1, CountedIn
  <1>7. HeldCounted(dayCount', kept, session, posts', boxes)
    <2>. SUFFICES ASSUME NEW a \in boxes
                  PROVE  Cardinality(InOf(kept, a)) + Cardinality(For(Waiting(session), a)) + Inject(posts', a)
                           <= Cardinality(Stock(dayCount', a))
      BY DEF HeldCounted
    <2>1. Inject(posts', a) = (IF a = b THEN 1 ELSE 0) /\ Inject(posts, a) = 0
      BY <1>1, <1>2, <1>4 DEF Inject
    <2>2. Cardinality(InOf(kept, a)) + Cardinality(For(Waiting(session), a)) + Inject(posts, a) <= Cardinality(Stock(dayCount, a))
      BY DEF IntakeInv, HeldCounted
    <2>. QED  BY <1>6, <2>1, <2>2, BoxNumbers
  <1>8. SentCounted(dayCount', kept, posts', boxes)
    <2>1. \A a \in boxes, y \in Days : SendOf(posts', a, y) = SendOf(posts, a, y)
      BY <1>4 DEF SendOf
    <2>. QED  BY <1>6, <2>1 DEF IntakeInv, SentCounted
  <1>9. Roomy(kept, posts', sentBack)
    BY <1>4 DEF IntakeInv, Roomy
  <1>. QED  BY <1>1, <1>5, <1>6, <1>7, <1>8, <1>9 DEF IntakeInv

LEMMA StoresIntakeInv == ASSUME IntakeInv, InjectStores PROVE IntakeInv'
  <1>. DEFINE me == posts["inject"]
  <1>1. PICK from \in Strangers, authenticated \in BOOLEAN :
          kept' = IF me.box \in boxes THEN Stored(me.box, me.local, from, authenticated, 0) ELSE kept
    BY DEF InjectStores
  <1>. DEFINE m == [box |-> me.box, local |-> me.local, direction |-> "in", from |-> from,
                    verified |-> authenticated, day |-> today, tx |-> 0]
  <1>2. /\ me.at = "admitted" /\ Cardinality(DOMAIN kept) < MaxStored
        /\ posts' = [posts EXCEPT !["inject"] = Quiet]
        /\ UNCHANGED <<today, boxes, settings, addresses, dayCount, org, session, transaction, granted, sentBack>>
    BY DEF InjectStores
  <1>3. PostsOk(posts) /\ today \in Days
    BY DEF IntakeInv
  <1>4. me.box \in Boxes /\ me.local \in Locals
    BY <1>2, <1>3, PostsAt DEF PostRow
  <1>5. DOMAIN posts' = DOMAIN posts /\ posts'["inject"] = Quiet /\ posts'["send"] = posts["send"] /\ Quiet.at = "idle"
    BY <1>2, <1>3 DEF PostsOk, Quiet
  <1>6. PostsOk(posts')
    <2>1. \A j \in {"inject", "send"} \ {"inject"} : posts'[j] = posts[j]
      BY <1>5
    <2>. QED  BY <1>3, <1>5, <2>1, PostsStep
  <1>7. \A a \in boxes, y \in Days : SendOf(posts', a, y) = SendOf(posts, a, y)
    BY <1>5 DEF SendOf
  <1>8. kept' = IF me.box \in boxes THEN Filed(kept, m) ELSE kept
    BY <1>1 DEF Stored
  <1>9. m.box = me.box /\ m.direction = "in" /\ m.day = today /\ m.tx = 0
    OBVIOUS
  <1>. HIDE DEF m, me
  <1>10. Letter(m)
    BY <1>3, <1>4, <1>9 DEF Letter
  <1>11. /\ Letters(kept') /\ GrantedAll(kept', granted)
         /\ \A b \in boxes : Cardinality(InOf(kept', b)) \in Nat
              /\ Cardinality(InOf(kept', b)) <= Cardinality(InOf(kept, b)) + (IF me.box = b THEN 1 ELSE 0)
         /\ SentCounted(dayCount, kept', posts', boxes)
         /\ Roomy(kept', posts', sentBack)
    <2>1. CASE me.box \in boxes
      <3>1. kept' = Filed(kept, m) /\ (m.tx > 0 => <<m.tx, m.box, m.local>> \in granted)
        BY <1>8, <1>9, <2>1
      <3>2. posts'["send"].at # "idle" <=> posts["send"].at # "idle"
        BY <1>5
      <3>3. /\ Letters(kept') /\ GrantedAll(kept', granted)
            /\ \A b \in boxes : Cardinality(InOf(kept', b)) \in Nat
                 /\ Cardinality(InOf(kept', b)) <= Cardinality(InOf(kept, b)) + (IF m.box = b THEN 1 ELSE 0)
            /\ (\A b \in boxes, d \in Days : dayCount[<<b, "out", d>>] = dayCount[<<b, "out", d>>]
                   /\ SendOf(posts', b, d) = SendOf(posts, b, d)) => SentCounted(dayCount, kept', posts', boxes)
            /\ Roomy(kept', posts', sentBack)
        BY <1>2, <1>9, <1>10, <3>1, <3>2, FiledIn
      <3>. QED  BY <1>7, <1>9, <3>3
    <2>2. CASE me.box \notin boxes
      <3>1. kept' = kept
        BY <1>8, <2>2
      <3>2. \A b \in boxes : me.box # b /\ Cardinality(InOf(kept, b)) \in Nat
        BY <2>2, BoxNumbers
      <3>3. Letters(kept) /\ GrantedAll(kept, granted) /\ SentCounted(dayCount, kept, posts', boxes) /\ Roomy(kept, posts', sentBack)
        BY <1>5, <1>7 DEF IntakeInv, SentCounted, Roomy
      <3>. QED  BY <3>1, <3>2, <3>3
    <2>. QED  BY <2>1, <2>2
  <1>12. HeldCounted(dayCount, kept', session, posts', boxes)
    <2>. SUFFICES ASSUME NEW a \in boxes
                  PROVE  Cardinality(InOf(kept', a)) + Cardinality(For(Waiting(session), a)) + Inject(posts', a)
                           <= Cardinality(Stock(dayCount, a))
      BY DEF HeldCounted
    <2>1. Inject(posts', a) = 0 /\ Inject(posts, a) = (IF me.box = a THEN 1 ELSE 0)
      BY <1>2, <1>5 DEF Inject, me
    <2>2. Cardinality(InOf(kept, a)) + Cardinality(For(Waiting(session), a)) + Inject(posts, a) <= Cardinality(Stock(dayCount, a))
      BY DEF IntakeInv, HeldCounted
    <2>3. Cardinality(InOf(kept, a)) \in Nat /\ Cardinality(Stock(dayCount, a)) \in Nat /\ Cardinality(For(Waiting(session), a)) \in Nat
      BY BoxNumbers
    <2>4. Cardinality(InOf(kept', a)) \in Nat /\ Cardinality(InOf(kept', a)) <= Cardinality(InOf(kept, a)) + (IF me.box = a THEN 1 ELSE 0)
      BY <1>11
    <2>. QED  BY <2>1, <2>2, <2>3, <2>4
  <1>. QED  BY <1>2, <1>6, <1>11, <1>12 DEF IntakeInv

\* A slot of the mailbox is taken for the send under way.
LEMMA PreparesIntakeInv ==
    ASSUME IntakeInv, NEW b \in Boxes, NEW l \in Locals, NEW to \in Seq(Addresses \cup Strangers), SendPrepares(b, l, to)
    PROVE  IntakeInv'
  <1>. DEFINE r == [at |-> "slot", box |-> b, local |-> l, to |-> to, day |-> today]
              n == dayCount[<<b, "out", today>>] + 1
  <1>1. /\ posts["send"].at = "idle" /\ b \in boxes
        /\ Cardinality(Going(kept, "out")) + sentBack < MaxOps
        /\ HasRoom(dayCount[<<b, "out", today>>], settings[b].outCap)
        /\ dayCount' = [dayCount EXCEPT ![<<b, "out", today>>] = n]
        /\ posts' = [posts EXCEPT !["send"] = r]
        /\ UNCHANGED <<today, boxes, settings, addresses, org, kept, session, transaction, granted, sentBack>>
    BY DEF SendPrepares, Counted, Going
  <1>2. PostsOk(posts) /\ today \in Days /\ sentBack \in Nat /\ Letters(kept) /\ Cardinality(Going(kept, "in")) <= MaxStored
    BY DEF IntakeInv, Roomy
  <1>3. r \in PostRow /\ r.at = "slot" /\ r.box = b /\ r.day = today
    BY <1>2 DEF PostRow
  <1>12. b \in boxes /\ today \in Days
    BY <1>1, <1>2
  <1>13. dayCount[<<b, "out", today>>] \in Nat /\ settings[b].outCap \in Nat
    BY <1>12, BoxNumbers
  <1>4. n \in Nat /\ n = dayCount[<<b, "out", today>>] + 1
    BY <1>13
  <1>. HIDE DEF r, n
  <1>5. DOMAIN posts' = DOMAIN posts /\ posts'["send"] = r /\ posts'["inject"] = posts["inject"]
    BY <1>1, <1>2 DEF PostsOk
  <1>6. PostsOk(posts')
    <2>1. \A j \in {"inject", "send"} \ {"send"} : posts'[j] = posts[j]
      BY <1>5
    <2>. QED  BY <1>2, <1>3, <1>5, <2>1, PostsStep
  <1>7. /\ dayCount' \in Counters /\ Stocked(dayCount') /\ \A a \in boxes : Stock(dayCount', a) = Stock(dayCount, a)
        /\ \A a \in boxes, x \in Days : dayCount'[<<a, "in", x>>] = dayCount[<<a, "in", x>>]
        /\ \A a \in boxes, x \in Days : dayCount'[<<a, "out", x>>] = IF a = b /\ x = today THEN n ELSE dayCount[<<a, "out", x>>]
    <2>1. today \in Days /\ n \in Nat /\ dayCount' = [dayCount EXCEPT ![<<b, "out", today>>] = n]
      BY <1>1, <1>2, <1>4
    <2>. QED  BY <2>1, CountedOut
  <1>8. Capped(dayCount', settings, boxes)
    <2>. SUFFICES ASSUME NEW a \in boxes, NEW d \in Days
                  PROVE  /\ dayCount'[<<a, "in", d>>] <= settings[a].inCap
                         /\ dayCount'[<<a, "out", d>>] <= settings[a].outCap
      BY DEF Capped
    <2>1. dayCount[<<a, "in", d>>] <= settings[a].inCap /\ dayCount[<<a, "out", d>>] <= settings[a].outCap
      BY DEF IntakeInv, Capped
    <2>2. n <= settings[b].outCap
      BY <1>1, <1>4, <1>13 DEF HasRoom
    <2>. QED  BY <1>7, <2>1, <2>2
  <1>9. SentCounted(dayCount', kept, posts', boxes)
    <2>. SUFFICES ASSUME NEW a \in boxes, NEW d \in Days
                  PROVE  dayCount'[<<a, "out", d>>] >= Cardinality(OutOf(kept, a, d)) + SendOf(posts', a, d)
      BY DEF SentCounted
    <2>1. dayCount[<<a, "out", d>>] >= Cardinality(OutOf(kept, a, d)) + SendOf(posts, a, d)
      BY DEF IntakeInv, SentCounted
    <2>2. SendOf(posts, a, d) = 0 /\ SendOf(posts', a, d) = IF a = b /\ d = today THEN 1 ELSE 0
      BY <1>1, <1>3, <1>5 DEF SendOf
    <2>3. dayCount[<<a, "out", d>>] \in Nat /\ Cardinality(OutOf(kept, a, d)) \in Nat
      BY BoxNumbers
    <2>4. dayCount'[<<a, "out", d>>] = dayCount[<<a, "out", d>>] + (IF a = b /\ d = today THEN 1 ELSE 0)
      <3>1. dayCount'[<<a, "out", d>>] = IF a = b /\ d = today THEN n ELSE dayCount[<<a, "out", d>>]
        BY <1>7
      <3>. QED  BY <1>4, <2>3, <3>1
    <2>. QED  BY <2>1, <2>2, <2>3, <2>4
  <1>10. HeldCounted(dayCount', kept, session, posts', boxes)
    <2>1. \A a \in boxes : Inject(posts', a) = Inject(posts, a)
      BY <1>5 DEF Inject
    <2>. QED  BY <1>7, <2>1 DEF IntakeInv, HeldCounted
  <1>11. Roomy(kept, posts', sentBack)
    <2>1. Cardinality(Going(kept, "out")) \in Nat
      BY <1>2, LettersFinite
    <2>2. Cardinality(Going(kept, "out")) + sentBack + (IF posts'["send"].at # "idle" THEN 1 ELSE 0) <= MaxOps
      BY <1>1, <1>2, <1>3, <1>5, <2>1, IntakeNumbers
    <2>. QED  BY <1>2, <2>2 DEF Roomy
  <1>. QED  BY <1>1, <1>6, <1>7, <1>8, <1>9, <1>10, <1>11 DEF IntakeInv

\* The organisation's cap: the send goes on, or the mailbox gets its slot of that day back.
LEMMA AsksIntakeInv == ASSUME IntakeInv, SendAsksOrg PROVE IntakeInv'
  <1>. DEFINE me == posts["send"]
  <1>1. me.at = "slot" /\ UNCHANGED <<today, boxes, settings, addresses, kept, session, transaction, granted>>
    BY DEF SendAsksOrg
  <1>2. PostsOk(posts) /\ sentBack \in Nat /\ Letters(kept) /\ org.n \in 0 .. OrgSendsPerDay
    BY DEF IntakeInv
  <1>3. me \in PostRow /\ me.box \in Boxes /\ me.day \in Days
    BY <1>1, <1>2, PostsAt DEF PostRow
  <1>4. OrgToday(me.day) \in 0 .. OrgSendsPerDay
    BY <1>2, IntakeNumbers DEF OrgToday
  <1>5. CASE /\ OrgToday(me.day) < OrgSendsPerDay
             /\ org' = [day |-> me.day, n |-> OrgToday(me.day) + 1]
             /\ posts' = [posts EXCEPT !["send"].at = "loopback"] /\ UNCHANGED <<dayCount, sentBack>>
    <2>. DEFINE r == [me EXCEPT !.at = "loopback"]
    <2>1. r \in PostRow /\ r.at = "loopback" /\ r.box = me.box /\ r.day = me.day
      BY <1>3 DEF PostRow
    <2>2. DOMAIN posts' = DOMAIN posts /\ posts'["send"] = r /\ posts'["inject"] = posts["inject"]
      BY <1>2, <1>5 DEF PostsOk
    <2>. HIDE DEF r
    <2>3. PostsOk(posts')
      <3>1. \A j \in {"inject", "send"} \ {"send"} : posts'[j] = posts[j]
        BY <2>2
      <3>. QED  BY <1>2, <2>1, <2>2, <3>1, PostsStep
    <2>4. \A a : Inject(posts', a) = Inject(posts, a) /\ \A d : SendOf(posts', a, d) = SendOf(posts, a, d)
      BY <1>1, <2>1, <2>2 DEF Inject, SendOf
    <2>5. posts'["send"].at # "idle" /\ posts["send"].at # "idle"
      BY <1>1, <2>1, <2>2
    <2>6. org'.n \in 0 .. OrgSendsPerDay
      BY <1>4, <1>5, IntakeNumbers
    <2>7. HeldCounted(dayCount, kept, session, posts', boxes)
      BY <2>4 DEF IntakeInv, HeldCounted
    <2>8. SentCounted(dayCount, kept, posts', boxes)
      BY <2>4 DEF IntakeInv, SentCounted
    <2>9. Roomy(kept, posts', sentBack)
      BY <2>5 DEF IntakeInv, Roomy
    <2>. QED  BY <1>1, <1>5, <2>3, <2>6, <2>7, <2>8, <2>9 DEF IntakeInv
  <1>6. CASE /\ dayCount' = SlotBack(me.box, me.day) /\ sentBack' = sentBack + 1
             /\ org' = [day |-> me.day, n |-> OrgToday(me.day)] /\ posts' = [posts EXCEPT !["send"] = Quiet]
    <2>. DEFINE k == dayCount[<<me.box, "out", me.day>>]
                n == IF k > 0 THEN k - 1 ELSE 0
    <2>1. k \in Nat
      BY <1>3 DEF IntakeInv, Counters
    <2>2. dayCount' = [dayCount EXCEPT ![<<me.box, "out", me.day>>] = n]
      BY <1>6 DEF SlotBack
    <2>3. n \in Nat /\ n <= k /\ (k > 0 => n = k - 1)
      BY <2>1
    <2>. HIDE DEF n
    <2>4. /\ dayCount' \in Counters /\ Stocked(dayCount') /\ \A a \in boxes : Stock(dayCount', a) = Stock(dayCount, a)
          /\ \A a \in boxes, x \in Days : dayCount'[<<a, "in", x>>] = dayCount[<<a, "in", x>>]
          /\ \A a \in boxes, x \in Days : dayCount'[<<a, "out", x>>] =
               IF a = me.box /\ x = me.day THEN n ELSE dayCount[<<a, "out", x>>]
      BY <1>3, <2>2, <2>3, CountedOut
    <2>5. DOMAIN posts' = DOMAIN posts /\ posts'["send"] = Quiet /\ posts'["inject"] = posts["inject"] /\ Quiet.at = "idle"
      BY <1>2, <1>6 DEF PostsOk, Quiet
    <2>6. PostsOk(posts')
      <3>1. \A j \in {"inject", "send"} \ {"send"} : posts'[j] = posts[j]
        BY <2>5
      <3>. QED  BY <1>2, <2>5, <3>1, PostsStep
    <2>7. Capped(dayCount', settings, boxes)
      <3>. SUFFICES ASSUME NEW a \in boxes, NEW d \in Days
                    PROVE  /\ dayCount'[<<a, "in", d>>] <= settings[a].inCap
                           /\ dayCount'[<<a, "out", d>>] <= settings[a].outCap
        BY DEF Capped
      <3>1. dayCount[<<a, "in", d>>] <= settings[a].inCap /\ dayCount[<<a, "out", d>>] <= settings[a].outCap
        BY DEF IntakeInv, Capped
      <3>2. settings[a].outCap \in Nat
        BY BoxNumbers
      <3>. QED  BY <2>1, <2>3, <2>4, <3>1, <3>2
    <2>8. SentCounted(dayCount', kept, posts', boxes)
      <3>. SUFFICES ASSUME NEW a \in boxes, NEW d \in Days
                    PROVE  dayCount'[<<a, "out", d>>] >= Cardinality(OutOf(kept, a, d)) + SendOf(posts', a, d)
        BY DEF SentCounted
      <3>1. dayCount[<<a, "out", d>>] >= Cardinality(OutOf(kept, a, d)) + SendOf(posts, a, d)
        BY DEF IntakeInv, SentCounted
      <3>2. SendOf(posts', a, d) = 0 /\ SendOf(posts, a, d) = IF a = me.box /\ d = me.day THEN 1 ELSE 0
        BY <1>1, <2>5 DEF SendOf
      <3>3. dayCount[<<a, "out", d>>] \in Nat /\ Cardinality(OutOf(kept, a, d)) \in Nat
        BY BoxNumbers
      <3>4. CASE a = me.box /\ d = me.day
        BY <2>1, <2>3, <2>4, <3>1, <3>2, <3>3, <3>4
      <3>5. CASE ~(a = me.box /\ d = me.day)
        BY <2>4, <3>1, <3>2, <3>3, <3>5
      <3>. QED  BY <3>4, <3>5
    <2>9. HeldCounted(dayCount', kept, session, posts', boxes)
      <3>1. \A a \in boxes : Inject(posts', a) = Inject(posts, a)
        BY <2>5 DEF Inject
      <3>. QED  BY <2>4, <3>1 DEF IntakeInv, HeldCounted
    <2>10. Roomy(kept, posts', sentBack + 1)
      <3>1. Cardinality(Going(kept, "out")) \in Nat
        BY <1>2, LettersFinite
      <3>. QED  BY <1>1, <1>2, <2>5, <3>1 DEF IntakeInv, Roomy
    <2>11. org'.n \in 0 .. OrgSendsPerDay
      BY <1>4, <1>6
    <2>. QED  BY <1>1, <1>2, <1>6, <2>4, <2>6, <2>7, <2>8, <2>9, <2>10, <2>11 DEF IntakeInv
  <1>. QED  BY <1>5, <1>6 DEF SendAsksOrg

\* One local recipient of a send: counted in and stored at once, or passed over.
LEMMA LoopsIntakeInv == ASSUME IntakeInv, SendLoopsBack PROVE IntakeInv'
  <1>. DEFINE me == posts["send"]
              to == Head(me.to)
              r == [me EXCEPT !.to = Tail(me.to)]
              m == [box |-> to[1], local |-> to[2], direction |-> "in", from |-> <<me.box, me.local>>,
                    verified |-> TRUE, day |-> today, tx |-> 0]
  <1>1. /\ me.at = "loopback" /\ me.to # <<>> /\ posts' = [posts EXCEPT !["send"].to = Tail(@)]
        /\ \/ to \in Addresses /\ Admits(to[1], to[2]) /\ Cardinality(DOMAIN kept) < MaxStored
              /\ dayCount' = Counted(to[1], "in") /\ kept' = Filed(kept, m)
           \/ dayCount' = dayCount /\ kept' = kept
        /\ UNCHANGED <<today, boxes, settings, addresses, org, session, transaction, granted, sentBack>>
    BY DEF SendLoopsBack, Stored
  <1>2. PostsOk(posts) /\ today \in Days
    BY DEF IntakeInv
  <1>3. me \in PostRow
    BY <1>1, <1>2, PostsAt
  <1>4. Tail(me.to) \in Seq(Addresses \cup Strangers)
    BY <1>1, <1>3 DEF PostRow
  <1>5. r \in PostRow /\ r.at = me.at /\ r.box = me.box /\ r.day = me.day
    BY <1>3, <1>4 DEF PostRow
  <1>6. DOMAIN posts' = DOMAIN posts /\ posts'["send"] = r /\ posts'["inject"] = posts["inject"]
    BY <1>1, <1>2 DEF PostsOk
  <1>. HIDE DEF r
  <1>7. PostsOk(posts')
    <2>1. \A j \in {"inject", "send"} \ {"send"} : posts'[j] = posts[j]
      BY <1>6
    <2>2. r.at \in {"idle", "slot", "loopback"}
      BY <1>1, <1>5
    <2>. QED  BY <1>2, <1>5, <1>6, <2>1, <2>2, PostsStep
  <1>8. /\ \A a : Inject(posts', a) = Inject(posts, a) /\ \A d : SendOf(posts', a, d) = SendOf(posts, a, d)
        /\ posts'["send"].at # "idle" <=> posts["send"].at # "idle"
    BY <1>5, <1>6 DEF Inject, SendOf
  <1>9. CASE dayCount' = dayCount /\ kept' = kept
    <2>1. HeldCounted(dayCount, kept, session, posts', boxes)
      BY <1>8 DEF IntakeInv, HeldCounted
    <2>2. SentCounted(dayCount, kept, posts', boxes)
      BY <1>8 DEF IntakeInv, SentCounted
    <2>3. Roomy(kept, posts', sentBack)
      BY <1>8 DEF IntakeInv, Roomy
    <2>. QED  BY <1>1, <1>7, <1>9, <2>1, <2>2, <2>3 DEF IntakeInv
  <1>10. CASE /\ to \in Addresses /\ Admits(to[1], to[2]) /\ Cardinality(DOMAIN kept) < MaxStored
              /\ dayCount' = Counted(to[1], "in") /\ kept' = Filed(kept, m)
    <2>1. /\ dayCount' \in Counters /\ Stocked(dayCount') /\ Capped(dayCount', settings, boxes)
          /\ \A a \in boxes, y \in Days : dayCount'[<<a, "out", y>>] = dayCount[<<a, "out", y>>]
          /\ \A a \in boxes : Cardinality(Stock(dayCount', a)) = Cardinality(Stock(dayCount, a)) + (IF a = to[1] THEN 1 ELSE 0)
      BY <1>10, CountedIn
    <2>2. to[1] \in Boxes
      BY <1>10 DEF Addresses
    <2>3. m.box = to[1] /\ m.direction = "in" /\ m.day = today /\ m.tx = 0
      OBVIOUS
    <2>. HIDE DEF m, to
    <2>4. Letter(m) /\ (m.tx > 0 => <<m.tx, m.box, m.local>> \in granted)
      BY <1>2, <2>2, <2>3 DEF Letter
    <2>5. /\ Letters(kept') /\ GrantedAll(kept', granted)
          /\ \A b \in boxes : Cardinality(InOf(kept', b)) \in Nat
               /\ Cardinality(InOf(kept', b)) <= Cardinality(InOf(kept, b)) + (IF m.box = b THEN 1 ELSE 0)
          /\ (\A b \in boxes, d \in Days : dayCount'[<<b, "out", d>>] = dayCount[<<b, "out", d>>]
                /\ SendOf(posts', b, d) = SendOf(posts, b, d)) => SentCounted(dayCount', kept', posts', boxes)
          /\ Roomy(kept', posts', sentBack)
      BY <1>8, <1>10, <2>3, <2>4, FiledIn
    <2>6. SentCounted(dayCount', kept', posts', boxes)
      BY <1>8, <2>1, <2>5
    <2>7. HeldCounted(dayCount', kept', session, posts', boxes)
      <3>. SUFFICES ASSUME NEW b \in boxes
                    PROVE  Cardinality(InOf(kept', b)) + Cardinality(For(Waiting(session), b)) + Inject(posts', b)
                             <= Cardinality(Stock(dayCount', b))
        BY DEF HeldCounted
      <3>1. Inject(posts, b) \in {0, 1} /\ Inject(posts', b) = Inject(posts, b)
        BY <1>8 DEF Inject
      <3>2. Cardinality(InOf(kept, b)) + Cardinality(For(Waiting(session), b)) + Inject(posts, b) <= Cardinality(Stock(dayCount, b))
        BY DEF IntakeInv, HeldCounted
      <3>3. Cardinality(InOf(kept, b)) \in Nat /\ Cardinality(Stock(dayCount, b)) \in Nat /\ Cardinality(For(Waiting(session), b)) \in Nat
        BY BoxNumbers
      <3>4. Cardinality(InOf(kept', b)) \in Nat /\ Cardinality(InOf(kept', b)) <= Cardinality(InOf(kept, b)) + (IF to[1] = b THEN 1 ELSE 0)
        BY <2>3, <2>5
      <3>5. Cardinality(Stock(dayCount', b)) = Cardinality(Stock(dayCount, b)) + (IF b = to[1] THEN 1 ELSE 0)
        BY <2>1
      <3>. QED  BY <3>1, <3>2, <3>3, <3>4, <3>5
    <2>. QED  BY <1>1, <1>7, <2>1, <2>5, <2>6, <2>7 DEF IntakeInv
  <1>. QED  BY <1>1, <1>9, <1>10

\* The copy of what was sent: what was a send under way is now a message held.
LEMMA SendStoresIntakeInv == ASSUME IntakeInv, SendStores PROVE IntakeInv'
  <1>. DEFINE me == posts["send"]
              m == [box |-> me.box, local |-> me.local, direction |-> "out", from |-> <<me.box, me.local>>,
                    verified |-> FALSE, day |-> me.day, tx |-> 0]
  <1>1. /\ me.at = "loopback" /\ kept' = (IF me.box \in boxes THEN Filed(kept, m) ELSE kept)
        /\ posts' = [posts EXCEPT !["send"] = Quiet]
        /\ UNCHANGED <<today, boxes, settings, addresses, dayCount, org, session, transaction, granted, sentBack>>
    BY DEF SendStores
  <1>2. PostsOk(posts) /\ sentBack \in Nat /\ Letters(kept)
    BY DEF IntakeInv
  <1>3. me \in PostRow /\ me.box \in Boxes /\ me.day \in Days
    BY <1>1, <1>2, PostsAt DEF PostRow
  <1>4. DOMAIN posts' = DOMAIN posts /\ posts'["send"] = Quiet /\ posts'["inject"] = posts["inject"] /\ Quiet.at = "idle"
    BY <1>1, <1>2 DEF PostsOk, Quiet
  <1>5. PostsOk(posts')
    <2>1. \A j \in {"inject", "send"} \ {"send"} : posts'[j] = posts[j]
      BY <1>4
    <2>. QED  BY <1>2, <1>4, <2>1, PostsStep
  <1>6. m.box = me.box /\ m.direction = "out" /\ m.day = me.day /\ m.tx = 0
    OBVIOUS
  <1>. HIDE DEF m
  <1>7. Letter(m) /\ (m.tx > 0 => <<m.tx, m.box, m.local>> \in granted)
    BY <1>3, <1>6 DEF Letter
  <1>8. /\ Letters(kept') /\ GrantedAll(kept', granted)
        /\ \A b \in boxes : Cardinality(InOf(kept', b)) <= Cardinality(InOf(kept, b)) /\ Cardinality(InOf(kept', b)) \in Nat
        /\ \A b \in boxes, d \in Days : Cardinality(OutOf(kept', b, d)) \in Nat
             /\ Cardinality(OutOf(kept', b, d)) <= Cardinality(OutOf(kept, b, d)) + (IF me.box = b /\ me.day = d THEN 1 ELSE 0)
        /\ Cardinality(Going(kept', "in")) <= Cardinality(Going(kept, "in")) /\ Cardinality(Going(kept', "in")) \in Nat
        /\ Cardinality(Going(kept', "out")) <= Cardinality(Going(kept, "out")) + 1 /\ Cardinality(Going(kept', "out")) \in Nat
    <2>0. \A way : Cardinality(Going(kept, way)) \in Nat
      BY <1>2, LettersFinite
    <2>1. CASE me.box \in boxes
      <3>1. kept' = Filed(kept, m)
        BY <1>1, <2>1
      <3>2. /\ Letters(kept') /\ GrantedAll(kept', granted)
            /\ m.direction = "out" => \A b \in boxes : Cardinality(InOf(kept', b)) <= Cardinality(InOf(kept, b))
            /\ \A b \in boxes, d \in Days : Cardinality(OutOf(kept', b, d)) <=
                 Cardinality(OutOf(kept, b, d)) + (IF m.box = b /\ m.day = d THEN 1 ELSE 0)
            /\ \A way : Cardinality(Going(kept', way)) <= Cardinality(Going(kept, way)) + (IF m.direction = way THEN 1 ELSE 0)
            /\ \A b, d : Cardinality(OutOf(kept', b, d)) \in Nat
            /\ \A b : Cardinality(InOf(kept', b)) \in Nat
            /\ \A way : Cardinality(Going(kept', way)) \in Nat
        BY <1>7, <3>1, FiledIntake
      <3>3. /\ Cardinality(Going(kept', "in")) <= Cardinality(Going(kept, "in"))
            /\ Cardinality(Going(kept', "out")) <= Cardinality(Going(kept, "out")) + 1
        <4>1. Cardinality(Going(kept', "in")) <= Cardinality(Going(kept, "in")) + (IF m.direction = "in" THEN 1 ELSE 0)
          BY <3>2
        <4>2. Cardinality(Going(kept', "out")) <= Cardinality(Going(kept, "out")) + (IF m.direction = "out" THEN 1 ELSE 0)
          BY <3>2
        <4>. QED  BY <1>6, <2>0, <4>1, <4>2
      <3>. QED  BY <1>6, <3>2, <3>3
    <2>2. CASE me.box \notin boxes
      <3>1. kept' = kept
        BY <1>1, <2>2
      <3>2. \A b \in boxes : me.box # b /\ Cardinality(InOf(kept, b)) \in Nat /\ \A d \in Days : Cardinality(OutOf(kept, b, d)) \in Nat
        BY <2>2, BoxNumbers
      <3>3. Letters(kept) /\ GrantedAll(kept, granted)
        BY DEF IntakeInv
      <3>. QED  BY <2>0, <3>1, <3>2, <3>3
    <2>. QED  BY <2>1, <2>2
  <1>9. HeldCounted(dayCount, kept', session, posts', boxes)
    <2>. SUFFICES ASSUME NEW a \in boxes
                  PROVE  Cardinality(InOf(kept', a)) + Cardinality(For(Waiting(session), a)) + Inject(posts', a)
                           <= Cardinality(Stock(dayCount, a))
      BY DEF HeldCounted
    <2>1. Inject(posts, a) \in {0, 1} /\ Inject(posts', a) = Inject(posts, a)
      BY <1>4 DEF Inject
    <2>2. Cardinality(InOf(kept, a)) + Cardinality(For(Waiting(session), a)) + Inject(posts, a) <= Cardinality(Stock(dayCount, a))
      BY DEF IntakeInv, HeldCounted
    <2>3. Cardinality(InOf(kept, a)) \in Nat /\ Cardinality(Stock(dayCount, a)) \in Nat /\ Cardinality(For(Waiting(session), a)) \in Nat
      BY BoxNumbers
    <2>4. Cardinality(InOf(kept', a)) \in Nat /\ Cardinality(InOf(kept', a)) <= Cardinality(InOf(kept, a))
      BY <1>8
    <2>. QED  BY <2>1, <2>2, <2>3, <2>4
  <1>10. SentCounted(dayCount, kept', posts', boxes)
    <2>. SUFFICES ASSUME NEW a \in boxes, NEW d \in Days
                  PROVE  dayCount[<<a, "out", d>>] >= Cardinality(OutOf(kept', a, d)) + SendOf(posts', a, d)
      BY DEF SentCounted
    <2>1. dayCount[<<a, "out", d>>] >= Cardinality(OutOf(kept, a, d)) + SendOf(posts, a, d)
      BY DEF IntakeInv, SentCounted
    <2>2. SendOf(posts', a, d) = 0 /\ SendOf(posts, a, d) = IF me.box = a /\ me.day = d THEN 1 ELSE 0
      BY <1>1, <1>4 DEF SendOf
    <2>3. dayCount[<<a, "out", d>>] \in Nat /\ Cardinality(OutOf(kept, a, d)) \in Nat
      BY BoxNumbers
    <2>4. Cardinality(OutOf(kept', a, d)) \in Nat
          /\ Cardinality(OutOf(kept', a, d)) <= Cardinality(OutOf(kept, a, d)) + (IF me.box = a /\ me.day = d THEN 1 ELSE 0)
      BY <1>8
    <2>. HIDE DEF me
    <2>. QED  BY <2>1, <2>2, <2>3, <2>4
  <1>11. Roomy(kept', posts', sentBack)
    <2>1. /\ Cardinality(Going(kept, "in")) <= MaxStored
          /\ Cardinality(Going(kept, "out")) + sentBack + (IF posts["send"].at # "idle" THEN 1 ELSE 0) <= MaxOps
      BY DEF IntakeInv, Roomy
    <2>2. posts["send"].at # "idle" /\ posts'["send"].at = "idle"
      BY <1>1, <1>4
    <2>3. Cardinality(Going(kept, "out")) \in Nat /\ Cardinality(Going(kept, "in")) \in Nat
      BY <1>2, LettersFinite
    <2>. QED  BY <1>2, <1>8, <2>1, <2>2, <2>3, IntakeNumbers DEF Roomy
  <1>. QED  BY <1>1, <1>5, <1>8, <1>9, <1>10, <1>11 DEF IntakeInv

-----------------------------------------------------------------------------
(* Addresses and the rest of the world *)

LEMMA PutIntakeInv == ASSUME IntakeInv, NEW x \in Addresses, NEW how, PutAddress(x, how) PROVE IntakeInv'
  <1>1. DOMAIN addresses' = DOMAIN addresses \cup {x}
        /\ UNCHANGED <<today, boxes, settings, dayCount, org, kept, session, posts, transaction, granted, sentBack>>
    BY DEF PutAddress
  <1>. QED  BY <1>1 DEF IntakeInv

\* Messages gone, and perhaps their instance: nothing is more than it was.
LEMMA CutIntakeInv ==
    ASSUME IntakeInv, NEW S, kept' = Within(kept, S), boxes' \subseteq boxes, DOMAIN addresses' \subseteq DOMAIN addresses,
           UNCHANGED <<today, settings, dayCount, org, session, posts, transaction, granted, sentBack>>
    PROVE  IntakeInv'
  <1>1. Letters(kept) /\ sentBack \in Nat
    BY DEF IntakeInv
  <1>2. /\ Letters(kept')
        /\ \A b, d : Cardinality(OutOf(kept', b, d)) <= Cardinality(OutOf(kept, b, d))
        /\ \A b : Cardinality(InOf(kept', b)) <= Cardinality(InOf(kept, b))
        /\ \A way : Cardinality(Going(kept', way)) <= Cardinality(Going(kept, way))
    BY <1>1, CutCounts
  <1>3. /\ \A b, d : Cardinality(OutOf(kept', b, d)) \in Nat
        /\ \A b : Cardinality(InOf(kept', b)) \in Nat
        /\ \A way : Cardinality(Going(kept', way)) \in Nat /\ Cardinality(Going(kept, way)) \in Nat
    BY <1>1, <1>2, LettersFinite
  <1>4. GrantedAll(kept', granted)
    <2>1. \A k \in DOMAIN kept' : k \in DOMAIN kept /\ kept'[k] = kept[k]
      BY DEF Within
    <2>. QED  BY <2>1 DEF IntakeInv, GrantedAll
  <1>5. HeldCounted(dayCount, kept', session, posts, boxes')
    <2>. SUFFICES ASSUME NEW a \in boxes
                  PROVE  Cardinality(InOf(kept', a)) + Cardinality(For(Waiting(session), a)) + Inject(posts, a)
                           <= Cardinality(Stock(dayCount, a))
      BY DEF HeldCounted
    <2>1. Inject(posts, a) \in {0, 1}
      BY DEF Inject
    <2>2. Cardinality(InOf(kept, a)) + Cardinality(For(Waiting(session), a)) + Inject(posts, a) <= Cardinality(Stock(dayCount, a))
      BY DEF IntakeInv, HeldCounted
    <2>3. Cardinality(InOf(kept, a)) \in Nat /\ Cardinality(Stock(dayCount, a)) \in Nat /\ Cardinality(For(Waiting(session), a)) \in Nat
      BY BoxNumbers
    <2>. QED  BY <1>2, <1>3, <2>1, <2>2, <2>3
  <1>6. SentCounted(dayCount, kept', posts, boxes')
    <2>. SUFFICES ASSUME NEW a \in boxes, NEW d \in Days
                  PROVE  dayCount[<<a, "out", d>>] >= Cardinality(OutOf(kept', a, d)) + SendOf(posts, a, d)
      BY DEF SentCounted
    <2>1. dayCount[<<a, "out", d>>] >= Cardinality(OutOf(kept, a, d)) + SendOf(posts, a, d)
      BY DEF IntakeInv, SentCounted
    <2>2. SendOf(posts, a, d) \in {0, 1}
      BY DEF SendOf
    <2>3. dayCount[<<a, "out", d>>] \in Nat /\ Cardinality(OutOf(kept, a, d)) \in Nat
      BY BoxNumbers
    <2>. QED  BY <1>2, <1>3, <2>1, <2>2, <2>3
  <1>7. Roomy(kept', posts, sentBack)
    <2>. DEFINE n == IF posts["send"].at # "idle" THEN 1 ELSE 0
    <2>1. Cardinality(Going(kept, "in")) <= MaxStored /\ Cardinality(Going(kept, "out")) + sentBack + n <= MaxOps
      BY DEF IntakeInv, Roomy
    <2>2. n \in Nat
      OBVIOUS
    <2>. HIDE DEF n
    <2>3. Cardinality(Going(kept', "in")) <= MaxStored /\ Cardinality(Going(kept', "out")) + sentBack + n <= MaxOps
      BY <1>1, <1>2, <1>3, <2>1, <2>2, IntakeNumbers
    <2>. QED  BY <2>3 DEF Roomy, n
  <1>8. Capped(dayCount, settings, boxes')
    BY DEF IntakeInv, Capped
  <1>. QED  BY <1>2, <1>4, <1>5, <1>6, <1>7, <1>8 DEF IntakeInv

LEMMA DropIntakeInv == ASSUME IntakeInv, NEW b \in Boxes, DropBox(b) PROVE IntakeInv'
  <1>1. /\ boxes' = boxes \ {b} /\ kept' = Within(kept, {k \in DOMAIN kept : kept[k].box # b})
        /\ DOMAIN addresses' = {x \in DOMAIN addresses : x[1] # b}
        /\ UNCHANGED <<today, settings, dayCount, org, session, posts, transaction, granted, sentBack>>
    BY DEF DropBox
  <1>. QED  BY <1>1, CutIntakeInv

LEMMA InitIntakeInv == ASSUME MailIntakeInit PROVE IntakeInv
  <1>1. \A b \in Boxes : Stock(dayCount, b) = {}
    <2>. SUFFICES ASSUME NEW b \in Boxes, NEW x PROVE x \notin Stock(dayCount, b)
      OBVIOUS
    <2>1. \A d \in Days : dayCount[<<b, "in", d>>] = 0
      BY DEF MailIntakeInit
    <2>2. x \in Stock(dayCount, b) => \E d \in Days : x \in {d} \X (1 .. dayCount[<<b, "in", d>>])
      BY DEF Stock
    <2>3. 1 .. 0 = {}
      OBVIOUS
    <2>4. \A d \in Days : {d} \X (1 .. dayCount[<<b, "in", d>>]) = {}
      BY <2>1, <2>3
    <2>. QED  BY <2>2, <2>4
  <1>2. Stocked(dayCount) /\ \A b \in Boxes : Cardinality(Stock(dayCount, b)) = 0
    BY <1>1, FS_EmptySet DEF Stocked
  <1>3. kept = <<>> /\ DOMAIN kept = {}
    BY DEF MailIntakeInit
  <1>4. /\ \A b, d : OutOf(kept, b, d) = {}
        /\ \A b : InOf(kept, b) = {}
        /\ \A way : Going(kept, way) = {}
    BY <1>3 DEF OutOf, InOf, Going
  <1>5. /\ \A b, d : Cardinality(OutOf(kept, b, d)) = 0
        /\ \A b : Cardinality(InOf(kept, b)) = 0
        /\ \A way : Cardinality(Going(kept, way)) = 0
    BY <1>4, FS_EmptySet
  <1>6. Letters(kept) /\ GrantedAll(kept, granted)
    BY <1>3, FS_EmptySet DEF Letters, GrantedAll
  <1>7. SessionOk(session, transaction, granted) /\ Waiting(session) = <<>>
    BY NoSessionRow, EmptyOk DEF MailIntakeInit
  <1>8. \A b : Cardinality(For(Waiting(session), b)) = 0
    BY <1>7, NoneWaiting
  <1>9. Quiet.at = "idle" /\ posts = [k \in {"inject", "send"} |-> Quiet]
    BY DEF MailIntakeInit, Quiet
  <1>10. PostsOk(posts) /\ (\A b : Inject(posts, b) = 0) /\ (\A b, d : SendOf(posts, b, d) = 0)
    BY <1>9 DEF PostsOk, Inject, SendOf
  <1>11. today = 0 /\ boxes = Boxes /\ settings \in [Boxes -> MailSettings] /\ DOMAIN addresses = {} /\ org.n = 0
         /\ transaction = 0 /\ sentBack = 0
    BY DEF MailIntakeInit
  <1>12. dayCount \in Counters /\ \A b \in Boxes, d \in Days : dayCount[<<b, "in", d>>] = 0 /\ dayCount[<<b, "out", d>>] = 0
    BY DEF MailIntakeInit, Counters
  <1>13. Capped(dayCount, settings, boxes)
    <2>1. \A b \in boxes : settings[b] \in MailSettings
      BY <1>11
    <2>2. \A b \in boxes : settings[b].inCap \in Nat /\ settings[b].outCap \in Nat
      BY <2>1, IntakeNumbers
    <2>. SUFFICES ASSUME NEW b \in boxes, NEW d \in Days
                  PROVE  /\ dayCount[<<b, "in", d>>] <= settings[b].inCap
                         /\ dayCount[<<b, "out", d>>] <= settings[b].outCap
      BY DEF Capped
    <2>3. dayCount[<<b, "in", d>>] = 0 /\ dayCount[<<b, "out", d>>] = 0
      BY <1>11, <1>12
    <2>. QED  BY <2>2, <2>3
  <1>14. SentCounted(dayCount, kept, posts, boxes)
    <2>. SUFFICES ASSUME NEW b \in boxes, NEW d \in Days
                  PROVE  dayCount[<<b, "out", d>>] >= Cardinality(OutOf(kept, b, d)) + SendOf(posts, b, d)
      BY DEF SentCounted
    <2>1. dayCount[<<b, "out", d>>] = 0
      BY <1>11, <1>12
    <2>2. Cardinality(OutOf(kept, b, d)) = 0 /\ SendOf(posts, b, d) = 0
      BY <1>5, <1>10
    <2>. QED  BY <2>1, <2>2
  <1>15. HeldCounted(dayCount, kept, session, posts, boxes)
    BY <1>2, <1>5, <1>8, <1>10, <1>11 DEF HeldCounted
  <1>16. Roomy(kept, posts, sentBack)
    <2>1. posts["send"].at = "idle"
      BY <1>9
    <2>. QED  BY <1>5, <1>11, <2>1, IntakeNumbers DEF Roomy
  <1>. QED  BY <1>2, <1>6, <1>7, <1>10, <1>11, <1>12, <1>13, <1>14, <1>15, <1>16, IntakeNumbers DEF IntakeInv

LEMMA NextIntakeInv == ASSUME IntakeInv, [MailIntakeNext]_intakeVars PROVE IntakeInv'
  <1>1. CASE Smtp
    <2>1. ASSUME NEW x \in Addresses, SmtpRcpt(x[1], x[2]) PROVE IntakeInv'
      BY <2>1, RcptIntakeInv DEF Addresses
    <2>. QED  BY <1>1, <2>1, HelloIntakeInv, MailCommandIntakeInv, DataIntakeInv, DeliversIntakeInv, AnswersIntakeInv, ResetsIntakeInv
              DEF Smtp
  <1>2. CASE Injects
    <2>1. ASSUME NEW x \in Addresses, InjectAdmits(x[1], x[2]) PROVE IntakeInv'
      BY <2>1, AdmitsIntakeInv DEF Addresses
    <2>. QED  BY <1>2, <2>1, StoresIntakeInv DEF Injects
  <1>3. CASE Sends
    <2>1. ASSUME NEW x \in Addresses, NEW to \in SeqOf(Addresses \cup Strangers, MaxRecipients), SendPrepares(x[1], x[2], to)
          PROVE  IntakeInv'
      <3>1. to \in Seq(Addresses \cup Strangers)
        BY IntakeNumbers DEF SeqOf
      <3>. QED  BY <2>1, <3>1, PreparesIntakeInv DEF Addresses
    <2>. QED  BY <1>3, <2>1, AsksIntakeInv, LoopsIntakeInv, SendStoresIntakeInv DEF Sends
  <1>4. CASE Midnight
    <2>1. today' \in Days
      BY <1>4, IntakeNumbers DEF Midnight, Days, IntakeInv
    <2>. QED  BY <1>4, <2>1 DEF Midnight, IntakeInv
  <1>5. ASSUME NEW x \in Addresses, PutAddress(x, "put") \/ PutAddress(x, "disable") PROVE IntakeInv'
    BY <1>5, PutIntakeInv
  <1>6. ASSUME NEW k \in DOMAIN kept, MailGoes(k) PROVE IntakeInv'
    BY <1>6, CutIntakeInv DEF MailGoes
  <1>7. ASSUME NEW b \in Boxes, DropBox(b) PROVE IntakeInv'
    BY <1>7, DropIntakeInv
  <1>8. CASE UNCHANGED intakeVars
    BY <1>8 DEF intakeVars, IntakeInv
  <1>. QED  BY <1>1, <1>2, <1>3, <1>4, <1>5, <1>6, <1>7, <1>8 DEF MailIntakeNext

LEMMA IntakeInvHolds == ASSUME IntakeInv PROVE IntakeHolds
  <1>1. Letters(kept) /\ Roomy(kept, posts, sentBack) /\ sentBack \in Nat
    BY DEF IntakeInv
  <1>2. MailIntakeTyped
    <2>. DEFINE A == Going(kept, "in")
                B == Going(kept, "out")
    <2>1. DOMAIN kept \in SUBSET (A \cup B)
      BY <1>1 DEF Letters, Letter, Going
    <2>2. IsFiniteSet(A) /\ IsFiniteSet(B) /\ Cardinality(A) \in Nat /\ Cardinality(B) \in Nat
      BY <1>1, LettersFinite
    <2>3. Cardinality(A) <= MaxStored /\ Cardinality(B) <= MaxOps
      BY <1>1, <2>2, IntakeNumbers DEF Roomy
    <2>. HIDE DEF A, B
    <2>4. IsFiniteSet(A \cup B) /\ IsFiniteSet(A \cap B) /\ Cardinality(A \cup B) = Cardinality(A) + Cardinality(B) - Cardinality(A \cap B)
      BY <2>2, FS_Union, FS_Intersection
    <2>5. Cardinality(A \cap B) \in Nat /\ Cardinality(DOMAIN kept) <= Cardinality(A \cup B) /\ Cardinality(DOMAIN kept) \in Nat
          /\ Cardinality(A \cup B) \in Nat
      BY <2>1, <2>4, Shrunk, FS_CardinalityType
    <2>6. Cardinality(DOMAIN kept) <= MaxStored + MaxOps
      BY <2>2, <2>3, <2>4, <2>5, IntakeNumbers
    <2>7. Len(session.rcpts) <= MaxRecipients
      BY SessionNow
    <2>. QED  BY <2>6, <2>7 DEF MailIntakeTyped, IntakeInv, Counters
  <1>3. OnlyAdmitted
    BY DEF OnlyAdmitted, IntakeInv, GrantedAll
  <1>4. CountsHold
    <2>. SUFFICES ASSUME NEW b \in boxes
                  PROVE  /\ \A d \in Days : /\ dayCount[<<b, "in", d>>] <= settings[b].inCap
                                            /\ dayCount[<<b, "out", d>>] <= settings[b].outCap
                                            /\ dayCount[<<b, "out", d>>] >= SentOn(b, d)
                                                 + (IF posts["send"].day = d THEN Sending(b) ELSE 0)
                         /\ Held(b, "in") <= Total(b, "in")
      BY DEF CountsHold
    <2>1. \A d \in Days : SentOn(b, d) = Cardinality(OutOf(kept, b, d))
      BY DEF SentOn, OutOf
    <2>2. \A d \in Days : (IF posts["send"].day = d THEN Sending(b) ELSE 0) = SendOf(posts, b, d)
      BY DEF Sending, SendOf
    <2>3. \A d \in Days : dayCount[<<b, "in", d>>] <= settings[b].inCap /\ dayCount[<<b, "out", d>>] <= settings[b].outCap
      BY DEF IntakeInv, Capped
    <2>4. \A d \in Days : dayCount[<<b, "out", d>>] >= Cardinality(OutOf(kept, b, d)) + SendOf(posts, b, d)
      BY DEF IntakeInv, SentCounted
    <2>5. Held(b, "in") = Cardinality(InOf(kept, b)) /\ Total(b, "in") = Cardinality(Stock(dayCount, b))
      BY DEF Held, InOf, Total, Stock
    <2>6. Cardinality(InOf(kept, b)) + Cardinality(For(Waiting(session), b)) + Inject(posts, b) <= Cardinality(Stock(dayCount, b))
      BY DEF IntakeInv, HeldCounted
    <2>7. Inject(posts, b) \in {0, 1}
      BY DEF Inject
    <2>8. Cardinality(InOf(kept, b)) <= Cardinality(Stock(dayCount, b))
      BY <2>6, <2>7, BoxNumbers
    <2>. QED  BY <2>1, <2>2, <2>3, <2>4, <2>5, <2>8
  <1>. QED  BY <1>2, <1>3, <1>4 DEF IntakeHolds

\* Only admitted mail is stored through SMTP, and no counter is over its cap or short of what it
\* counts, across midnight, refusals, instances deleted and messages removed (takeCount, PrepareSend,
\* ReturnSend and Admit in store.go, handle and deliver in smtp.go).
THEOREM IntakeKept == MailIntakeSpec => []IntakeHolds
  <1>1. MailIntakeInit => IntakeInv
    BY InitIntakeInv
  <1>2. IntakeInv /\ [MailIntakeNext]_intakeVars => IntakeInv'
    BY NextIntakeInv
  <1>3. IntakeInv => IntakeHolds
    BY IntakeInvHolds
  <1>. QED  BY <1>1, <1>2, <1>3, PTL DEF MailIntakeSpec

-----------------------------------------------------------------------------
(* Reading a mailbox *)

PollerRow == [at : {"away", "paging", "paged", "looked", "answered", "parked", "timedout"}, after : Nat,
              seen : SUBSET Nat, owed : SUBSET Nat, got : SUBSET Nat]

\* Whatever a client was promised is there, and was seen or is still to come, before the cursor.
PagerOk(p, L) ==
  /\ p.at = "paging" => \A i \in p.owed : i \in L /\ (i \in p.seen \/ p.after = Start \/ i < p.after)
  /\ p.at = "paged" => p.owed \subseteq p.seen

PollInv ==
  /\ drawn \in Nat /\ PollTyped /\ IsFiniteSet(DOMAIN waiters)
  /\ poller \in [Pollers -> PollerRow]
  /\ \A c \in Pollers : PagerOk(poller[c], letters)

-----------------------------------------------------------------------------
LEMMA LeastLetter ==
    ASSUME NEW S \in SUBSET Nat, S # {}
    PROVE  \E k \in S : \A i \in S : k <= i
  <1>. DEFINE R == OpToRel(<, Nat)
  <1>1. IsWellFoundedOn(R, Nat)
    BY NatLessThanWellFounded
  <1>2. \A x, y \in Nat : x < y => <<x, y>> \in R
    BY DEF OpToRel
  <1>. HIDE DEF R
  <1>3. PICK k \in S : \A i \in S : ~ (<<i, k>> \in R)
    BY <1>1, WFMin
  <1>4. \A i \in S : ~ (i < k)
    BY <1>2, <1>3
  <1>5. \A i \in S : k <= i
    BY <1>4
  <1>. QED  BY <1>5

LEMMA NewestLetter ==
    ASSUME NEW d \in Nat, NEW S \in SUBSET (1 .. d), S # {}
    PROVE  \E k \in S : \A i \in S : i <= k
  <1>. DEFINE T == {k \in Nat : \A i \in S : i <= k}
  <1>1. T \in SUBSET Nat /\ d \in T
    OBVIOUS
  <1>2. PICK m \in T : \A k \in T : m <= k
    BY <1>1, LeastLetter
  <1>3. m \in Nat /\ m >= 1 /\ \A i \in S : i <= m
    <2>1. PICK i \in S : TRUE
      OBVIOUS
    <2>2. i \in Nat /\ i >= 1
      BY <2>1
    <2>3. m \in Nat /\ \A j \in S : j <= m
      BY <1>2
    <2>4. i <= m
      BY <2>1, <2>3
    <2>. QED  BY <2>2, <2>3, <2>4
  <1>4. CASE m \in S
    BY <1>3, <1>4
  <1>5. CASE m \notin S
    <2>1. \A i \in S : i <= m - 1
      BY <1>3, <1>5
    <2>2. m - 1 \in T
      BY <1>3, <2>1
    <2>. QED  BY <1>2, <1>3, <2>2
  <1>. QED  BY <1>4, <1>5

\* What a page leaves out is before its cursor, and a page without a cursor leaves out nothing.
LEMMA PageLeaves ==
    ASSUME NEW d \in Nat, NEW S \in SUBSET (1 .. d)
    PROVE  /\ PageOf(S) \subseteq S /\ NextCursor(S) \in Nat
           /\ NextCursor(S) = Start => S \subseteq PageOf(S)
           /\ \A i \in S : i \in PageOf(S) \/ i < NextCursor(S)
  <1>. DEFINE n == LetterPage
              newer(i) == {y \in S : y > i}
              P == PageOf(S)
  <1>. USE DEF Start
  <1>0. S \subseteq Nat /\ \A i \in S : i >= 1
    OBVIOUS
  <1>1. n \in Nat /\ n > 0
    BY MailPollingAssumption
  <1>2. IsFiniteSet(S) /\ Cardinality(S) \in Nat
    <2>1. IsFiniteSet(1 .. d)
      BY FS_Interval
    <2>2. IsFiniteSet(S)
      BY <2>1, FS_Subset
    <2>. QED  BY <2>2, FS_CardinalityType
  <1>3. ASSUME NEW i PROVE IsFiniteSet(newer(i)) /\ Cardinality(newer(i)) \in Nat
    <2>1. newer(i) \subseteq S
      OBVIOUS
    <2>. HIDE DEF newer
    <2>2. IsFiniteSet(newer(i))
      BY <1>2, <2>1, FS_Subset
    <2>. QED  BY <2>2, FS_CardinalityType
  <1>4. P \subseteq S /\ \A i \in S : i \in P <=> Cardinality(newer(i)) < n
    BY DEF PageOf, Largest
  <1>. HIDE DEF P
  <1>5. CASE Cardinality(S) <= n
    <2>1. \A i \in S : Cardinality(newer(i)) < n
      <3>. SUFFICES ASSUME NEW i \in S PROVE Cardinality(newer(i)) < n
        OBVIOUS
      <3>. DEFINE S1 == S \ {i}
                  A == newer(i)
      <3>1. A \subseteq S1
        OBVIOUS
      <3>2. IsFiniteSet(S1) /\ Cardinality(S1) = Cardinality(S) - 1
        BY <1>2, FS_RemoveElement
      <3>3. Cardinality(A) \in Nat
        BY <1>3
      <3>. HIDE DEF S1, A
      <3>4. Cardinality(A) <= Cardinality(S1)
        BY <3>1, <3>2, FS_Subset
      <3>5. Cardinality(A) < n
        BY <1>1, <1>2, <1>5, <3>2, <3>3, <3>4
      <3>. QED  BY <3>5 DEF A
    <2>2. NextCursor(S) = Start
      BY <1>1, <1>2, <1>5 DEF NextCursor
    <2>3. \A i \in S : i \in P
      BY <1>4, <2>1
    <2>. QED  BY <2>2, <2>3, <1>4 DEF P
  <1>6. CASE Cardinality(S) > n
    <2>1. S # {}
      BY <1>1, <1>6, FS_EmptySet
    <2>2. PICK m \in S : \A i \in S : i <= m
      BY <2>1, NewestLetter
    <2>3. newer(m) = {}
      <3>1. \A i \in S : i \in Nat /\ m \in Nat /\ i <= m
        BY <1>0, <2>2
      <3>2. \A i \in S : ~(i > m)
        BY <3>1
      <3>. QED  BY <3>2
    <2>4. m \in P
      <3>1. Cardinality({}) = 0
        BY FS_EmptySet
      <3>2. Cardinality(newer(m)) < n
        BY <1>1, <2>3, <3>1
      <3>. QED  BY <1>4, <2>2, <3>2
    <2>5. P \in SUBSET Nat /\ P # {}
      BY <1>4, <2>4
    <2>6. \E k \in P : \A i \in P : k <= i
      BY <2>5, LeastLetter
    <2>7. Min(P) \in P /\ \A i \in P : Min(P) <= i
      BY <2>6 DEF Min
    <2>8. NextCursor(S) = Min(P)
      BY <1>6 DEF NextCursor, P
    <2>9. \A i \in S : i \in P \/ i < Min(P)
      <3>. SUFFICES ASSUME NEW i \in S, i \notin P, ~(i < Min(P)) PROVE FALSE
        OBVIOUS
      <3>. DEFINE k == Min(P)
      <3>0. k \in Nat /\ i \in Nat /\ k # i
        BY <1>0, <1>4, <2>7
      <3>. HIDE DEF k
      <3>1. i > k
        BY <3>0 DEF k
      <3>2. newer(i) \subseteq newer(Min(P))
        <4>1. \A y \in S : y > i => y > k
          BY <1>0, <3>0, <3>1
        <4>. QED  BY <4>1 DEF k
      <3>3. Cardinality(newer(i)) <= Cardinality(newer(Min(P)))
        <4>. DEFINE A == newer(i)
                    B == newer(Min(P))
        <4>1. IsFiniteSet(B) /\ A \subseteq B
          BY <1>3, <3>2
        <4>. HIDE DEF A, B
        <4>2. Cardinality(A) <= Cardinality(B)
          BY <4>1, FS_Subset
        <4>. QED  BY <4>2 DEF A, B
      <3>4. Cardinality(newer(Min(P))) < n /\ ~(Cardinality(newer(i)) < n)
        BY <1>4, <2>7
      <3>5. Cardinality(newer(i)) \in Nat /\ Cardinality(newer(Min(P))) \in Nat
        BY <1>3
      <3>. HIDE DEF newer
      <3>. QED  BY <1>1, <3>3, <3>4, <3>5
    <2>10. NextCursor(S) \in Nat /\ NextCursor(S) # Start
      <3>1. Min(P) \in S
        BY <1>4, <2>7
      <3>2. Min(P) \in Nat /\ Min(P) >= 1
        BY <1>0, <3>1
      <3>. QED  BY <2>8, <3>2
    <2>11. \A i \in S : i \in P \/ i < NextCursor(S)
      BY <2>8, <2>9
    <2>. QED  BY <1>4, <2>10, <2>11 DEF P
  <1>7. Cardinality(S) <= n \/ Cardinality(S) > n
    BY <1>1, <1>2
  <1>. QED  BY <1>5, <1>6, <1>7

-----------------------------------------------------------------------------
LEMMA AwayRow == Away \in PollerRow /\ \A L : PagerOk(Away, L)
  BY DEF Away, PollerRow, PagerOk, Start

\* A step of one client.
LEMMA OnePoller ==
    ASSUME PollInv, NEW c \in Pollers, NEW p \in PollerRow, PagerOk(p, letters), poller' = [poller EXCEPT ![c] = p]
    PROVE  poller' \in [Pollers -> PollerRow] /\ \A x \in Pollers : PagerOk(poller'[x], letters)
  BY DEF PollInv

LEMMA InitPollInv == ASSUME PollInit PROVE PollInv
  <1>1. IsFiniteSet({}) /\ Cardinality({}) = 0
    BY FS_EmptySet
  <1>2. DOMAIN waiters = {}
    BY DEF PollInit
  <1>3. MaxWaiters \in Nat
    BY MailPollingAssumption
  <1>4. PollTyped
    BY <1>1, <1>2, <1>3 DEF PollInit, PollTyped
  <1>. QED  BY <1>1, <1>2, <1>4, AwayRow DEF PollInit, PollInv

LEMMA DrawsPollInv == ASSUME PollInv, Draws PROVE PollInv'
  <1>1. drawn' = drawn + 1 /\ arriving' = arriving \cup {drawn + 1} /\ UNCHANGED <<letters, waiters, poller>> /\ drawn \in Nat
    BY DEF Draws, PollInv
  <1>2. PollTyped'
    BY <1>1 DEF PollInv, PollTyped
  <1>. QED  BY <1>1, <1>2 DEF PollInv

LEMMA StoresPollInv == ASSUME PollInv, NEW id \in 1 .. drawn, Stores(id) PROVE PollInv'
  <1>. DEFINE q(c) == IF c \in Woken(id) THEN [poller[c] EXCEPT !.got = {id}] ELSE poller[c]
  <1>1. /\ id \in arriving /\ arriving' = arriving \ {id} /\ letters' = letters \cup {id} /\ drawn' = drawn
        /\ DOMAIN waiters' = DOMAIN waiters \ Woken(id) /\ poller' = [c \in Pollers |-> q(c)]
    BY DEF Stores
  <1>2. IsFiniteSet(DOMAIN waiters') /\ Cardinality(DOMAIN waiters') <= Cardinality(DOMAIN waiters)
        /\ Cardinality(DOMAIN waiters') \in Nat /\ Cardinality(DOMAIN waiters) \in Nat
    BY <1>1, FS_Subset, FS_CardinalityType DEF PollInv
  <1>3. PollTyped'
    BY <1>1, <1>2, MailPollingAssumption DEF PollInv, PollTyped
  <1>4. ASSUME NEW c \in Pollers PROVE q(c) \in PollerRow /\ PagerOk(q(c), letters')
    <2>1. poller[c] \in PollerRow /\ PagerOk(poller[c], letters) /\ {id} \in SUBSET Nat
      BY DEF PollInv
    <2>2. q(c) \in PollerRow /\ q(c).at = poller[c].at /\ q(c).owed = poller[c].owed /\ q(c).seen = poller[c].seen
          /\ q(c).after = poller[c].after
      BY <2>1 DEF PollerRow
    <2>. HIDE DEF q
    <2>. QED  BY <1>1, <2>1, <2>2 DEF PagerOk
  <1>. HIDE DEF q
  <1>5. poller' \in [Pollers -> PollerRow] /\ \A c \in Pollers : PagerOk(poller'[c], letters')
    BY <1>1, <1>4
  <1>. QED  BY <1>1, <1>2, <1>3, <1>5 DEF PollInv

LEMMA GoesPollInv == ASSUME PollInv, NEW id \in 1 .. drawn, LetterGoes(id) PROVE PollInv'
  <1>. DEFINE q(c) == [poller[c] EXCEPT !.owed = poller[c].owed \ {id}]
  <1>1. letters' = letters \ {id} /\ poller' = [c \in Pollers |-> q(c)] /\ UNCHANGED <<drawn, arriving, waiters>>
    BY DEF LetterGoes
  <1>2. PollTyped'
    BY <1>1 DEF PollInv, PollTyped
  <1>3. ASSUME NEW c \in Pollers PROVE q(c) \in PollerRow /\ PagerOk(q(c), letters')
    <2>1. poller[c] \in PollerRow /\ PagerOk(poller[c], letters)
      BY DEF PollInv
    <2>2. q(c) \in PollerRow /\ q(c).at = poller[c].at /\ q(c).owed = poller[c].owed \ {id} /\ q(c).seen = poller[c].seen
          /\ q(c).after = poller[c].after
      BY <2>1 DEF PollerRow
    <2>. HIDE DEF q
    <2>. QED  BY <1>1, <2>1, <2>2 DEF PagerOk
  <1>. HIDE DEF q
  <1>4. poller' \in [Pollers -> PollerRow] /\ \A c \in Pollers : PagerOk(poller'[c], letters')
    BY <1>1, <1>3
  <1>. QED  BY <1>1, <1>2, <1>4 DEF PollInv

\* A client steps and the rest stays.
LEMMA ClientSteps ==
    ASSUME PollInv, NEW c \in Pollers, NEW p \in PollerRow, PagerOk(p, letters), poller' = [poller EXCEPT ![c] = p],
           UNCHANGED <<drawn, arriving, letters, waiters>>
    PROVE  PollInv'
  <1>1. poller' \in [Pollers -> PollerRow] /\ \A x \in Pollers : PagerOk(poller'[x], letters)
    BY OnePoller
  <1>. QED  BY <1>1 DEF PollInv, PollTyped

LEMMA PagesFromPollInv == ASSUME PollInv, NEW c \in Pollers, PagesFrom(c) PROVE PollInv'
  <1>. DEFINE p == [Away EXCEPT !.at = "paging", !.owed = letters]
  <1>1. poller' = [poller EXCEPT ![c] = p] /\ UNCHANGED <<drawn, arriving, letters, waiters>> /\ letters \subseteq Nat
    BY DEF PagesFrom, PollInv, PollTyped
  <1>2. p \in PollerRow /\ PagerOk(p, letters)
    BY <1>1 DEF PollerRow, PagerOk, Away, Start
  <1>. HIDE DEF p
  <1>. QED  BY <1>1, <1>2, ClientSteps

LEMMA PagesOnPollInv == ASSUME PollInv, NEW c \in Pollers, PagesOn(c) PROVE PollInv'
  <1>. DEFINE w == poller[c]
              rest == Older(w.after)
              next == NextCursor(rest)
              page == PageOf(rest)
              p == [[[w EXCEPT !.seen = w.seen \cup page] EXCEPT !.after = next]
                      EXCEPT !.at = IF next = Start THEN "paged" ELSE "paging"]
  <1>1. w.at = "paging" /\ UNCHANGED <<drawn, arriving, letters, waiters>> /\ poller \in [Pollers -> PollerRow]
        /\ w \in PollerRow /\ PagerOk(w, letters)
    BY DEF PagesOn, PollInv
  <1>2. rest \in SUBSET (1 .. drawn) /\ drawn \in Nat /\ \A i \in letters : i \in rest <=> (w.after = Start \/ i < w.after)
    BY DEF PollInv, PollTyped, Older
  <1>. HIDE DEF rest
  <1>3. /\ page \subseteq rest /\ next \in Nat
        /\ next = Start => rest \subseteq page
        /\ \A i \in rest : i \in page \/ i < next
    BY <1>2, PageLeaves
  <1>. HIDE DEF page, next
  <1>4. poller' = [poller EXCEPT ![c] = p]
    BY <1>1 DEF PagesOn, rest, next, page, PollerRow
  <1>5. /\ p \in PollerRow /\ p.seen = w.seen \cup page /\ p.after = next /\ p.owed = w.owed
        /\ next = Start => p.at = "paged"
        /\ next # Start => p.at = "paging"
    <2>1. page \in SUBSET Nat /\ next \in Nat
      BY <1>2, <1>3
    <2>2. w \in PollerRow
      BY <1>1
    <2>. HIDE DEF w
    <2>3. CASE next = Start
      BY <2>1, <2>2, <2>3 DEF PollerRow
    <2>4. CASE next # Start
      BY <2>1, <2>2, <2>4 DEF PollerRow
    <2>. QED  BY <2>3, <2>4
  <1>. HIDE DEF p, w
  <1>6. PagerOk(p, letters)
    <2>1. \A i \in w.owed : i \in letters /\ (i \in w.seen \/ i \in rest)
      BY <1>1, <1>2 DEF PagerOk
    <2>2. CASE next = Start
      BY <1>3, <1>5, <2>1, <2>2 DEF PagerOk
    <2>3. CASE next # Start
      BY <1>3, <1>5, <2>1, <2>3 DEF PagerOk
    <2>. QED  BY <2>2, <2>3
  <1>7. UNCHANGED <<drawn, arriving, letters, waiters>> /\ p \in PollerRow
    BY <1>1, <1>5
  <1>. QED  BY <1>4, <1>6, <1>7, ClientSteps

LEMMA LooksPollInv == ASSUME PollInv, NEW c \in Pollers, NEW after \in 0 .. drawn, WaitLooks(c, after) PROVE PollInv'
  <1>. DEFINE newer == {i \in letters : i > after}
              p == [Away EXCEPT !.at = IF newer = {} THEN "looked" ELSE "answered", !.after = after,
                                !.got = Smallest(newer, LetterPage)]
  <1>1. poller' = [poller EXCEPT ![c] = p] /\ UNCHANGED <<drawn, arriving, letters, waiters>>
        /\ letters \subseteq Nat /\ drawn \in Nat /\ after \in Nat
    BY DEF WaitLooks, PollInv, PollTyped
  <1>2. Smallest(newer, LetterPage) \in SUBSET Nat
    BY <1>1 DEF Smallest
  <1>3. p \in PollerRow /\ PagerOk(p, letters)
    <2>. HIDE DEF newer
    <2>. QED  BY <1>1, <1>2 DEF PollerRow, PagerOk, Away
  <1>. HIDE DEF p
  <1>. QED  BY <1>1, <1>3, ClientSteps

LEMMA ParksPollInv == ASSUME PollInv, NEW c \in Pollers, WaitParks(c) PROVE PollInv'
  <1>1. poller[c].at = "looked" /\ UNCHANGED <<drawn, arriving, letters>> /\ poller \in [Pollers -> PollerRow]
        /\ poller[c] \in PollerRow /\ IsFiniteSet(DOMAIN waiters) /\ MaxWaiters \in Nat /\ Cardinality(DOMAIN waiters) \in Nat
    BY MailPollingAssumption, FS_CardinalityType DEF WaitParks, PollInv
  <1>2. CASE Cardinality(DOMAIN waiters) >= MaxWaiters
    <2>. DEFINE p == [poller[c] EXCEPT !.at = "answered"]
    <2>1. poller' = [poller EXCEPT ![c] = p] /\ waiters' = waiters
      BY <1>1, <1>2 DEF WaitParks
    <2>2. p \in PollerRow /\ PagerOk(p, letters)
      BY <1>1 DEF PollerRow, PagerOk
    <2>. HIDE DEF p
    <2>. QED  BY <1>1, <2>1, <2>2, ClientSteps
  <1>3. CASE ~(Cardinality(DOMAIN waiters) >= MaxWaiters)
    <2>. DEFINE p == [poller[c] EXCEPT !.at = "parked"]
    <2>1. poller' = [poller EXCEPT ![c] = p] /\ DOMAIN waiters' = DOMAIN waiters \cup {c}
      BY <1>1, <1>3 DEF WaitParks
    <2>2. p \in PollerRow /\ PagerOk(p, letters)
      BY <1>1 DEF PollerRow, PagerOk
    <2>. HIDE DEF p
    <2>3. poller' \in [Pollers -> PollerRow] /\ \A x \in Pollers : PagerOk(poller'[x], letters)
      BY <2>1, <2>2, OnePoller
    <2>4. IsFiniteSet(DOMAIN waiters') /\ Cardinality(DOMAIN waiters') <= MaxWaiters
      <3>1. IsFiniteSet(DOMAIN waiters \cup {c}) /\ Cardinality(DOMAIN waiters \cup {c}) <= Cardinality(DOMAIN waiters) + 1
            /\ Cardinality(DOMAIN waiters \cup {c}) \in Nat
        <4>. DEFINE D == DOMAIN waiters
                    E == D \cup {c}
        <4>1. IsFiniteSet(D) /\ Cardinality(D) \in Nat
          BY <1>1
        <4>. HIDE DEF D
        <4>2. IsFiniteSet(E) /\ (Cardinality(E) = Cardinality(D) \/ Cardinality(E) = Cardinality(D) + 1)
          BY <4>1, FS_AddElement
        <4>3. Cardinality(E) <= Cardinality(D) + 1 /\ Cardinality(E) \in Nat
          BY <4>1, <4>2
        <4>. QED  BY <4>2, <4>3 DEF D
      <3>. QED  BY <1>1, <1>3, <2>1, <3>1
    <2>. QED  BY <1>1, <2>1, <2>3, <2>4 DEF PollInv, PollTyped
  <1>. QED  BY <1>2, <1>3

LEMMA EndsPollInv == ASSUME PollInv, NEW c \in Pollers, NEW timedOut \in BOOLEAN, WaitEnds(c, timedOut) PROVE PollInv'
  <1>. DEFINE w == poller[c]
              p == [[w EXCEPT !.at = IF timedOut THEN "timedout" ELSE "answered"] EXCEPT !.got = IF timedOut THEN {} ELSE w.got]
  <1>1. /\ UNCHANGED <<drawn, arriving, letters>> /\ poller \in [Pollers -> PollerRow] /\ w \in PollerRow
        /\ IsFiniteSet(DOMAIN waiters) /\ MaxWaiters \in Nat /\ Cardinality(DOMAIN waiters) \in Nat
        /\ DOMAIN waiters' = DOMAIN waiters \ {c}
    BY MailPollingAssumption, FS_CardinalityType DEF WaitEnds, PollInv
  <1>2. poller' = [poller EXCEPT ![c] = p]
    BY <1>1 DEF WaitEnds, PollerRow
  <1>3. p \in PollerRow /\ PagerOk(p, letters)
    <2>. HIDE DEF w
    <2>. QED  BY <1>1 DEF PollerRow, PagerOk
  <1>. HIDE DEF p
  <1>4. poller' \in [Pollers -> PollerRow] /\ \A x \in Pollers : PagerOk(poller'[x], letters)
    BY <1>2, <1>3, OnePoller
  <1>5. IsFiniteSet(DOMAIN waiters') /\ Cardinality(DOMAIN waiters') <= Cardinality(DOMAIN waiters) /\ Cardinality(DOMAIN waiters') \in Nat
    BY <1>1, FS_Subset, FS_CardinalityType
  <1>. QED  BY <1>1, <1>4, <1>5 DEF PollInv, PollTyped

LEMMA NextPollInv == ASSUME PollInv, [PollNext]_pollVars PROVE PollInv'
  <1>1. ASSUME NEW c \in Pollers, PollerDone(c) PROVE PollInv'
    BY <1>1, AwayRow, ClientSteps DEF PollerDone
  <1>2. CASE UNCHANGED pollVars
    BY <1>2 DEF pollVars, PollInv, PollTyped
  <1>. QED  BY <1>1, <1>2, DrawsPollInv, StoresPollInv, GoesPollInv, PagesFromPollInv, PagesOnPollInv, LooksPollInv,
               ParksPollInv, EndsPollInv DEF PollNext

\* A client that pages to the end has seen every message that was there when it began and still is,
\* whatever is stored and removed between its pages, and no more wait than may (List, WaitFor, wake).
THEOREM PagesKept == PollSpec => []PagesHold
  <1>1. PollInit => PollInv
    BY InitPollInv
  <1>2. PollInv /\ [PollNext]_pollVars => PollInv'
    BY NextPollInv
  <1>3. PollInv => PagesHold
    BY DEF PollInv, PagesHold, PagesComplete, PagerOk
  <1>. QED  BY <1>1, <1>2, <1>3, PTL DEF PollSpec

-----------------------------------------------------------------------------
(* The socket: what links and calls are *)

Causes == {"connect", "timer"}
Mentions == {"subscribe", "unsubscribe"}
AckTypes == {"published", "error"}
Requests == [type : Mentions \cup {"publish"}, channels : SUBSET Topics, call : Nat]
Replies == [type : {"subscribed"}, channels : SUBSET Topics, refused : SUBSET Topics] \cup [type : AckTypes, call : Nat]
LinkRow == [up : {"connecting", "open", "broken", "lost"}, by : Causes, asked : SUBSET Topics, sub : SUBSET Topics,
            all : BOOLEAN, missed : SUBSET Topics, refused : SUBSET Topics, in : Seq(Requests), out : Seq(Replies)]
CallRow == [op : Mentions \cup {"publish"}, chs : SUBSET Topics, at : {"waiting", "done", "failed", "ok"},
            on : Nat, sent : BOOLEAN]

SocketTypes ==
  /\ lang \in Langs /\ state \in {"idle", "connecting", "open", "reconnecting", "closed"}
  /\ cur \in 0 .. Len(links) /\ desired \in SUBSET Topics /\ explicit \in BOOLEAN /\ closed \in BOOLEAN
  /\ timers \in Nat /\ dials \in [Causes -> Nat] /\ links \in Seq(LinkRow) /\ calls \in Seq(CallRow)
  /\ pendingSubs \in Seq(Nat) /\ pendingPubs \in Seq(Nat)
  /\ \A i \in DOMAIN pendingSubs : pendingSubs[i] \in DOMAIN calls /\ calls[pendingSubs[i]].op = "subscribe"
  /\ \A i \in DOMAIN pendingPubs : pendingPubs[i] \in DOMAIN calls /\ calls[pendingPubs[i]].op = "publish"

\* A link that opens was asked for what is wanted, but for what was mentioned since.
Opening(link, D) ==
  link.up = "connecting" =>
    /\ link.in = <<>> /\ link.out = <<>> /\ D \ link.missed \subseteq link.asked
    /\ ~link.all => link.asked \ link.missed \subseteq D

\* A call whose frame is not written yet, and mentions the channel on the link.
Unwritten(cs, k, l, ch) == ~cs[k].sent /\ cs[k].on = l /\ ch \in cs[k].chs

\* The last mention of a channel, wherever it is on its way, is what is wanted.
Heeds(link, l, cs, D, ch) ==
  /\ \A k \in DOMAIN cs : Unwritten(cs, k, l, ch) => (cs[k].op = "subscribe" <=> ch \in D)
  /\ \/ \E k \in DOMAIN cs : Unwritten(cs, k, l, ch)
     \/ \E i \in DOMAIN link.in : /\ ch \in link.in[i].channels /\ (link.in[i].type = "subscribe" <=> ch \in D)
                                  /\ \A j \in DOMAIN link.in : j > i => ch \notin link.in[j].channels
     \/ /\ \A i \in DOMAIN link.in : ch \notin link.in[i].channels
        /\ ch \in D => ch \in link.sub \cup link.refused
        /\ ~link.all /\ ch \in link.sub => ch \in D

Heedful(link, l, cs, D) == \A ch \in Topics \ link.missed : Heeds(link, l, cs, D, ch)

\* Publishes mention no channel.
PlainPublish(link) == \A i \in DOMAIN link.in : link.in[i].type = "publish" => link.in[i].channels = {}

SocketInv ==
  /\ SocketTypes
  /\ \A l \in Live : Opening(links[l], desired) /\ PlainPublish(links[l])
  /\ \A k \in DOMAIN calls : /\ calls[k].op = "publish" => calls[k].chs = {}
                             /\ ~calls[k].sent => /\ lang = "go" /\ calls[k].on \in Live
                                                  /\ links[calls[k].on].up # "connecting"
  /\ lang # "js" /\ cur # 0 => links[cur].up \in {"open", "broken"}
  /\ IsOpen /\ links[cur].up = "open" => Heedful(links[cur], cur, calls, desired)

-----------------------------------------------------------------------------

LEMMA LinkPut ==
    ASSUME NEW L \in Seq(LinkRow), NEW l \in DOMAIN L, NEW r \in LinkRow
    PROVE  LET v == [L EXCEPT ![l] = r] IN
           /\ v \in Seq(LinkRow) /\ Len(v) = Len(L) /\ DOMAIN v = DOMAIN L /\ v[l] = r
           /\ \A m \in DOMAIN L : m # l => v[m] = L[m]
  <1>. DEFINE v == [L EXCEPT ![l] = r]
  <1>1. l \in 1 .. Len(L) /\ DOMAIN L = 1 .. Len(L)
    OBVIOUS
  <1>2. v \in Seq(LinkRow) /\ Len(v) = Len(L)
    BY <1>1
  <1>3. DOMAIN v = DOMAIN L /\ v[l] = r /\ \A m \in DOMAIN L : m # l => v[m] = L[m]
    BY <1>1
  <1>. QED  BY <1>2, <1>3

LEMMA CallPut ==
    ASSUME NEW C \in Seq(CallRow), NEW k \in DOMAIN C, NEW r \in CallRow
    PROVE  LET v == [C EXCEPT ![k] = r] IN
           /\ v \in Seq(CallRow) /\ Len(v) = Len(C) /\ DOMAIN v = DOMAIN C /\ v[k] = r
           /\ \A m \in DOMAIN C : m # k => v[m] = C[m]
  <1>. DEFINE v == [C EXCEPT ![k] = r]
  <1>1. k \in 1 .. Len(C) /\ DOMAIN C = 1 .. Len(C)
    OBVIOUS
  <1>2. v \in Seq(CallRow) /\ Len(v) = Len(C)
    BY <1>1
  <1>3. DOMAIN v = DOMAIN C /\ v[k] = r /\ \A m \in DOMAIN C : m # k => v[m] = C[m]
    BY <1>1
  <1>. QED  BY <1>2, <1>3

\* Calls that differ in how they ended only.
SameFrames(cs, ds) ==
  DOMAIN ds = DOMAIN cs /\ \A k \in DOMAIN cs : /\ ds[k].op = cs[k].op /\ ds[k].chs = cs[k].chs
                                                /\ ds[k].on = cs[k].on /\ ds[k].sent = cs[k].sent

\* What a link heeds is in what it holds and in the frames not written.
LEMMA HeedsSame ==
    ASSUME NEW link, NEW r, NEW l, NEW cs, NEW ds, NEW D, Heedful(link, l, cs, D), SameFrames(cs, ds),
           r.in = link.in, r.sub = link.sub, r.refused = link.refused, r.all = link.all, r.missed = link.missed
    PROVE  Heedful(r, l, ds, D)
  <1>. SUFFICES ASSUME NEW ch \in Topics \ link.missed PROVE Heeds(r, l, ds, D, ch)
    BY DEF Heedful
  <1>1. Heeds(link, l, cs, D, ch)
    BY DEF Heedful
  <1>2. \A k \in DOMAIN cs : Unwritten(ds, k, l, ch) = Unwritten(cs, k, l, ch)
    BY DEF Unwritten, SameFrames
  <1>3. DOMAIN ds = DOMAIN cs /\ \A k \in DOMAIN cs : ds[k].op = cs[k].op
    BY DEF SameFrames
  <1>. QED  BY <1>1, <1>2, <1>3 DEF Heeds

\* A link that opens heeds all it was asked for.
LEMMA HeedsOpened ==
    ASSUME NEW link, NEW r, NEW l, NEW cs, NEW D, link.up = "connecting", Opening(link, D),
           NEW refused, r.in = <<>>, r.sub = link.asked \ refused, r.refused = refused, r.all = link.all,
           r.missed = link.missed, \A k \in DOMAIN cs : ~cs[k].sent => cs[k].on # l
    PROVE  Heedful(r, l, cs, D)
  <1>. SUFFICES ASSUME NEW ch \in Topics \ link.missed PROVE Heeds(r, l, cs, D, ch)
    BY DEF Heedful
  <1>1. \A k \in DOMAIN cs : ~Unwritten(cs, k, l, ch)
    BY DEF Unwritten
  <1>2. /\ \A i \in DOMAIN r.in : ch \notin r.in[i].channels
        /\ ch \in D => ch \in r.sub \cup r.refused
        /\ ~r.all /\ ch \in r.sub => ch \in D
    BY DEF Opening
  <1>. QED  BY <1>1, <1>2 DEF Heeds

\* What the server says of a frame.
ReadsAs(link, sub, refused) ==
  /\ \A ch : ch \notin Head(link.in).channels => /\ ch \in sub <=> ch \in link.sub
                                                 /\ ch \in link.sub \cup link.refused => ch \in sub \cup refused
  /\ \A ch \in Head(link.in).channels : /\ Head(link.in).type = "subscribe" => ch \in sub \cup refused
                                        /\ Head(link.in).type = "unsubscribe" => ch \notin sub

\* The server reads the oldest frame.
LEMMA HeedsRead ==
    ASSUME NEW link \in LinkRow, NEW r \in LinkRow, NEW l, NEW cs, NEW D, Heedful(link, l, cs, D), PlainPublish(link), link.in # <<>>,
           r.in = Tail(link.in), r.all = link.all, r.missed = link.missed, ReadsAs(link, r.sub, r.refused)
    PROVE  Heedful(r, l, cs, D)
  <1>. SUFFICES ASSUME NEW ch \in Topics \ link.missed PROVE Heeds(r, l, cs, D, ch)
    BY DEF Heedful
  <1>. DEFINE n == Len(link.in)
  <1>1. Heeds(link, l, cs, D, ch)
    BY DEF Heedful
  <1>2. /\ link.in \in Seq(Requests) /\ n \in Nat /\ n > 0 /\ DOMAIN link.in = 1 .. n
        /\ DOMAIN r.in = 1 .. (n - 1) /\ \A i \in 1 .. (n - 1) : r.in[i] = link.in[i + 1]
    BY DEF LinkRow
  <1>3. Head(link.in) = link.in[1] /\ link.in[1] \in Requests
    BY <1>2
  <1>. HIDE DEF n
  <1>4. CASE \E k \in DOMAIN cs : Unwritten(cs, k, l, ch)
    BY <1>1, <1>4 DEF Heeds
  <1>5. CASE \E i \in DOMAIN link.in : /\ ch \in link.in[i].channels /\ (link.in[i].type = "subscribe" <=> ch \in D)
                                       /\ \A j \in DOMAIN link.in : j > i => ch \notin link.in[j].channels
    <2>1. PICK i \in 1 .. n : /\ ch \in link.in[i].channels /\ (link.in[i].type = "subscribe" <=> ch \in D)
                              /\ \A j \in 1 .. n : j > i => ch \notin link.in[j].channels
      BY <1>5, <1>2
    <2>2. CASE i = 1
      <3>1. \A j \in DOMAIN r.in : ch \notin r.in[j].channels
        <4>. SUFFICES ASSUME NEW j \in 1 .. (n - 1) PROVE ch \notin r.in[j].channels
          BY <1>2
        <4>1. j + 1 \in 1 .. n /\ j + 1 > 1
          BY <1>2
        <4>. QED  BY <4>1, <2>1, <2>2, <1>2
      <3>2. ch \in Head(link.in).channels
        BY <2>1, <2>2, <1>3
      <3>3. link.in[1].type # "publish"
        BY <2>1, <2>2, <1>2 DEF PlainPublish
      <3>4. link.in[1].type = "subscribe" \/ link.in[1].type = "unsubscribe"
        BY <3>3, <1>3 DEF Requests, Mentions
      <3>5. CASE link.in[1].type = "subscribe"
        BY <3>5, <3>2, <3>1, <1>1, <1>3, <2>1, <2>2 DEF Heeds, ReadsAs
      <3>6. CASE link.in[1].type = "unsubscribe"
        BY <3>6, <3>2, <3>1, <1>1, <1>3, <2>1, <2>2 DEF Heeds, ReadsAs
      <3>. QED  BY <3>4, <3>5, <3>6
    <2>3. CASE i # 1
      <3>1. i - 1 \in 1 .. (n - 1) /\ r.in[i - 1] = link.in[i]
        <4>1. i - 1 \in 1 .. (n - 1) /\ (i - 1) + 1 = i
          BY <1>2, <2>3
        <4>. QED  BY <4>1, <1>2
      <3>2. \A j \in DOMAIN r.in : j > i - 1 => ch \notin r.in[j].channels
        <4>. SUFFICES ASSUME NEW j \in 1 .. (n - 1), j > i - 1 PROVE ch \notin r.in[j].channels
          BY <1>2
        <4>1. j + 1 \in 1 .. n /\ j + 1 > i
          BY <1>2
        <4>. QED  BY <4>1, <2>1, <1>2
      <3>3. i - 1 \in DOMAIN r.in /\ ch \in r.in[i - 1].channels /\ (r.in[i - 1].type = "subscribe" <=> ch \in D)
        BY <3>1, <2>1, <1>2
      <3>. QED  BY <3>2, <3>3, <1>1 DEF Heeds
    <2>. QED  BY <2>2, <2>3
  <1>6. CASE /\ \A i \in DOMAIN link.in : ch \notin link.in[i].channels
             /\ ch \in D => ch \in link.sub \cup link.refused
             /\ ~link.all /\ ch \in link.sub => ch \in D
    <2>1. \A j \in DOMAIN r.in : ch \notin r.in[j].channels
      <3>. SUFFICES ASSUME NEW j \in 1 .. (n - 1) PROVE ch \notin r.in[j].channels
        BY <1>2
      <3>1. j + 1 \in 1 .. n
        BY <1>2
      <3>. QED  BY <3>1, <1>6, <1>2
    <2>2. ch \notin Head(link.in).channels
      BY <1>6, <1>2, <1>3
    <2>3. /\ ch \in D => ch \in r.sub \cup r.refused
          /\ ~r.all /\ ch \in r.sub => ch \in D
      BY <2>2, <1>6 DEF ReadsAs
    <2>. QED  BY <2>1, <2>3, <1>1 DEF Heeds
  <1>. QED  BY <1>1, <1>4, <1>5, <1>6 DEF Heeds

\* A frame goes last into what is on its way.
LEMMA LastFrame ==
    ASSUME NEW q \in Seq(Requests), NEW f \in Requests, NEW n, n = Len(q)
    PROVE  /\ Append(q, f) \in Seq(Requests) /\ n \in Nat /\ DOMAIN q = 1 .. n
           /\ DOMAIN Append(q, f) = 1 .. (n + 1) /\ n + 1 \in 1 .. (n + 1)
           /\ Append(q, f)[n + 1] = f /\ \A i \in 1 .. n : i \in 1 .. (n + 1) /\ i < n + 1 /\ Append(q, f)[i] = q[i]
  OBVIOUS

\* A frame that agrees with what is wanted is written after the others.
LEMMA HeedsWritten ==
    ASSUME NEW link \in LinkRow, NEW r, NEW l, NEW cs, NEW D, NEW f \in Requests, NEW ch,
           r.in = Append(link.in, f), r.sub = link.sub, r.refused = link.refused, r.all = link.all,
           \A k \in DOMAIN cs : Unwritten(cs, k, l, ch) => (cs[k].op = "subscribe" <=> ch \in D),
           ch \in f.channels => (f.type = "subscribe" <=> ch \in D),
           ch \notin f.channels => \/ \E k \in DOMAIN cs : Unwritten(cs, k, l, ch)
                                   \/ Heeds(link, l, cs, D, ch)
    PROVE  Heeds(r, l, cs, D, ch)
  <1>. DEFINE n == Len(link.in)
  <1>1. link.in \in Seq(Requests)
    BY DEF LinkRow
  <1>2. /\ n \in Nat /\ DOMAIN link.in = 1 .. n /\ DOMAIN r.in = 1 .. (n + 1) /\ n + 1 \in 1 .. (n + 1)
        /\ r.in[n + 1] = f /\ \A i \in 1 .. n : i \in 1 .. (n + 1) /\ i < n + 1 /\ r.in[i] = link.in[i]
    BY <1>1, LastFrame
  <1>. HIDE DEF n
  <1>3. \A j \in 1 .. (n + 1) : j \in 1 .. n \/ j = n + 1
    BY <1>2
  <1>4. CASE ch \in f.channels
    <2>1. \A j \in DOMAIN r.in : ~(j > n + 1)
      BY <1>2
    <2>. QED  BY <2>1, <1>4, <1>2 DEF Heeds
  <1>5. CASE ch \notin f.channels
    <2>1. CASE \E k \in DOMAIN cs : Unwritten(cs, k, l, ch)
      BY <2>1 DEF Heeds
    <2>2. CASE \E i \in DOMAIN link.in : /\ ch \in link.in[i].channels /\ (link.in[i].type = "subscribe" <=> ch \in D)
                                         /\ \A j \in DOMAIN link.in : j > i => ch \notin link.in[j].channels
      <3>1. PICK i \in 1 .. n : /\ ch \in link.in[i].channels /\ (link.in[i].type = "subscribe" <=> ch \in D)
                                /\ \A j \in 1 .. n : j > i => ch \notin link.in[j].channels
        BY <2>2, <1>2
      <3>2. i \in DOMAIN r.in /\ ch \in r.in[i].channels /\ (r.in[i].type = "subscribe" <=> ch \in D)
        BY <3>1, <1>2
      <3>3. \A j \in DOMAIN r.in : j > i => ch \notin r.in[j].channels
        BY <3>1, <1>2, <1>3, <1>5
      <3>. QED  BY <3>2, <3>3 DEF Heeds
    <2>3. CASE /\ \A i \in DOMAIN link.in : ch \notin link.in[i].channels
               /\ ch \in D => ch \in link.sub \cup link.refused
               /\ ~link.all /\ ch \in link.sub => ch \in D
      <3>1. \A j \in DOMAIN r.in : ch \notin r.in[j].channels
        BY <2>3, <1>2, <1>3, <1>5
      <3>. QED  BY <3>1, <2>3 DEF Heeds
    <2>. QED  BY <2>1, <2>2, <2>3, <1>5 DEF Heeds
  <1>. QED  BY <1>4, <1>5

\* A call's frame is written.
LEMMA HeedsSent ==
    ASSUME NEW link \in LinkRow, NEW r, NEW l, NEW cs, NEW ds, NEW D, NEW f \in Requests, NEW k \in DOMAIN cs,
           Heedful(link, l, cs, D), ~cs[k].sent, cs[k].on = l, cs[k].op = f.type, cs[k].chs = f.channels,
           DOMAIN ds = DOMAIN cs, ds[k].sent, \A j \in DOMAIN cs : j # k => ds[j] = cs[j],
           r.in = Append(link.in, f), r.sub = link.sub, r.refused = link.refused, r.all = link.all, r.missed = link.missed
    PROVE  Heedful(r, l, ds, D)
  <1>. SUFFICES ASSUME NEW ch \in Topics \ link.missed PROVE Heeds(r, l, ds, D, ch)
    BY DEF Heedful
  <1>1. Heeds(link, l, cs, D, ch)
    BY DEF Heedful
  <1>2. \A j \in DOMAIN ds : Unwritten(ds, j, l, ch) => Unwritten(cs, j, l, ch) /\ ds[j].op = cs[j].op
    BY DEF Unwritten
  <1>3. \A j \in DOMAIN ds : Unwritten(ds, j, l, ch) => (ds[j].op = "subscribe" <=> ch \in D)
    BY <1>1, <1>2 DEF Heeds
  <1>4. ASSUME ch \in f.channels PROVE f.type = "subscribe" <=> ch \in D
    <2>1. Unwritten(cs, k, l, ch)
      BY <1>4 DEF Unwritten
    <2>. QED  BY <2>1, <1>1 DEF Heeds
  <1>5. ASSUME ch \notin f.channels, ~ \E j \in DOMAIN ds : Unwritten(ds, j, l, ch) PROVE Heeds(link, l, ds, D, ch)
    <2>1. \A j \in DOMAIN cs : ~Unwritten(cs, j, l, ch)
      <3>. SUFFICES ASSUME NEW j \in DOMAIN cs PROVE ~Unwritten(cs, j, l, ch)
        OBVIOUS
      <3>1. CASE j = k
        BY <3>1, <1>5 DEF Unwritten
      <3>2. CASE j # k
        BY <3>2, <1>5 DEF Unwritten
      <3>. QED  BY <3>1, <3>2
    <2>. QED  BY <2>1, <1>1, <1>3, <1>5 DEF Heeds
  <1>. QED  BY <1>3, <1>4, <1>5, HeedsWritten

\* A call mentions channels; where an unwritten one says otherwise, the link is excused.
LEMMA HeedsMentioned ==
    ASSUME NEW link \in LinkRow, NEW r, NEW l, NEW cs \in Seq(CallRow), NEW c \in CallRow, NEW D, NEW E,
           Heedful(link, l, cs, D), NEW f \in Requests, f.type = c.op, f.channels = c.chs, c.on = l,
           \A ch \in c.chs : c.op = "subscribe" <=> ch \in E, \A ch : ch \notin c.chs => (ch \in E <=> ch \in D),
           r.in = IF c.sent THEN Append(link.in, f) ELSE link.in,
           r.sub = link.sub, r.refused = link.refused, r.all = link.all, link.missed \subseteq r.missed,
           \A ch \in c.chs \ r.missed : \A k \in DOMAIN cs : Unwritten(cs, k, l, ch) => cs[k].op = c.op
    PROVE  Heedful(r, l, Append(cs, c), E)
  <1>. DEFINE m == Len(cs)  ds == Append(cs, c)
  <1>. SUFFICES ASSUME NEW ch \in Topics \ r.missed PROVE Heeds(r, l, ds, E, ch)
    BY DEF Heedful
  <1>1. Heeds(link, l, cs, D, ch)
    BY DEF Heedful
  <1>2. /\ m \in Nat /\ DOMAIN cs = 1 .. m /\ DOMAIN ds = 1 .. (m + 1) /\ ds[m + 1] = c
        /\ \A k \in 1 .. m : k \in 1 .. (m + 1) /\ ds[k] = cs[k]
    OBVIOUS
  <1>. HIDE DEF m, ds
  <1>3. \A k \in DOMAIN ds : k \in DOMAIN cs \/ k = m + 1
    BY <1>2
  <1>4. \A k \in DOMAIN cs : k \in DOMAIN ds /\ (Unwritten(ds, k, l, ch) <=> Unwritten(cs, k, l, ch)) /\ ds[k].op = cs[k].op
    BY <1>2 DEF Unwritten
  <1>5. Unwritten(ds, m + 1, l, ch) <=> ~c.sent /\ ch \in c.chs
    BY <1>2 DEF Unwritten
  <1>6. ASSUME NEW k \in DOMAIN ds, Unwritten(ds, k, l, ch) PROVE ds[k].op = "subscribe" <=> ch \in E
    <2>1. CASE ch \in c.chs
      BY <2>1, <1>6, <1>2, <1>3, <1>4
    <2>2. CASE ch \notin c.chs
      <3>1. k \in DOMAIN cs
        BY <2>2, <1>6, <1>3, <1>5
      <3>. QED  BY <3>1, <2>2, <1>6, <1>4, <1>1 DEF Heeds
    <2>. QED  BY <2>1, <2>2
  <1>7. ASSUME ch \notin c.chs, ~ \E k \in DOMAIN ds : Unwritten(ds, k, l, ch) PROVE Heeds(link, l, ds, E, ch)
    <2>1. \A k \in DOMAIN cs : ~Unwritten(cs, k, l, ch)
      BY <1>4, <1>7
    <2>2. ch \in E <=> ch \in D
      BY <1>7
    <2>. QED  BY <2>1, <2>2, <1>1, <1>7 DEF Heeds
  <1>8. CASE c.sent
    <2>1. r.in = Append(link.in, f)
      BY <1>8
    <2>2. ch \in f.channels => (f.type = "subscribe" <=> ch \in E)
      OBVIOUS
    <2>. QED  BY <2>1, <2>2, <1>6, <1>7, HeedsWritten
  <1>9. CASE ~c.sent
    <2>1. r.in = link.in
      BY <1>9
    <2>2. CASE ch \in c.chs
      <3>1. m + 1 \in DOMAIN ds /\ Unwritten(ds, m + 1, l, ch)
        BY <1>2, <1>5, <1>9, <2>2
      <3>. QED  BY <3>1, <1>6 DEF Heeds
    <2>3. CASE \E k \in DOMAIN ds : Unwritten(ds, k, l, ch)
      BY <2>3, <1>6 DEF Heeds
    <2>4. CASE ch \notin c.chs /\ ~ \E k \in DOMAIN ds : Unwritten(ds, k, l, ch)
      BY <2>4, <2>1, <1>6, <1>7 DEF Heeds
    <2>. QED  BY <2>2, <2>3, <2>4
  <1>. QED  BY <1>8, <1>9

-----------------------------------------------------------------------------
(* The socket's steps *)

\* What a link's keeping is about.
SameHold(link, r) ==
  r.in = link.in /\ r.sub = link.sub /\ r.refused = link.refused /\ r.all = link.all /\ r.missed = link.missed

\* A step that opens no link and mentions no channel.
LEMMA SocketStays ==
    ASSUME SocketInv, SocketTypes', UNCHANGED <<lang, desired>>, SameFrames(calls, calls'), Live \subseteq DOMAIN links',
           \A l \in DOMAIN links' : Opening(links'[l], desired) /\ PlainPublish(links'[l]),
           \A l \in Live : links'[l].up = "connecting" => links[l].up = "connecting",
           lang # "js" /\ cur' # 0 => links'[cur'].up \in {"open", "broken"},
           IsOpen' /\ links'[cur'].up = "open" =>
             IsOpen /\ cur' = cur /\ links[cur].up = "open" /\ SameHold(links[cur], links'[cur])
    PROVE  SocketInv'
  <1>1. \A k \in DOMAIN calls' :
          /\ calls'[k].op = "publish" => calls'[k].chs = {}
          /\ ~calls'[k].sent => lang' = "go" /\ calls'[k].on \in DOMAIN links' /\ links'[calls'[k].on].up # "connecting"
    BY DEF SocketInv, SameFrames
  <1>2. ASSUME IsOpen', links'[cur'].up = "open" PROVE Heedful(links'[cur'], cur', calls', desired')
    <2>1. Heedful(links[cur], cur, calls, desired) /\ SameHold(links[cur], links'[cur]) /\ cur' = cur
      BY <1>2 DEF SocketInv
    <2>2. Heedful(links'[cur], cur, calls', desired)
      BY <2>1, HeedsSame DEF SameHold
    <2>. QED  BY <2>1, <2>2
  <1>3. \A l \in Live' : Opening(links[l]', desired') /\ PlainPublish(links[l]')
    BY DEF Live
  <1>4. \A k \in DOMAIN calls' : ~calls'[k].sent => calls'[k].on \in Live'
    BY <1>1 DEF Live
  <1>. HIDE DEF Opening, PlainPublish, Heedful, SocketTypes, IsOpen, Live
  <1>. QED  BY <1>1, <1>2, <1>3, <1>4 DEF SocketInv

LEMMA SameCalls == SameFrames(calls, calls)
  BY DEF SameFrames

\* A step that leaves the links.
LEMMA LinksRest ==
    ASSUME SocketInv, SocketTypes', UNCHANGED <<lang, desired, links>>, SameFrames(calls, calls'), cur' \in {0, cur},
           IsOpen' => IsOpen /\ cur' = cur
    PROVE  SocketInv'
  <1>1. Live \subseteq DOMAIN links' /\ \A l \in DOMAIN links' : Opening(links'[l], desired) /\ PlainPublish(links'[l])
    BY DEF SocketInv, Live
  <1>2. \A l \in Live : links'[l].up = "connecting" => links[l].up = "connecting"
    OBVIOUS
  <1>3. lang # "js" /\ cur' # 0 => links'[cur'].up \in {"open", "broken"}
    BY DEF SocketInv
  <1>4. IsOpen' /\ links'[cur'].up = "open" =>
             IsOpen /\ cur' = cur /\ links[cur].up = "open" /\ SameHold(links[cur], links'[cur])
    BY DEF SameHold
  <1>. HIDE DEF SocketInv, SocketTypes, IsOpen
  <1>. QED  BY <1>1, <1>2, <1>3, <1>4, SocketStays

\* Waiting calls fail.
LEMMA PendingFailed ==
    ASSUME SocketTypes, FailPending
    PROVE  /\ calls' \in Seq(CallRow) /\ SameFrames(calls, calls') /\ pendingSubs' = <<>> /\ pendingPubs' = <<>>
           /\ pendingSubs' \in Seq(Nat) /\ pendingPubs' \in Seq(Nat) /\ Len(calls') = Len(calls)
  <1>. DEFINE n == Len(calls)
  <1>1. n \in Nat /\ DOMAIN calls = 1 .. n /\ \A k \in 1 .. n : calls[k] \in CallRow
    BY DEF SocketTypes
  <1>2. \A k \in 1 .. n : /\ [calls[k] EXCEPT !.at = "failed"] \in CallRow
                          /\ [calls[k] EXCEPT !.at = "failed"].op = calls[k].op
                          /\ [calls[k] EXCEPT !.at = "failed"].chs = calls[k].chs
                          /\ [calls[k] EXCEPT !.at = "failed"].on = calls[k].on
                          /\ [calls[k] EXCEPT !.at = "failed"].sent = calls[k].sent
    <2>. SUFFICES ASSUME NEW k \in 1 .. n
                  PROVE  /\ [calls[k] EXCEPT !.at = "failed"] \in CallRow
                         /\ [calls[k] EXCEPT !.at = "failed"].op = calls[k].op
                         /\ [calls[k] EXCEPT !.at = "failed"].chs = calls[k].chs
                         /\ [calls[k] EXCEPT !.at = "failed"].on = calls[k].on
                         /\ [calls[k] EXCEPT !.at = "failed"].sent = calls[k].sent
      OBVIOUS
    <2>1. calls[k] \in CallRow
      BY <1>1
    <2>. QED  BY <2>1 DEF CallRow
  <1>3. DOMAIN calls' = 1 .. n /\ \A k \in 1 .. n : calls'[k] \in {calls[k], [calls[k] EXCEPT !.at = "failed"]}
    BY <1>1 DEF FailPending
  <1>4. calls' \in [1 .. n -> CallRow]
    <2>1. calls' = [k \in 1 .. n |-> calls'[k]]
      BY <1>1 DEF FailPending
    <2>2. \A k \in 1 .. n : calls'[k] \in CallRow
      BY <1>1, <1>2, <1>3
    <2>. QED  BY <2>1, <2>2
  <1>5. calls' \in Seq(CallRow) /\ Len(calls') = n
    BY <1>1, <1>4
  <1>6. SameFrames(calls, calls')
    BY <1>1, <1>2, <1>3 DEF SameFrames
  <1>. QED  BY <1>5, <1>6 DEF FailPending

\* The types of the pending lists, when the calls keep their kinds.
LEMMA PendingTyped ==
    ASSUME SocketTypes, NEW cs, SameFrames(calls, cs), NEW P, NEW Q, P = pendingSubs \/ P = <<>>, Q = pendingPubs \/ Q = <<>>
    PROVE  /\ P \in Seq(Nat) /\ Q \in Seq(Nat)
           /\ \A i \in DOMAIN P : P[i] \in DOMAIN cs /\ cs[P[i]].op = "subscribe"
           /\ \A i \in DOMAIN Q : Q[i] \in DOMAIN cs /\ cs[Q[i]].op = "publish"
  <1>1. /\ P \in Seq(Nat) /\ \A i \in DOMAIN P : P[i] \in DOMAIN calls /\ calls[P[i]].op = "subscribe"
    <2>1. CASE P = pendingSubs
      BY <2>1 DEF SocketTypes
    <2>2. CASE P = <<>>
      BY <2>2
    <2>. QED  BY <2>1, <2>2
  <1>2. /\ Q \in Seq(Nat) /\ \A i \in DOMAIN Q : Q[i] \in DOMAIN calls /\ calls[Q[i]].op = "publish"
    <2>1. CASE Q = pendingPubs
      BY <2>1 DEF SocketTypes
    <2>2. CASE Q = <<>>
      BY <2>2
    <2>. QED  BY <2>1, <2>2
  <1>3. \A k \in DOMAIN calls : k \in DOMAIN cs /\ cs[k].op = calls[k].op
    BY DEF SameFrames
  <1>. QED  BY <1>1, <1>2, <1>3

LEMMA ConnectInv == ASSUME SocketInv, Connect PROVE SocketInv'
  <1>. USE DEF SocketInv
  <1>3. closed' \in BOOLEAN /\ state' \in {state, "connecting"} /\ dials' \in [Causes -> Nat]
    <2>1. "connect" \in Causes /\ dials \in [Causes -> Nat] /\ closed \in BOOLEAN
      BY DEF SocketTypes, Causes
    <2>2. closed' \in BOOLEAN
      BY <2>1 DEF Connect
    <2>3. [dials EXCEPT !["connect"] = @ + 1] \in [Causes -> Nat]
      BY <2>1
    <2>. QED  BY <2>1, <2>2, <2>3 DEF Connect
  <1>4. UNCHANGED <<lang, cur, links, desired, explicit, timers, calls, pendingSubs, pendingPubs>>
    BY DEF Connect
  <1>1. SocketTypes'
    BY <1>3, <1>4 DEF SocketTypes
  <1>2. /\ UNCHANGED <<lang, desired, links, cur, calls>> /\ (IsOpen' => IsOpen)
    BY DEF Connect, IsOpen, Connected
  <1>. QED  BY <1>1, <1>2, SameCalls, LinksRest

LEMMA TimerInv == ASSUME SocketInv, TimerFires PROVE SocketInv'
  <1>. USE DEF SocketInv
  <1>3. timers' \in Nat /\ state' \in {state, "reconnecting"} /\ dials' \in [Causes -> Nat]
    <2>1. "timer" \in Causes /\ dials \in [Causes -> Nat] /\ timers \in Nat
      BY DEF SocketTypes, Causes
    <2>2. timers' \in Nat
      BY <2>1 DEF TimerFires
    <2>3. [dials EXCEPT !["timer"] = @ + 1] \in [Causes -> Nat]
      BY <2>1
    <2>. QED  BY <2>1, <2>2, <2>3 DEF TimerFires
  <1>4. UNCHANGED <<lang, cur, links, desired, explicit, closed, calls, pendingSubs, pendingPubs>>
    BY DEF TimerFires
  <1>1. SocketTypes'
    BY <1>3, <1>4 DEF SocketTypes
  <1>2. /\ UNCHANGED <<lang, desired, links, cur, calls>> /\ (IsOpen' => IsOpen)
    BY DEF TimerFires, IsOpen
  <1>. QED  BY <1>1, <1>2, SameCalls, LinksRest

\* A link is dialed for what is wanted.
LEMMA TokenInv == ASSUME SocketInv, NEW by \in Causes, DialToken(by) PROVE SocketInv'
  <1>. DEFINE n == Len(links)
              r == [up |-> "connecting", by |-> by, asked |-> Target, sub |-> {}, all |-> ~explicit \/ desired = {},
                    missed |-> {}, refused |-> {}, in |-> <<>>, out |-> <<>>]
  <1>1. SocketTypes
    BY DEF SocketInv
  <1>2. r \in LinkRow
    BY <1>1 DEF SocketTypes, LinkRow, Target
  <1>3. /\ links' = Append(links, r) /\ cur' = IF lang = "js" THEN n + 1 ELSE cur
        /\ UNCHANGED <<lang, state, desired, explicit, closed, timers, calls, pendingSubs, pendingPubs>>
        /\ dials' = [dials EXCEPT ![by] = @ - 1] /\ dials[by] > 0
    BY DEF DialToken, Taken
  <1>4. desired \subseteq Target /\ (~r.all => Target \subseteq desired)
    BY <1>1 DEF SocketTypes, Target
  <1>5. Opening(r, desired) /\ PlainPublish(r)
    BY <1>4 DEF Opening, PlainPublish
  <1>. HIDE DEF r
  <1>6. /\ n \in Nat /\ Live = 1 .. n /\ links' \in Seq(LinkRow) /\ Len(links') = n + 1 /\ DOMAIN links' = 1 .. (n + 1)
        /\ links'[n + 1] = r /\ \A l \in 1 .. n : links'[l] = links[l] /\ l \in 1 .. (n + 1)
    BY <1>1, <1>2, <1>3 DEF SocketTypes, Live
  <1>. HIDE DEF n
  <1>7. \A l \in 1 .. (n + 1) : l \in 1 .. n \/ l = n + 1
    BY <1>6
  <1>8. dials' \in [Causes -> Nat]
    BY <1>1, <1>3 DEF SocketTypes
  <1>9. cur' \in 0 .. (n + 1)
    BY <1>1, <1>3, <1>6 DEF SocketTypes
  <1>10. SocketTypes'
    BY <1>1, <1>3, <1>6, <1>8, <1>9 DEF SocketTypes
  <1>11. \A l \in DOMAIN links' : Opening(links'[l], desired) /\ PlainPublish(links'[l])
    BY <1>5, <1>6, <1>7 DEF SocketInv
  <1>12. lang # "js" /\ cur' # 0 => cur \in 1 .. n /\ links'[cur'] = links[cur] /\ cur' = cur
    BY <1>1, <1>3, <1>6 DEF SocketTypes
  <1>13. r.up = "connecting"
    BY DEF r
  <1>14. IsOpen' /\ links'[cur'].up = "open" => cur \in 1 .. n /\ links'[cur'] = links[cur] /\ cur' = cur /\ IsOpen
    BY <1>12, <1>13, <1>3, <1>6 DEF IsOpen
  <1>15. lang # "js" /\ cur' # 0 => links'[cur'].up \in {"open", "broken"}
    BY <1>12, <1>3 DEF SocketInv
  <1>. QED  BY <1>3, <1>6, <1>10, <1>11, <1>14, <1>15, SameCalls, SocketStays DEF SameHold

\* A dial fails, and leaves the links.
LEMMA FailedTypes ==
    ASSUME SocketTypes, NEW by \in Causes, DialFailed(by)
    PROVE  /\ state' \in {"idle", "connecting", "open", "reconnecting", "closed"} /\ timers' \in Nat
           /\ calls' \in Seq(CallRow) /\ SameFrames(calls, calls') /\ cur' \in {0, cur}
           /\ (lang # "js" /\ cur' # 0 /\ state' = "open" => state = "open") /\ (lang = "js" => cur' = cur)
           /\ (pendingSubs' = pendingSubs \/ pendingSubs' = <<>>) /\ (pendingPubs' = pendingPubs \/ pendingPubs' = <<>>)
  <1>. DEFINE States == {"idle", "connecting", "open", "reconnecting", "closed"}
  <1>0. state \in States /\ timers \in Nat /\ calls \in Seq(CallRow)
    BY DEF SocketTypes
  <1>1. Reconnects => state' \in States /\ timers' \in Nat /\ (state' = "open" => state = "open")
    BY <1>0 DEF Reconnects
  <1>2. CASE lang = "js"
    BY <1>0, <1>1, <1>2, SameCalls DEF DialFailed
  <1>3. CASE lang = "python" /\ by = "timer"
    <2>1. Reconnects /\ cur' = 0 /\ FailPending
      BY <1>3 DEF DialFailed
    <2>2. /\ calls' \in Seq(CallRow) /\ SameFrames(calls, calls') /\ pendingSubs' = <<>> /\ pendingPubs' = <<>>
      BY <2>1, PendingFailed
    <2>. QED  BY <1>1, <1>3, <2>1, <2>2
  <1>4. CASE lang = "go" /\ by = "timer" /\ cur = 0
    <2>1. Reconnects /\ cur' = 0 /\ FailPending
      BY <1>4 DEF DialFailed
    <2>2. /\ calls' \in Seq(CallRow) /\ SameFrames(calls, calls') /\ pendingSubs' = <<>> /\ pendingPubs' = <<>>
      BY <2>1, PendingFailed
    <2>. QED  BY <1>1, <1>4, <2>1, <2>2
  <1>5. CASE lang # "js" /\ ~(lang = "python" /\ by = "timer") /\ ~(lang = "go" /\ by = "timer" /\ cur = 0)
    <2>1. /\ state' = IF lang = "go" /\ by = "connect" THEN "closed" ELSE state
          /\ UNCHANGED <<cur, timers, calls, pendingSubs, pendingPubs>>
      BY <1>5 DEF DialFailed
    <2>. QED  BY <1>0, <2>1, <1>5, SameCalls
  <1>. QED  BY <1>2, <1>3, <1>4, <1>5

LEMMA NoTokenInv == ASSUME SocketInv, NEW by \in Causes, DialNoToken(by) PROVE SocketInv'
  <1>1. SocketTypes
    BY DEF SocketInv
  <1>2. UNCHANGED <<lang, links, desired, explicit, closed>> /\ dials' = [dials EXCEPT ![by] = @ - 1] /\ dials[by] > 0 /\ DialFailed(by)
    BY DEF DialNoToken, Taken
  <1>3. dials' \in [Causes -> Nat]
    BY <1>1, <1>2 DEF SocketTypes
  <1>4. cur' \in 0 .. Len(links) /\ cur' \in {0, cur}
    BY <1>1, <1>2, FailedTypes DEF SocketTypes
  <1>5. /\ state' \in {"idle", "connecting", "open", "reconnecting", "closed"} /\ timers' \in Nat
        /\ calls' \in Seq(CallRow) /\ SameFrames(calls, calls') /\ (IsOpen' => IsOpen /\ cur' = cur)
        /\ (pendingSubs' = pendingSubs \/ pendingSubs' = <<>>) /\ (pendingPubs' = pendingPubs \/ pendingPubs' = <<>>)
    BY <1>1, <1>2, FailedTypes DEF IsOpen
  <1>6. /\ pendingSubs' \in Seq(Nat) /\ pendingPubs' \in Seq(Nat)
        /\ \A i \in DOMAIN pendingSubs' : pendingSubs'[i] \in DOMAIN calls' /\ calls'[pendingSubs'[i]].op = "subscribe"
        /\ \A i \in DOMAIN pendingPubs' : pendingPubs'[i] \in DOMAIN calls' /\ calls'[pendingPubs'[i]].op = "publish"
    BY <1>1, <1>5, PendingTyped
  <1>7. SocketTypes'
    BY <1>1, <1>2, <1>3, <1>4, <1>5, <1>6 DEF SocketTypes
  <1>. QED  BY <1>2, <1>4, <1>5, <1>7, LinksRest

\* One link changes, and does not open.
LEMMA LinkChanges ==
    ASSUME SocketInv, SocketTypes', UNCHANGED <<lang, desired>>, SameFrames(calls, calls'),
           NEW l \in Live, NEW r \in LinkRow, links' = [links EXCEPT ![l] = r], Opening(r, desired), PlainPublish(r),
           r.up = "connecting" => links[l].up = "connecting", r.up = "open" => links[l].up = "open" /\ SameHold(links[l], r),
           cur' \in {0, cur}, lang # "js" /\ cur' = l => r.up \in {"open", "broken"},
           lang # "js" /\ cur' # 0 /\ state' = "open" => state = "open"
    PROVE  SocketInv'
  <1>. DEFINE L == links'
  <1>1. links \in Seq(LinkRow) /\ cur \in 0 .. Len(links) /\ Live = DOMAIN links /\ (cur # 0 => cur \in Live)
    <2>1. links \in Seq(LinkRow) /\ cur \in 0 .. Len(links) /\ Live = DOMAIN links
      BY DEF SocketInv, SocketTypes, Live
    <2>. QED  BY <2>1
  <1>2. DOMAIN L = Live /\ L[l] = r /\ \A m \in Live : m # l => L[m] = links[m]
    BY <1>1, LinkPut
  <1>. HIDE DEF L
  <1>3. \A m \in DOMAIN L : Opening(L[m], desired) /\ PlainPublish(L[m])
    BY <1>2 DEF SocketInv
  <1>4. \A m \in Live : L[m].up = "connecting" => links[m].up = "connecting"
    BY <1>2
  <1>5. \A m \in Live : L[m].up = "open" => links[m].up = "open" /\ SameHold(links[m], L[m])
    BY <1>2 DEF SameHold
  <1>6. lang # "js" /\ cur' # 0 => L[cur'].up \in {"open", "broken"}
    BY <1>1, <1>2 DEF SocketInv
  <1>7. IsOpen' /\ L[cur'].up = "open" => IsOpen /\ cur' = cur /\ links[cur].up = "open" /\ SameHold(links[cur], L[cur])
    <2>. SUFFICES ASSUME IsOpen', L[cur'].up = "open"
                  PROVE  IsOpen /\ cur' = cur /\ links[cur].up = "open" /\ SameHold(links[cur], L[cur])
      OBVIOUS
    <2>1. cur' # 0 /\ cur' = cur /\ cur \in Live
      BY <1>1 DEF IsOpen
    <2>2. links[cur].up = "open" /\ SameHold(links[cur], L[cur])
      BY <2>1, <1>5
    <2>. QED  BY <2>1, <2>2 DEF IsOpen
  <1>. HIDE DEF SocketInv, SocketTypes, IsOpen
  <1>8. Live \subseteq DOMAIN links'
    BY <1>2 DEF L
  <1>. QED  BY <1>3, <1>4, <1>6, <1>7, <1>8, SocketStays DEF L

\* What types a step keeps that changes one link, and neither who waits nor the calls' kinds.
LEMMA RowTypes ==
    ASSUME SocketTypes, NEW l \in Live, NEW r \in LinkRow, links' = [links EXCEPT ![l] = r], UNCHANGED <<lang, explicit, closed, desired>>,
           state' \in {"idle", "connecting", "open", "reconnecting", "closed"}, cur' \in 0 .. Len(links), timers' \in Nat,
           dials' \in [Causes -> Nat], calls' \in Seq(CallRow), SameFrames(calls, calls'),
           pendingSubs' = pendingSubs \/ pendingSubs' = <<>>, pendingPubs' = pendingPubs \/ pendingPubs' = <<>>
    PROVE  SocketTypes'
  <1>1. links \in Seq(LinkRow) /\ l \in DOMAIN links
    BY DEF SocketTypes, Live
  <1>2. links' \in Seq(LinkRow) /\ Len(links') = Len(links)
    BY <1>1, LinkPut
  <1>3. /\ pendingSubs' \in Seq(Nat) /\ pendingPubs' \in Seq(Nat)
        /\ \A i \in DOMAIN pendingSubs' : pendingSubs'[i] \in DOMAIN calls' /\ calls'[pendingSubs'[i]].op = "subscribe"
        /\ \A i \in DOMAIN pendingPubs' : pendingPubs'[i] \in DOMAIN calls' /\ calls'[pendingPubs'[i]].op = "publish"
    BY PendingTyped
  <1>. QED  BY <1>2, <1>3 DEF SocketTypes

LEMMA LinkIs == ASSUME SocketTypes, NEW l \in Live PROVE links[l] \in LinkRow
  <1>1. links \in Seq(LinkRow) /\ l \in DOMAIN links
    BY DEF SocketTypes, Live
  <1>. QED  BY <1>1

LEMMA CutLink ==
    ASSUME NEW link \in LinkRow
    PROVE  Cut(link) \in LinkRow /\ Cut(link).up = "broken" /\ PlainPublish(Cut(link))
  <1>1. ASSUME NEW q \in Seq(Requests), NEW p \in Seq(Replies), NEW c,
               c = [link EXCEPT !.up = "broken", !.sub = {}, !.in = q, !.out = p]
        PROVE  c \in LinkRow /\ c.up = "broken" /\ c.in = q
    BY <1>1 DEF LinkRow
  <1>2. <<>> \in Seq(Requests) /\ <<>> \in Seq(Replies)
    OBVIOUS
  <1>3. Cut(link) = [link EXCEPT !.up = "broken", !.sub = {}, !.in = <<>>, !.out = <<>>]
    BY DEF Cut
  <1>4. Cut(link) \in LinkRow /\ Cut(link).up = "broken" /\ Cut(link).in = <<>>
    BY <1>1, <1>2, <1>3
  <1>. QED  BY <1>4 DEF PlainPublish

LEMMA LostInv == ASSUME SocketInv, NEW l \in Live, LinkLost(l) PROVE SocketInv'
  <1>. DEFINE r == Cut(links[l])
  <1>1. SocketTypes
    BY DEF SocketInv
  <1>2. r \in LinkRow /\ r.up = "broken" /\ PlainPublish(r)
    BY <1>1, LinkIs, CutLink
  <1>3. /\ links' = [links EXCEPT ![l] = r]
        /\ UNCHANGED <<lang, state, cur, desired, explicit, closed, dials, timers, calls, pendingSubs, pendingPubs>>
    BY DEF LinkLost
  <1>. HIDE DEF r
  <1>4. SocketTypes'
    BY <1>1, <1>2, <1>3, RowTypes, SameCalls DEF SocketTypes
  <1>. QED  BY <1>2, <1>3, <1>4, LinkChanges, SameCalls DEF Opening

LEMMA DisconnectInv == ASSUME SocketInv, NEW l \in Live, OnDisconnect(l) PROVE SocketInv'
  <1>. DEFINE r == [links[l] EXCEPT !.up = "lost"]
              States == {"idle", "connecting", "open", "reconnecting", "closed"}
  <1>1. SocketTypes
    BY DEF SocketInv
  <1>2. r \in LinkRow /\ r.up = "lost" /\ PlainPublish(r)
    <2>1. links[l] \in LinkRow /\ PlainPublish(links[l])
      BY <1>1, LinkIs DEF SocketInv
    <2>. QED  BY <2>1 DEF LinkRow, PlainPublish
  <1>3. /\ links' = [links EXCEPT ![l] = r] /\ UNCHANGED <<lang, desired, explicit, closed, dials>>
        /\ IF lang # "js" /\ cur # l
           THEN UNCHANGED <<state, cur, timers, calls, pendingSubs, pendingPubs>>
           ELSE FailPending /\ cur' = (IF lang = "js" THEN cur ELSE 0) /\ Reconnects
    BY DEF OnDisconnect
  <1>. HIDE DEF r
  <1>4. state \in States /\ timers \in Nat /\ calls \in Seq(CallRow) /\ cur \in 0 .. Len(links) /\ 0 \in 0 .. Len(links)
        /\ dials \in [Causes -> Nat]
    BY <1>1 DEF SocketTypes
  <1>5. Reconnects => state' \in States /\ timers' \in Nat /\ (state' = "open" => state = "open")
    BY <1>4 DEF Reconnects
  <1>6. /\ state' \in States /\ timers' \in Nat /\ (state' = "open" => state = "open") /\ calls' \in Seq(CallRow)
        /\ SameFrames(calls, calls') /\ (pendingSubs' = pendingSubs \/ pendingSubs' = <<>>)
        /\ (pendingPubs' = pendingPubs \/ pendingPubs' = <<>>) /\ cur' \in {0, cur} /\ cur' \in 0 .. Len(links)
        /\ (lang # "js" => cur' # l \/ cur' = 0)
    BY <1>1, <1>3, <1>4, <1>5, PendingFailed, SameCalls
  <1>7. SocketTypes'
    BY <1>1, <1>2, <1>3, <1>4, <1>6, RowTypes
  <1>8. l # 0
    BY <1>1 DEF SocketTypes, Live
  <1>. QED  BY <1>2, <1>3, <1>6, <1>7, <1>8, LinkChanges DEF Opening

LEMMA RefusedInv == ASSUME SocketInv, NEW l \in Live, DialRefused(l) PROVE SocketInv'
  <1>. DEFINE r == [links[l] EXCEPT !.up = "lost"]
              States == {"idle", "connecting", "open", "reconnecting", "closed"}
  <1>1. SocketTypes /\ links[l] \in LinkRow
    BY LinkIs DEF SocketInv
  <1>2. r \in LinkRow /\ r.up = "lost" /\ PlainPublish(r)
    <2>1. PlainPublish(links[l])
      BY DEF SocketInv
    <2>. QED  BY <1>1, <2>1 DEF LinkRow, PlainPublish
  <1>3. /\ links[l].up = "connecting" /\ links' = [links EXCEPT ![l] = r] /\ UNCHANGED <<lang, desired, explicit, closed, dials>>
        /\ IF lang = "js" THEN FailPending /\ Reconnects /\ UNCHANGED cur ELSE DialFailed(links[l].by)
    BY DEF DialRefused
  <1>. HIDE DEF r
  <1>4. state \in States /\ timers \in Nat /\ calls \in Seq(CallRow) /\ cur \in 0 .. Len(links) /\ 0 \in 0 .. Len(links)
        /\ dials \in [Causes -> Nat] /\ links[l].by \in Causes
    BY <1>1 DEF SocketTypes, LinkRow
  <1>5. Reconnects => state' \in States /\ timers' \in Nat
    BY <1>4 DEF Reconnects
  <1>6. /\ state' \in States /\ timers' \in Nat /\ calls' \in Seq(CallRow)
        /\ SameFrames(calls, calls') /\ (pendingSubs' = pendingSubs \/ pendingSubs' = <<>>)
        /\ (pendingPubs' = pendingPubs \/ pendingPubs' = <<>>) /\ cur' \in {0, cur}
        /\ (lang # "js" /\ cur' # 0 /\ state' = "open" => state = "open")
    <2>1. CASE lang = "js"
      BY <2>1, <1>1, <1>3, <1>5, PendingFailed
    <2>2. CASE lang # "js"
      BY <2>2, <1>1, <1>3, <1>4, FailedTypes
    <2>. QED  BY <2>1, <2>2
  <1>7. SocketTypes'
    BY <1>1, <1>2, <1>3, <1>4, <1>6, RowTypes
  <1>8. l # 0
    BY <1>1 DEF SocketTypes, Live
  <1>9. lang # "js" => cur' # l
    BY <1>3, <1>6, <1>8 DEF SocketInv
  <1>. QED  BY <1>2, <1>3, <1>6, <1>7, <1>9, LinkChanges DEF Opening

\* A link opens, and has all that was asked for.
LEMMA OpensInv == ASSUME SocketInv, NEW l \in Live, DialOpens(l) PROVE SocketInv'
  <1>1. SocketTypes /\ links[l] \in LinkRow /\ Opening(links[l], desired) /\ PlainPublish(links[l])
    BY LinkIs DEF SocketInv
  <1>2. PICK refused \in SUBSET links[l].asked :
          links' = [links EXCEPT ![l] =
             [@ EXCEPT !.up = "open", !.sub = links[l].asked \ refused, !.refused = refused,
                       !.out = <<Ack(l, links[l].asked \ refused, refused)>>]]
    BY DEF DialOpens
  <1>. DEFINE r == [links[l] EXCEPT !.up = "open", !.sub = links[l].asked \ refused, !.refused = refused,
                       !.out = <<Ack(l, links[l].asked \ refused, refused)>>]
  <1>3. /\ links[l].up = "connecting" /\ links' = [links EXCEPT ![l] = r] /\ cur' = (IF lang = "js" THEN cur ELSE l) /\ state' = "open"
        /\ UNCHANGED <<lang, desired, explicit, closed, dials, timers, calls, pendingSubs, pendingPubs>>
    BY <1>2 DEF DialOpens
  <1>4. <<Ack(l, links[l].asked \ refused, refused)>> \in Seq(Replies)
    <2>1. Ack(l, links[l].asked \ refused, refused) \in Replies
      BY <1>1 DEF Ack, Replies, LinkRow
    <2>. QED  BY <2>1
  <1>5. r \in LinkRow /\ r.up = "open" /\ r.in = links[l].in /\ r.sub = links[l].asked \ refused /\ r.refused = refused
        /\ r.all = links[l].all /\ r.missed = links[l].missed
    BY <1>1, <1>4 DEF LinkRow
  <1>. HIDE DEF r
  <1>6. links \in Seq(LinkRow) /\ Live = DOMAIN links /\ l \in 1 .. Len(links) /\ cur \in 0 .. Len(links)
    BY <1>1 DEF SocketTypes, Live
  <1>7. links' \in Seq(LinkRow) /\ Len(links') = Len(links) /\ DOMAIN links' = Live /\ links'[l] = r /\ \A m \in Live : m # l => links'[m] = links[m]
    BY <1>3, <1>5, <1>6, LinkPut
  <1>8. SocketTypes'
    <2>1. cur' \in 0 .. Len(links)
      BY <1>3, <1>6
    <2>. QED  BY <1>1, <1>3, <1>7, <2>1 DEF SocketTypes
  <1>9. Opening(r, desired) /\ PlainPublish(r)
    BY <1>1, <1>5 DEF Opening, PlainPublish
  <1>10. \A m \in Live' : Opening(links'[m], desired') /\ PlainPublish(links'[m])
    BY <1>3, <1>7, <1>9 DEF SocketInv, Live
  <1>11. \A k \in DOMAIN calls : ~calls[k].sent => calls[k].on # l
    BY <1>3 DEF SocketInv
  <1>12. Heedful(r, l, calls, desired)
    <2>1. links[l].in = <<>>
      BY <1>1, <1>3 DEF Opening
    <2>2. r.in = <<>>
      BY <2>1, <1>5
    <2>. QED  BY <2>2, <1>1, <1>3, <1>5, <1>11, HeedsOpened
  <1>13. \A k \in DOMAIN calls : /\ calls[k].op = "publish" => calls[k].chs = {}
                                 /\ ~calls[k].sent => /\ lang = "go" /\ calls[k].on \in Live
                                                      /\ links'[calls[k].on].up # "connecting"
    BY <1>7, <1>11 DEF SocketInv
  <1>14. lang # "js" /\ cur' # 0 => links'[cur'].up \in {"open", "broken"}
    BY <1>3, <1>5, <1>7
  <1>15. ASSUME IsOpen', links'[cur'].up = "open" PROVE Heedful(links'[cur'], cur', calls, desired)
    <2>1. CASE cur' = l
      BY <2>1, <1>7, <1>12
    <2>2. CASE cur' # l
      <3>1. lang = "js" /\ cur' = cur /\ cur # 0 /\ cur \in Live
        BY <2>2, <1>3, <1>6, <1>15 DEF IsOpen
      <3>2. links'[cur] = links[cur] /\ IsOpen /\ links[cur].up = "open"
        BY <3>1, <2>2, <1>7, <1>15 DEF IsOpen
      <3>. QED  BY <3>1, <3>2 DEF SocketInv
    <2>. QED  BY <2>1, <2>2
  <1>16. Live' = Live
    BY <1>7 DEF Live
  <1>. HIDE DEF SocketTypes, Opening, PlainPublish, Heedful, IsOpen, Live
  <1>. QED  BY <1>3, <1>8, <1>10, <1>13, <1>14, <1>15, <1>16 DEF SocketInv

LEMMA CloseInv == ASSUME SocketInv, Close PROVE SocketInv'
  <1>. DEFINE n == Len(links)
  <1>1. SocketTypes
    BY DEF SocketInv
  <1>2. links \in Seq(LinkRow) /\ n \in Nat /\ Live = 1 .. n /\ timers \in Nat /\ dials \in [Causes -> Nat] /\ "timer" \in Causes
    BY <1>1 DEF SocketTypes, Live, Causes
  <1>3. closed' = TRUE /\ state' = "closed" /\ cur' = 0 /\ FailPending /\ UNCHANGED <<lang, desired, explicit>>
    BY DEF Close
  <1>4. /\ links' = [l \in Live |-> links'[l]] /\ \A l \in Live : links'[l] \in {Cut(links[l]), links[l]}
    BY DEF Close
  <1>5. \A l \in Live : links[l] \in LinkRow /\ Cut(links[l]) \in LinkRow /\ Cut(links[l]).up = "broken" /\ PlainPublish(Cut(links[l]))
    BY <1>1, LinkIs, CutLink
  <1>6. links' \in Seq(LinkRow) /\ Len(links') = n /\ DOMAIN links' = Live
    <2>1. links' \in [1 .. n -> LinkRow]
      BY <1>2, <1>4, <1>5
    <2>. QED  BY <2>1, <1>2
  <1>7. timers' \in Nat /\ dials' \in [Causes -> Nat]
    <2>1. timers' \in Nat
      BY <1>2 DEF Close
    <2>2. dials' = [dials EXCEPT !["timer"] = IF lang = "python" THEN 0 ELSE @]
      BY DEF Close
    <2>. QED  BY <1>2, <2>1, <2>2
  <1>8. /\ calls' \in Seq(CallRow) /\ SameFrames(calls, calls') /\ pendingSubs' = <<>> /\ pendingPubs' = <<>>
    BY <1>1, <1>3, PendingFailed
  <1>9. /\ pendingSubs' \in Seq(Nat) /\ pendingPubs' \in Seq(Nat)
        /\ \A i \in DOMAIN pendingSubs' : pendingSubs'[i] \in DOMAIN calls' /\ calls'[pendingSubs'[i]].op = "subscribe"
        /\ \A i \in DOMAIN pendingPubs' : pendingPubs'[i] \in DOMAIN calls' /\ calls'[pendingPubs'[i]].op = "publish"
    BY <1>8
  <1>10. cur' \in 0 .. Len(links')
    BY <1>2, <1>3, <1>6
  <1>11. SocketTypes'
    BY <1>1, <1>3, <1>6, <1>7, <1>8, <1>9, <1>10 DEF SocketTypes
  <1>12. \A l \in DOMAIN links' : Opening(links'[l], desired) /\ PlainPublish(links'[l])
    <2>. SUFFICES ASSUME NEW l \in Live PROVE Opening(links'[l], desired) /\ PlainPublish(links'[l])
      BY <1>6
    <2>1. CASE links'[l] = links[l]
      BY <2>1 DEF SocketInv
    <2>2. CASE links'[l] = Cut(links[l])
      BY <2>2, <1>5 DEF Opening
    <2>. QED  BY <2>1, <2>2, <1>4
  <1>13. \A l \in Live : links'[l].up = "connecting" => links[l].up = "connecting"
    BY <1>4, <1>5
  <1>14. ~IsOpen' /\ Live \subseteq DOMAIN links'
    BY <1>3, <1>6 DEF IsOpen
  <1>. QED  BY <1>3, <1>8, <1>11, <1>12, <1>13, <1>14, SocketStays

\* What a mention makes of a link.
ToldRow(op, chs, l, r) ==
  /\ r.up = links[l].up /\ r.out = links[l].out /\ r.sub = links[l].sub /\ r.refused = links[l].refused
  /\ r.all = links[l].all /\ r.asked = links[l].asked
  /\ links[l].up = "connecting" => r.missed = links[l].missed \cup chs
  /\ links[l].up = "open" /\ l = cur => r.missed = links[l].missed \cup Overtaken(op, chs)
  /\ links[l].up \in {"broken", "lost"} => r.missed = links[l].missed
  /\ links[l].missed \subseteq r.missed
  /\ links[l].up = "open" /\ l # cur => r.missed = links[l].missed
  /\ r.in = IF links[l].up = "open" /\ l = cur /\ lang # "go" /\ IsOpen
            THEN Append(links[l].in, Frame(op, chs, Len(calls) + 1)) ELSE links[l].in

\* What a mention makes of the links.
LEMMA ToldLinks ==
    ASSUME SocketTypes, NEW op \in Mentions \cup {"publish"}, NEW chs \in SUBSET Topics
    PROVE  /\ Frame(op, chs, Len(calls) + 1) \in Requests
           /\ Told(op, chs) \in Seq(LinkRow) /\ Len(Told(op, chs)) = Len(links) /\ DOMAIN Told(op, chs) = Live
           /\ \A l \in Live : ToldRow(op, chs, l, Told(op, chs)[l])
  <1>. DEFINE T == Told(op, chs)  f == Frame(op, chs, Len(calls) + 1)  n == Len(links)
              P(l) == [links[l] EXCEPT !.missed = @ \cup chs]
              Q(l) == [links[l] EXCEPT !.missed = @ \cup Overtaken(op, chs), !.in = IF lang # "go" /\ IsOpen THEN Append(@, f) ELSE @]
  <1>1. n \in Nat /\ Live = 1 .. n /\ Len(calls) + 1 \in Nat
    BY DEF SocketTypes, Live
  <1>2. f \in Requests
    BY <1>1 DEF Frame, Requests
  <1>3. ASSUME NEW l \in Live PROVE P(l) \in LinkRow /\ Q(l) \in LinkRow /\ links[l] \in LinkRow
    <2>1. links[l] \in LinkRow
      BY LinkIs
    <2>2. Overtaken(op, chs) \in SUBSET Topics
      BY DEF Overtaken
    <2>3. links[l].in \in Seq(Requests) /\ Append(links[l].in, f) \in Seq(Requests)
      BY <2>1, <1>2 DEF LinkRow
    <2>. HIDE DEF f
    <2>4. P(l) \in LinkRow
      BY <2>1 DEF LinkRow
    <2>5. Q(l) \in LinkRow
      BY <2>1, <2>2, <2>3 DEF LinkRow
    <2>. QED  BY <2>1, <2>4, <2>5
  <1>4. T = [l \in Live |-> T[l]] /\ DOMAIN T = Live
    BY DEF Told
  <1>5. ASSUME NEW l \in Live
        PROVE  /\ links[l].up = "connecting" => T[l] = P(l)
               /\ links[l].up = "open" /\ l = cur => T[l] = Q(l)
               /\ links[l].up # "connecting" /\ ~(links[l].up = "open" /\ l = cur) => T[l] = links[l]
    BY DEF Told
  <1>6. ASSUME NEW l \in Live PROVE T[l] \in LinkRow /\ ToldRow(op, chs, l, T[l])
    <2>0. links[l] \in LinkRow
      BY <1>3
    <2>1. CASE links[l].up = "connecting"
      <3>1. T[l] = P(l)
        BY <2>1, <1>5
      <3>2. /\ P(l).up = links[l].up /\ P(l).out = links[l].out /\ P(l).sub = links[l].sub /\ P(l).refused = links[l].refused
            /\ P(l).all = links[l].all /\ P(l).asked = links[l].asked /\ P(l).missed = links[l].missed \cup chs /\ P(l).in = links[l].in
        BY <2>0 DEF LinkRow
      <3>. HIDE DEF P, Q, T, f
      <3>. QED  BY <1>3, <2>1, <3>1, <3>2 DEF ToldRow
    <2>2. CASE links[l].up = "open" /\ l = cur
      <3>1. T[l] = Q(l)
        BY <2>2, <1>5
      <3>2. /\ Q(l).up = links[l].up /\ Q(l).out = links[l].out /\ Q(l).sub = links[l].sub /\ Q(l).refused = links[l].refused
            /\ Q(l).all = links[l].all /\ Q(l).asked = links[l].asked /\ Q(l).missed = links[l].missed \cup Overtaken(op, chs)
        BY <2>0 DEF LinkRow
      <3>3. Q(l).in = IF lang # "go" /\ IsOpen THEN Append(links[l].in, f) ELSE links[l].in
        BY <2>0 DEF LinkRow
      <3>. HIDE DEF P, Q, T
      <3>. QED  BY <1>3, <2>2, <3>1, <3>2, <3>3 DEF ToldRow
    <2>3. CASE links[l].up # "connecting" /\ ~(links[l].up = "open" /\ l = cur)
      <3>1. T[l] = links[l]
        BY <2>3, <1>5
      <3>. HIDE DEF P, Q, T, f
      <3>. QED  BY <2>0, <2>3, <3>1 DEF ToldRow
    <2>. QED  BY <2>1, <2>2, <2>3
  <1>7. T \in Seq(LinkRow) /\ Len(T) = n
    <2>. HIDE DEF T
    <2>1. T \in [1 .. n -> LinkRow]
      BY <1>1, <1>4, <1>6
    <2>. QED  BY <2>1, <1>1
  <1>. HIDE DEF ToldRow
  <1>. QED  BY <1>2, <1>4, <1>6, <1>7

LEMMA CalledLinks ==
    ASSUME SocketInv, NEW op \in Mentions \cup {"publish"}, NEW chs \in SUBSET Topics, NEW at \in {"waiting", "done"}, Called(op, chs, at)
    PROVE  LET c == [op |-> op, chs |-> chs, at |-> at, on |-> cur, sent |-> lang # "go" \/ ~IsOpen] IN
           /\ c \in CallRow /\ calls' = Append(calls, c) /\ calls' \in Seq(CallRow) /\ Len(calls') = Len(calls) + 1
           /\ DOMAIN calls' = 1 .. (Len(calls) + 1) /\ DOMAIN calls = 1 .. Len(calls) /\ Len(calls) \in Nat
           /\ calls'[Len(calls) + 1] = c /\ \A k \in DOMAIN calls : calls'[k] = calls[k]
           /\ links' = Told(op, chs) /\ links' \in Seq(LinkRow) /\ Len(links') = Len(links) /\ DOMAIN links' = Live
           /\ \A l \in Live : links'[l].up = links[l].up /\ links'[l].out = links[l].out
  <1>. DEFINE c == [op |-> op, chs |-> chs, at |-> at, on |-> cur, sent |-> lang # "go" \/ ~IsOpen]
  <1>1. SocketTypes
    BY DEF SocketInv
  <1>2. calls \in Seq(CallRow) /\ cur \in Nat
    <2>1. links \in Seq(LinkRow) /\ cur \in 0 .. Len(links) /\ calls \in Seq(CallRow)
      BY <1>1 DEF SocketTypes
    <2>. QED  BY <2>1
  <1>3. c \in CallRow
    BY <1>2 DEF CallRow
  <1>4. calls' = Append(calls, c) /\ links' = Told(op, chs)
    BY DEF Called
  <1>. HIDE DEF c
  <1>6. /\ calls' \in Seq(CallRow) /\ Len(calls') = Len(calls) + 1
        /\ DOMAIN calls' = 1 .. (Len(calls) + 1) /\ DOMAIN calls = 1 .. Len(calls) /\ Len(calls) \in Nat
        /\ calls'[Len(calls) + 1] = c /\ \A k \in DOMAIN calls : calls'[k] = calls[k]
    BY <1>2, <1>3, <1>4
  <1>7. /\ Told(op, chs) \in Seq(LinkRow) /\ Len(Told(op, chs)) = Len(links) /\ DOMAIN Told(op, chs) = Live
        /\ \A l \in Live : Told(op, chs)[l].up = links[l].up /\ Told(op, chs)[l].out = links[l].out
    BY <1>1, ToldLinks DEF ToldRow
  <1>8. /\ c \in CallRow /\ calls' = Append(calls, c) /\ links' = Told(op, chs) /\ links' \in Seq(LinkRow) /\ Len(links') = Len(links) /\ DOMAIN links' = Live
        /\ \A l \in Live : links'[l].up = links[l].up /\ links'[l].out = links[l].out
    BY <1>3, <1>4, <1>7
  <1>. QED  BY <1>6, <1>8 DEF c

\* A call mentions channels, or none.
LEMMA MentionInv ==
    ASSUME SocketInv, SocketTypes', NEW op \in Mentions \cup {"publish"}, NEW chs \in SUBSET Topics, NEW at \in {"waiting", "done"},
           Called(op, chs, at), UNCHANGED <<lang, state, cur>>, op = "publish" => chs = {},
           \A ch \in chs : op = "subscribe" <=> ch \in desired', \A ch : ch \notin chs => (ch \in desired' <=> ch \in desired)
    PROVE  SocketInv'
  <1>. DEFINE n == Len(calls)
              c == [op |-> op, chs |-> chs, at |-> at, on |-> cur, sent |-> lang # "go" \/ ~IsOpen]
              f == Frame(op, chs, n + 1)
              L == links'  C == calls'
  <1>1. SocketTypes
    BY DEF SocketInv
  <1>2. /\ c \in CallRow /\ C = Append(calls, c) /\ n \in Nat
        /\ DOMAIN C = 1 .. (n + 1) /\ DOMAIN calls = 1 .. n
        /\ C[n + 1] = c /\ \A k \in DOMAIN calls : C[k] = calls[k]
        /\ DOMAIN L = Live /\ L = Told(op, chs)
        /\ \A l \in Live : L[l].up = links[l].up /\ L[l].out = links[l].out
    BY CalledLinks
  <1>3. c.op = op /\ c.chs = chs /\ c.on = cur /\ (c.sent <=> lang # "go" \/ ~IsOpen)
    OBVIOUS
  <1>. HIDE DEF c, L, C
  <1>5. f \in Requests /\ \A l \in Live : ToldRow(op, chs, l, L[l])
    BY <1>1, <1>2, ToldLinks
  <1>6. f.type = op /\ f.channels = chs
    BY DEF Frame
  <1>. DEFINE writes == lang # "go" /\ IsOpen
  <1>4. \A l \in Live : L[l].in = IF links[l].up = "open" /\ l = cur /\ writes THEN Append(links[l].in, f) ELSE links[l].in
    BY <1>5 DEF ToldRow
  <1>. HIDE DEF f, n
  <1>7. \A k \in DOMAIN C : k \in DOMAIN calls \/ k = n + 1
    BY <1>2
  <1>8. cur # 0 => cur \in Live
    <2>1. links \in Seq(LinkRow) /\ cur \in 0 .. Len(links)
      BY <1>1 DEF SocketTypes
    <2>. QED  BY <2>1 DEF Live
  <1>9. ASSUME NEW l \in Live PROVE Opening(L[l], desired') /\ PlainPublish(L[l])
    <2>1. links[l] \in LinkRow /\ Opening(links[l], desired) /\ PlainPublish(links[l])
      BY <1>1, LinkIs DEF SocketInv
    <2>2. CASE links[l].up = "connecting"
      <3>1. /\ L[l].up = links[l].up /\ L[l].in = links[l].in /\ L[l].out = links[l].out /\ L[l].asked = links[l].asked
            /\ L[l].all = links[l].all /\ L[l].missed = links[l].missed \cup chs
        BY <2>2, <1>4, <1>5 DEF ToldRow
      <3>2. PlainPublish(L[l])
        BY <2>1, <3>1 DEF PlainPublish
      <3>3. desired' \ L[l].missed \subseteq desired \ links[l].missed
        BY <3>1
      <3>4. ~links[l].all => links[l].asked \ L[l].missed \subseteq desired'
        BY <2>1, <2>2, <3>1 DEF Opening
      <3>. QED  BY <2>1, <2>2, <3>1, <3>2, <3>3, <3>4 DEF Opening
    <2>3. CASE links[l].up = "open" /\ l = cur
      <3>1. L[l].up = "open" /\ L[l].in = IF lang # "go" /\ IsOpen THEN Append(links[l].in, f) ELSE links[l].in
        BY <2>3, <1>2, <1>4
      <3>2. links[l].in \in Seq(Requests)
        BY <2>1 DEF LinkRow
      <3>3. CASE lang # "go" /\ IsOpen
        <4>. DEFINE m == Len(links[l].in)
        <4>1. /\ m \in Nat /\ DOMAIN links[l].in = 1 .. m /\ DOMAIN L[l].in = 1 .. (m + 1) /\ L[l].in[m + 1] = f
              /\ \A i \in 1 .. m : L[l].in[i] = links[l].in[i]
          BY <3>1, <3>2, <3>3, <1>5, LastFrame
        <4>. HIDE DEF m
        <4>2. \A i \in DOMAIN L[l].in : i \in 1 .. m \/ i = m + 1
          BY <4>1
        <4>3. f.type = "publish" => f.channels = {}
          BY <1>6
        <4>. QED  BY <4>1, <4>2, <4>3, <2>1, <3>1 DEF PlainPublish, Opening
      <3>4. CASE ~(lang # "go" /\ IsOpen)
        BY <3>1, <3>4, <2>1 DEF PlainPublish, Opening
      <3>. QED  BY <3>3, <3>4
    <2>4. CASE links[l].up # "connecting" /\ ~(links[l].up = "open" /\ l = cur)
      BY <2>1, <2>4, <1>2, <1>4 DEF Opening, PlainPublish
    <2>. QED  BY <2>2, <2>3, <2>4
  <1>10. ASSUME NEW k \in DOMAIN C
         PROVE  /\ C[k].op = "publish" => C[k].chs = {}
                /\ ~C[k].sent => lang = "go" /\ C[k].on \in Live /\ L[C[k].on].up # "connecting"
    <2>1. CASE k \in DOMAIN calls
      BY <2>1, <1>2 DEF SocketInv
    <2>2. CASE k = n + 1
      <3>1. ASSUME ~c.sent PROVE lang = "go" /\ cur \in Live /\ L[cur].up # "connecting"
        <4>1. lang = "go" /\ IsOpen
          BY <3>1, <1>3
        <4>2. cur # 0 /\ cur \in Live
          BY <4>1, <1>8 DEF IsOpen
        <4>3. links[cur].up \in {"open", "broken"}
          BY <4>1, <4>2 DEF SocketInv
        <4>. QED  BY <4>1, <4>2, <4>3, <1>2
      <3>. QED  BY <3>1, <2>2, <1>2, <1>3
    <2>. QED  BY <2>1, <2>2, <1>7
  <1>11. IsOpen' <=> IsOpen
    <2>1. cur # 0 => L[cur].up = links[cur].up
      BY <1>2, <1>8
    <2>. QED  BY <2>1 DEF IsOpen, L
  <1>12. lang # "js" /\ cur # 0 => L[cur].up \in {"open", "broken"}
    BY <1>2, <1>8 DEF SocketInv
  <1>13. ASSUME IsOpen, L[cur].up = "open" PROVE Heedful(L[cur], cur, C, desired')
    <2>1. cur \in Live /\ links[cur].up = "open"
      BY <1>13, <1>2, <1>8 DEF IsOpen
    <2>2. links[cur] \in LinkRow /\ Heedful(links[cur], cur, calls, desired)
      BY <2>1, <1>13, <1>1, LinkIs DEF SocketInv
    <2>3. /\ L[cur].in = (IF lang # "go" /\ IsOpen THEN Append(links[cur].in, f) ELSE links[cur].in)
          /\ L[cur].sub = links[cur].sub /\ L[cur].refused = links[cur].refused /\ L[cur].all = links[cur].all
          /\ L[cur].missed = links[cur].missed \cup Overtaken(op, chs)
      BY <2>1, <1>4, <1>5 DEF ToldRow
    <2>4. lang # "go" /\ IsOpen <=> c.sent
      BY <1>3, <1>13
    <2>5. L[cur].in = IF c.sent THEN Append(links[cur].in, f) ELSE links[cur].in
      BY <2>3, <2>4
    <2>6. \A ch \in c.chs \ L[cur].missed : \A k \in DOMAIN calls : Unwritten(calls, k, cur, ch) => calls[k].op = c.op
      BY <2>3, <1>3 DEF Overtaken, Unwritten
    <2>7. calls \in Seq(CallRow)
      BY <1>1 DEF SocketTypes
    <2>8. f.type = c.op /\ f.channels = c.chs /\ \A ch \in c.chs : c.op = "subscribe" <=> ch \in desired'
      BY <1>3, <1>6
    <2>9. \A ch : ch \notin c.chs => (ch \in desired' <=> ch \in desired)
      BY <1>3
    <2>10. Heedful(L[cur], cur, Append(calls, c), desired')
      BY <2>2, <2>3, <2>5, <2>6, <2>7, <2>8, <2>9, <1>2, <1>3, <1>5, HeedsMentioned
    <2>. QED  BY <2>10, <1>2
  <1>14. Live' = Live
    BY <1>2 DEF Live, L
  <1>. HIDE DEF SocketTypes, Opening, PlainPublish, Heedful, IsOpen, Live
  <1>. QED  BY <1>9, <1>10, <1>11, <1>12, <1>13, <1>14 DEF SocketInv, L, C

LEMMA CallLast ==
    ASSUME SocketInv, NEW op \in Mentions \cup {"publish"}, NEW chs \in SUBSET Topics, NEW at \in {"waiting", "done"}, Called(op, chs, at)
    PROVE  /\ Len(calls) \in Nat /\ DOMAIN calls' = 1 .. (Len(calls) + 1) /\ DOMAIN calls = 1 .. Len(calls)
           /\ calls'[Len(calls) + 1].op = op /\ \A k \in DOMAIN calls : calls'[k] = calls[k]
           /\ links' \in Seq(LinkRow) /\ Len(links') = Len(links) /\ calls' \in Seq(CallRow)
  <1>. DEFINE c == [op |-> op, chs |-> chs, at |-> at, on |-> cur, sent |-> lang # "go" \/ ~IsOpen]
  <1>1. c.op = op
    OBVIOUS
  <1>2. /\ Len(calls) \in Nat /\ DOMAIN calls' = 1 .. (Len(calls) + 1) /\ DOMAIN calls = 1 .. Len(calls)
        /\ calls'[Len(calls) + 1] = c /\ \A k \in DOMAIN calls : calls'[k] = calls[k]
        /\ links' \in Seq(LinkRow) /\ Len(links') = Len(links) /\ calls' \in Seq(CallRow)
    BY CalledLinks
  <1>. HIDE DEF c
  <1>. QED  BY <1>1, <1>2

\* A call that waits stands last.
LEMMA Pended ==
    ASSUME NEW cs, NEW ds, NEW n \in Nat, DOMAIN cs = 1 .. n, DOMAIN ds = 1 .. (n + 1), \A k \in DOMAIN cs : ds[k] = cs[k],
           NEW kind, NEW P \in Seq(Nat), \A i \in DOMAIN P : P[i] \in DOMAIN cs /\ cs[P[i]].op = kind,
           NEW Q, Q = P \/ Q = Append(P, n + 1), Q # P => ds[n + 1].op = kind
    PROVE  Q \in Seq(Nat) /\ \A i \in DOMAIN Q : Q[i] \in DOMAIN ds /\ ds[Q[i]].op = kind
  <1>. DEFINE m == Len(P)
  <1>3. \A i \in DOMAIN P : P[i] \in DOMAIN ds /\ ds[P[i]].op = kind
    <2>. SUFFICES ASSUME NEW i \in DOMAIN P PROVE P[i] \in 1 .. (n + 1) /\ ds[P[i]].op = kind
      OBVIOUS
    <2>1. P[i] \in 1 .. n /\ cs[P[i]].op = kind
      OBVIOUS
    <2>. QED  BY <2>1
  <1>4. CASE Q # P
    <2>1. /\ Q \in Seq(Nat) /\ m \in Nat /\ DOMAIN P = 1 .. m /\ DOMAIN Q = 1 .. (m + 1) /\ Q[m + 1] = n + 1
          /\ \A i \in 1 .. m : Q[i] = P[i]
      <3>1. Q = Append(P, n + 1) /\ n + 1 \in Nat
        BY <1>4
      <3>. QED  BY <3>1
    <2>. HIDE DEF m
    <2>2. \A i \in DOMAIN Q : i \in 1 .. m \/ i = m + 1
      BY <2>1
    <2>3. n + 1 \in DOMAIN ds /\ ds[n + 1].op = kind
      BY <1>4
    <2>. QED  BY <2>1, <2>2, <2>3, <1>3
  <1>. QED  BY <1>3, <1>4

LEMMA SubscribeInv == ASSUME SocketInv, NEW ch \in Topics, Subscribe({ch}) PROVE SocketInv'
  <1>. DEFINE at == IF IsOpen THEN "waiting" ELSE "done"
              P == IF IsOpen THEN Append(pendingSubs, Len(calls) + 1) ELSE pendingSubs
  <1>1. SocketTypes
    BY DEF SocketInv
  <1>2. /\ desired' = desired \cup {ch} /\ explicit' = TRUE /\ Called("subscribe", {ch}, at) /\ pendingSubs' = P
        /\ UNCHANGED <<lang, state, cur, closed, dials, timers, pendingPubs>>
    BY DEF Subscribe
  <1>3. at \in {"waiting", "done"} /\ "subscribe" \in Mentions \cup {"publish"} /\ {ch} \in SUBSET Topics
    BY DEF Mentions
  <1>. HIDE DEF at
  <1>4. /\ Len(calls) \in Nat /\ DOMAIN calls' = 1 .. (Len(calls) + 1) /\ DOMAIN calls = 1 .. Len(calls)
        /\ calls'[Len(calls) + 1].op = "subscribe" /\ \A k \in DOMAIN calls : calls'[k] = calls[k]
        /\ links' \in Seq(LinkRow) /\ Len(links') = Len(links) /\ calls' \in Seq(CallRow)
    BY <1>2, <1>3, CallLast
  <1>5. /\ pendingSubs \in Seq(Nat) /\ \A i \in DOMAIN pendingSubs : pendingSubs[i] \in DOMAIN calls /\ calls[pendingSubs[i]].op = "subscribe"
        /\ pendingPubs \in Seq(Nat) /\ \A i \in DOMAIN pendingPubs : pendingPubs[i] \in DOMAIN calls /\ calls[pendingPubs[i]].op = "publish"
    BY <1>1 DEF SocketTypes
  <1>6. P \in Seq(Nat) /\ \A i \in DOMAIN P : P[i] \in DOMAIN calls' /\ calls'[P[i]].op = "subscribe"
    <2>1. P = pendingSubs \/ P = Append(pendingSubs, Len(calls) + 1)
      OBVIOUS
    <2>. HIDE DEF P
    <2>2. CASE P = pendingSubs
      <3>. QED  BY <2>2, <1>4, <1>5, Pended
    <2>3. CASE P = Append(pendingSubs, Len(calls) + 1)
      <3>. QED  BY <2>3, <1>4, <1>5, Pended
    <2>. QED  BY <2>1, <2>2, <2>3
  <1>7. \A i \in DOMAIN pendingPubs : pendingPubs[i] \in DOMAIN calls' /\ calls'[pendingPubs[i]].op = "publish"
    BY <1>4, <1>5, Pended
  <1>. HIDE DEF P
  <1>8. SocketTypes'
    BY <1>1, <1>2, <1>4, <1>5, <1>6, <1>7 DEF SocketTypes
  <1>. QED  BY <1>2, <1>3, <1>8, MentionInv

LEMMA UnsubscribeInv == ASSUME SocketInv, NEW ch \in Topics, Unsubscribe({ch}) PROVE SocketInv'
  <1>1. SocketTypes
    BY DEF SocketInv
  <1>2. /\ desired' = desired \ {ch} /\ explicit' = TRUE /\ Called("unsubscribe", {ch}, "done")
        /\ UNCHANGED <<lang, state, cur, closed, dials, timers, pendingSubs, pendingPubs>>
    BY DEF Unsubscribe
  <1>3. "unsubscribe" \in Mentions \cup {"publish"} /\ {ch} \in SUBSET Topics
    BY DEF Mentions
  <1>4. /\ Len(calls) \in Nat /\ DOMAIN calls' = 1 .. (Len(calls) + 1) /\ DOMAIN calls = 1 .. Len(calls)
        /\ calls'[Len(calls) + 1].op = "unsubscribe" /\ \A k \in DOMAIN calls : calls'[k] = calls[k]
        /\ links' \in Seq(LinkRow) /\ Len(links') = Len(links) /\ calls' \in Seq(CallRow)
    BY <1>2, <1>3, CallLast
  <1>5. /\ pendingSubs \in Seq(Nat) /\ \A i \in DOMAIN pendingSubs : pendingSubs[i] \in DOMAIN calls /\ calls[pendingSubs[i]].op = "subscribe"
        /\ pendingPubs \in Seq(Nat) /\ \A i \in DOMAIN pendingPubs : pendingPubs[i] \in DOMAIN calls /\ calls[pendingPubs[i]].op = "publish"
    BY <1>1 DEF SocketTypes
  <1>6. \A i \in DOMAIN pendingSubs : pendingSubs[i] \in DOMAIN calls' /\ calls'[pendingSubs[i]].op = "subscribe"
    BY <1>4, <1>5, Pended
  <1>7. \A i \in DOMAIN pendingPubs : pendingPubs[i] \in DOMAIN calls' /\ calls'[pendingPubs[i]].op = "publish"
    BY <1>4, <1>5, Pended
  <1>8. SocketTypes'
    BY <1>1, <1>2, <1>4, <1>5, <1>6, <1>7 DEF SocketTypes
  <1>. QED  BY <1>2, <1>3, <1>8, MentionInv

LEMMA PublishInv == ASSUME SocketInv, Publish PROVE SocketInv'
  <1>. DEFINE P == Append(pendingPubs, Len(calls) + 1)
  <1>1. SocketTypes
    BY DEF SocketInv
  <1>2. /\ Called("publish", {}, "waiting") /\ pendingPubs' = P
        /\ UNCHANGED <<lang, state, cur, desired, explicit, closed, dials, timers, pendingSubs>>
    BY DEF Publish
  <1>3. "publish" \in Mentions \cup {"publish"} /\ {} \in SUBSET Topics
    BY DEF Mentions
  <1>4. /\ Len(calls) \in Nat /\ DOMAIN calls' = 1 .. (Len(calls) + 1) /\ DOMAIN calls = 1 .. Len(calls)
        /\ calls'[Len(calls) + 1].op = "publish" /\ \A k \in DOMAIN calls : calls'[k] = calls[k]
        /\ links' \in Seq(LinkRow) /\ Len(links') = Len(links) /\ calls' \in Seq(CallRow)
    BY <1>2, <1>3, CallLast
  <1>5. /\ pendingSubs \in Seq(Nat) /\ \A i \in DOMAIN pendingSubs : pendingSubs[i] \in DOMAIN calls /\ calls[pendingSubs[i]].op = "subscribe"
        /\ pendingPubs \in Seq(Nat) /\ \A i \in DOMAIN pendingPubs : pendingPubs[i] \in DOMAIN calls /\ calls[pendingPubs[i]].op = "publish"
    BY <1>1 DEF SocketTypes
  <1>6. \A i \in DOMAIN pendingSubs : pendingSubs[i] \in DOMAIN calls' /\ calls'[pendingSubs[i]].op = "subscribe"
    BY <1>4, <1>5, Pended
  <1>7. P \in Seq(Nat) /\ \A i \in DOMAIN P : P[i] \in DOMAIN calls' /\ calls'[P[i]].op = "publish"
    <2>1. P = Append(pendingPubs, Len(calls) + 1)
      OBVIOUS
    <2>. HIDE DEF P
    <2>2. /\ Len(calls) \in Nat /\ DOMAIN calls' = 1 .. (Len(calls) + 1) /\ DOMAIN calls = 1 .. Len(calls)
          /\ calls'[Len(calls) + 1].op = "publish" /\ \A k \in DOMAIN calls : calls'[k] = calls[k]
      BY <1>4
    <2>3. pendingPubs \in Seq(Nat) /\ \A i \in DOMAIN pendingPubs : pendingPubs[i] \in DOMAIN calls /\ calls[pendingPubs[i]].op = "publish"
      BY <1>5
    <2>. QED  BY <2>1, <2>2, <2>3, Pended
  <1>. HIDE DEF P
  <1>8. SocketTypes'
    BY <1>1, <1>2, <1>4, <1>5, <1>6, <1>7 DEF SocketTypes
  <1>. QED  BY <1>2, <1>3, <1>8, MentionInv

\* A frame waits its turn no longer.
LEMMA SendInv == ASSUME SocketInv, NEW k \in DOMAIN calls, SendFrame(k) PROVE SocketInv'
  <1>. DEFINE l == calls[k].on  f == Frame(calls[k].op, calls[k].chs, k)  D == calls'  L == links'
  <1>1. SocketTypes
    BY DEF SocketInv
  <1>2. /\ calls \in Seq(CallRow) /\ calls[k] \in CallRow /\ links \in Seq(LinkRow) /\ Live = DOMAIN links /\ cur \in 0 .. Len(links) /\ k \in Nat
        /\ Live = 1 .. Len(links)
    <2>1. calls \in Seq(CallRow) /\ links \in Seq(LinkRow) /\ Live = DOMAIN links /\ cur \in 0 .. Len(links)
      BY <1>1 DEF SocketTypes, Live
    <2>. QED  BY <2>1
  <1>3. /\ ~calls[k].sent /\ UNCHANGED <<lang, state, cur, desired, explicit, closed, dials, timers, pendingSubs, pendingPubs>>
        /\ IF links[l].up = "open"
           THEN links' = [links EXCEPT ![l].in = Append(@, f)] /\ D = [calls EXCEPT ![k].sent = TRUE]
           ELSE D = [calls EXCEPT ![k] = [@ EXCEPT !.sent = TRUE, !.at = "failed"]] /\ UNCHANGED links
    BY DEF SendFrame
  <1>4. lang = "go" /\ l \in Live /\ links[l].up # "connecting"
    BY <1>3 DEF SocketInv
  <1>. DEFINE c == IF links[l].up = "open" THEN [calls[k] EXCEPT !.sent = TRUE] ELSE [calls[k] EXCEPT !.sent = TRUE, !.at = "failed"]
              r == [links[l] EXCEPT !.in = Append(@, f)]
  <1>5. links[l] \in LinkRow /\ Opening(links[l], desired) /\ PlainPublish(links[l])
    BY <1>1, <1>4, LinkIs DEF SocketInv
  <1>6. f \in Requests /\ f.type = calls[k].op /\ f.channels = calls[k].chs
    BY <1>2 DEF Frame, Requests, CallRow
  <1>. HIDE DEF f
  <1>7. c \in CallRow /\ c.sent /\ c.op = calls[k].op /\ c.chs = calls[k].chs /\ c.on = calls[k].on
    BY <1>2 DEF CallRow
  <1>8. D = [calls EXCEPT ![k] = c]
    BY <1>3
  <1>. HIDE DEF c, D
  <1>9. D \in Seq(CallRow) /\ DOMAIN D = DOMAIN calls /\ D[k] = c /\ \A j \in DOMAIN calls : j # k => D[j] = calls[j]
    BY <1>2, <1>7, <1>8, CallPut
  <1>10. /\ r \in LinkRow /\ r.in = Append(links[l].in, f) /\ r.sub = links[l].sub /\ r.refused = links[l].refused
         /\ r.all = links[l].all /\ r.missed = links[l].missed /\ r.up = links[l].up
    <2>1. links[l].in \in Seq(Requests) /\ Append(links[l].in, f) \in Seq(Requests)
      BY <1>5, <1>6 DEF LinkRow
    <2>. QED  BY <2>1, <1>5 DEF LinkRow
  <1>11. links[l].up = "open" => links' = [links EXCEPT ![l] = r]
    BY <1>3
  <1>. HIDE DEF r, L
  <1>12. /\ L \in Seq(LinkRow) /\ Len(L) = Len(links) /\ DOMAIN L = Live /\ \A m \in Live : m # l => L[m] = links[m]
         /\ L[l] = IF links[l].up = "open" THEN r ELSE links[l]
    <2>1. CASE links[l].up = "open"
      BY <2>1, <1>2, <1>4, <1>10, <1>11, LinkPut DEF L
    <2>2. CASE links[l].up # "open"
      BY <2>2, <1>2, <1>3 DEF L
    <2>. QED  BY <2>1, <2>2
  <1>13. PlainPublish(L[l]) /\ Opening(L[l], desired)
    <2>1. CASE links[l].up = "open"
      <3>. DEFINE m == Len(links[l].in)
      <3>1. links[l].in \in Seq(Requests)
        BY <1>5 DEF LinkRow
      <3>2. /\ m \in Nat /\ DOMAIN links[l].in = 1 .. m /\ DOMAIN r.in = 1 .. (m + 1) /\ r.in[m + 1] = f
            /\ \A i \in 1 .. m : r.in[i] = links[l].in[i]
        BY <3>1, <1>6, <1>10, LastFrame
      <3>. HIDE DEF m
      <3>3. \A i \in DOMAIN r.in : i \in 1 .. m \/ i = m + 1
        BY <3>2
      <3>4. f.type = "publish" => f.channels = {}
        BY <1>6 DEF SocketInv
      <3>5. PlainPublish(r)
        BY <3>2, <3>3, <3>4, <1>5 DEF PlainPublish
      <3>. QED  BY <2>1, <3>5, <1>10, <1>12 DEF Opening
    <2>2. CASE links[l].up # "open"
      BY <2>2, <1>5, <1>12
    <2>. QED  BY <2>1, <2>2
  <1>14. \A m \in Live : Opening(L[m], desired) /\ PlainPublish(L[m]) /\ L[m].up = links[m].up
    BY <1>10, <1>12, <1>13 DEF SocketInv
  <1>15. \A j \in DOMAIN D : /\ D[j].op = calls[j].op /\ D[j].chs = calls[j].chs /\ D[j].on = calls[j].on
                             /\ (~D[j].sent => ~calls[j].sent)
    BY <1>7, <1>9
  <1>16. SocketTypes'
    <2>1. /\ \A i \in DOMAIN pendingSubs : pendingSubs[i] \in DOMAIN D /\ D[pendingSubs[i]].op = "subscribe"
          /\ \A i \in DOMAIN pendingPubs : pendingPubs[i] \in DOMAIN D /\ D[pendingPubs[i]].op = "publish"
      BY <1>1, <1>9, <1>15 DEF SocketTypes
    <2>. QED  BY <2>1, <1>1, <1>3, <1>9, <1>12 DEF SocketTypes, L, D
  <1>17. \A j \in DOMAIN D : /\ D[j].op = "publish" => D[j].chs = {}
                             /\ ~D[j].sent => lang = "go" /\ D[j].on \in Live /\ L[D[j].on].up # "connecting"
    BY <1>9, <1>14, <1>15 DEF SocketInv
  <1>18. IsOpen' <=> IsOpen
    BY <1>3, <1>4 DEF IsOpen
  <1>19. cur # 0 => cur \in Live /\ links[cur].up \in {"open", "broken"} /\ L[cur].up \in {"open", "broken"}
    BY <1>2, <1>4, <1>14 DEF SocketInv
  <1>20. ASSUME IsOpen, L[cur].up = "open" PROVE Heedful(L[cur], cur, D, desired)
    <2>1. cur \in Live /\ links[cur].up = "open"
      BY <1>20, <1>14, <1>19 DEF IsOpen
    <2>2. links[cur] \in LinkRow /\ Heedful(links[cur], cur, calls, desired)
      BY <2>1, <1>20, <1>1, LinkIs DEF SocketInv
    <2>3. CASE cur = l
      <3>1. L[cur] = r
        BY <2>1, <2>3, <1>12
      <3>2. links[l] \in LinkRow /\ Heedful(links[l], l, calls, desired)
        BY <2>2, <2>3
      <3>4. ~calls[k].sent /\ calls[k].on = l /\ D[k].sent
        BY <1>3, <1>7, <1>9
      <3>5. DOMAIN D = DOMAIN calls /\ \A j \in DOMAIN calls : j # k => D[j] = calls[j]
        BY <1>9
      <3>6. /\ r.in = Append(links[l].in, f) /\ r.sub = links[l].sub /\ r.refused = links[l].refused
            /\ r.all = links[l].all /\ r.missed = links[l].missed
        BY <1>10
      <3>7. f \in Requests /\ calls[k].op = f.type /\ calls[k].chs = f.channels
        BY <1>6
      <3>8. Heedful(r, l, D, desired)
        <4>. HIDE DEF l, L
        <4>. QED  BY <3>2, <3>4, <3>5, <3>6, <3>7, HeedsSent
      <3>. QED  BY <3>1, <3>8, <2>3
    <2>4. CASE cur # l
      <3>1. L[cur] = links[cur]
        BY <2>1, <2>4, <1>12
      <3>. SUFFICES ASSUME NEW ch \in Topics \ links[cur].missed PROVE Heeds(links[cur], cur, D, desired, ch)
        BY <3>1 DEF Heedful
      <3>2. Heeds(links[cur], cur, calls, desired, ch)
        BY <2>2 DEF Heedful
      <3>3. \A j \in DOMAIN calls : Unwritten(D, j, cur, ch) <=> Unwritten(calls, j, cur, ch)
        <4>. SUFFICES ASSUME NEW j \in DOMAIN calls PROVE Unwritten(D, j, cur, ch) <=> Unwritten(calls, j, cur, ch)
          OBVIOUS
        <4>1. CASE j = k
          BY <4>1, <2>4, <1>7, <1>9 DEF Unwritten
        <4>2. CASE j # k
          BY <4>2, <1>9 DEF Unwritten
        <4>. QED  BY <4>1, <4>2
      <3>4. DOMAIN D = DOMAIN calls /\ \A j \in DOMAIN calls : D[j].op = calls[j].op
        BY <1>9, <1>15
      <3>. QED  BY <3>2, <3>3, <3>4 DEF Heeds
    <2>. QED  BY <2>3, <2>4
  <1>21. Live' = Live
    BY <1>12 DEF Live, L
  <1>. HIDE DEF SocketTypes, Opening, PlainPublish, Heedful, IsOpen, Live
  <1>. QED  BY <1>3, <1>14, <1>16, <1>17, <1>18, <1>19, <1>20, <1>21 DEF SocketInv, L, D

\* The row of a link whose server answered.
AnsweredAs(link, sub, refused, frame, r) ==
  /\ r \in LinkRow /\ r.in = Tail(link.in) /\ r.sub = sub /\ r.refused = refused /\ r.out = Append(link.out, frame)
  /\ r.up = link.up /\ r.all = link.all /\ r.missed = link.missed

LEMMA AnsweredRow ==
    ASSUME NEW link \in LinkRow, link.in # <<>>, NEW sub \in SUBSET Topics, NEW refused \in SUBSET Topics, NEW frame \in Replies
    PROVE  AnsweredAs(link, sub, refused, frame, Answered(link, sub, refused, frame))
  <1>. DEFINE r == Answered(link, sub, refused, frame)
  <1>1. /\ link.in \in Seq(Requests) /\ link.out \in Seq(Replies)
    BY DEF LinkRow
  <1>2. Tail(link.in) \in Seq(Requests) /\ Append(link.out, frame) \in Seq(Replies)
    BY <1>1
  <1>3. ASSUME NEW q \in Seq(Requests), NEW o \in Seq(Replies), r = [link EXCEPT !.in = q, !.sub = sub, !.refused = refused, !.out = o]
        PROVE  /\ r \in LinkRow /\ r.in = q /\ r.sub = sub /\ r.refused = refused /\ r.out = o
               /\ r.up = link.up /\ r.all = link.all /\ r.missed = link.missed
    BY <1>3 DEF LinkRow
  <1>. QED  BY <1>2, <1>3 DEF Answered, AnsweredAs

\* What a link's rest of frames mention.
LEMMA PlainTail == ASSUME NEW link \in LinkRow, NEW r, PlainPublish(link), link.in # <<>>, r.in = Tail(link.in) PROVE PlainPublish(r)
  <1>. DEFINE n == Len(link.in)
  <1>1. /\ n \in Nat /\ n > 0 /\ DOMAIN link.in = 1 .. n /\ DOMAIN r.in = 1 .. (n - 1)
        /\ \A i \in 1 .. (n - 1) : i + 1 \in 1 .. n /\ r.in[i] = link.in[i + 1]
    <2>1. link.in \in Seq(Requests)
      BY DEF LinkRow
    <2>. QED  BY <2>1
  <1>. HIDE DEF n
  <1>. QED  BY <1>1 DEF PlainPublish

LEMMA ServerSays ==
    ASSUME SocketTypes, NEW l \in Live, ServerReads(l)
    PROVE  /\ links[l].up = "open" /\ links[l].in # <<>> /\ UNCHANGED <<lang, state, cur, desired, explicit, closed, dials, timers, calls,
                                                                      pendingSubs, pendingPubs>>
           /\ \E sub \in SUBSET Topics, refused \in SUBSET Topics, frame \in Replies :
                /\ Answer(l, sub, refused, frame) /\ ReadsAs(links[l], sub, refused)
                /\ frame.type = "subscribed" \/ (Head(links[l].in).type = "publish" /\ frame.call = Head(links[l].in).call)
                /\ Head(links[l].in).type = "publish" => frame.type \in AckTypes
  <1>. DEFINE f == Head(links[l].in)  has == links[l].sub  ref == links[l].refused
  <1>1. /\ links[l].up = "open" /\ links[l].in # <<>> /\ UNCHANGED <<lang, state, cur, desired, explicit, closed, dials, timers, calls,
                                                                   pendingSubs, pendingPubs>>
    BY DEF ServerReads
  <1>2. has \in SUBSET Topics /\ ref \in SUBSET Topics /\ f \in Requests
    <2>1. links[l] \in LinkRow
      BY LinkIs
    <2>2. links[l].in \in Seq(Requests) /\ has \in SUBSET Topics /\ ref \in SUBSET Topics
      BY <2>1 DEF LinkRow
    <2>. QED  BY <2>2, <1>1
  <1>3. f.type \in {"subscribe", "unsubscribe", "publish"} /\ f.channels \in SUBSET Topics /\ f.call \in Nat
    BY <1>2 DEF Requests, Mentions
  <1>4. CASE f.type = "subscribe"
    <2>. DEFINE sub(no) == has \cup (f.channels \ no)
    <2>1. PICK no \in SUBSET (f.channels \ has) : Answer(l, sub(no), (ref \cup no) \ sub(no), Ack(l, sub(no), no))
      BY <1>4 DEF ServerReads
    <2>2. sub(no) \in SUBSET Topics /\ (ref \cup no) \ sub(no) \in SUBSET Topics /\ no \in SUBSET Topics
      BY <1>2, <1>3
    <2>3. Ack(l, sub(no), no) \in Replies /\ Ack(l, sub(no), no).type = "subscribed"
      BY <2>2 DEF Ack, Replies
    <2>4. ReadsAs(links[l], sub(no), (ref \cup no) \ sub(no))
      BY <1>4, <2>1 DEF ReadsAs
    <2>. QED  BY <1>1, <1>4, <2>1, <2>2, <2>3, <2>4
  <1>5. CASE f.type = "unsubscribe"
    <2>1. Answer(l, has \ f.channels, ref \ f.channels, Ack(l, has \ f.channels, {}))
      BY <1>5 DEF ServerReads
    <2>2. has \ f.channels \in SUBSET Topics /\ ref \ f.channels \in SUBSET Topics
      BY <1>2
    <2>3. Ack(l, has \ f.channels, {}) \in Replies /\ Ack(l, has \ f.channels, {}).type = "subscribed"
      BY <2>2 DEF Ack, Replies
    <2>4. ReadsAs(links[l], has \ f.channels, ref \ f.channels)
      BY <1>5 DEF ReadsAs
    <2>. QED  BY <1>1, <1>5, <2>1, <2>2, <2>3, <2>4
  <1>6. CASE f.type = "publish"
    <2>1. PICK type \in {"published", "error"} : Answer(l, has, ref, [type |-> type, call |-> f.call])
      BY <1>6 DEF ServerReads
    <2>2. [type |-> type, call |-> f.call] \in Replies /\ type \in AckTypes
      BY <1>3, <2>1 DEF Replies, AckTypes
    <2>4. ReadsAs(links[l], has, ref)
      BY <1>6 DEF ReadsAs
    <2>. QED  BY <1>1, <1>2, <1>6, <2>1, <2>2, <2>4
  <1>. QED  BY <1>3, <1>4, <1>5, <1>6

LEMMA ReadInv == ASSUME SocketInv, NEW l \in Live, ServerReads(l) PROVE SocketInv'
  <1>1. SocketTypes
    BY DEF SocketInv
  <1>2. /\ links[l].up = "open" /\ links[l].in # <<>> /\ UNCHANGED <<lang, state, cur, desired, explicit, closed, dials, timers, calls,
                                                                   pendingSubs, pendingPubs>>
    BY <1>1, ServerSays
  <1>3. PICK sub \in SUBSET Topics : \E refused \in SUBSET Topics, frame \in Replies :
                Answer(l, sub, refused, frame) /\ ReadsAs(links[l], sub, refused)
    BY <1>1, ServerSays
  <1>4. PICK refused \in SUBSET Topics : \E frame \in Replies : Answer(l, sub, refused, frame) /\ ReadsAs(links[l], sub, refused)
    BY <1>3
  <1>5. PICK frame \in Replies : Answer(l, sub, refused, frame) /\ ReadsAs(links[l], sub, refused)
    BY <1>4
  <1>. DEFINE r == Answered(links[l], sub, refused, frame)  L == links'
  <1>6. links[l] \in LinkRow /\ PlainPublish(links[l])
    BY <1>1, LinkIs DEF SocketInv
  <1>7. /\ r \in LinkRow /\ r.in = Tail(links[l].in) /\ r.sub = sub /\ r.refused = refused
        /\ r.up = links[l].up /\ r.all = links[l].all /\ r.missed = links[l].missed
    <2>1. \A q \in LinkRow : q.in # <<>> => AnsweredAs(q, sub, refused, frame, Answered(q, sub, refused, frame))
      BY AnsweredRow
    <2>2. AnsweredAs(links[l], sub, refused, frame, r)
      BY <2>1, <1>2, <1>6
    <2>. HIDE DEF r
    <2>. QED  BY <2>2 DEF AnsweredAs
  <1>8. L = [links EXCEPT ![l] = r]
    BY <1>5 DEF Answer
  <1>. HIDE DEF r
  <1>9. PlainPublish(r) /\ Opening(r, desired)
    BY <1>2, <1>6, <1>7, PlainTail DEF Opening
  <1>10. /\ state \in {"idle", "connecting", "open", "reconnecting", "closed"} /\ cur \in 0 .. Len(links) /\ timers \in Nat
         /\ dials \in [Causes -> Nat] /\ calls \in Seq(CallRow) /\ links \in Seq(LinkRow) /\ Live = DOMAIN links
    BY <1>1 DEF SocketTypes, Live
  <1>11. SocketTypes'
    BY <1>1, <1>2, <1>7, <1>8, <1>10, RowTypes, SameCalls
  <1>12. DOMAIN L = Live /\ L[l] = r /\ \A m \in Live : m # l => L[m] = links[m]
    BY <1>7, <1>8, <1>10, LinkPut
  <1>13. cur # 0 => cur \in Live
    BY <1>10
  <1>. HIDE DEF L
  <1>14. \A m \in Live : Opening(L[m], desired) /\ PlainPublish(L[m]) /\ L[m].up = links[m].up
    BY <1>7, <1>9, <1>12 DEF SocketInv
  <1>15. \A k \in DOMAIN calls : /\ calls[k].op = "publish" => calls[k].chs = {}
                                 /\ ~calls[k].sent => lang = "go" /\ calls[k].on \in Live /\ L[calls[k].on].up # "connecting"
    BY <1>14 DEF SocketInv
  <1>16. IsOpen' <=> IsOpen
    BY <1>2, <1>13, <1>14 DEF IsOpen, L
  <1>17. lang # "js" /\ cur # 0 => L[cur].up \in {"open", "broken"}
    BY <1>13, <1>14 DEF SocketInv
  <1>18. ASSUME IsOpen, L[cur].up = "open" PROVE Heedful(L[cur], cur, calls, desired)
    <2>1. cur \in Live /\ links[cur].up = "open"
      BY <1>18, <1>13, <1>14 DEF IsOpen
    <2>2. Heedful(links[cur], cur, calls, desired)
      BY <2>1, <1>18 DEF SocketInv
    <2>3. CASE cur = l
      <3>1. Heedful(links[l], l, calls, desired)
        BY <2>2, <2>3
      <3>2. ReadsAs(links[l], r.sub, r.refused)
        BY <1>5, <1>7
      <3>4. Heedful(r, l, calls, desired)
        <4>1. links[l] \in LinkRow /\ r \in LinkRow /\ PlainPublish(links[l]) /\ links[l].in # <<>>
          BY <1>2, <1>6, <1>7
        <4>2. r.in = Tail(links[l].in) /\ r.all = links[l].all /\ r.missed = links[l].missed
          BY <1>7
        <4>. QED  BY <3>1, <3>2, <4>1, <4>2, HeedsRead
      <3>. QED  BY <3>4, <2>3, <1>12
    <2>4. CASE cur # l
      BY <2>1, <2>2, <2>4, <1>12
    <2>. QED  BY <2>3, <2>4
  <1>19. Live' = Live
    BY <1>12 DEF Live, L
  <1>. HIDE DEF SocketTypes, Opening, PlainPublish, Heedful, IsOpen, Live
  <1>. QED  BY <1>2, <1>11, <1>14, <1>15, <1>16, <1>17, <1>18, <1>19 DEF SocketInv, L

\* A call settles.
LEMMA Settled ==
    ASSUME calls \in Seq(CallRow), NEW k \in DOMAIN calls, NEW how \in {"ok", "failed"}, Pops(how, k)
    PROVE  /\ calls' \in Seq(CallRow) /\ SameFrames(calls, calls') /\ \A j \in DOMAIN calls : j # k => calls'[j] = calls[j]
           /\ calls'[k] # calls[k] => calls'[k].at = how
  <1>. DEFINE c == [calls[k] EXCEPT !.at = how]
  <1>1. CASE calls[k].at = "waiting"
    <2>1. calls[k] \in CallRow
      OBVIOUS
    <2>2. c \in CallRow /\ c.op = calls[k].op /\ c.chs = calls[k].chs /\ c.on = calls[k].on /\ c.sent = calls[k].sent /\ c.at = how
      BY <2>1 DEF CallRow
    <2>3. calls' = [calls EXCEPT ![k] = c]
      BY <1>1 DEF Pops, Settle
    <2>. HIDE DEF c
    <2>4. /\ calls' \in Seq(CallRow) /\ DOMAIN calls' = DOMAIN calls /\ calls'[k] = c
          /\ \A j \in DOMAIN calls : j # k => calls'[j] = calls[j]
      BY <2>2, <2>3, CallPut
    <2>. QED  BY <2>2, <2>4 DEF SameFrames
  <1>2. CASE calls[k].at # "waiting"
    BY <1>2, SameCalls DEF Pops
  <1>. QED  BY <1>1, <1>2

\* A list of calls that wait loses none but its first.
Shortens(P, Q) == Q = P \/ (P # <<>> /\ Q = Tail(P))

\* What the client makes of a frame.
LEMMA HandleSays ==
    ASSUME SocketTypes, NEW l \in Live, HandleFrame(l)
    PROVE  /\ links[l].up = "open" /\ links[l].out # <<>> /\ links' = [links EXCEPT ![l].out = Tail(@)]
           /\ UNCHANGED <<lang, state, cur, desired, explicit, closed, dials, timers>>
           /\ calls' \in Seq(CallRow) /\ SameFrames(calls, calls')
           /\ Shortens(pendingSubs, pendingSubs') /\ Shortens(pendingPubs, pendingPubs')
           /\ (pendingPubs' = pendingPubs <=> pendingPubs = <<>> \/ Head(links[l].out).type = "subscribed")
           /\ \A k \in DOMAIN calls : calls'[k] # calls[k] /\ calls'[k].at = "ok" =>
                \/ pendingPubs # <<>> /\ k = Head(pendingPubs) /\ Head(links[l].out).type # "subscribed"
                \/ pendingSubs # <<>> /\ k = Head(pendingSubs) /\ Head(links[l].out).type = "subscribed" /\ Covers(Head(links[l].out), k)
  <1>. DEFINE f == Head(links[l].out)
  <1>1. /\ links[l].up = "open" /\ links[l].out # <<>> /\ links' = [links EXCEPT ![l].out = Tail(@)]
        /\ UNCHANGED <<lang, state, cur, desired, explicit, closed, dials, timers>>
    BY DEF HandleFrame
  <1>2. /\ calls \in Seq(CallRow) /\ pendingSubs \in Seq(Nat) /\ pendingPubs \in Seq(Nat)
        /\ (pendingSubs # <<>> => Head(pendingSubs) \in DOMAIN calls) /\ (pendingPubs # <<>> => Head(pendingPubs) \in DOMAIN calls)
    <2>1. /\ calls \in Seq(CallRow) /\ pendingSubs \in Seq(Nat) /\ pendingPubs \in Seq(Nat)
          /\ \A i \in DOMAIN pendingSubs : pendingSubs[i] \in DOMAIN calls
          /\ \A i \in DOMAIN pendingPubs : pendingPubs[i] \in DOMAIN calls
      BY DEF SocketTypes
    <2>2. (pendingSubs # <<>> => 1 \in DOMAIN pendingSubs) /\ (pendingPubs # <<>> => 1 \in DOMAIN pendingPubs)
      BY <2>1
    <2>. QED  BY <2>1, <2>2
  <1>3. f.type \in {"subscribed", "published", "error"}
    <2>1. links[l].out \in Seq(Replies)
      BY LinkIs DEF LinkRow
    <2>2. f \in Replies
      BY <2>1, <1>1
    <2>. QED  BY <2>2 DEF Replies, AckTypes
  <1>4. pendingPubs # <<>> => Tail(pendingPubs) # pendingPubs
    <2>1. pendingPubs # <<>> => Len(Tail(pendingPubs)) # Len(pendingPubs)
      BY <1>2
    <2>. QED  BY <2>1
  <1>5. CASE f.type = "subscribed" /\ pendingSubs # <<>> /\ Covers(f, Head(pendingSubs))
    <2>1. Pops("ok", Head(pendingSubs)) /\ pendingSubs' = Tail(pendingSubs) /\ UNCHANGED pendingPubs
      BY <1>5 DEF HandleFrame
    <2>2. /\ calls' \in Seq(CallRow) /\ SameFrames(calls, calls') /\ \A j \in DOMAIN calls : j # Head(pendingSubs) => calls'[j] = calls[j]
      BY <2>1, <1>2, <1>5, Settled
    <2>. QED  BY <1>1, <1>5, <2>1, <2>2 DEF Shortens
  <1>6. CASE f.type \in {"published", "error"} /\ pendingPubs # <<>>
    <2>1. /\ Pops("ok", Head(pendingPubs)) \/ Pops("failed", Head(pendingPubs))
          /\ pendingPubs' = Tail(pendingPubs) /\ UNCHANGED pendingSubs
      BY <1>6 DEF HandleFrame
    <2>2. /\ calls' \in Seq(CallRow) /\ SameFrames(calls, calls') /\ \A j \in DOMAIN calls : j # Head(pendingPubs) => calls'[j] = calls[j]
      BY <2>1, <1>2, <1>6, Settled
    <2>. QED  BY <1>1, <1>4, <1>6, <2>1, <2>2 DEF Shortens
  <1>7. CASE f.type = "error" /\ pendingPubs = <<>> /\ pendingSubs # <<>>
    <2>1. Pops("failed", Head(pendingSubs)) /\ pendingSubs' = Tail(pendingSubs) /\ UNCHANGED pendingPubs
      BY <1>7 DEF HandleFrame
    <2>2. /\ calls' \in Seq(CallRow) /\ SameFrames(calls, calls') /\ \A j \in DOMAIN calls : j # Head(pendingSubs) => calls'[j] = calls[j]
          /\ calls'[Head(pendingSubs)] # calls[Head(pendingSubs)] => calls'[Head(pendingSubs)].at = "failed"
      BY <2>1, <1>2, <1>7, Settled
    <2>3. \A k \in DOMAIN calls : calls'[k] # calls[k] => calls'[k].at # "ok"
      BY <2>2
    <2>. QED  BY <1>1, <1>7, <2>1, <2>2, <2>3 DEF Shortens
  <1>8. CASE /\ ~(f.type = "subscribed" /\ pendingSubs # <<>> /\ Covers(f, Head(pendingSubs)))
             /\ ~(f.type \in {"published", "error"} /\ pendingPubs # <<>>)
             /\ ~(f.type = "error" /\ pendingPubs = <<>> /\ pendingSubs # <<>>)
    <2>1. UNCHANGED <<calls, pendingSubs, pendingPubs>>
      BY <1>8 DEF HandleFrame
    <2>. QED  BY <1>1, <1>2, <1>3, <1>8, <2>1, SameCalls DEF Shortens
  <1>. QED  BY <1>5, <1>6, <1>7, <1>8

LEMMA ShortTyped ==
    ASSUME NEW P \in Seq(Nat), NEW Q, Shortens(P, Q), NEW S, \A i \in DOMAIN P : P[i] \in S
    PROVE  Q \in Seq(Nat) /\ \A i \in DOMAIN Q : Q[i] \in S
  <1>1. CASE P # <<>> /\ Q = Tail(P)
    <2>. DEFINE n == Len(P)
    <2>1. /\ n \in Nat /\ Q \in Seq(Nat) /\ DOMAIN Q = 1 .. (n - 1) /\ DOMAIN P = 1 .. n /\ \A i \in 1 .. (n - 1) : i + 1 \in 1 .. n /\ Q[i] = P[i + 1]
      BY <1>1
    <2>. HIDE DEF n
    <2>. QED  BY <2>1
  <1>2. CASE Q = P
    BY <1>2
  <1>. QED  BY <1>1, <1>2 DEF Shortens

LEMMA HandleInv == ASSUME SocketInv, NEW l \in Live, HandleFrame(l) PROVE SocketInv'
  <1>. DEFINE r == [links[l] EXCEPT !.out = Tail(@)]  D == calls'
              S == {k \in DOMAIN calls : calls[k].op = "subscribe"}  T == {k \in DOMAIN calls : calls[k].op = "publish"}
  <1>1. SocketTypes /\ links[l] \in LinkRow /\ Opening(links[l], desired) /\ PlainPublish(links[l])
    BY LinkIs DEF SocketInv
  <1>2. /\ links[l].up = "open" /\ links[l].out # <<>> /\ links' = [links EXCEPT ![l].out = Tail(@)]
        /\ UNCHANGED <<lang, state, cur, desired, explicit, closed, dials, timers>>
        /\ D \in Seq(CallRow) /\ SameFrames(calls, D)
        /\ Shortens(pendingSubs, pendingSubs') /\ Shortens(pendingPubs, pendingPubs')
    BY <1>1, HandleSays
  <1>3. /\ r \in LinkRow /\ r.in = links[l].in /\ r.sub = links[l].sub /\ r.refused = links[l].refused /\ r.all = links[l].all
        /\ r.missed = links[l].missed /\ r.up = links[l].up
    <2>1. Tail(links[l].out) \in Seq(Replies)
      <3>1. links[l].out \in Seq(Replies)
        BY <1>1 DEF LinkRow
      <3>. QED  BY <3>1, <1>2
    <2>. QED  BY <2>1, <1>1 DEF LinkRow
  <1>4. links' = [links EXCEPT ![l] = r]
    BY <1>2
  <1>. HIDE DEF r, D
  <1>5. PlainPublish(r) /\ Opening(r, desired)
    BY <1>1, <1>2, <1>3 DEF PlainPublish, Opening
  <1>6. links \in Seq(LinkRow) /\ l \in DOMAIN links
    BY <1>1 DEF SocketTypes, Live
  <1>7. links' \in Seq(LinkRow) /\ Len(links') = Len(links)
    BY <1>3, <1>4, <1>6, LinkPut
  <1>8. /\ pendingSubs' \in Seq(Nat) /\ pendingPubs' \in Seq(Nat)
        /\ \A i \in DOMAIN pendingSubs' : pendingSubs'[i] \in S /\ \A j \in DOMAIN pendingPubs' : pendingPubs'[j] \in T
    <2>1. /\ pendingSubs \in Seq(Nat) /\ pendingPubs \in Seq(Nat)
          /\ \A i \in DOMAIN pendingSubs : pendingSubs[i] \in S
          /\ \A i \in DOMAIN pendingPubs : pendingPubs[i] \in T
      BY <1>1 DEF SocketTypes
    <2>. HIDE DEF S, T
    <2>2. pendingSubs' \in Seq(Nat) /\ \A i \in DOMAIN pendingSubs' : pendingSubs'[i] \in S
      BY <2>1, <1>2, ShortTyped
    <2>3. pendingPubs' \in Seq(Nat) /\ \A i \in DOMAIN pendingPubs' : pendingPubs'[i] \in T
      BY <2>1, <1>2, ShortTyped
    <2>. QED  BY <2>2, <2>3
  <1>9. \A k \in DOMAIN calls : k \in DOMAIN D /\ D[k].op = calls[k].op
    BY <1>2 DEF SameFrames
  <1>11. \A i \in DOMAIN pendingPubs' : pendingPubs'[i] \in T
    <2>1. /\ pendingPubs \in Seq(Nat) /\ \A i \in DOMAIN pendingPubs : pendingPubs[i] \in T
      BY <1>1 DEF SocketTypes
    <2>. HIDE DEF T
    <2>. QED  BY <2>1, <1>2, ShortTyped
  <1>10. SocketTypes'
    <2>1. /\ \A i \in DOMAIN pendingSubs' : pendingSubs'[i] \in DOMAIN D /\ D[pendingSubs'[i]].op = "subscribe"
          /\ \A i \in DOMAIN pendingPubs' : pendingPubs'[i] \in DOMAIN D /\ D[pendingPubs'[i]].op = "publish"
      BY <1>8, <1>9, <1>11
    <2>. QED  BY <2>1, <1>1, <1>2, <1>7, <1>8 DEF SocketTypes, D
  <1>. QED  BY <1>2, <1>3, <1>4, <1>5, <1>10, LinkChanges DEF SameHold, D, SocketInv

LEMMA SocketInitInv == ASSUME SocketInit PROVE SocketInv
  <1>1. SocketTypes
    <2>1. desired \in SUBSET Topics /\ explicit \in BOOLEAN
      BY SocketAssumption DEF SocketInit
    <2>2. dials \in [Causes -> Nat]
      BY DEF SocketInit, Causes
    <2>3. links = <<>> /\ links \in Seq(LinkRow) /\ calls \in Seq(CallRow) /\ pendingSubs \in Seq(Nat) /\ pendingPubs \in Seq(Nat) /\ Len(links) = 0
          /\ DOMAIN pendingSubs = {} /\ DOMAIN pendingPubs = {}
      BY DEF SocketInit
    <2>4. /\ \A i \in DOMAIN pendingSubs : pendingSubs[i] \in DOMAIN calls /\ calls[pendingSubs[i]].op = "subscribe"
          /\ \A i \in DOMAIN pendingPubs : pendingPubs[i] \in DOMAIN calls /\ calls[pendingPubs[i]].op = "publish"
      BY <2>3
    <2>5. /\ lang \in Langs /\ state \in {"idle", "connecting", "open", "reconnecting", "closed"}
          /\ cur \in 0 .. Len(links) /\ closed \in BOOLEAN /\ timers \in Nat
      <3>1. lang \in Langs /\ state = "idle" /\ closed = FALSE /\ cur = 0 /\ timers = 0
        BY DEF SocketInit
      <3>2. Len(links) = 0
        BY <2>3
      <3>3. closed \in BOOLEAN
        BY <3>1
      <3>4. cur \in 0 .. Len(links) /\ timers \in Nat
        BY <3>1, <3>2
      <3>. QED  BY <3>1, <3>3, <3>4
    <2>. QED  BY <2>1, <2>2, <2>3, <2>4, <2>5 DEF SocketTypes
  <1>2. cur = 0 /\ Live = {} /\ DOMAIN calls = {}
    BY DEF SocketInit, Live
  <1>. HIDE DEF SocketTypes
  <1>. QED  BY <1>1, <1>2 DEF SocketInv, IsOpen

LEMMA SocketStutters == ASSUME SocketInv, UNCHANGED SocketVars PROVE SocketInv'
  <1>. USE DEF SocketVars
  <1>1. SocketTypes'
    BY DEF SocketTypes, SocketInv
  <1>. QED  BY <1>1, LinksRest, SameCalls DEF IsOpen

LEMMA SocketStep == ASSUME SocketInv, [SocketNext]_SocketVars PROVE SocketInv'
  <1>1. ASSUME NEW by \in {"connect", "timer"}, DialToken(by) \/ DialNoToken(by) PROVE SocketInv'
    BY <1>1, TokenInv, NoTokenInv DEF Causes
  <1>2. ASSUME NEW l \in Live, DialOpens(l) \/ DialRefused(l) \/ LinkLost(l) \/ LinkGoesOn(l) PROVE SocketInv'
    BY <1>2, OpensInv, RefusedInv, LostInv, ReadInv, HandleInv, DisconnectInv DEF LinkGoesOn
  <1>3. ASSUME NEW k \in DOMAIN calls, SendFrame(k) PROVE SocketInv'
    BY <1>3, SendInv
  <1>4. ASSUME NEW ch \in Topics, Subscribe({ch}) \/ Unsubscribe({ch}) PROVE SocketInv'
    BY <1>4, SubscribeInv, UnsubscribeInv
  <1>5. AppActs => SocketInv'
    BY <1>4, ConnectInv, CloseInv, PublishInv DEF AppActs
  <1>6. UNCHANGED SocketVars => SocketInv'
    BY SocketStutters
  <1>. HIDE DEF SocketInv
  <1>. QED  BY <1>1, <1>2, <1>3, <1>5, <1>6, TimerInv DEF SocketNext

\* What the invariant says of a socket at rest.
LEMMA RestHolds == ASSUME SocketInv PROVE SocketTyped /\ DesiredAtRest
  <1>1. SocketTypes
    BY DEF SocketInv
  <1>2. SocketTyped
    <2>1. \A l \in Live : links[l].sub \subseteq Topics
      BY <1>1, LinkIs DEF LinkRow
    <2>. QED  BY <1>1, <2>1 DEF SocketTypes, SocketTyped, Causes
  <1>3. DesiredAtRest
    <2>. DEFINE link == links[cur]
    <2>. SUFFICES ASSUME AtRest
                  PROVE  /\ desired \ (link.refused \cup link.missed) \subseteq link.sub
                         /\ ~link.all => link.sub \ link.missed \subseteq desired
      BY DEF DesiredAtRest
    <2>1. Heedful(link, cur, calls, desired) /\ link.in = <<>> /\ \A k \in DOMAIN calls : calls[k].sent
      BY DEF SocketInv, AtRest
    <2>2. desired \subseteq Topics /\ link.sub \subseteq Topics
      <3>1. links \in Seq(LinkRow) /\ cur \in 0 .. Len(links) /\ desired \in SUBSET Topics
        BY <1>1 DEF SocketTypes
      <3>2. cur \in Live
        BY <3>1 DEF AtRest, IsOpen, Live
      <3>. QED  BY <3>1, <3>2, <1>1, LinkIs DEF LinkRow
    <2>. HIDE DEF link
    <2>3. \A ch \in Topics \ link.missed : (ch \in desired => ch \in link.sub \cup link.refused) /\ (~link.all /\ ch \in link.sub => ch \in desired)
      <3>. SUFFICES ASSUME NEW ch \in Topics \ link.missed
                    PROVE  (ch \in desired => ch \in link.sub \cup link.refused) /\ (~link.all /\ ch \in link.sub => ch \in desired)
        OBVIOUS
      <3>1. Heeds(link, cur, calls, desired, ch)
        BY <2>1 DEF Heedful
      <3>2. \A k \in DOMAIN calls : ~Unwritten(calls, k, cur, ch)
        BY <2>1 DEF Unwritten
      <3>3. DOMAIN link.in = {}
        BY <2>1
      <3>. QED  BY <3>1, <3>2, <3>3 DEF Heeds
    <2>. QED  BY <2>2, <2>3
  <1>. QED  BY <1>2, <1>3

\* However often the link is lost, whoever reconnects it and however the application asks in
\* between: once nothing is under way, the server has the channels the application wants
\* (dial, onDisconnect, Subscribe, Unsubscribe, subscribedFrame).
THEOREM SocketRests == SocketSpec => [](SocketTyped /\ DesiredAtRest)
  <1>1. SocketInit => SocketInv
    BY SocketInitInv
  <1>2. SocketInv /\ [SocketNext]_SocketVars => SocketInv'
    BY SocketStep
  <1>3. SocketInv => SocketTyped /\ DesiredAtRest
    BY RestHolds
  <1>. QED  BY <1>1, <1>2, <1>3, PTL DEF SocketSpec

-----------------------------------------------------------------------------
(* The socket's publishes: their acks come in the order they were sent *)

\* What is on its way on a link, the server's frames before the client's: the order in which
\* the client comes to hear of them.
Flow(link) ==
  [i \in 1 .. (Len(link.out) + Len(link.in)) |-> IF i <= Len(link.out) THEN link.out[i] ELSE link.in[i - Len(link.out)]]

\* A publish, or the answer to one.
Owes(x) == x.type \in AckTypes \cup {"publish"}

\* The publishes that wait are those on their way, in order.
Matched(F, P) ==
  /\ \A i, j \in DOMAIN P : i < j => P[i] < P[j]
  /\ \A i, j \in DOMAIN F : i < j /\ Owes(F[i]) /\ Owes(F[j]) => F[i].call < F[j].call
  /\ \A i \in DOMAIN F : Owes(F[i]) => \E p \in DOMAIN P : P[p] = F[i].call
  /\ \A p \in DOMAIN P : \E i \in DOMAIN F : Owes(F[i]) /\ F[i].call = P[p]

\* A flow in which a publish may have become its answer.
LEMMA FlowSame ==
    ASSUME NEW F, NEW G, NEW P, Matched(F, P), DOMAIN G = DOMAIN F,
           \A i \in DOMAIN F : (Owes(G[i]) <=> Owes(F[i])) /\ (Owes(F[i]) => G[i].call = F[i].call)
    PROVE  Matched(G, P)
  <1>1. \A i, j \in DOMAIN G : i < j /\ Owes(G[i]) /\ Owes(G[j]) => G[i].call < G[j].call
    <2>. SUFFICES ASSUME NEW i \in DOMAIN F, NEW j \in DOMAIN F, i < j, Owes(G[i]), Owes(G[j]) PROVE G[i].call < G[j].call
      OBVIOUS
    <2>1. Owes(F[i]) /\ Owes(F[j]) /\ G[i].call = F[i].call /\ G[j].call = F[j].call
      OBVIOUS
    <2>. QED  BY <2>1 DEF Matched
  <1>2. \A p \in DOMAIN P : \E i \in DOMAIN G : Owes(G[i]) /\ G[i].call = P[p]
    <2>. SUFFICES ASSUME NEW p \in DOMAIN P PROVE \E i \in DOMAIN G : Owes(G[i]) /\ G[i].call = P[p]
      OBVIOUS
    <2>1. PICK i \in DOMAIN F : Owes(F[i]) /\ F[i].call = P[p]
      BY DEF Matched
    <2>. QED  BY <2>1
  <1>3. \A i \in DOMAIN G : Owes(G[i]) => \E p \in DOMAIN P : P[p] = G[i].call
    BY DEF Matched
  <1>. QED  BY <1>1, <1>2, <1>3 DEF Matched

\* The first of a flow is heard: if it is an answer, it is the first waiting publish's.
LEMMA FlowHeard ==
    ASSUME NEW n \in Nat, NEW F, DOMAIN F = 1 .. n, n > 0, NEW G, DOMAIN G = 1 .. (n - 1), \A i \in 1 .. (n - 1) : G[i] = F[i + 1],
           NEW P \in Seq(Nat), Matched(F, P), \A i \in DOMAIN F : Owes(F[i]) => F[i].call \in Nat
    PROVE  /\ Owes(F[1]) => P # <<>> /\ F[1].call = Head(P) /\ Matched(G, Tail(P))
           /\ ~Owes(F[1]) => Matched(G, P)
  <1>. DEFINE m == Len(P)
  <1>1. m \in Nat /\ DOMAIN P = 1 .. m /\ \A i \in 1 .. m : P[i] \in Nat
    OBVIOUS
  <1>. HIDE DEF m
  <1>2. 1 \in 1 .. n /\ \A i \in 1 .. (n - 1) : i + 1 \in 1 .. n
    OBVIOUS
  <1>3. \A i \in 1 .. n : i # 1 => i - 1 \in 1 .. (n - 1) /\ (i - 1) + 1 = i
    OBVIOUS
  <1>4. \A i, j \in DOMAIN G : i < j /\ Owes(G[i]) /\ Owes(G[j]) => G[i].call < G[j].call
    <2>. SUFFICES ASSUME NEW i \in 1 .. (n - 1), NEW j \in 1 .. (n - 1), i < j, Owes(G[i]), Owes(G[j]) PROVE G[i].call < G[j].call
      OBVIOUS
    <2>1. i + 1 \in 1 .. n /\ j + 1 \in 1 .. n /\ i + 1 < j + 1
      OBVIOUS
    <2>2. G[i] = F[i + 1] /\ G[j] = F[j + 1]
      OBVIOUS
    <2>3. \A x, y \in 1 .. n : x < y /\ Owes(F[x]) /\ Owes(F[y]) => F[x].call < F[y].call
      BY DEF Matched
    <2>4. F[i + 1].call < F[j + 1].call
      BY <2>1, <2>2, <2>3
    <2>. QED  BY <2>2, <2>4
  <1>5. ASSUME ~Owes(F[1]) PROVE Matched(G, P)
    <2>1. \A i \in DOMAIN G : Owes(G[i]) => \E p \in DOMAIN P : P[p] = G[i].call
      <3>. SUFFICES ASSUME NEW i \in 1 .. (n - 1), Owes(G[i]) PROVE \E p \in DOMAIN P : P[p] = G[i].call
        OBVIOUS
      <3>1. i + 1 \in 1 .. n /\ G[i] = F[i + 1]
        BY <1>2
      <3>2. \A j \in 1 .. n : Owes(F[j]) => \E p \in DOMAIN P : P[p] = F[j].call
        BY DEF Matched
      <3>. QED  BY <3>1, <3>2
    <2>2. \A p \in DOMAIN P : \E i \in DOMAIN G : Owes(G[i]) /\ G[i].call = P[p]
      <3>. SUFFICES ASSUME NEW p \in DOMAIN P PROVE \E i \in DOMAIN G : Owes(G[i]) /\ G[i].call = P[p]
        OBVIOUS
      <3>1. PICK i \in 1 .. n : Owes(F[i]) /\ F[i].call = P[p]
        BY DEF Matched
      <3>2. i - 1 \in 1 .. (n - 1) /\ G[i - 1] = F[i]
        <4>1. i # 1
          BY <3>1, <1>5
        <4>2. i - 1 \in 1 .. (n - 1) /\ (i - 1) + 1 = i
          BY <4>1, <1>3
        <4>. QED  BY <4>2
      <3>. QED  BY <3>1, <3>2
    <2>. QED  BY <2>1, <2>2, <1>4 DEF Matched
  <1>6. ASSUME Owes(F[1]) PROVE P # <<>> /\ F[1].call = Head(P) /\ Matched(G, Tail(P))
    <2>1. PICK q \in 1 .. m : P[q] = F[1].call
      BY <1>1, <1>2, <1>6 DEF Matched
    <2>2. 1 \in 1 .. m /\ P # <<>> /\ Head(P) = P[1]
      <3>1. m > 0 /\ 1 \in 1 .. m
        BY <1>1, <2>1
      <3>. QED  BY <3>1 DEF m
    <2>3. PICK i \in 1 .. n : Owes(F[i]) /\ F[i].call = P[1]
      BY <1>1, <2>2 DEF Matched
    <2>4. q = 1
      <3>. SUFFICES ASSUME q # 1 PROVE FALSE
        OBVIOUS
      <3>1. P[1] < P[q]
        <4>1. 1 < q
          BY <1>1
        <4>. QED  BY <4>1, <1>1, <2>2 DEF Matched
      <3>2. i # 1
        BY <3>1, <2>1, <2>3, <1>1, <2>2
      <3>3. 1 < i
        BY <3>2
      <3>4. F[1].call < F[i].call
        BY <3>3, <1>2, <1>6, <2>3 DEF Matched
      <3>5. P[1] \in Nat /\ P[q] \in Nat
        BY <1>1, <2>2
      <3>. QED  BY <3>1, <3>4, <3>5, <2>1, <2>3
    <2>. DEFINE T == Tail(P)
    <2>5. DOMAIN T = 1 .. (m - 1) /\ \A p \in 1 .. (m - 1) : p + 1 \in 1 .. m /\ T[p] = P[p + 1]
      <3>1. DOMAIN T = 1 .. (m - 1) /\ \A p \in 1 .. (m - 1) : T[p] = P[p + 1]
        BY <2>2 DEF m
      <3>. QED  BY <3>1, <1>1
    <2>. HIDE DEF T
    <2>6. \A p, r \in DOMAIN T : p < r => T[p] < T[r]
      <3>. SUFFICES ASSUME NEW p \in 1 .. (m - 1), NEW r \in 1 .. (m - 1), p < r PROVE T[p] < T[r]
        BY <2>5
      <3>1. p + 1 < r + 1 /\ p + 1 \in 1 .. m /\ r + 1 \in 1 .. m
        BY <2>5
      <3>2. \A x, y \in 1 .. m : x < y => P[x] < P[y]
        BY <1>1 DEF Matched
      <3>3. P[p + 1] < P[r + 1]
        BY <3>1, <3>2
      <3>. QED  BY <3>3, <2>5
    <2>7. \A k \in DOMAIN G : Owes(G[k]) => \E p \in DOMAIN T : T[p] = G[k].call
      <3>. SUFFICES ASSUME NEW k \in 1 .. (n - 1), Owes(G[k]) PROVE \E p \in DOMAIN T : T[p] = G[k].call
        OBVIOUS
      <3>1. k + 1 \in 1 .. n /\ G[k] = F[k + 1] /\ 1 < k + 1
        BY <1>2
      <3>2. F[1].call < F[k + 1].call
        BY <3>1, <1>2, <1>6 DEF Matched
      <3>3. PICK p \in 1 .. m : P[p] = F[k + 1].call
        BY <3>1, <1>1 DEF Matched
      <3>4. p # 1
        <4>1. F[1].call = P[1]
          BY <2>1, <2>4
        <4>2. P[1] \in Nat
          BY <1>1, <2>2
        <4>3. P[1] < P[p]
          BY <4>1, <3>2, <3>3
        <4>. QED  BY <4>2, <4>3
      <3>5. p - 1 \in 1 .. (m - 1) /\ (p - 1) + 1 = p
        BY <3>4, <1>1
      <3>. QED  BY <3>1, <3>3, <3>5, <2>5
    <2>8. \A p \in DOMAIN T : \E k \in DOMAIN G : Owes(G[k]) /\ G[k].call = T[p]
      <3>. SUFFICES ASSUME NEW p \in 1 .. (m - 1) PROVE \E k \in DOMAIN G : Owes(G[k]) /\ G[k].call = T[p]
        BY <2>5
      <3>1. p + 1 \in 1 .. m /\ T[p] = P[p + 1] /\ 1 < p + 1
        BY <2>5, <1>1
      <3>2. P[1] < P[p + 1]
        BY <3>1, <2>2, <1>1 DEF Matched
      <3>3. PICK k \in 1 .. n : Owes(F[k]) /\ F[k].call = P[p + 1]
        BY <3>1, <1>1 DEF Matched
      <3>4. k # 1
        BY <3>2, <3>3, <2>1, <2>4, <1>1, <2>2, <3>1
      <3>5. k - 1 \in 1 .. (n - 1) /\ (k - 1) + 1 = k
        BY <3>4, <1>3
      <3>. QED  BY <3>1, <3>3, <3>5
    <2>9. Matched(G, T)
      BY <1>4, <2>6, <2>7, <2>8 DEF Matched
    <2>. QED  BY <2>2, <2>1, <2>4, <2>9 DEF T
  <1>. QED  BY <1>5, <1>6

\* A frame goes last, and if it is a publish its call waits last.
LEMMA FlowGrows ==
    ASSUME NEW n \in Nat, NEW F, DOMAIN F = 1 .. n, NEW G, DOMAIN G = 1 .. (n + 1), \A i \in 1 .. n : G[i] = F[i],
           NEW P \in Seq(Nat), Matched(F, P), NEW k \in Nat, \A i \in DOMAIN P : P[i] < k, NEW Q,
           \/ Q = P /\ ~Owes(G[n + 1])
           \/ Q = Append(P, k) /\ Owes(G[n + 1]) /\ G[n + 1].call = k
    PROVE  Matched(G, Q)
  <1>. DEFINE m == Len(P)
  <1>1. m \in Nat /\ DOMAIN P = 1 .. m /\ \A i \in 1 .. m : P[i] \in Nat
    OBVIOUS
  <1>2. n + 1 \in 1 .. (n + 1) /\ \A i \in 1 .. (n + 1) : i # n + 1 => i \in 1 .. n /\ i < n + 1
    OBVIOUS
  <1>3. \A i \in 1 .. n : i \in 1 .. (n + 1)
    OBVIOUS
  <1>4. CASE Q = P /\ ~Owes(G[n + 1])
    <2>1. \A i, j \in DOMAIN G : i < j /\ Owes(G[i]) /\ Owes(G[j]) => G[i].call < G[j].call
      <3>. SUFFICES ASSUME NEW i \in 1 .. (n + 1), NEW j \in 1 .. (n + 1), i < j, Owes(G[i]), Owes(G[j]) PROVE G[i].call < G[j].call
        OBVIOUS
      <3>1. i \in 1 .. n /\ j \in 1 .. n
        BY <1>2, <1>4
      <3>. QED  BY <3>1 DEF Matched
    <2>2. \A i \in DOMAIN G : Owes(G[i]) => \E p \in DOMAIN P : P[p] = G[i].call
      BY <1>2, <1>4 DEF Matched
    <2>3. \A p \in DOMAIN P : \E i \in DOMAIN G : Owes(G[i]) /\ G[i].call = P[p]
      BY <1>3 DEF Matched
    <2>. QED  BY <1>4, <2>1, <2>2, <2>3 DEF Matched
  <1>5. CASE Q = Append(P, k) /\ Owes(G[n + 1]) /\ G[n + 1].call = k
    <2>1. DOMAIN Q = 1 .. (m + 1) /\ Q[m + 1] = k /\ \A i \in 1 .. m : Q[i] = P[i]
      BY <1>5
    <2>. HIDE DEF m
    <2>2. m + 1 \in 1 .. (m + 1) /\ \A p \in 1 .. (m + 1) : p # m + 1 => p \in 1 .. m
      BY <1>1
    <2>3. \A p \in 1 .. m : p \in 1 .. (m + 1)
      BY <1>1
    <2>4. \A p, r \in DOMAIN Q : p < r => Q[p] < Q[r]
      <3>. SUFFICES ASSUME NEW p \in 1 .. (m + 1), NEW r \in 1 .. (m + 1), p < r PROVE Q[p] < Q[r]
        BY <2>1
      <3>1. p # m + 1
        BY <1>1
      <3>2. p \in 1 .. m /\ Q[p] = P[p]
        BY <3>1, <2>1, <2>2
      <3>3. CASE r = m + 1
        BY <3>2, <3>3, <2>1, <1>1
      <3>4. CASE r # m + 1
        BY <3>2, <3>4, <2>1, <2>2, <1>1 DEF Matched
      <3>. QED  BY <3>3, <3>4
    <2>5. \A i \in 1 .. n : Owes(F[i]) => F[i].call < k
      BY <1>1 DEF Matched
    <2>6. \A i, j \in DOMAIN G : i < j /\ Owes(G[i]) /\ Owes(G[j]) => G[i].call < G[j].call
      <3>. SUFFICES ASSUME NEW i \in 1 .. (n + 1), NEW j \in 1 .. (n + 1), i < j, Owes(G[i]), Owes(G[j]) PROVE G[i].call < G[j].call
        OBVIOUS
      <3>1. i # n + 1
        OBVIOUS
      <3>2. i \in 1 .. n /\ G[i] = F[i]
        BY <3>1, <1>2
      <3>3. CASE j = n + 1
        BY <3>2, <3>3, <2>5, <1>5
      <3>4. CASE j # n + 1
        BY <3>2, <3>4, <1>2 DEF Matched
      <3>. QED  BY <3>3, <3>4
    <2>7. \A i \in DOMAIN G : Owes(G[i]) => \E p \in DOMAIN Q : Q[p] = G[i].call
      <3>. SUFFICES ASSUME NEW i \in 1 .. (n + 1), Owes(G[i]) PROVE \E p \in DOMAIN Q : Q[p] = G[i].call
        OBVIOUS
      <3>1. CASE i = n + 1
        BY <3>1, <1>5, <2>1, <2>2
      <3>2. CASE i # n + 1
        <4>1. i \in 1 .. n /\ G[i] = F[i]
          BY <3>2, <1>2
        <4>2. PICK p \in 1 .. m : P[p] = F[i].call
          BY <4>1, <1>1 DEF Matched
        <4>. QED  BY <4>1, <4>2, <2>1, <2>3
      <3>. QED  BY <3>1, <3>2
    <2>8. \A p \in DOMAIN Q : \E i \in DOMAIN G : Owes(G[i]) /\ G[i].call = Q[p]
      <3>. SUFFICES ASSUME NEW p \in 1 .. (m + 1) PROVE \E i \in DOMAIN G : Owes(G[i]) /\ G[i].call = Q[p]
        BY <2>1
      <3>1. CASE p = m + 1
        BY <3>1, <1>5, <2>1, <1>2
      <3>2. CASE p # m + 1
        <4>1. p \in 1 .. m /\ Q[p] = P[p]
          BY <3>2, <2>1, <2>2
        <4>2. PICK i \in 1 .. n : Owes(F[i]) /\ F[i].call = P[p]
          BY <4>1, <1>1 DEF Matched
        <4>. QED  BY <4>1, <4>2, <1>3
      <3>. QED  BY <3>1, <3>2
    <2>. QED  BY <2>4, <2>6, <2>7, <2>8 DEF Matched
  <1>. QED  BY <1>4, <1>5

\* A flow, and the empty one.
LEMMA FlowIs ==
    ASSUME NEW link \in LinkRow
    PROVE  /\ DOMAIN Flow(link) = 1 .. (Len(link.out) + Len(link.in)) /\ Len(link.out) + Len(link.in) \in Nat
           /\ \A i \in DOMAIN Flow(link) : Flow(link)[i] \in Replies \cup Requests
           /\ \A i \in DOMAIN Flow(link) : Owes(Flow(link)[i]) => Flow(link)[i].call \in Nat
  <1>. DEFINE a == Len(link.out)  b == Len(link.in)
  <1>1. link.out \in Seq(Replies) /\ link.in \in Seq(Requests)
    BY DEF LinkRow
  <1>2. /\ a \in Nat /\ b \in Nat /\ \A i \in 1 .. a : link.out[i] \in Replies
        /\ \A i \in 1 .. b : link.in[i] \in Requests
    BY <1>1
  <1>. HIDE DEF a, b
  <1>3. \A i \in 1 .. (a + b) : Flow(link)[i] \in Replies \cup Requests
    <2>. SUFFICES ASSUME NEW i \in 1 .. (a + b) PROVE Flow(link)[i] \in Replies \cup Requests
      OBVIOUS
    <2>1. Flow(link)[i] = IF i <= a THEN link.out[i] ELSE link.in[i - a]
      BY DEF Flow, a, b
    <2>2. CASE i <= a
      <3>1. i \in 1 .. a
        BY <2>2, <1>2
      <3>. QED  BY <2>1, <2>2, <3>1, <1>2
    <2>3. CASE ~(i <= a)
      <3>1. i - a \in 1 .. b
        BY <2>3, <1>2
      <3>. QED  BY <2>1, <2>3, <3>1, <1>2
    <2>. QED  BY <2>2, <2>3
  <1>4. DOMAIN Flow(link) = 1 .. (a + b) /\ a + b \in Nat
    <2>1. DOMAIN Flow(link) = 1 .. (a + b)
      BY DEF Flow, a, b
    <2>2. a + b \in Nat
      BY <1>2
    <2>. QED  BY <2>1, <2>2
  <1>5. \A x \in Replies \cup Requests : Owes(x) => x.call \in Nat
    BY DEF Replies, Requests, Owes, AckTypes
  <1>. QED  BY <1>3, <1>4, <1>5 DEF a, b

\* The flow when the server answers its oldest frame, when the client hears a frame, and when
\* a frame is written.
LEMMA FlowAnswered ==
    ASSUME NEW link \in LinkRow, NEW r \in LinkRow, NEW frame \in Replies, NEW P, link.in # <<>>, r.in = Tail(link.in), r.out = Append(link.out, frame),
           frame.type = "subscribed" \/ (Head(link.in).type = "publish" /\ frame.call = Head(link.in).call),
           Head(link.in).type = "publish" => frame.type \in AckTypes, Matched(Flow(link), P)
    PROVE  Matched(Flow(r), P)
  <1>. DEFINE a == Len(link.out)  b == Len(link.in)  F == Flow(link)  G == Flow(r)
  <1>1. link.out \in Seq(Replies) /\ link.in \in Seq(Requests)
    BY DEF LinkRow
  <1>2. /\ a \in Nat /\ b \in Nat /\ b > 0 /\ Len(r.out) = a + 1 /\ Len(r.in) = b - 1
        /\ \A i \in 1 .. a : r.out[i] = link.out[i]
        /\ r.out[a + 1] = frame /\ \A i \in 1 .. (b - 1) : r.in[i] = link.in[i + 1]
        /\ Head(link.in) = link.in[1] /\ link.in[1] \in Requests
    BY <1>1
  <1>. HIDE DEF a, b
  <1>3. (a + 1) + (b - 1) = a + b
    BY <1>2
  <1>4. DOMAIN F = 1 .. (a + b) /\ \A i \in 1 .. (a + b) : F[i] = IF i <= a THEN link.out[i] ELSE link.in[i - a]
    BY DEF Flow, a, b
  <1>. HIDE DEF F
  <1>5. DOMAIN G = 1 .. (a + b) /\ \A i \in 1 .. (a + b) : G[i] = IF i <= a + 1 THEN r.out[i] ELSE r.in[i - (a + 1)]
    BY <1>2, <1>3 DEF Flow, a, b
  <1>. HIDE DEF G
  <1>6. (Owes(frame) <=> Owes(link.in[1])) /\ (Owes(frame) => frame.call = link.in[1].call)
    BY <1>2 DEF Owes, AckTypes, Requests, Mentions, Replies
  <1>7. ASSUME NEW i \in 1 .. (a + b) PROVE (Owes(G[i]) <=> Owes(F[i])) /\ (Owes(F[i]) => G[i].call = F[i].call)
    <2>1. CASE i <= a
      <3>1. i \in 1 .. a /\ i <= a + 1
        BY <2>1, <1>2
      <3>2. G[i] = r.out[i] /\ F[i] = link.out[i]
        BY <2>1, <3>1, <1>4, <1>5
      <3>. QED  BY <3>1, <3>2, <1>2
    <2>2. CASE i = a + 1
      <3>1. ~(i <= a) /\ i <= a + 1 /\ i - a = 1
        BY <2>2, <1>2
      <3>2. G[i] = r.out[a + 1] /\ F[i] = link.in[1]
        BY <2>2, <3>1, <1>4, <1>5
      <3>. QED  BY <3>2, <1>2, <1>6
    <2>3. CASE i > a + 1
      <3>1. ~(i <= a) /\ ~(i <= a + 1) /\ i - (a + 1) \in 1 .. (b - 1) /\ (i - (a + 1)) + 1 = i - a
        <4>1. i \in Nat /\ i <= a + b /\ a \in Nat /\ b \in Nat /\ i > a + 1
          BY <1>2, <2>3
        <4>2. i - (a + 1) \in 1 .. (b - 1)
          BY <4>1
        <4>. QED  BY <4>1, <4>2
      <3>2. G[i] = r.in[i - (a + 1)] /\ F[i] = link.in[i - a]
        BY <3>1, <1>4, <1>5
      <3>. QED  BY <3>1, <3>2, <1>2
    <2>. QED  BY <2>1, <2>2, <2>3, <1>2
  <1>8. Matched(F, P)
    BY DEF F
  <1>9. Matched(G, P)
    <2>1. DOMAIN G = DOMAIN F /\ \A i \in DOMAIN F : (Owes(G[i]) <=> Owes(F[i])) /\ (Owes(F[i]) => G[i].call = F[i].call)
      BY <1>4, <1>5, <1>7
    <2>. QED  BY <2>1, <1>8, FlowSame
  <1>. QED  BY <1>9 DEF G

LEMMA FlowTold ==
    ASSUME NEW link \in LinkRow, NEW r \in LinkRow, link.out # <<>>, r.in = link.in, r.out = Tail(link.out)
    PROVE  /\ Len(link.out) + Len(link.in) > 0 /\ Flow(link)[1] = Head(link.out)
           /\ DOMAIN Flow(r) = 1 .. ((Len(link.out) + Len(link.in)) - 1)
           /\ \A i \in 1 .. ((Len(link.out) + Len(link.in)) - 1) : Flow(r)[i] = Flow(link)[i + 1]
  <1>. DEFINE a == Len(link.out)  b == Len(link.in)  F == Flow(link)  G == Flow(r)
  <1>1. link.out \in Seq(Replies) /\ link.in \in Seq(Requests)
    BY DEF LinkRow
  <1>2. /\ a \in Nat /\ b \in Nat /\ a > 0 /\ Len(r.out) = a - 1 /\ Len(r.in) = b
        /\ \A i \in 1 .. (a - 1) : r.out[i] = link.out[i + 1]
        /\ Head(link.out) = link.out[1]
    BY <1>1
  <1>. HIDE DEF a, b
  <1>3. (a - 1) + b = (a + b) - 1 /\ 1 \in 1 .. (a + b) /\ 1 <= a
    BY <1>2
  <1>4. DOMAIN F = 1 .. (a + b) /\ \A i \in 1 .. (a + b) : F[i] = IF i <= a THEN link.out[i] ELSE link.in[i - a]
    BY DEF Flow, a, b
  <1>. HIDE DEF F
  <1>5. DOMAIN G = 1 .. ((a + b) - 1) /\ \A i \in 1 .. ((a + b) - 1) : G[i] = IF i <= a - 1 THEN r.out[i] ELSE link.in[i - (a - 1)]
    BY <1>2, <1>3 DEF Flow, a, b
  <1>. HIDE DEF G
  <1>6. ASSUME NEW i \in 1 .. ((a + b) - 1) PROVE G[i] = F[i + 1]
    <2>0. i + 1 \in 1 .. (a + b)
      BY <1>2
    <2>1. CASE i <= a - 1
      <3>1. i \in 1 .. (a - 1) /\ i + 1 <= a
        BY <2>1, <1>2
      <3>. QED  BY <2>0, <2>1, <3>1, <1>2, <1>4, <1>5
    <2>2. CASE ~(i <= a - 1)
      <3>1. ~(i + 1 <= a) /\ i - (a - 1) = (i + 1) - a
        BY <2>2, <1>2
      <3>. QED  BY <2>0, <2>2, <3>1, <1>4, <1>5
    <2>. QED  BY <2>1, <2>2
  <1>7. F[1] = Head(link.out) /\ a + b > 0
    BY <1>2, <1>3, <1>4
  <1>. QED  BY <1>5, <1>6, <1>7 DEF a, b, F, G

LEMMA FlowWritten ==
    ASSUME NEW link \in LinkRow, NEW r, NEW f \in Requests, r.in = Append(link.in, f), r.out = link.out
    PROVE  LET n == Len(link.out) + Len(link.in) IN
           DOMAIN Flow(r) = 1 .. (n + 1) /\ Flow(r)[n + 1] = f /\ \A i \in 1 .. n : Flow(r)[i] = Flow(link)[i]
  <1>. DEFINE a == Len(link.out)  b == Len(link.in)  F == Flow(link)  G == Flow(r)
  <1>1. link.out \in Seq(Replies) /\ link.in \in Seq(Requests)
    BY DEF LinkRow
  <1>2. /\ a \in Nat /\ b \in Nat /\ Len(r.out) = a /\ Len(r.in) = b + 1 /\ r.in[b + 1] = f
        /\ \A i \in 1 .. b : r.in[i] = link.in[i]
    BY <1>1
  <1>. HIDE DEF a, b
  <1>3. a + (b + 1) = (a + b) + 1 /\ (a + b) + 1 \in 1 .. ((a + b) + 1) /\ ~((a + b) + 1 <= a) /\ ((a + b) + 1) - a = b + 1
    BY <1>2
  <1>4. DOMAIN F = 1 .. (a + b) /\ \A i \in 1 .. (a + b) : F[i] = IF i <= a THEN link.out[i] ELSE link.in[i - a]
    BY DEF Flow, a, b
  <1>. HIDE DEF F
  <1>5. DOMAIN G = 1 .. ((a + b) + 1) /\ \A i \in 1 .. ((a + b) + 1) : G[i] = IF i <= a THEN link.out[i] ELSE r.in[i - a]
    BY <1>2, <1>3 DEF Flow, a, b
  <1>. HIDE DEF G
  <1>6. ASSUME NEW i \in 1 .. (a + b) PROVE G[i] = F[i]
    <2>0. i \in 1 .. ((a + b) + 1)
      BY <1>2
    <2>1. CASE i <= a
      BY <2>0, <2>1, <1>4, <1>5
    <2>2. CASE ~(i <= a)
      <3>1. i - a \in 1 .. b
        BY <2>2, <1>2
      <3>. QED  BY <2>0, <2>2, <3>1, <1>2, <1>4, <1>5
    <2>. QED  BY <2>1, <2>2
  <1>7. G[(a + b) + 1] = f
    BY <1>2, <1>3, <1>5
  <1>. QED  BY <1>5, <1>6, <1>7 DEF a, b, F, G

-----------------------------------------------------------------------------
(* One link at a time *)

\* An application that does not connect or close while a dial or a timer is under way has one
\* link that is not lost, or one dial, or one timer.
Tidy ==
  /\ \A l, m \in Live : links[l].up # "lost" /\ links[m].up # "lost" => l = m
  /\ \A l \in Live : links[l].up # "lost" => Dialing = 0 /\ timers = 0
  /\ Dialing + timers <= 1
  /\ \A l \in Live : links[l].up = "open" \/ (lang = "js" /\ links[l].up = "connecting") => cur = l
  /\ closed => Dialing = 0 /\ timers = 0 /\ \A l \in Live : links[l].up \in {"broken", "lost"}

\* One dial fewer, and at most one timer more; one timer fewer, and at most one dial more.
LEMMA AtMostOne ==
    ASSUME NEW d, NEW e, NEW t, NEW u, d \in Nat, t \in Nat, e \in Nat, u \in Nat, d + t <= 1,
           \/ e = d - 1 /\ u <= t + 1
           \/ u = t - 1 /\ e <= d + 1
           \/ d = 0 /\ t = 0 /\ e = 0 /\ u <= 1
    PROVE  e + u <= 1
  OBVIOUS

\* Links break or are lost, and none opens.
LEMMA LinksFall ==
    ASSUME Tidy, DOMAIN links' = Live, UNCHANGED lang,
           \A m \in Live : links'[m].up = links[m].up \/ (links[m].up # "lost" /\ links'[m].up \in {"broken", "lost"}),
           Dialing' + timers' <= 1, \A m \in Live : links'[m].up # "lost" => Dialing' = 0 /\ timers' = 0,
           cur' = cur \/ \A m \in Live : links'[m].up \in {"broken", "lost"},
           closed' => Dialing' = 0 /\ timers' = 0 /\ \A m \in Live : links'[m].up \in {"broken", "lost"}
    PROVE  Tidy'
  <1>1. Live' = Live
    BY DEF Live
  <1>2. \A l, m \in Live : links'[l].up # "lost" /\ links'[m].up # "lost" => l = m
    BY DEF Tidy
  <1>3. \A l \in Live : links'[l].up = "open" \/ (lang = "js" /\ links'[l].up = "connecting") => cur' = l
    BY DEF Tidy
  <1>. HIDE DEF Live, Dialing
  <1>. QED  BY <1>1, <1>2, <1>3 DEF Tidy

\* Nothing of it moves.
LEMMA TidyRest ==
    ASSUME Tidy, DOMAIN links' = Live, \A m \in Live : links'[m].up = links[m].up, UNCHANGED <<lang, cur, closed, dials, timers>>
    PROVE  Tidy'
  <1>1. Dialing' = Dialing
    BY DEF Dialing
  <1>. HIDE DEF Live, Dialing
  <1>. QED  BY <1>1, LinksFall DEF Tidy

\* Dials are counted.
LEMMA DialCounts ==
    ASSUME SocketTypes
    PROVE  /\ dials["connect"] \in Nat /\ dials["timer"] \in Nat /\ Dialing \in Nat /\ timers \in Nat
           /\ \A by \in Causes : dials[by] \in Nat
           /\ \A by \in Causes : dials' = [dials EXCEPT ![by] = @ - 1] => Dialing' = Dialing - 1
           /\ \A by \in Causes : dials' = [dials EXCEPT ![by] = @ + 1] => Dialing' = Dialing + 1 /\ dials'[by] > dials[by]
           /\ dials' = [dials EXCEPT !["timer"] = 0] => Dialing' <= Dialing /\ Dialing' \in Nat
           /\ dials' = dials => Dialing' = Dialing
  <1>1. dials \in [{"connect", "timer"} -> Nat] /\ timers \in Nat
    BY DEF SocketTypes, Causes
  <1>2. dials["connect"] \in Nat /\ dials["timer"] \in Nat
    BY <1>1
  <1>3. ASSUME NEW by \in {"connect", "timer"}, dials' = [dials EXCEPT ![by] = @ - 1] PROVE Dialing' = Dialing - 1
    <2>1. CASE by = "connect"
      <3>1. dials'["connect"] = dials["connect"] - 1 /\ dials'["timer"] = dials["timer"]
        BY <1>1, <1>3, <2>1
      <3>. QED  BY <3>1, <1>2 DEF Dialing
    <2>2. CASE by = "timer"
      <3>1. dials'["timer"] = dials["timer"] - 1 /\ dials'["connect"] = dials["connect"]
        BY <1>1, <1>3, <2>2
      <3>. QED  BY <3>1, <1>2 DEF Dialing
    <2>. QED  BY <2>1, <2>2
  <1>4. ASSUME NEW by \in {"connect", "timer"}, dials' = [dials EXCEPT ![by] = @ + 1] PROVE Dialing' = Dialing + 1 /\ dials'[by] > dials[by]
    <2>1. CASE by = "connect"
      <3>1. dials'["connect"] = dials["connect"] + 1 /\ dials'["timer"] = dials["timer"]
        BY <1>1, <1>4, <2>1
      <3>. QED  BY <3>1, <1>2, <2>1 DEF Dialing
    <2>2. CASE by = "timer"
      <3>1. dials'["timer"] = dials["timer"] + 1 /\ dials'["connect"] = dials["connect"]
        BY <1>1, <1>4, <2>2
      <3>. QED  BY <3>1, <1>2, <2>2 DEF Dialing
    <2>. QED  BY <2>1, <2>2
  <1>5. ASSUME dials' = [dials EXCEPT !["timer"] = 0] PROVE Dialing' <= Dialing /\ Dialing' \in Nat
    <2>1. dials'["timer"] = 0 /\ dials'["connect"] = dials["connect"]
      BY <1>1, <1>5
    <2>. QED  BY <2>1, <1>2 DEF Dialing
  <1>6. Dialing \in Nat /\ \A by \in {"connect", "timer"} : dials[by] \in Nat
    BY <1>2 DEF Dialing
  <1>7. dials' = dials => Dialing' = Dialing
    BY DEF Dialing
  <1>. QED  BY <1>1, <1>2, <1>3, <1>4, <1>5, <1>6, <1>7 DEF Causes

LEMMA ConnectTidy == ASSUME SocketTypes, Tidy, Connect, Polite PROVE Tidy'
  <1>1. UNCHANGED <<lang, cur, links, timers>> /\ DOMAIN links' = Live
    BY DEF Connect, Live
  <1>2. CASE Connected
    <2>1. UNCHANGED dials /\ (closed' => closed)
      BY <1>2 DEF Connect
    <2>2. Dialing' = Dialing
      BY <2>1 DEF Dialing
    <2>. HIDE DEF Live, Dialing
    <2>. QED  BY <1>1, <2>1, <2>2, LinksFall DEF Tidy
  <1>3. CASE ~Connected
    <2>1. closed' = FALSE /\ dials' = [dials EXCEPT !["connect"] = @ + 1]
      BY <1>3 DEF Connect
    <2>2. Dialing' = Dialing + 1 /\ dials'["connect"] > dials["connect"]
      BY <2>1, DialCounts DEF Causes
    <2>3. Dialing = 0 /\ timers = 0 /\ \A l \in Live : links[l].up = "lost"
      BY <2>2 DEF Polite
    <2>. HIDE DEF Live, Dialing
    <2>4. Dialing' + timers' <= 1
      BY <1>1, <2>2, <2>3
    <2>5. /\ \A m \in Live : links'[m].up = links[m].up
          /\ \A m \in Live : links'[m].up # "lost" => Dialing' = 0 /\ timers' = 0
      BY <1>1, <2>3
    <2>. QED  BY <1>1, <2>1, <2>4, <2>5, LinksFall
  <1>. QED  BY <1>2, <1>3

LEMMA CloseTidy == ASSUME SocketTypes, Tidy, Close, Polite PROVE Tidy'
  <1>1. /\ closed' = TRUE /\ cur' = 0 /\ UNCHANGED lang /\ DOMAIN links' = Live
        /\ \A l \in Live : links'[l] = IF (l = cur /\ links[l].up \in {"open", "connecting"})
                                         \/ (lang = "python" /\ links[l].by = "timer" /\ links[l].up = "connecting")
                                      THEN Cut(links[l]) ELSE links[l]
    BY DEF Close
  <1>2. \A l \in Live : Cut(links[l]).up = "broken" /\ links[l].up \in {"connecting", "open", "broken", "lost"}
    BY LinkIs, CutLink DEF LinkRow
  <1>3. Dialing = 0 /\ timers = 0 /\ \A l \in Live : links[l].up # "connecting"
    <2>1. CASE closed
      BY <2>1 DEF Tidy
    <2>2. CASE ~closed
      <3>1. Dialing = 0 /\ timers = 0 /\ ~Connecting
        BY <1>1, <2>2 DEF Polite
      <3>. QED  BY <3>1 DEF Connecting
    <2>. QED  BY <2>1, <2>2
  <1>4. \A l \in Live : links[l].up = "open" => l = cur
    BY DEF Tidy
  <1>5. \A l \in Live : /\ links'[l].up = links[l].up \/ (links[l].up # "lost" /\ links'[l].up \in {"broken", "lost"})
                        /\ links'[l].up \in {"broken", "lost"}
    BY <1>1, <1>2, <1>3, <1>4
  <1>6. timers' = 0
    BY <1>3 DEF Close
  <1>7. Dialing' = 0
    <2>1. dials' = [dials EXCEPT !["timer"] = 0] \/ dials' = dials
      <3>1. CASE lang = "python"
        BY <3>1 DEF Close
      <3>2. CASE lang # "python"
        <4>1. dials' = [dials EXCEPT !["timer"] = @]
          BY <3>2 DEF Close
        <4>2. dials \in [Causes -> Nat]
          BY DEF SocketTypes
        <4>. QED  BY <4>1, <4>2
      <3>. QED  BY <3>1, <3>2
    <2>2. (Dialing' <= Dialing /\ Dialing' \in Nat) \/ Dialing' = Dialing
      BY <2>1, DialCounts
    <2>. QED  BY <2>2, <1>3
  <1>. HIDE DEF Live, Dialing
  <1>. QED  BY <1>1, <1>5, <1>6, <1>7, LinksFall

LEMMA TimerTidy == ASSUME SocketTypes, Tidy, TimerFires PROVE Tidy'
  <1>1. UNCHANGED <<lang, cur, links, closed>> /\ timers > 0 /\ timers' = timers - 1 /\ DOMAIN links' = Live
    BY DEF TimerFires, Live
  <1>2. dials' = dials \/ dials' = [dials EXCEPT !["timer"] = @ + 1]
    BY DEF TimerFires
  <1>3. Dialing \in Nat /\ timers \in Nat /\ Dialing' \in {Dialing, Dialing + 1}
    BY <1>2, DialCounts DEF Causes
  <1>4. ~closed /\ \A l \in Live : links[l].up = "lost"
    BY <1>1, <1>3 DEF Tidy
  <1>. HIDE DEF Live, Dialing
  <1>5. Dialing' + timers' <= 1
    <2>1. Dialing + timers <= 1
      BY DEF Tidy
    <2>2. timers' = timers - 1 /\ timers' \in Nat
      BY <1>1, <1>3
    <2>3. Dialing' \in Nat /\ Dialing' <= Dialing + 1
      BY <1>3
    <2>4. Dialing \in Nat /\ timers \in Nat
      BY <1>3
    <2>5. \A d, e, t, u \in Nat : d + t <= 1 /\ u = t - 1 /\ e <= d + 1 => e + u <= 1
      OBVIOUS
    <2>. QED  BY <2>1, <2>2, <2>3, <2>4, <2>5
  <1>6. /\ \A m \in Live : links'[m].up = links[m].up
        /\ \A m \in Live : links'[m].up # "lost" => Dialing' = 0 /\ timers' = 0
        /\ cur' = cur /\ ~closed'
    BY <1>1, <1>4
  <1>. QED  BY <1>1, <1>5, <1>6, LinksFall

\* What reconnecting and a failed dial do to the timers.
LEMMA FailedTimers ==
    ASSUME SocketTypes, NEW by \in Causes, DialFailed(by) \/ Reconnects
    PROVE  timers' \in Nat /\ timers' <= timers + 1 /\ (closed => timers' = timers)
  <1>1. timers \in Nat
    BY DEF SocketTypes
  <1>2. DialFailed(by) => Reconnects \/ UNCHANGED timers
    BY DEF DialFailed
  <1>3. Reconnects => timers' = timers \/ (~closed /\ timers' = timers + 1)
    BY DEF Reconnects
  <1>. QED  BY <1>1, <1>2, <1>3

LEMMA NoTokenTidy == ASSUME SocketTypes, Tidy, NEW by \in Causes, DialNoToken(by) PROVE Tidy'
  <1>1. UNCHANGED <<lang, links, closed>> /\ DOMAIN links' = Live /\ dials[by] > 0 /\ dials' = [dials EXCEPT ![by] = @ - 1] /\ DialFailed(by)
    BY DEF DialNoToken, Taken, Live
  <1>2. Dialing \in Nat /\ timers \in Nat /\ Dialing' = Dialing - 1 /\ Dialing > 0
    <2>1. /\ dials["connect"] \in Nat /\ dials["timer"] \in Nat /\ Dialing \in Nat /\ timers \in Nat /\ Dialing' = Dialing - 1
      BY <1>1, DialCounts
    <2>2. dials["connect"] > 0 \/ dials["timer"] > 0
      BY <1>1 DEF Causes
    <2>3. Dialing > 0
      BY <2>1, <2>2 DEF Dialing
    <2>. QED  BY <2>1, <2>3
  <1>3. ~closed /\ \A l \in Live : links[l].up = "lost"
    BY <1>2 DEF Tidy
  <1>. HIDE DEF Live, Dialing
  <1>4. timers' \in Nat /\ timers' <= timers + 1
    BY <1>1, FailedTimers
  <1>5. Dialing' + timers' <= 1
    <2>1. Dialing + timers <= 1
      BY DEF Tidy
    <2>2. Dialing' = Dialing - 1 /\ Dialing' \in Nat
      BY <1>2
    <2>. QED  BY <1>2, <1>4, <2>1, <2>2, AtMostOne
  <1>6. /\ \A m \in Live : links'[m].up = "lost" /\ links'[m].up = links[m].up
        /\ \A m \in Live : links'[m].up # "lost" => Dialing' = 0 /\ timers' = 0
        /\ \A m \in Live : links'[m].up \in {"broken", "lost"}
        /\ ~closed'
    BY <1>1, <1>3
  <1>. QED  BY <1>1, <1>5, <1>6, LinksFall

\* The link that was not lost is: a timer may follow.
LEMMA LostTidy ==
    ASSUME SocketTypes, Tidy, NEW l \in Live, links[l].up # "lost", DOMAIN links' = Live, links'[l].up = "lost",
           \A m \in Live : m # l => links'[m] = links[m], UNCHANGED <<lang, closed, dials>>,
           timers' \in Nat, timers' <= timers + 1, closed => timers' = timers
    PROVE  Tidy'
  <1>1. Dialing = 0 /\ timers = 0 /\ Dialing' = Dialing
    BY DEF Tidy, Dialing
  <1>2. \A m \in Live : links'[m].up = "lost"
    BY DEF Tidy
  <1>. HIDE DEF Live, Dialing
  <1>3. Dialing' + timers' <= 1 /\ (closed' => Dialing' = 0 /\ timers' = 0)
    <2>1. Dialing' = 0 /\ timers' \in Nat /\ timers' <= 1
      BY <1>1
    <2>2. closed' => timers' = 0
      BY <1>1
    <2>3. Dialing = 0 /\ timers = 0 /\ Dialing' \in Nat /\ Dialing \in Nat /\ timers \in Nat /\ Dialing + timers <= 1
      BY <1>1
    <2>4. Dialing' + timers' <= 1
      BY <2>1, <2>3, AtMostOne
    <2>. QED  BY <2>1, <2>2, <2>4
  <1>4. \A m \in Live : links'[m].up = links[m].up \/ (links[m].up # "lost" /\ links'[m].up \in {"broken", "lost"})
    BY <1>2
  <1>. QED  BY <1>2, <1>3, <1>4, LinksFall

LEMMA RefusedTidy == ASSUME SocketTypes, Tidy, NEW l \in Live, DialRefused(l) PROVE Tidy'
  <1>1. /\ links[l].up = "connecting" /\ links' = [links EXCEPT ![l].up = "lost"] /\ UNCHANGED <<lang, closed, dials>>
        /\ DialFailed(links[l].by) \/ Reconnects
    BY DEF DialRefused
  <1>2. links \in Seq(LinkRow) /\ links[l] \in LinkRow /\ l \in DOMAIN links /\ Live = DOMAIN links
    BY LinkIs DEF SocketTypes, Live
  <1>3. [links[l] EXCEPT !.up = "lost"] \in LinkRow /\ [links[l] EXCEPT !.up = "lost"].up = "lost" /\ links[l].by \in Causes
    BY <1>2 DEF LinkRow
  <1>4. links' = [links EXCEPT ![l] = [links[l] EXCEPT !.up = "lost"]]
    BY <1>1
  <1>5. DOMAIN links' = Live /\ links'[l].up = "lost" /\ \A m \in Live : m # l => links'[m] = links[m]
    BY <1>2, <1>3, <1>4, LinkPut
  <1>6. timers' \in Nat /\ timers' <= timers + 1 /\ (closed => timers' = timers)
    BY <1>1, <1>3, FailedTimers
  <1>. QED  BY <1>1, <1>5, <1>6, LostTidy

LEMMA DisconnectTidy == ASSUME SocketTypes, Tidy, NEW l \in Live, OnDisconnect(l) PROVE Tidy'
  <1>1. /\ links[l].up = "broken" /\ links' = [links EXCEPT ![l].up = "lost"] /\ UNCHANGED <<lang, closed, dials>>
        /\ timers' = timers \/ Reconnects
    BY DEF OnDisconnect
  <1>2. links \in Seq(LinkRow) /\ links[l] \in LinkRow /\ l \in DOMAIN links /\ Live = DOMAIN links /\ timers \in Nat
    BY LinkIs DEF SocketTypes, Live
  <1>3. [links[l] EXCEPT !.up = "lost"] \in LinkRow /\ [links[l] EXCEPT !.up = "lost"].up = "lost"
    BY <1>2 DEF LinkRow
  <1>4. links' = [links EXCEPT ![l] = [links[l] EXCEPT !.up = "lost"]]
    BY <1>1
  <1>5. DOMAIN links' = Live /\ links'[l].up = "lost" /\ \A m \in Live : m # l => links'[m] = links[m]
    BY <1>2, <1>3, <1>4, LinkPut
  <1>6. timers' \in Nat /\ timers' <= timers + 1 /\ (closed => timers' = timers)
    <2>1. Reconnects => timers' = timers \/ (~closed /\ timers' = timers + 1)
      BY DEF Reconnects
    <2>. QED  BY <2>1, <1>1, <1>2
  <1>. QED  BY <1>1, <1>5, <1>6, LostTidy

LEMMA BreakTidy == ASSUME SocketTypes, Tidy, NEW l \in Live, LinkLost(l) PROVE Tidy'
  <1>1. links[l].up = "open" /\ links' = [links EXCEPT ![l] = Cut(links[l])] /\ UNCHANGED <<lang, cur, closed, dials, timers>>
    BY DEF LinkLost
  <1>2. links \in Seq(LinkRow) /\ links[l] \in LinkRow /\ l \in DOMAIN links /\ Live = DOMAIN links
    BY LinkIs DEF SocketTypes, Live
  <1>3. Cut(links[l]) \in LinkRow /\ Cut(links[l]).up = "broken"
    BY <1>2, CutLink
  <1>4. DOMAIN links' = Live /\ links'[l].up = "broken" /\ \A m \in Live : m # l => links'[m] = links[m]
    BY <1>1, <1>2, <1>3, LinkPut
  <1>5. Dialing' = Dialing
    BY <1>1 DEF Dialing
  <1>6. \A m \in Live : links'[m].up = links[m].up \/ (links[m].up # "lost" /\ links'[m].up \in {"broken", "lost"})
    BY <1>1, <1>4
  <1>. HIDE DEF Live, Dialing
  <1>7. /\ Dialing' + timers' <= 1 /\ \A m \in Live : links'[m].up # "lost" => Dialing' = 0 /\ timers' = 0
        /\ closed' => Dialing' = 0 /\ timers' = 0 /\ \A m \in Live : links'[m].up \in {"broken", "lost"}
    BY <1>1, <1>5, <1>6 DEF Tidy
  <1>. QED  BY <1>1, <1>4, <1>6, <1>7, LinksFall

LEMMA TokenTidy == ASSUME SocketTypes, Tidy, NEW by \in Causes, DialToken(by) PROVE Tidy'
  <1>. DEFINE n == Len(links)
  <1>1. /\ UNCHANGED <<lang, closed, timers>> /\ dials[by] > 0 /\ dials' = [dials EXCEPT ![by] = @ - 1]
        /\ cur' = IF lang = "js" THEN n + 1 ELSE cur
    BY DEF DialToken, Taken
  <1>2. Dialing \in Nat /\ timers \in Nat /\ Dialing' = Dialing - 1 /\ Dialing > 0
    <2>1. /\ dials["connect"] \in Nat /\ dials["timer"] \in Nat /\ Dialing \in Nat /\ timers \in Nat /\ Dialing' = Dialing - 1
      BY <1>1, DialCounts
    <2>2. dials["connect"] > 0 \/ dials["timer"] > 0
      BY <1>1 DEF Causes
    <2>3. Dialing > 0
      BY <2>1, <2>2 DEF Dialing
    <2>. QED  BY <2>1, <2>3
  <1>3. ~closed /\ \A l \in Live : links[l].up = "lost"
    BY <1>2 DEF Tidy
  <1>4. /\ n \in Nat /\ Live = 1 .. n /\ DOMAIN links' = 1 .. (n + 1) /\ links'[n + 1].up = "connecting"
        /\ \A l \in 1 .. n : links'[l] = links[l]
    <2>1. links \in Seq(LinkRow)
      BY DEF SocketTypes
    <2>2. \A r : LET L == Append(links, r) IN DOMAIN L = 1 .. (n + 1) /\ L[n + 1] = r /\ \A l \in 1 .. n : L[l] = links[l]
      BY <2>1
    <2>3. DOMAIN links' = 1 .. (n + 1) /\ links'[n + 1].up = "connecting" /\ \A l \in 1 .. n : links'[l] = links[l]
      BY <2>2 DEF DialToken
    <2>. QED  BY <2>1, <2>3 DEF Live
  <1>. HIDE DEF n
  <1>5. Live' = 1 .. (n + 1) /\ \A l \in 1 .. (n + 1) : l = n + 1 \/ l \in 1 .. n
    BY <1>4 DEF Live
  <1>. HIDE DEF Dialing
  <1>6. Dialing' = 0 /\ timers' = 0
    BY <1>1, <1>2 DEF Tidy
  <1>7. \A l \in Live' : links'[l].up # "lost" => l = n + 1
    BY <1>3, <1>4, <1>5
  <1>8. \A l \in Live' : links'[l].up = "open" \/ (lang' = "js" /\ links'[l].up = "connecting") => cur' = l
    BY <1>1, <1>4, <1>7
  <1>9. Dialing' + timers' <= 1 /\ ~closed'
    BY <1>1, <1>3, <1>6
  <1>. HIDE DEF Live
  <1>. QED  BY <1>6, <1>7, <1>8, <1>9 DEF Tidy

LEMMA OpensTidy == ASSUME SocketTypes, Tidy, NEW l \in Live, DialOpens(l) PROVE Tidy'
  <1>1. links[l].up = "connecting" /\ cur' = (IF lang = "js" THEN cur ELSE l) /\ UNCHANGED <<lang, closed, dials, timers>>
    BY DEF DialOpens
  <1>2. DOMAIN links' = Live /\ links'[l].up = "open" /\ \A m \in Live : m # l => links'[m] = links[m]
    <2>1. PICK refused \in SUBSET links[l].asked :
            links' = [links EXCEPT ![l] = [links[l] EXCEPT !.up = "open", !.sub = links[l].asked \ refused, !.refused = refused,
                                                           !.out = <<Ack(l, links[l].asked \ refused, refused)>>]]
      BY DEF DialOpens
    <2>2. links \in Seq(LinkRow) /\ links[l] \in LinkRow /\ l \in DOMAIN links /\ Live = DOMAIN links
      BY LinkIs DEF SocketTypes, Live
    <2>3. \A s, r, o : [links[l] EXCEPT !.up = "open", !.sub = s, !.refused = r, !.out = o].up = "open"
      BY <2>2 DEF LinkRow
    <2>4. \A r : LET L == [links EXCEPT ![l] = r] IN DOMAIN L = Live /\ L[l] = r /\ \A m \in Live : m # l => L[m] = links[m]
      BY <2>2
    <2>. QED  BY <2>1, <2>3, <2>4
  <1>3. Dialing' = Dialing /\ Live' = Live
    BY <1>1, <1>2 DEF Dialing, Live
  <1>4. Dialing = 0 /\ timers = 0 /\ ~closed /\ (lang = "js" => cur = l) /\ \A m \in Live : m # l => links[m].up = "lost"
    BY <1>1 DEF Tidy
  <1>. HIDE DEF Live, Dialing
  <1>5. \A m \in Live : links'[m].up # "lost" => m = l
    BY <1>2, <1>4
  <1>6. cur' = l
    BY <1>1, <1>4
  <1>7. Dialing' + timers' <= 1 /\ Dialing' = 0 /\ timers' = 0 /\ ~closed'
    BY <1>1, <1>3, <1>4
  <1>. QED  BY <1>3, <1>5, <1>6, <1>7 DEF Tidy

-----------------------------------------------------------------------------
(* The publishes of a link *)

Answers ==
  lang # "go" =>
    /\ pendingPubs # <<>> => \E l \in Live : links[l].up \in {"open", "broken"} /\ (lang # "js" => cur = l)
    /\ \A l \in Live : links[l].up = "open" => Matched(Flow(links[l]), pendingPubs)

\* Where no publish waits and no link is open.
LEMMA NoneWaits == ASSUME pendingPubs' = <<>>, \A l \in DOMAIN links' : links'[l].up # "open" PROVE Answers'
  <1>1. \A l \in Live' : links'[l].up # "open"
    BY DEF Live
  <1>. HIDE DEF Live, Matched, Flow
  <1>. QED  BY <1>1 DEF Answers

LEMMA GoAnswers == ASSUME lang = "go", UNCHANGED lang PROVE Answers'
  BY DEF Answers

\* The links in use go on as they are.
LEMMA AnswersRest ==
    ASSUME Answers, UNCHANGED <<lang, cur, pendingPubs>>, DOMAIN links' = Live,
           \A l \in Live : /\ links'[l].up = "open" => links[l].up = "open" /\ links'[l].in = links[l].in /\ links'[l].out = links[l].out
                           /\ links[l].up \in {"open", "broken"} => links'[l].up \in {"open", "broken"}
    PROVE  Answers'
  <1>1. Live' = Live
    BY DEF Live
  <1>2. ASSUME lang # "go", NEW l \in Live, links'[l].up = "open" PROVE Matched(Flow(links'[l]), pendingPubs)
    <2>1. Matched(Flow(links[l]), pendingPubs)
      BY <1>2 DEF Answers
    <2>2. Flow(links'[l]) = Flow(links[l])
      BY <1>2 DEF Flow
    <2>. QED  BY <2>1, <2>2
  <1>3. ASSUME lang # "go", pendingPubs # <<>> PROVE \E l \in Live : links'[l].up \in {"open", "broken"} /\ (lang # "js" => cur = l)
    BY <1>3 DEF Answers
  <1>. HIDE DEF Live, Matched, Flow
  <1>. QED  BY <1>1, <1>2, <1>3 DEF Answers

\* While a dial or a timer is under way, or a link opens, no publish waits.
LEMMA NoneYet ==
    ASSUME Answers, lang # "go", \A l \in Live : links[l].up \notin {"open", "broken"}
    PROVE  pendingPubs = <<>>
  BY DEF Answers

LEMMA TokenAnswers == ASSUME SocketTypes, Tidy, Answers, NEW by \in Causes, DialToken(by) PROVE Answers'
  <1>. DEFINE n == Len(links)
  <1>1. UNCHANGED <<lang, pendingPubs>> /\ dials[by] > 0
    BY DEF DialToken, Taken
  <1>2. dials["connect"] > 0 \/ dials["timer"] > 0
    BY <1>1 DEF Causes
  <1>3. Dialing > 0
    <2>1. dials["connect"] \in Nat /\ dials["timer"] \in Nat
      BY DialCounts
    <2>. QED  BY <1>2, <2>1 DEF Dialing
  <1>4. \A l \in Live : links[l].up = "lost"
    BY <1>3 DEF Tidy
  <1>5. /\ n \in Nat /\ Live = 1 .. n /\ DOMAIN links' = 1 .. (n + 1) /\ links'[n + 1].up = "connecting"
        /\ \A l \in 1 .. n : links'[l] = links[l]
    <2>1. links \in Seq(LinkRow)
      BY DEF SocketTypes
    <2>2. \A r : LET L == Append(links, r) IN DOMAIN L = 1 .. (n + 1) /\ L[n + 1] = r /\ \A l \in 1 .. n : L[l] = links[l]
      BY <2>1
    <2>3. DOMAIN links' = 1 .. (n + 1) /\ links'[n + 1].up = "connecting" /\ \A l \in 1 .. n : links'[l] = links[l]
      BY <2>2 DEF DialToken
    <2>. QED  BY <2>1, <2>3 DEF Live
  <1>. HIDE DEF n
  <1>6. \A l \in DOMAIN links' : links'[l].up # "open"
    <2>1. \A l \in 1 .. (n + 1) : l = n + 1 \/ l \in 1 .. n
      BY <1>5
    <2>. QED  BY <2>1, <1>4, <1>5
  <1>7. lang # "go" => pendingPubs' = <<>>
    BY <1>1, <1>4, NoneYet
  <1>. QED  BY <1>1, <1>6, <1>7, NoneWaits, GoAnswers

LEMMA NoTokenAnswers == ASSUME SocketTypes, Tidy, Answers, NEW by \in Causes, DialNoToken(by) PROVE Answers'
  <1>1. UNCHANGED <<lang, links>> /\ dials[by] > 0 /\ DialFailed(by)
    BY DEF DialNoToken, Taken
  <1>2. dials["connect"] > 0 \/ dials["timer"] > 0
    BY <1>1 DEF Causes
  <1>3. Dialing > 0
    <2>1. dials["connect"] \in Nat /\ dials["timer"] \in Nat
      BY DialCounts
    <2>. QED  BY <1>2, <2>1 DEF Dialing
  <1>4. \A l \in Live : links[l].up = "lost"
    BY <1>3 DEF Tidy
  <1>5. lang # "go" => pendingPubs = <<>>
    BY <1>4, NoneYet
  <1>6. lang # "go" => pendingPubs' = <<>>
    BY <1>1, <1>5, FailedTypes
  <1>7. \A l \in DOMAIN links' : links'[l].up # "open"
    BY <1>1, <1>4 DEF Live
  <1>. QED  BY <1>1, <1>6, <1>7, NoneWaits, GoAnswers

\* The link that was not lost is.
LEMMA LostAnswers ==
    ASSUME Tidy, NEW l \in Live, links[l].up # "lost", DOMAIN links' = Live, links'[l].up = "lost",
           \A m \in Live : m # l => links'[m] = links[m], UNCHANGED lang, lang # "go" => pendingPubs' = <<>>
    PROVE  Answers'
  <1>1. \A m \in DOMAIN links' : links'[m].up # "open"
    BY DEF Tidy
  <1>. QED  BY <1>1, NoneWaits, GoAnswers

LEMMA RefusedAnswers == ASSUME SocketTypes, Tidy, Answers, NEW l \in Live, DialRefused(l) PROVE Answers'
  <1>1. /\ links[l].up = "connecting" /\ links' = [links EXCEPT ![l].up = "lost"] /\ UNCHANGED lang
        /\ IF lang = "js" THEN FailPending ELSE DialFailed(links[l].by)
    BY DEF DialRefused
  <1>2. links \in Seq(LinkRow) /\ links[l] \in LinkRow /\ l \in DOMAIN links /\ Live = DOMAIN links
    BY LinkIs DEF SocketTypes, Live
  <1>3. [links[l] EXCEPT !.up = "lost"] \in LinkRow /\ [links[l] EXCEPT !.up = "lost"].up = "lost" /\ links[l].by \in Causes
    BY <1>2 DEF LinkRow
  <1>4. links' = [links EXCEPT ![l] = [links[l] EXCEPT !.up = "lost"]]
    BY <1>1
  <1>5. DOMAIN links' = Live /\ links'[l].up = "lost" /\ \A m \in Live : m # l => links'[m] = links[m]
    BY <1>2, <1>3, <1>4, LinkPut
  <1>6. \A m \in Live : links[m].up \notin {"open", "broken"}
    BY <1>1 DEF Tidy
  <1>7. lang # "go" => pendingPubs = <<>>
    BY <1>6, NoneYet
  <1>8. lang # "go" => pendingPubs' = <<>>
    <2>1. FailPending => pendingPubs' = <<>>
      BY DEF FailPending
    <2>2. lang # "js" => pendingPubs' = pendingPubs \/ pendingPubs' = <<>>
      BY <1>1, <1>3, FailedTypes
    <2>. QED  BY <2>1, <2>2, <1>1, <1>7
  <1>. QED  BY <1>1, <1>5, <1>8, LostAnswers

LEMMA DisconnectAnswers == ASSUME SocketTypes, Tidy, Answers, NEW l \in Live, OnDisconnect(l) PROVE Answers'
  <1>1. /\ links[l].up = "broken" /\ links' = [links EXCEPT ![l].up = "lost"] /\ UNCHANGED lang
        /\ IF lang # "js" /\ cur # l THEN UNCHANGED pendingPubs ELSE FailPending
    BY DEF OnDisconnect
  <1>2. links \in Seq(LinkRow) /\ links[l] \in LinkRow /\ l \in DOMAIN links /\ Live = DOMAIN links
    BY LinkIs DEF SocketTypes, Live
  <1>3. [links[l] EXCEPT !.up = "lost"] \in LinkRow /\ [links[l] EXCEPT !.up = "lost"].up = "lost"
    BY <1>2 DEF LinkRow
  <1>4. links' = [links EXCEPT ![l] = [links[l] EXCEPT !.up = "lost"]]
    BY <1>1
  <1>5. DOMAIN links' = Live /\ links'[l].up = "lost" /\ \A m \in Live : m # l => links'[m] = links[m]
    BY <1>2, <1>3, <1>4, LinkPut
  <1>6. lang # "go" /\ lang # "js" /\ cur # l => pendingPubs = <<>>
    <2>. SUFFICES ASSUME lang # "go", lang # "js", pendingPubs # <<>> PROVE cur = l
      OBVIOUS
    <2>1. PICK m \in Live : links[m].up \in {"open", "broken"} /\ cur = m
      BY DEF Answers
    <2>2. links[m].up # "lost" /\ links[l].up # "lost"
      BY <2>1, <1>1
    <2>. QED  BY <2>1, <2>2 DEF Tidy
  <1>7. lang # "go" => pendingPubs' = <<>>
    BY <1>1, <1>6 DEF FailPending
  <1>. QED  BY <1>1, <1>5, <1>7, LostAnswers

LEMMA BreakAnswers == ASSUME SocketTypes, Answers, NEW l \in Live, LinkLost(l) PROVE Answers'
  <1>1. links[l].up = "open" /\ links' = [links EXCEPT ![l] = Cut(links[l])] /\ UNCHANGED <<lang, cur, pendingPubs>>
    BY DEF LinkLost
  <1>2. links \in Seq(LinkRow) /\ links[l] \in LinkRow /\ l \in DOMAIN links /\ Live = DOMAIN links
    BY LinkIs DEF SocketTypes, Live
  <1>3. Cut(links[l]) \in LinkRow /\ Cut(links[l]).up = "broken"
    BY <1>2, CutLink
  <1>4. DOMAIN links' = Live /\ links'[l].up = "broken" /\ \A m \in Live : m # l => links'[m] = links[m]
    BY <1>1, <1>2, <1>3, LinkPut
  <1>5. \A m \in Live : /\ links'[m].up = "open" => links[m].up = "open" /\ links'[m].in = links[m].in /\ links'[m].out = links[m].out
                        /\ links[m].up \in {"open", "broken"} => links'[m].up \in {"open", "broken"}
    BY <1>1, <1>4
  <1>. QED  BY <1>1, <1>4, <1>5, AnswersRest

LEMMA CloseAnswers == ASSUME SocketTypes, Tidy, Close, Polite PROVE Answers'
  <1>1. closed' = TRUE /\ FailPending
    BY DEF Close
  <1>2. Tidy'
    BY CloseTidy
  <1>3. \A l \in DOMAIN links' : links'[l].up # "open"
    BY <1>1, <1>2 DEF Tidy, Live
  <1>. QED  BY <1>1, <1>3, NoneWaits DEF FailPending

\* A link's publishes, when it is the one that is not lost.
LEMMA OneAnswers ==
    ASSUME Tidy, NEW l \in Live, links[l].up # "lost", DOMAIN links' = Live, links'[l].up \in {"open", "broken"}, UNCHANGED lang,
           \A m \in Live : m # l => links'[m].up = links[m].up, lang # "js" => cur' = l,
           lang # "go" /\ links'[l].up = "open" => Matched(Flow(links'[l]), pendingPubs')
    PROVE  Answers'
  <1>1. Live' = Live
    BY DEF Live
  <1>2. \A m \in Live : links'[m].up = "open" => m = l
    BY DEF Tidy
  <1>. HIDE DEF Live, Matched, Flow
  <1>. QED  BY <1>1, <1>2 DEF Answers

LEMMA OpensAnswers == ASSUME SocketTypes, Tidy, Answers, SocketInv, NEW l \in Live, DialOpens(l) PROVE Answers'
  <1>1. links[l].up = "connecting" /\ cur' = (IF lang = "js" THEN cur ELSE l) /\ UNCHANGED <<lang, pendingPubs>>
    BY DEF DialOpens
  <1>2. PICK refused \in SUBSET links[l].asked :
          links' = [links EXCEPT ![l] = [links[l] EXCEPT !.up = "open", !.sub = links[l].asked \ refused, !.refused = refused,
                                                         !.out = <<Ack(l, links[l].asked \ refused, refused)>>]]
    BY DEF DialOpens
  <1>. DEFINE a == Ack(l, links[l].asked \ refused, refused)
  <1>3. links \in Seq(LinkRow) /\ links[l] \in LinkRow /\ l \in DOMAIN links /\ Live = DOMAIN links /\ links[l].in = <<>>
    BY <1>1, LinkIs DEF SocketTypes, Live, SocketInv, Opening
  <1>4. \A s, r, o : /\ [links[l] EXCEPT !.up = "open", !.sub = s, !.refused = r, !.out = o].up = "open"
                     /\ [links[l] EXCEPT !.up = "open", !.sub = s, !.refused = r, !.out = o].in = links[l].in
                     /\ [links[l] EXCEPT !.up = "open", !.sub = s, !.refused = r, !.out = o].out = o
    BY <1>3 DEF LinkRow
  <1>5. \A r : LET L == [links EXCEPT ![l] = r] IN DOMAIN L = Live /\ L[l] = r /\ \A m \in Live : m # l => L[m] = links[m]
    BY <1>3
  <1>6. /\ DOMAIN links' = Live /\ links'[l].up = "open" /\ links'[l].in = <<>> /\ links'[l].out = <<a>>
        /\ \A m \in Live : m # l => links'[m] = links[m]
    <2>. DEFINE r == [links[l] EXCEPT !.up = "open", !.sub = links[l].asked \ refused, !.refused = refused, !.out = <<a>>]
    <2>1. r.up = "open" /\ r.in = <<>> /\ r.out = <<a>> /\ links' = [links EXCEPT ![l] = r]
      BY <1>2, <1>3, <1>4
    <2>. HIDE DEF r, a
    <2>2. DOMAIN links' = Live /\ links'[l] = r /\ \A m \in Live : m # l => links'[m] = links[m]
      BY <2>1, <1>5
    <2>. QED  BY <2>1, <2>2
  <1>7. a.type = "subscribed"
    BY DEF Ack
  <1>. HIDE DEF a
  <1>8. \A i \in DOMAIN Flow(links'[l]) : ~Owes(Flow(links'[l])[i])
    <2>. DEFINE F == Flow(links'[l])
    <2>1. DOMAIN F = {1} /\ F[1] = a
      BY <1>6 DEF Flow
    <2>. HIDE DEF F
    <2>2. ~Owes(a)
      BY <1>7 DEF Owes, AckTypes
    <2>3. \A i \in DOMAIN F : ~Owes(F[i])
      BY <2>1, <2>2
    <2>. QED  BY <2>3 DEF F
  <1>9. lang # "go" => pendingPubs = <<>>
    <2>1. \A m \in Live : links[m].up \notin {"open", "broken"}
      BY <1>1 DEF Tidy
    <2>. QED  BY <2>1, NoneYet
  <1>10. lang # "go" => Matched(Flow(links'[l]), pendingPubs')
    <2>1. lang # "go" => pendingPubs' = <<>> /\ DOMAIN pendingPubs' = {}
      BY <1>1, <1>9
    <2>. HIDE DEF Flow
    <2>. QED  BY <2>1, <1>8 DEF Matched
  <1>. QED  BY <1>1, <1>6, <1>10, OneAnswers

LEMMA ReadAnswers == ASSUME SocketTypes, Tidy, Answers, NEW l \in Live, ServerReads(l) PROVE Answers'
  <1>1. links[l].up = "open" /\ links[l].in # <<>> /\ UNCHANGED <<lang, cur, pendingPubs>>
    BY ServerSays
  <1>2. PICK sub \in SUBSET Topics : \E refused \in SUBSET Topics, frame \in Replies :
                /\ Answer(l, sub, refused, frame)
                /\ frame.type = "subscribed" \/ (Head(links[l].in).type = "publish" /\ frame.call = Head(links[l].in).call)
                /\ Head(links[l].in).type = "publish" => frame.type \in AckTypes
    BY ServerSays
  <1>3. PICK refused \in SUBSET Topics : \E frame \in Replies :
                /\ Answer(l, sub, refused, frame)
                /\ frame.type = "subscribed" \/ (Head(links[l].in).type = "publish" /\ frame.call = Head(links[l].in).call)
                /\ Head(links[l].in).type = "publish" => frame.type \in AckTypes
    BY <1>2
  <1>4. PICK frame \in Replies :
                /\ Answer(l, sub, refused, frame)
                /\ frame.type = "subscribed" \/ (Head(links[l].in).type = "publish" /\ frame.call = Head(links[l].in).call)
                /\ Head(links[l].in).type = "publish" => frame.type \in AckTypes
    BY <1>3
  <1>. DEFINE r == Answered(links[l], sub, refused, frame)
  <1>5. links \in Seq(LinkRow) /\ links[l] \in LinkRow /\ l \in DOMAIN links /\ Live = DOMAIN links
    BY LinkIs DEF SocketTypes, Live
  <1>6. r \in LinkRow /\ r.in = Tail(links[l].in) /\ r.out = Append(links[l].out, frame) /\ r.up = "open"
    <2>1. \A q \in LinkRow : q.in # <<>> => AnsweredAs(q, sub, refused, frame, Answered(q, sub, refused, frame))
      BY AnsweredRow
    <2>2. AnsweredAs(links[l], sub, refused, frame, r)
      BY <2>1, <1>1, <1>5
    <2>. HIDE DEF r
    <2>. QED  BY <2>2, <1>1 DEF AnsweredAs
  <1>7. links' = [links EXCEPT ![l] = r]
    BY <1>4 DEF Answer
  <1>. HIDE DEF r
  <1>8. DOMAIN links' = Live /\ links'[l] = r /\ \A m \in Live : m # l => links'[m] = links[m]
    BY <1>5, <1>6, <1>7, LinkPut
  <1>9. lang # "go" => Matched(Flow(r), pendingPubs)
    <2>. SUFFICES ASSUME lang # "go" PROVE Matched(Flow(r), pendingPubs)
      OBVIOUS
    <2>1. Matched(Flow(links[l]), pendingPubs)
      BY <1>1 DEF Answers
    <2>. QED  BY <2>1, <1>1, <1>4, <1>5, <1>6, FlowAnswered
  <1>10. lang # "js" => cur' = l
    BY <1>1 DEF Tidy
  <1>. QED  BY <1>1, <1>6, <1>8, <1>9, <1>10, OneAnswers

\* The client hears the oldest frame: an answer is the oldest publish's.
LEMMA HandleAnswers ==
    ASSUME SocketTypes, Tidy, Answers, NEW l \in Live, HandleFrame(l)
    PROVE  /\ Answers'
           /\ lang # "go" /\ Head(links[l].out).type # "subscribed" => pendingPubs # <<>> /\ Head(links[l].out).call = Head(pendingPubs)
  <1>. DEFINE f == Head(links[l].out)  r == [links[l] EXCEPT !.out = Tail(@)]  P == pendingPubs  n == Len(links[l].out) + Len(links[l].in)
  <1>1. /\ links[l].up = "open" /\ links[l].out # <<>> /\ links' = [links EXCEPT ![l].out = Tail(@)]
        /\ UNCHANGED <<lang, cur>> /\ Shortens(P, P') /\ (P' = P <=> P = <<>> \/ f.type = "subscribed")
    BY HandleSays
  <1>2. links \in Seq(LinkRow) /\ links[l] \in LinkRow /\ l \in DOMAIN links /\ Live = DOMAIN links /\ P \in Seq(Nat)
    BY LinkIs DEF SocketTypes, Live
  <1>3. links[l].out \in Seq(Replies)
    BY <1>2 DEF LinkRow
  <1>4. f \in Replies /\ Tail(links[l].out) \in Seq(Replies)
    BY <1>1, <1>3
  <1>5. Owes(f) <=> f.type # "subscribed"
    BY <1>4 DEF Owes, Replies, AckTypes
  <1>. HIDE DEF f
  <1>6. r \in LinkRow /\ r.in = links[l].in /\ r.out = Tail(links[l].out) /\ r.up = "open"
    BY <1>1, <1>2, <1>4 DEF LinkRow
  <1>7. links' = [links EXCEPT ![l] = r]
    BY <1>1
  <1>. HIDE DEF r
  <1>8. DOMAIN links' = Live /\ links'[l] = r /\ \A m \in Live : m # l => links'[m] = links[m]
    BY <1>2, <1>6, <1>7, LinkPut
  <1>9. /\ n > 0 /\ Flow(links[l])[1] = f /\ DOMAIN Flow(r) = 1 .. (n - 1)
        /\ \A i \in 1 .. (n - 1) : Flow(r)[i] = Flow(links[l])[i + 1]
    BY <1>1, <1>2, <1>6, FlowTold DEF f
  <1>10. n \in Nat /\ DOMAIN Flow(links[l]) = 1 .. n /\ \A i \in DOMAIN Flow(links[l]) : Owes(Flow(links[l])[i]) => Flow(links[l])[i].call \in Nat
    BY <1>2, FlowIs
  <1>. HIDE DEF n
  <1>11. ASSUME lang # "go"
         PROVE  /\ Owes(f) => P # <<>> /\ f.call = Head(P) /\ Matched(Flow(r), Tail(P))
                /\ ~Owes(f) => Matched(Flow(r), P)
    <2>1. Matched(Flow(links[l]), P)
      BY <1>1, <1>11 DEF Answers
    <2>2. /\ Owes(Flow(links[l])[1]) => P # <<>> /\ Flow(links[l])[1].call = Head(P) /\ Matched(Flow(r), Tail(P))
          /\ ~Owes(Flow(links[l])[1]) => Matched(Flow(r), P)
      <3>. DEFINE F == Flow(links[l])  G == Flow(r)
      <3>. HIDE DEF F, G
      <3>1. /\ n \in Nat /\ DOMAIN F = 1 .. n /\ n > 0 /\ DOMAIN G = 1 .. (n - 1) /\ \A i \in 1 .. (n - 1) : G[i] = F[i + 1]
            /\ P \in Seq(Nat) /\ Matched(F, P) /\ \A i \in DOMAIN F : Owes(F[i]) => F[i].call \in Nat
        BY <1>2, <1>9, <1>10, <2>1 DEF F, G
      <3>2. /\ Owes(F[1]) => P # <<>> /\ F[1].call = Head(P) /\ Matched(G, Tail(P))
            /\ ~Owes(F[1]) => Matched(G, P)
        BY <3>1, FlowHeard
      <3>. QED  BY <3>2 DEF F, G
    <2>. QED  BY <2>2, <1>9
  <1>12. ASSUME lang # "go" PROVE Matched(Flow(r), P')
    <2>1. CASE Owes(f)
      <3>1. P # <<>> /\ Matched(Flow(r), Tail(P))
        BY <1>11, <1>12, <2>1
      <3>2. P' = Tail(P)
        BY <3>1, <2>1, <1>1, <1>5 DEF Shortens
      <3>. QED  BY <3>1, <3>2
    <2>2. CASE ~Owes(f)
      <3>1. P' = P
        BY <2>2, <1>1, <1>5
      <3>. QED  BY <3>1, <2>2, <1>11, <1>12
    <2>. QED  BY <2>1, <2>2
  <1>13. lang # "js" => cur' = l
    BY <1>1 DEF Tidy
  <1>14. Answers'
    <2>. HIDE DEF Flow
    <2>. QED  BY <1>1, <1>6, <1>8, <1>12, <1>13, OneAnswers
  <1>. QED  BY <1>5, <1>11, <1>14 DEF f

\* A call's frame goes last, and if it is a publish the call waits last.
LEMMA CalledAnswers ==
    ASSUME SocketInv, Tidy, Answers, NEW op \in Mentions \cup {"publish"}, NEW chs \in SUBSET Topics, NEW at \in {"waiting", "done"},
           Called(op, chs, at), UNCHANGED <<lang, state, cur>>,
           \/ op # "publish" /\ UNCHANGED pendingPubs
           \/ op = "publish" /\ IsOpen /\ pendingPubs' = Append(pendingPubs, Len(calls) + 1)
    PROVE  Answers'
  <1>. DEFINE k == Len(calls) + 1  f == Frame(op, chs, k)  P == pendingPubs  L == links'
  <1>1. SocketTypes
    BY DEF SocketInv
  <1>2. P \in Seq(Nat) /\ k \in Nat /\ \A i \in DOMAIN P : P[i] < k
    <2>1. P \in Seq(Nat) /\ calls \in Seq(CallRow) /\ \A i \in DOMAIN P : P[i] \in DOMAIN calls
      BY <1>1 DEF SocketTypes
    <2>2. Len(calls) \in Nat /\ DOMAIN calls = 1 .. Len(calls)
      BY <2>1
    <2>. QED  BY <2>1, <2>2
  <1>3. L = Told(op, chs) /\ DOMAIN L = Live
    BY CalledLinks
  <1>4. f \in Requests /\ \A l \in Live : ToldRow(op, chs, l, L[l])
    BY <1>1, <1>3, ToldLinks
  <1>5. f.type = op /\ f.call = k
    BY DEF Frame
  <1>6. Owes(f) <=> op = "publish"
    BY <1>5 DEF Owes, AckTypes, Mentions
  <1>7. \A l \in Live : /\ L[l].up = links[l].up /\ L[l].out = links[l].out
                        /\ L[l].in = IF links[l].up = "open" /\ l = cur /\ lang # "go" /\ IsOpen THEN Append(links[l].in, f) ELSE links[l].in
    BY <1>4 DEF ToldRow
  <1>. HIDE DEF f, L
  <1>8. CASE op # "publish" /\ ~ \E l \in Live : links[l].up = "open" /\ l = cur /\ lang # "go" /\ IsOpen
    <2>1. \A l \in Live : /\ L[l].up = "open" => links[l].up = "open" /\ L[l].in = links[l].in /\ L[l].out = links[l].out
                          /\ links[l].up \in {"open", "broken"} => L[l].up \in {"open", "broken"}
      BY <1>7, <1>8
    <2>. HIDE DEF IsOpen, Live
    <2>. QED  BY <2>1, <1>3, <1>8, AnswersRest DEF L
  <1>9. ASSUME NEW l \in Live, links[l].up \in {"open", "broken"}, l = cur, lang # "go", IsOpen PROVE Answers'
    <2>1. CASE links[l].up = "open"
      <3>1. links[l] \in LinkRow /\ Matched(Flow(links[l]), P)
        BY <1>1, <1>9, <2>1, LinkIs DEF Answers
      <3>2. L[l].in = Append(links[l].in, f) /\ L[l].out = links[l].out /\ L[l].up = "open"
        BY <1>7, <1>9, <2>1
      <3>. DEFINE n == Len(links[l].out) + Len(links[l].in)  F == Flow(links[l])  G == Flow(L[l])
      <3>3. DOMAIN G = 1 .. (n + 1) /\ G[n + 1] = f /\ \A i \in 1 .. n : G[i] = F[i]
        BY <3>1, <3>2, <1>4, FlowWritten
      <3>4. n \in Nat /\ DOMAIN F = 1 .. n /\ Matched(F, P)
        BY <3>1, FlowIs
      <3>. HIDE DEF n, F, G
      <3>5. \/ P' = P /\ ~Owes(G[n + 1])
            \/ P' = Append(P, k) /\ Owes(G[n + 1]) /\ G[n + 1].call = k
        BY <3>3, <1>5, <1>6
      <3>. HIDE DEF k
      <3>6. n \in Nat /\ DOMAIN F = 1 .. n /\ DOMAIN G = 1 .. (n + 1) /\ \A i \in 1 .. n : G[i] = F[i]
        BY <3>3, <3>4
      <3>7. P \in Seq(Nat) /\ Matched(F, P) /\ k \in Nat /\ \A i \in DOMAIN P : P[i] < k
        BY <3>4, <1>2
      <3>8. Matched(G, P')
        BY <3>5, <3>6, <3>7, FlowGrows
      <3>. QED  BY <3>2, <3>8, <1>3, <1>7, <1>9, OneAnswers DEF G, L
    <2>2. CASE links[l].up = "broken"
      BY <2>2, <1>3, <1>7, <1>9, OneAnswers DEF L
    <2>. QED  BY <2>1, <2>2, <1>9
  <1>10. IsOpen /\ lang # "go" => cur \in Live /\ links[cur].up \in {"open", "broken"}
    <2>1. links \in Seq(LinkRow) /\ cur \in 0 .. Len(links)
      BY <1>1 DEF SocketTypes
    <2>2. cur # 0 => cur \in Live
      BY <2>1 DEF Live
    <2>. QED  BY <2>2 DEF SocketInv, IsOpen
  <1>11. CASE op = "publish"
    BY <1>9, <1>10, <1>11, GoAnswers
  <1>. QED  BY <1>8, <1>9, <1>11, GoAnswers

\* The links and the publishes of an application that waits for its dials.
AnswerInv == SocketInv /\ Tidy /\ Answers

\* A step that keeps the links and the publishes as they are.
LEMMA SameAnswers == ASSUME Answers, UNCHANGED <<lang, cur, links, pendingPubs>> PROVE Answers'
  <1>1. DOMAIN links' = Live
    BY DEF Live
  <1>2. \A l \in Live : /\ links'[l].up = "open" => links[l].up = "open" /\ links'[l].in = links[l].in /\ links'[l].out = links[l].out
                        /\ links[l].up \in {"open", "broken"} => links'[l].up \in {"open", "broken"}
    OBVIOUS
  <1>. HIDE DEF Live
  <1>. QED  BY <1>1, <1>2, AnswersRest

LEMMA AppAnswers == ASSUME AnswerInv, AppActs, Polite PROVE Tidy' /\ Answers'
  <1>1. SocketInv /\ SocketTypes /\ Tidy /\ Answers
    BY DEF AnswerInv, SocketInv
  <1>2. CASE Connect
    <2>1. UNCHANGED <<lang, cur, links, pendingPubs>>
      BY <1>2 DEF Connect
    <2>. QED  BY <2>1, <1>1, <1>2, ConnectTidy, SameAnswers
  <1>3. CASE Close
    BY <1>1, <1>3, CloseTidy, CloseAnswers
  <1>. DEFINE at == IF IsOpen THEN "waiting" ELSE "done"
  <1>4. at \in {"waiting", "done"} /\ "subscribe" \in Mentions /\ "unsubscribe" \in Mentions
    BY DEF Mentions
  <1>. HIDE DEF at
  <1>5. ASSUME NEW op \in Mentions \cup {"publish"}, NEW chs \in SUBSET Topics, NEW how \in {"waiting", "done"}, Called(op, chs, how),
               UNCHANGED <<lang, state, cur, closed, dials, timers>>,
               \/ op # "publish" /\ UNCHANGED pendingPubs
               \/ op = "publish" /\ IsOpen /\ pendingPubs' = Append(pendingPubs, Len(calls) + 1)
        PROVE  Tidy' /\ Answers'
    <2>1. DOMAIN links' = Live /\ \A l \in Live : links'[l].up = links[l].up
      BY <1>1, <1>5, CalledLinks
    <2>2. Tidy'
      BY <2>1, <1>1, <1>5, TidyRest
    <2>3. Answers'
      BY <1>1, <1>5, CalledAnswers
    <2>. QED  BY <2>2, <2>3
  <1>6. ASSUME NEW ch \in Topics, Subscribe({ch}) PROVE Tidy' /\ Answers'
    <2>1. /\ Called("subscribe", {ch}, at) /\ UNCHANGED <<lang, state, cur, closed, dials, timers>> /\ UNCHANGED pendingPubs
      BY <1>6 DEF Subscribe, at
    <2>2. {ch} \in SUBSET Topics /\ "subscribe" \in Mentions \cup {"publish"}
      BY <1>4
    <2>. QED  BY <1>4, <1>5, <2>1, <2>2
  <1>7. ASSUME NEW ch \in Topics, Unsubscribe({ch}) PROVE Tidy' /\ Answers'
    <2>1. /\ Called("unsubscribe", {ch}, "done") /\ UNCHANGED <<lang, state, cur, closed, dials, timers>> /\ UNCHANGED pendingPubs
      BY <1>7 DEF Unsubscribe
    <2>2. {ch} \in SUBSET Topics /\ "unsubscribe" \in Mentions \cup {"publish"}
      BY <1>4
    <2>. QED  BY <1>5, <2>1, <2>2
  <1>8. CASE Publish
    <2>1. /\ Called("publish", {}, "waiting") /\ UNCHANGED <<lang, state, cur, closed, dials, timers>>
          /\ IsOpen /\ pendingPubs' = Append(pendingPubs, Len(calls) + 1)
      BY <1>8 DEF Publish
    <2>2. {} \in SUBSET Topics /\ "publish" \in Mentions \cup {"publish"}
      OBVIOUS
    <2>. QED  BY <1>5, <2>1, <2>2
  <1>. QED  BY <1>2, <1>3, <1>6, <1>7, <1>8 DEF AppActs

\* Steps that let the links be, but for what is on its way.
LEMMA FlowTidy ==
    ASSUME SocketTypes, Tidy, NEW l \in Live, ServerReads(l) \/ HandleFrame(l)
    PROVE  Tidy'
  <1>1. links \in Seq(LinkRow) /\ links[l] \in LinkRow /\ l \in DOMAIN links /\ Live = DOMAIN links
    BY LinkIs DEF SocketTypes, Live
  <1>2. UNCHANGED <<lang, cur, closed, dials, timers>>
    BY DEF ServerReads, HandleFrame
  <1>3. DOMAIN links' = Live /\ \A m \in Live : links'[m].up = links[m].up
    <2>1. \A r : LET L == [links EXCEPT ![l] = r] IN DOMAIN L = Live /\ L[l] = r /\ \A m \in Live : m # l => L[m] = links[m]
      BY <1>1
    <2>2. \A s, q, f : Answered(links[l], s, q, f).up = links[l].up
      BY <1>1 DEF Answered, LinkRow
    <2>3. CASE ServerReads(l)
      <3>1. \E s, q, f : Answer(l, s, q, f)
        BY <2>3, ServerSays
      <3>2. PICK s, q, f : Answer(l, s, q, f)
        BY <3>1
      <3>. DEFINE r == Answered(links[l], s, q, f)
      <3>3. links' = [links EXCEPT ![l] = r] /\ r.up = links[l].up
        BY <2>2, <3>2 DEF Answer
      <3>. HIDE DEF r
      <3>4. DOMAIN links' = Live /\ links'[l] = r /\ \A m \in Live : m # l => links'[m] = links[m]
        BY <2>1, <3>3
      <3>. QED  BY <3>3, <3>4
    <2>4. CASE HandleFrame(l)
      <3>. DEFINE r == [links[l] EXCEPT !.out = Tail(@)]
      <3>1. links' = [links EXCEPT ![l] = r] /\ r.up = links[l].up
        BY <2>4, <1>1 DEF HandleFrame, LinkRow
      <3>. HIDE DEF r
      <3>4. DOMAIN links' = Live /\ links'[l] = r /\ \A m \in Live : m # l => links'[m] = links[m]
        BY <2>1, <3>1
      <3>. QED  BY <3>1, <3>4
    <2>. QED  BY <2>3, <2>4
  <1>. QED  BY <1>2, <1>3, TidyRest

LEMMA SendAnswers == ASSUME AnswerInv, NEW k \in DOMAIN calls, SendFrame(k) PROVE Tidy' /\ Answers'
  <1>1. SocketInv /\ SocketTypes /\ Tidy
    BY DEF AnswerInv, SocketInv
  <1>2. lang = "go" /\ calls[k].on \in Live /\ UNCHANGED <<lang, cur, closed, dials, timers>>
    BY <1>1 DEF SendFrame, SocketInv
  <1>3. links \in Seq(LinkRow) /\ links[calls[k].on] \in LinkRow /\ Live = DOMAIN links
    BY <1>1, <1>2, LinkIs DEF SocketTypes, Live
  <1>4. DOMAIN links' = Live /\ \A m \in Live : links'[m].up = links[m].up
    <2>. DEFINE l == calls[k].on  q == Append(links[l].in, Frame(calls[k].op, calls[k].chs, k))
    <2>1. \A r : LET L == [links EXCEPT ![l] = r] IN DOMAIN L = Live /\ L[l] = r /\ \A m \in Live : m # l => L[m] = links[m]
      BY <1>2, <1>3
    <2>2. \A p : [links[l] EXCEPT !.in = p].up = links[l].up
      BY <1>3 DEF LinkRow
    <2>3. links' = [links EXCEPT ![l] = [links[l] EXCEPT !.in = q]] \/ links' = links
      BY DEF SendFrame
    <2>. HIDE DEF l, q
    <2>4. CASE links' = [links EXCEPT ![l] = [links[l] EXCEPT !.in = q]]
      BY <2>1, <2>2, <2>4
    <2>5. CASE links' = links
      BY <2>5, <1>3
    <2>. QED  BY <2>3, <2>4, <2>5
  <1>5. Tidy'
    BY <1>1, <1>2, <1>4, TidyRest
  <1>. QED  BY <1>2, <1>5, GoAnswers

LEMMA AnswerInit == ASSUME SocketInit PROVE AnswerInv
  <1>1. SocketInv
    BY SocketInitInv
  <1>2. Live = {} /\ dials["connect"] = 0 /\ dials["timer"] = 0 /\ timers = 0 /\ closed = FALSE /\ pendingPubs = <<>>
    BY DEF SocketInit, Live
  <1>3. Dialing = 0
    BY <1>2 DEF Dialing
  <1>4. Tidy
    <2>. HIDE DEF Dialing
    <2>. QED  BY <1>2, <1>3 DEF Tidy
  <1>5. Answers
    BY <1>2 DEF Answers
  <1>. QED  BY <1>1, <1>4, <1>5 DEF AnswerInv

LEMMA AnswerStep == ASSUME AnswerInv, [SocketNext /\ Polite]_SocketVars PROVE AnswerInv'
  <1>1. SocketInv /\ SocketTypes /\ Tidy /\ Answers
    BY DEF AnswerInv, SocketInv
  <1>2. SocketInv'
    BY <1>1, SocketStep
  <1>3. CASE UNCHANGED SocketVars
    <2>1. UNCHANGED <<lang, cur, links, pendingPubs, closed, dials, timers>> /\ DOMAIN links' = Live
      BY <1>3 DEF SocketVars, Live
    <2>2. \A m \in Live : links'[m].up = links[m].up
      BY <2>1
    <2>. QED  BY <2>1, <2>2, <1>1, <1>2, TidyRest, SameAnswers DEF AnswerInv
  <1>4. CASE AppActs /\ Polite
    BY <1>2, <1>4, AppAnswers DEF AnswerInv
  <1>5. ASSUME NEW by \in {"connect", "timer"}, DialToken(by) \/ DialNoToken(by) PROVE Tidy' /\ Answers'
    BY <1>1, <1>5, TokenTidy, TokenAnswers, NoTokenTidy, NoTokenAnswers DEF Causes
  <1>6. ASSUME NEW l \in Live, DialOpens(l) \/ DialRefused(l) \/ LinkLost(l) \/ OnDisconnect(l) PROVE Tidy' /\ Answers'
    BY <1>1, <1>6, OpensTidy, OpensAnswers, RefusedTidy, RefusedAnswers, BreakTidy, BreakAnswers, DisconnectTidy, DisconnectAnswers
  <1>7. ASSUME NEW l \in Live, ServerReads(l) \/ HandleFrame(l) PROVE Tidy' /\ Answers'
    BY <1>1, <1>7, FlowTidy, ReadAnswers, HandleAnswers
  <1>8. ASSUME NEW k \in DOMAIN calls, SendFrame(k) PROVE Tidy' /\ Answers'
    BY <1>8, SendAnswers
  <1>9. CASE TimerFires
    <2>1. UNCHANGED <<lang, cur, links, pendingPubs>>
      BY <1>9 DEF TimerFires
    <2>. QED  BY <2>1, <1>1, <1>2, <1>9, TimerTidy, SameAnswers DEF AnswerInv
  <1>10. Tidy' /\ Answers' => AnswerInv'
    BY <1>2 DEF AnswerInv
  <1>. HIDE DEF AnswerInv, Tidy, Answers, SocketInv
  <1>. QED  BY <1>3, <1>4, <1>5, <1>6, <1>7, <1>8, <1>9, <1>10 DEF SocketNext, LinkGoesOn

-----------------------------------------------------------------------------
(* A call is answered for itself *)

AnsweredStep(k) ==
  lang # "go" /\ calls[k].at = "waiting" /\ calls'[k].at = "ok" =>
     \E l \in Live :
        /\ links[l].out # <<>> /\ links'[l].out # links[l].out
        /\ LET f == Head(links[l].out)
           IN IF calls[k].op = "publish" THEN f.call = k
              ELSE calls[k].chs \subseteq f.channels \cup f.refused

\* Only a frame the client hears lets a call return well.
LEMMA NoneOk ==
    ASSUME SocketInv, SocketNext \/ UNCHANGED SocketVars, \A l \in Live : ~HandleFrame(l),
           NEW k \in DOMAIN calls, lang # "go", calls[k].at = "waiting", calls'[k].at = "ok"
    PROVE  FALSE
  <1>1. SocketTypes
    BY DEF SocketInv
  <1>2. ~UNCHANGED calls
    OBVIOUS
  <1>3. ~FailPending
    <2>. SUFFICES ASSUME FailPending PROVE FALSE
      OBVIOUS
    <2>1. calls'[k] \in {calls[k], [calls[k] EXCEPT !.at = "failed"]}
      BY DEF FailPending
    <2>2. calls[k] \in CallRow
      BY <1>1 DEF SocketTypes
    <2>3. [calls[k] EXCEPT !.at = "failed"].at = "failed"
      BY <2>2 DEF CallRow
    <2>. QED  BY <2>1, <2>3
  <1>4. ASSUME NEW op \in Mentions \cup {"publish"}, NEW chs \in SUBSET Topics, NEW at \in {"waiting", "done"}, Called(op, chs, at) PROVE FALSE
    BY <1>4, CallLast
  <1>5. ~AppActs
    <2>1. ASSUME NEW ch \in Topics, Subscribe({ch}) PROVE FALSE
      <3>. DEFINE at == IF IsOpen THEN "waiting" ELSE "done"
      <3>1. Called("subscribe", {ch}, at) /\ at \in {"waiting", "done"}
        BY <2>1 DEF Subscribe
      <3>. HIDE DEF at
      <3>2. "subscribe" \in Mentions \cup {"publish"} /\ {ch} \in SUBSET Topics
        BY DEF Mentions
      <3>. QED  BY <3>1, <3>2, <1>4
    <2>2. ASSUME NEW ch \in Topics, Unsubscribe({ch}) PROVE FALSE
      <3>1. Called("unsubscribe", {ch}, "done") /\ "unsubscribe" \in Mentions \cup {"publish"} /\ {ch} \in SUBSET Topics
        BY <2>2 DEF Unsubscribe, Mentions
      <3>. QED  BY <3>1, <1>4
    <2>3. ~Publish
      BY <1>4 DEF Publish
    <2>4. ~Connect
      BY <1>2 DEF Connect
    <2>5. ~Close
      BY <1>3 DEF Close
    <2>. QED  BY <2>1, <2>2, <2>3, <2>4, <2>5 DEF AppActs
  <1>6. \A by : DialFailed(by) => FailPending \/ UNCHANGED calls
    BY DEF DialFailed
  <1>7. ASSUME NEW by, DialToken(by) \/ DialNoToken(by) PROVE FALSE
    BY <1>2, <1>3, <1>6, <1>7 DEF DialToken, DialNoToken
  <1>8. ASSUME NEW l \in Live, DialOpens(l) \/ DialRefused(l) \/ LinkLost(l) \/ ServerReads(l) \/ OnDisconnect(l) PROVE FALSE
    BY <1>2, <1>3, <1>6, <1>8 DEF DialOpens, DialRefused, LinkLost, ServerReads, OnDisconnect
  <1>9. ASSUME NEW j \in DOMAIN calls, SendFrame(j) PROVE FALSE
    BY <1>9 DEF SendFrame, SocketInv
  <1>10. ~TimerFires /\ ~UNCHANGED SocketVars
    BY <1>2 DEF TimerFires, SocketVars
  <1>. QED  BY <1>5, <1>7, <1>8, <1>9, <1>10 DEF SocketNext, LinkGoesOn

\* The frame that lets it return is its own answer.
LEMMA OwnStep ==
    ASSUME AnswerInv, [SocketNext]_SocketVars, NEW k \in DOMAIN calls
    PROVE  AnsweredStep(k)
  <1>. SUFFICES ASSUME lang # "go", calls[k].at = "waiting", calls'[k].at = "ok" PROVE AnsweredStep(k)
    BY DEF AnsweredStep
  <1>1. SocketInv /\ SocketTypes /\ Tidy /\ Answers
    BY DEF AnswerInv, SocketInv
  <1>2. PICK l \in Live : HandleFrame(l)
    BY <1>1, NoneOk
  <1>. DEFINE f == Head(links[l].out)
  <1>3. /\ links[l].out # <<>> /\ links' = [links EXCEPT ![l].out = Tail(@)] /\ calls'[k] # calls[k]
        /\ \/ pendingPubs # <<>> /\ k = Head(pendingPubs) /\ f.type # "subscribed"
           \/ pendingSubs # <<>> /\ k = Head(pendingSubs) /\ f.type = "subscribed" /\ Covers(f, k)
    BY <1>1, <1>2, HandleSays
  <1>4. links[l] \in LinkRow /\ links \in Seq(LinkRow) /\ l \in DOMAIN links
    BY <1>1, LinkIs DEF SocketTypes, Live
  <1>5. links'[l].out # links[l].out
    <2>1. links[l].out \in Seq(Replies)
      BY <1>4 DEF LinkRow
    <2>2. Len(Tail(links[l].out)) # Len(links[l].out)
      BY <1>3, <2>1
    <2>3. links'[l].out = Tail(links[l].out)
      BY <1>3, <1>4 DEF LinkRow
    <2>. QED  BY <2>2, <2>3
  <1>6. /\ pendingSubs # <<>> => calls[Head(pendingSubs)].op = "subscribe"
        /\ pendingPubs # <<>> => calls[Head(pendingPubs)].op = "publish"
    <2>1. /\ pendingSubs \in Seq(Nat) /\ \A i \in DOMAIN pendingSubs : calls[pendingSubs[i]].op = "subscribe"
          /\ pendingPubs \in Seq(Nat) /\ \A i \in DOMAIN pendingPubs : calls[pendingPubs[i]].op = "publish"
      BY <1>1 DEF SocketTypes
    <2>2. (pendingSubs # <<>> => 1 \in DOMAIN pendingSubs) /\ (pendingPubs # <<>> => 1 \in DOMAIN pendingPubs)
      BY <2>1
    <2>. QED  BY <2>1, <2>2
  <1>7. IF calls[k].op = "publish" THEN f.call = k ELSE calls[k].chs \subseteq f.channels \cup f.refused
    <2>1. CASE pendingPubs # <<>> /\ k = Head(pendingPubs) /\ f.type # "subscribed"
      BY <2>1, <1>1, <1>2, <1>6, HandleAnswers
    <2>2. CASE pendingSubs # <<>> /\ k = Head(pendingSubs) /\ f.type = "subscribed" /\ Covers(f, k)
      <3>1. calls[k].op # "publish"
        BY <2>2, <1>6
      <3>2. calls[k].chs \subseteq f.channels \cup f.refused
        BY <2>2 DEF Covers
      <3>. QED  BY <3>1, <3>2
    <2>. QED  BY <2>1, <2>2, <1>3
  <1>. QED  BY <1>3, <1>5, <1>7 DEF AnsweredStep

\* Whatever the application asks for, and however often the link is lost, the server comes to
\* have the channels it asked for; and if it waits for its dials, a call in JavaScript or
\* Python that returns well was answered by the server itself (handleFrame, resubscribe).
THEOREM SocketKept == PoliteSpec => SocketKeeps
  <1>1. SocketInit => AnswerInv
    BY AnswerInit
  <1>2. AnswerInv /\ [SocketNext /\ Polite]_SocketVars => AnswerInv'
    BY AnswerStep
  <1>3. AnswerInv => SocketTyped /\ DesiredAtRest
    BY RestHolds DEF AnswerInv
  <1>4. AnswerInv /\ [SocketNext /\ Polite]_SocketVars => [\A k \in DOMAIN calls : AnsweredStep(k)]_SocketVars
    BY OwnStep
  <1>5. PoliteSpec => []AnswerInv
    BY <1>1, <1>2, PTL DEF PoliteSpec
  <1>6. PoliteSpec => [](SocketTyped /\ DesiredAtRest)
    BY <1>3, <1>5, PTL
  <1>7. PoliteSpec => AnswersOwn
    <2>1. PoliteSpec => [][\A k \in DOMAIN calls : AnsweredStep(k)]_SocketVars
      BY <1>4, <1>5, PTL DEF PoliteSpec
    <2>. QED  BY <2>1 DEF AnswersOwn, AnsweredStep
  <1>. QED  BY <1>6, <1>7 DEF SocketKeeps

=============================================================================
