------------------------ MODULE DataProofs ------------------------
(***************************************************************************)
(* The datastore: what a user's put replaces was theirs, a declared unique *)
(* index has no value twice, and no id that a finished write drew is drawn *)
(* again, for any users, keys, batches, transactions, requests, retries.   *)
(* The search index: one that is listed is whole, a scoped term finds what *)
(* its field holds, and pages together show what there is, for any         *)
(* documents, batches, queries, rules, page sizes and number of requests.  *)
(***************************************************************************)
EXTENDS DatastoreWrites, SearchIndex, FiniteSetTheorems, WellFoundedInduction, TLAPS

\* An open transaction is ahead of what is committed: its sequence has not gone
\* back, it holds every id it drew, and a user's has replaced only rows that were
\* the user's.
Ahead ==
    conn # Free =>
       /\ seq <= tx.seq /\ req[conn].last <= tx.seq
       /\ req[conn].kind = "scoped" =>
             \A k \in Key : tx.rows[k] # rows[k] => rows[k] = None \/ rows[k].owner = req[conn].user

Fresh == \A r \in Request : req[r].at = "asked" => req[r].last = 0

IInv == WritesTypeOK /\ Ahead /\ Fresh /\ DrawnArePast

LEMMA Kinds ==
    /\ \A q \in Putting : q.at \in {"asked", "writes", "spends"} /\ q # Idle
    /\ \A q \in Other : q.at \in {"idle", "declares", "builds", "undeclares"}
    /\ Idle \in Other /\ Idle.at = "idle"
    /\ Free \notin Request
    /\ 0 \in 0..MaxKey /\ 0 \in 0..Retries
  BY WritesAssumption DEF Putting, Other, Idle

LEMMA ClosedTyped == Closed \in [rows: [Key -> Doc \cup {None}], seq: 0..MaxKey]
  BY Kinds DEF Closed

LEMMA InitIInv == WritesInit => IInv
  <1>. SUFFICES ASSUME WritesInit PROVE IInv
    OBVIOUS
  <1>1. \A r \in Request : req[r] = Idle
    BY DEF WritesInit
  <1>2. WritesTypeOK
    BY <1>1, Kinds, ClosedTyped DEF WritesInit, WritesTypeOK
  <1>. QED  BY <1>1, <1>2, Kinds DEF WritesInit, IInv, Ahead, Fresh, DrawnArePast

\* A request that does not hold the connection goes on and the database is left.
LEMMA BesideIInv ==
    ASSUME IInv, NEW r \in Request, NEW new \in Putting \cup Other, Becomes(r, new),
           conn # r, new.at # "writes", new.at = "asked" => new.last = 0,
           seq' \in 0..MaxKey, drawn' \in 0..MaxKey, drawn' <= seq', declared' \in BOOLEAN, built' \in BOOLEAN,
           seq' = seq \/ conn = Free, UNCHANGED <<rows, conn, tx>>
    PROVE  IInv'
  <1>1. req' \in [Request -> Putting \cup Other] /\ req'[r] = new
        /\ \A q \in Request : q # r => req'[q] = req[q]
    BY DEF IInv, WritesTypeOK, Becomes
  <1>2. WritesTypeOK'
    BY <1>1 DEF IInv, WritesTypeOK
  <1>3. Ahead'
    BY <1>1 DEF IInv, WritesTypeOK, Ahead
  <1>. QED  BY <1>1, <1>2, <1>3 DEF IInv, Fresh, DrawnArePast

\* The transaction writes on, ahead of what is committed.
LEMMA WithinIInv ==
    ASSUME IInv, NEW r \in Request, NEW new \in Putting, Becomes(r, new),
           conn = r, new.at = "writes", new.kind = req[r].kind, new.user = req[r].user,
           tx' \in [rows: [Key -> Doc \cup {None}], seq: 0..MaxKey],
           tx.seq <= tx'.seq, new.last <= tx'.seq,
           req[r].kind = "scoped" =>
              \A k \in Key : tx'.rows[k] # tx.rows[k] =>
                 tx.rows[k] = None \/ tx.rows[k].owner = req[r].user,
           UNCHANGED <<rows, seq, declared, built, conn, drawn>>
    PROVE  IInv'
  <1>1. req' \in [Request -> Putting \cup Other] /\ req'[r] = new
        /\ \A q \in Request : q # r => req'[q] = req[q]
    BY DEF IInv, WritesTypeOK, Becomes
  <1>2. WritesTypeOK'
    BY <1>1, Kinds DEF IInv, WritesTypeOK
  <1>3. seq <= tx.seq /\ seq \in Nat /\ tx.seq \in Nat /\ tx'.seq \in Nat
    BY Kinds DEF IInv, WritesTypeOK, Ahead
  <1>4. req[r].kind = "scoped" =>
           \A k \in Key : tx'.rows[k] # rows[k] => rows[k] = None \/ rows[k].owner = req[r].user
    BY Kinds DEF IInv, Ahead
  <1>5. Ahead'
    BY <1>1, <1>3, <1>4 DEF Ahead
  <1>. QED  BY <1>1, <1>2, <1>5 DEF IInv, Fresh, DrawnArePast

\* The transaction ends.
LEMMA EndIInv ==
    ASSUME IInv, NEW r \in Request, NEW new \in Putting \cup Other, Becomes(r, new), conn = r,
           new.at \notin {"asked", "writes"}, conn' = Free, tx' = Closed,
           rows' \in [Key -> Doc \cup {None}], seq' \in 0..MaxKey, drawn' \in 0..MaxKey, drawn' <= seq',
           UNCHANGED <<declared, built>>
    PROVE  IInv'
  <1>1. req' \in [Request -> Putting \cup Other] /\ req'[r] = new
        /\ \A q \in Request : q # r => req'[q] = req[q]
    BY DEF IInv, WritesTypeOK, Becomes
  <1>2. \A q \in Request : (req'[q].at = "writes") <=> (conn' = q)
    BY <1>1, Kinds DEF IInv, WritesTypeOK
  <1>3. WritesTypeOK'
    BY <1>1, <1>2, ClosedTyped DEF IInv, WritesTypeOK
  <1>. QED  BY <1>1, <1>3 DEF IInv, Ahead, Fresh, DrawnArePast

-----------------------------------------------------------------------------
(* Steps *)

\* What the holder of the connection is, and what it has left.
LEMMA Holder ==
    ASSUME IInv, NEW r \in Request, req[r].at = "writes"
    PROVE  /\ req[r] \in Putting /\ conn = r /\ r # Free
           /\ seq <= tx.seq /\ req[r].last <= tx.seq
           /\ seq \in 0..MaxKey /\ tx.seq \in 0..MaxKey /\ drawn \in 0..MaxKey /\ drawn <= seq
           /\ tx \in [rows: [Key -> Doc \cup {None}], seq: 0..MaxKey]
           /\ rows \in [Key -> Doc \cup {None}]
  BY Kinds DEF IInv, WritesTypeOK, Ahead, DrawnArePast

LEMMA RollbackIInv ==
    ASSUME IInv, NEW r \in Request, req[r].at = "writes", Rollback(r)
    PROVE  IInv'
  <1>1. Idle \in Putting \cup Other /\ Idle.at \notin {"asked", "writes"}
    BY Kinds
  <1>. QED  BY <1>1, Holder, EndIInv DEF Rollback

LEMMA DoneTyped ==
    ASSUME NEW r \in Request, req[r] \in Putting, req[r].todo # <<>>
    PROVE  Done(r) \in Putting /\ Done(r) = [req[r] EXCEPT !.todo = Tail(req[r].todo), !.tries = 0]
  <1>1. Tail(req[r].todo) \in Seq(Op)
    BY DEF Putting
  <1>2. [req[r] EXCEPT !.todo = Tail(req[r].todo), !.tries = 0] \in Putting
    BY <1>1, Kinds DEF Putting
  <1>3. Done(r) = [req[r] EXCEPT !.todo = Tail(req[r].todo), !.tries = 0]
    BY DEF Done
  <1>. QED  BY <1>2, <1>3

LEMMA UpsertIInv ==
    ASSUME IInv, NEW r \in Request, req[r].at = "writes",
           NEW k \in Key, NEW v \in Value, NEW new \in Putting, NEW n \in 0..MaxKey,
           new.at = "writes", new.kind = req[r].kind, new.user = req[r].user,
           tx.seq <= n, new.last <= n, MayWrite(r, k), Upsert(r, k, v, new, n)
    PROVE  IInv'
  <1>1. CASE Rollback(r)
    BY <1>1, RollbackIInv
  <1>2. CASE ~Rollback(r)
    <2>1. /\ tx' = [rows |-> [tx.rows EXCEPT ![k] = [val |-> v, owner |-> req[r].user]], seq |-> n]
          /\ Becomes(r, new) /\ UNCHANGED <<rows, seq, declared, built, conn, drawn>>
      BY <1>2 DEF Upsert
    <2>2. [val |-> v, owner |-> req[r].user] \in Doc
      BY Holder DEF Doc, Putting
    <2>3. tx' \in [rows: [Key -> Doc \cup {None}], seq: 0..MaxKey] /\ tx'.seq = n
      BY <2>1, <2>2, Holder
    <2>4. \A j \in Key : tx'.rows[j] # tx.rows[j] => j = k
      BY <2>1, Holder
    <2>5. req[r].kind = "scoped" => tx.rows[k] = None \/ tx.rows[k].owner = req[r].user
      BY DEF MayWrite
    <2>6. Becomes(r, new) /\ UNCHANGED <<rows, seq, declared, built, conn, drawn>>
      BY <2>1
    <2>7. conn = r
      BY Holder
    <2>. QED  BY <2>3, <2>4, <2>5, <2>6, <2>7, WithinIInv
  <1>. QED  BY <1>1, <1>2

\* What is next for the holder: an operation, on keys and values there are.
LEMMA NextOp ==
    ASSUME IInv, NEW r \in Request, NEW op, At(r, op)
    PROVE  /\ Head(req[r].todo) \in Op /\ Head(req[r].todo).op = op
           /\ req[r] \in Putting /\ conn = r /\ req[r].at = "writes"
           /\ Done(r) \in Putting /\ Done(r).at = "writes" /\ Done(r).kind = req[r].kind
           /\ Done(r).user = req[r].user /\ Done(r).last = req[r].last
  <1>1. req[r] \in Putting /\ conn = r /\ req[r].at = "writes" /\ req[r].todo # <<>>
    BY Holder DEF At
  <1>2. Head(req[r].todo) \in Op
    BY <1>1 DEF Putting
  <1>3. Done(r) \in Putting /\ Done(r) = [req[r] EXCEPT !.todo = Tail(req[r].todo), !.tries = 0]
    BY <1>1, DoneTyped
  <1>4. Done(r).at = "writes" /\ Done(r).kind = req[r].kind /\ Done(r).user = req[r].user
        /\ Done(r).last = req[r].last
    BY <1>1, <1>3 DEF Putting
  <1>. QED  BY <1>1, <1>2, <1>3, <1>4 DEF At

LEMMA Ops ==
    ASSUME NEW o \in Op
    PROVE  /\ o.op \in {"put", "mutate"} => o.val \in Value
           /\ o.op # "put" => o.key \in Key
           /\ o.op = "put" => o.key \in Key \cup {NoKey}
  BY WritesAssumption DEF Op, Item

LEMMA PutNamedIInv ==
    ASSUME IInv, NEW r \in Request, PutNamed(r)
    PROVE  IInv'
  <1>. DEFINE o == Head(req[r].todo)
  <1>1. At(r, "put") /\ o.key # NoKey
    BY DEF PutNamed
  <1>2. o \in Op /\ o.op = "put" /\ req[r] \in Putting /\ conn = r /\ req[r].at = "writes"
        /\ Done(r) \in Putting /\ Done(r).at = "writes" /\ Done(r).kind = req[r].kind
        /\ Done(r).user = req[r].user /\ Done(r).last = req[r].last
    BY <1>1, NextOp
  <1>3. o.key \in Key /\ o.val \in Value
    BY <1>1, <1>2, Ops
  <1>4. tx.seq \in 0..MaxKey /\ tx.seq <= tx.seq /\ req[r].last <= tx.seq
    BY <1>2, Holder
  <1>5. CASE MayWrite(r, o.key)
    <2>1. Upsert(r, o.key, o.val, Done(r), tx.seq)
      BY <1>5 DEF PutNamed
    <2>. HIDE DEF o
    <2>. QED  BY <2>1, <1>2, <1>3, <1>4, <1>5, UpsertIInv
  <1>6. CASE ~MayWrite(r, o.key)
    BY <1>6, <1>2, RollbackIInv DEF PutNamed
  <1>. QED  BY <1>5, <1>6

LEMMA DrawIInv ==
    ASSUME IInv, NEW r \in Request, Draw(r)
    PROVE  IInv'
  <1>. DEFINE o == Head(req[r].todo)
              k == tx.seq + 1
              next == [req[r] EXCEPT !.last = k]
              new == [Done(r) EXCEPT !.last = k]
  <1>1. At(r, "put")
    BY DEF Draw
  <1>2. o \in Op /\ o.op = "put" /\ req[r] \in Putting /\ conn = r /\ req[r].at = "writes"
        /\ Done(r) \in Putting /\ Done(r).at = "writes" /\ Done(r).kind = req[r].kind
        /\ Done(r).user = req[r].user
    BY <1>1, NextOp
  <1>3. tx.seq \in 0..MaxKey /\ MaxKey \in Nat /\ o.val \in Value
    BY <1>2, Holder, Ops, WritesAssumption
  <1>4. CASE k \notin Key
    BY <1>4, <1>2, RollbackIInv DEF Draw
  <1>5. CASE k \in Key /\ (req[r].kind # "scoped" \/ ~IdTaken(r, k))
    <2>1. Upsert(r, k, o.val, new, k)
      BY <1>5 DEF Draw
    <2>2. k \in 0..MaxKey /\ tx.seq <= k
      BY <1>3, <1>5 DEF Key
    <2>3. new \in Putting /\ new.at = "writes" /\ new.kind = req[r].kind /\ new.user = req[r].user
          /\ new.last = k
      BY <1>2, <2>2 DEF Putting
    <2>4. MayWrite(r, k)
      BY <1>5 DEF MayWrite, IdTaken
    <2>5. new.last <= k
      BY <2>2, <2>3
    <2>. HIDE DEF new, k, o
    <2>. QED  BY <2>1, <2>2, <2>3, <2>4, <2>5, <1>2, <1>3, <1>5, UpsertIInv
  <1>6. CASE k \in Key /\ req[r].kind = "scoped" /\ IdTaken(r, k)
    <2>1. k \in 0..MaxKey /\ tx.seq <= k
      BY <1>3, <1>6 DEF Key
    <2>2. UNCHANGED <<rows, seq, declared, built, drawn>>
      BY <1>6 DEF Draw
    <2>3. CASE req[r].tries < Retries
      <3>. DEFINE more == [next EXCEPT !.tries = @ + 1]
      <3>1. Becomes(r, more) /\ tx' = [tx EXCEPT !.seq = k] /\ conn' = conn
        BY <1>6, <2>3 DEF Draw
      <3>2. more \in Putting /\ more.at = "writes" /\ more.kind = req[r].kind
            /\ more.user = req[r].user /\ more.last = k
        <4>1. next \in Putting /\ next.at = "writes" /\ next.kind = req[r].kind
              /\ next.user = req[r].user /\ next.last = k /\ next.tries = req[r].tries
          BY <1>2, <2>1 DEF Putting
        <4>2. next.tries \in 0..Retries /\ next.tries < Retries
          BY <4>1, <2>3 DEF Putting
        <4>3. next.tries + 1 \in 0..Retries
          BY <4>2, WritesAssumption
        <4>. HIDE DEF next
        <4>. QED  BY <4>1, <4>3 DEF Putting
      <3>3. tx' \in [rows: [Key -> Doc \cup {None}], seq: 0..MaxKey] /\ tx'.rows = tx.rows /\ tx'.seq = k
        <4>1. tx \in [rows: [Key -> Doc \cup {None}], seq: 0..MaxKey]
          BY <1>2, Holder
        <4>. HIDE DEF k
        <4>. QED  BY <4>1, <3>1, <2>1
      <3>4. tx.seq <= tx'.seq /\ more.last <= tx'.seq
        BY <2>1, <3>2, <3>3
      <3>. HIDE DEF more, k
      <3>. QED  BY <3>1, <3>2, <3>3, <3>4, <2>2, <1>2, WithinIInv
    <2>4. CASE ~(req[r].tries < Retries)
      <3>. DEFINE out == [next EXCEPT !.at = "spends"]
      <3>1. Becomes(r, out) /\ conn' = Free /\ tx' = Closed
        BY <1>6, <2>4 DEF Draw
      <3>2. out \in Putting /\ out.at = "spends"
        BY <1>2, <2>1 DEF Putting
      <3>3. rows' \in [Key -> Doc \cup {None}] /\ seq' \in 0..MaxKey /\ drawn' \in 0..MaxKey /\ drawn' <= seq'
        BY <2>2, <1>2, Holder
      <3>. HIDE DEF out
      <3>. QED  BY <3>1, <3>2, <3>3, <2>2, <1>2, EndIInv
    <2>. QED  BY <2>3, <2>4
  <1>. QED  BY <1>4, <1>5, <1>6

LEMMA OperationsIInv ==
    ASSUME IInv, NEW r \in Request, Check(r) \/ RemoveDoc(r) \/ Mutate(r)
    PROVE  IInv'
  <1>. DEFINE o == Head(req[r].todo)
  <1>1. PICK op \in {"check", "delete", "mutate"} : At(r, op)
    BY DEF Check, RemoveDoc, Mutate
  <1>2. o \in Op /\ o.op = op /\ req[r] \in Putting /\ conn = r /\ req[r].at = "writes"
        /\ Done(r) \in Putting /\ Done(r).at = "writes" /\ Done(r).kind = req[r].kind
        /\ Done(r).user = req[r].user /\ Done(r).last = req[r].last
    BY <1>1, NextOp
  <1>3. o.key \in Key /\ (op = "mutate" => o.val \in Value) /\ req[r].kind = "txn"
    BY <1>1, <1>2, Ops DEF At
  <1>4. tx.seq \in 0..MaxKey /\ tx.seq <= tx.seq /\ Done(r).last <= tx.seq
        /\ tx \in [rows: [Key -> Doc \cup {None}], seq: 0..MaxKey]
    BY <1>2, Holder
  <1>5. CASE Rollback(r)
    BY <1>5, <1>2, RollbackIInv
  <1>6. CASE Upsert(r, o.key, o.val, Done(r), tx.seq) /\ op = "mutate"
    <2>1. MayWrite(r, o.key)
      BY <1>3 DEF MayWrite
    <2>. HIDE DEF o
    <2>. QED  BY <1>6, <2>1, <1>2, <1>3, <1>4, UpsertIInv
  <1>7. CASE Becomes(r, Done(r)) /\ UNCHANGED <<rows, seq, declared, built, conn, drawn>>
             /\ tx' \in [rows: [Key -> Doc \cup {None}], seq: 0..MaxKey] /\ tx'.seq = tx.seq
    <2>. HIDE DEF o
    <2>. QED  BY <1>7, <1>2, <1>3, <1>4, WithinIInv
  <1>8. CASE Check(r)
    BY <1>8, <1>4, <1>5, <1>7 DEF Check
  <1>9. CASE RemoveDoc(r)
    <2>1. tx' \in [rows: [Key -> Doc \cup {None}], seq: 0..MaxKey] /\ tx'.seq = tx.seq
      BY <1>9, <1>4, <1>3 DEF RemoveDoc
    <2>. QED  BY <2>1, <1>9, <1>7 DEF RemoveDoc
  <1>10. CASE Mutate(r)
    <2>1. op = "mutate"
      BY <1>10, <1>2 DEF Mutate, At
    <2>2. CASE tx.rows[o.key] = None
      BY <2>1, <2>2, <1>10, <1>5, <1>6 DEF Mutate
    <2>3. CASE tx.rows[o.key] # None /\ tx' = [tx EXCEPT !.rows[o.key].val = o.val]
               /\ Becomes(r, Done(r)) /\ UNCHANGED <<rows, seq, declared, built, conn, drawn>>
      <3>1. tx.rows[o.key] \in Doc
        BY <2>3, <1>3, <1>4
      <3>2. [tx.rows[o.key] EXCEPT !.val = o.val] \in Doc
        BY <3>1, <2>1, <1>3 DEF Doc
      <3>3. tx' = [tx EXCEPT !.rows = [tx.rows EXCEPT ![o.key] = [tx.rows[o.key] EXCEPT !.val = o.val]]]
        BY <2>3
      <3>4. [tx.rows EXCEPT ![o.key] = [tx.rows[o.key] EXCEPT !.val = o.val]] \in [Key -> Doc \cup {None}]
        BY <3>2, <1>3, <1>4
      <3>5. tx' \in [rows: [Key -> Doc \cup {None}], seq: 0..MaxKey] /\ tx'.seq = tx.seq
        BY <3>3, <3>4, <1>4
      <3>. QED  BY <2>3, <3>5, <1>7
    <2>. QED  BY <2>2, <2>3, <1>10, <1>5 DEF Mutate
  <1>. QED  BY <1>8, <1>9, <1>10

LEMMA CommitIInv ==
    ASSUME IInv, NEW r \in Request, Commit(r)
    PROVE  IInv'
  <1>1. req[r].at = "writes" /\ Becomes(r, Idle) /\ conn' = Free /\ tx' = Closed
        /\ UNCHANGED <<declared, built>>
        /\ rows' = tx.rows /\ seq' = tx.seq /\ drawn' = Larger(drawn, req[r].last)
    BY DEF Commit
  <1>2. /\ req[r] \in Putting /\ conn = r /\ seq <= tx.seq /\ req[r].last <= tx.seq
        /\ seq \in 0..MaxKey /\ tx.seq \in 0..MaxKey /\ drawn \in 0..MaxKey /\ drawn <= seq
        /\ tx.rows \in [Key -> Doc \cup {None}]
    BY <1>1, Holder
  <1>3. req[r].last \in 0..MaxKey /\ MaxKey \in Nat
    BY <1>2, WritesAssumption DEF Putting
  <1>4. drawn' \in 0..MaxKey /\ drawn' <= seq'
    BY <1>1, <1>2, <1>3 DEF Larger
  <1>5. Idle \in Putting \cup Other /\ Idle.at \notin {"asked", "writes"}
    BY Kinds
  <1>. QED  BY <1>1, <1>2, <1>4, <1>5, EndIInv

LEMMA SpendIInv ==
    ASSUME IInv, NEW r \in Request, Spend(r)
    PROVE  IInv'
  <1>1. req[r] \in Putting /\ seq \in 0..MaxKey /\ drawn \in 0..MaxKey /\ drawn <= seq /\ conn = Free
    BY Kinds DEF Spend, IInv, WritesTypeOK, DrawnArePast
  <1>2. req[r].last \in 0..MaxKey /\ MaxKey \in Nat
    BY <1>1, WritesAssumption DEF Putting
  <1>3. seq' \in 0..MaxKey /\ drawn' \in 0..MaxKey /\ drawn' <= seq'
    BY <1>1, <1>2 DEF Spend, Larger
  <1>4. Idle \in Putting \cup Other /\ Idle.at = "idle" /\ conn # r
    BY <1>1, Kinds
  <1>5. declared' \in BOOLEAN /\ built' \in BOOLEAN
    BY DEF Spend, IInv, WritesTypeOK
  <1>. QED  BY <1>1, <1>3, <1>4, <1>5, BesideIInv DEF Spend

LEMMA AskIInv ==
    ASSUME IInv, NEW r \in Request, Ask(r)
    PROVE  IInv'
  <1>1. PICK kind \in {"scoped", "put", "txn"}, u \in User \cup {Nobody}, b \in Batch \cup Operations :
           Becomes(r, Asked(kind, u, b))
    BY DEF Ask
  <1>2. b \in Seq(Op)
    <2>1. \A c \in Seq(Item) : c \in Seq(Op)
      BY DEF Op
    <2>. QED  BY <2>1, WritesAssumption
  <1>3. Asked(kind, u, b).named \subseteq Named
    <2>1. \A i \in DOMAIN b : b[i] \in Op /\ b[i].key \in Named \cup {NoKey}
      BY <1>2 DEF Op, Item
    <2>. QED  BY <2>1 DEF Asked
  <1>4. Asked(kind, u, b) \in Putting /\ Asked(kind, u, b).at = "asked" /\ Asked(kind, u, b).last = 0
    BY <1>2, <1>3, Kinds DEF Asked, Putting
  <1>5. UNCHANGED <<rows, seq, declared, built, conn, tx, drawn>> /\ req[r] = Idle
    BY DEF Ask
  <1>6. /\ conn # r /\ seq' \in 0..MaxKey /\ drawn' \in 0..MaxKey /\ drawn' <= seq'
        /\ declared' \in BOOLEAN /\ built' \in BOOLEAN
    BY <1>5, Kinds DEF IInv, WritesTypeOK, DrawnArePast
  <1>7. PICK new \in Putting \cup Other : new = Asked(kind, u, b)
    BY <1>4
  <1>. QED  BY <1>1, <1>4, <1>5, <1>6, <1>7, BesideIInv

LEMMA BeginIInv ==
    ASSUME IInv, NEW r \in Request, Begin(r)
    PROVE  IInv'
  <1>. DEFINE new == [req[r] EXCEPT !.at = "writes"]
  <1>1. /\ req[r].at = "asked" /\ conn = Free /\ conn' = r /\ tx' = [rows |-> rows, seq |-> seq]
        /\ Becomes(r, new) /\ UNCHANGED <<rows, seq, declared, built, drawn>>
    BY DEF Begin
  <1>2. req[r] \in Putting /\ req[r].last = 0
    BY <1>1, Kinds DEF IInv, WritesTypeOK, Fresh
  <1>3. new \in Putting /\ new.at = "writes" /\ new.last = 0
    BY <1>2 DEF Putting
  <1>4. req' \in [Request -> Putting \cup Other] /\ req'[r] = new
        /\ \A q \in Request : q # r => req'[q] = req[q]
    BY <1>1, <1>3 DEF IInv, WritesTypeOK, Becomes
  <1>5. \A q \in Request : (req'[q].at = "writes") <=> (conn' = q)
    <2>1. \A q \in Request : req[q].at # "writes"
      BY <1>1, Kinds DEF IInv, WritesTypeOK
    <2>. QED  BY <1>1, <1>3, <1>4, <2>1
  <1>6. WritesTypeOK'
    BY <1>1, <1>4, <1>5 DEF IInv, WritesTypeOK
  <1>7. Ahead'
    BY <1>1, <1>3, <1>4, <1>6 DEF Ahead, WritesTypeOK
  <1>. QED  BY <1>1, <1>3, <1>4, <1>6, <1>7 DEF IInv, Fresh, DrawnArePast

LEMMA IndexIInv ==
    ASSUME IInv, NEW r \in Request, Index(r)
    PROVE  IInv'
  <1>1. /\ conn = Free /\ UNCHANGED <<rows, seq, conn, tx, drawn>>
        /\ declared' \in BOOLEAN /\ built' \in BOOLEAN
    BY DEF Index, Find, Declare, Build, Undeclare, IInv, WritesTypeOK
  <1>2. PICK new \in Other : Becomes(r, new)
    <2>1. \A a \in {"idle", "declares", "builds", "undeclares"} : [at |-> a] \in Other
      BY DEF Other
    <2>. QED  BY <2>1 DEF Index, Find, Declare, Build, Undeclare, Idle
  <1>3. seq' \in 0..MaxKey /\ drawn' \in 0..MaxKey /\ drawn' <= seq' /\ conn # r
    BY <1>1, Kinds DEF IInv, WritesTypeOK, DrawnArePast
  <1>. QED  BY <1>1, <1>2, <1>3, Kinds, BesideIInv

LEMMA OutsideIInv ==
    ASSUME IInv,
           \/ \E u \in User \cup {Nobody}, K \in SUBSET Named : Delete(u, K)
           \/ DropIndex \/ WritesRestart
    PROVE  IInv'
  <1>1. CASE \E u \in User \cup {Nobody}, K \in SUBSET Named : Delete(u, K)
    <2>1. conn = Free /\ rows' \in [Key -> Doc \cup {None}]
          /\ UNCHANGED <<seq, declared, built, conn, tx, req, drawn>>
      BY <1>1 DEF Delete, IInv, WritesTypeOK
    <2>. QED  BY <2>1 DEF IInv, WritesTypeOK, Ahead, Fresh, DrawnArePast
  <1>2. CASE DropIndex
    BY <1>2 DEF DropIndex, IInv, WritesTypeOK, Ahead, Fresh, DrawnArePast
  <1>3. CASE WritesRestart
    <2>1. /\ conn' = Free /\ tx' = Closed /\ UNCHANGED <<rows, seq, declared, built, drawn>>
          /\ req' \in [Request -> Putting \cup Other] /\ \A q \in Request : req'[q] = Idle
      BY <1>3, Kinds DEF WritesRestart
    <2>. QED  BY <2>1, Kinds, ClosedTyped DEF IInv, WritesTypeOK, Ahead, Fresh, DrawnArePast
  <1>. QED  BY <1>1, <1>2, <1>3

LEMMA NextIInv == IInv /\ [WritesNext]_writesVars => IInv'
  <1>. SUFFICES ASSUME IInv, [WritesNext]_writesVars PROVE IInv'
    OBVIOUS
  <1>1. CASE UNCHANGED writesVars
    BY <1>1 DEF writesVars, IInv, WritesTypeOK, Ahead, Fresh, DrawnArePast
  <1>2. ASSUME NEW r \in Request, Write(r) PROVE IInv'
    BY <1>2, PutNamedIInv, DrawIInv, OperationsIInv, CommitIInv DEF Write
  <1>. QED
    BY <1>1, <1>2, AskIInv, BeginIInv, SpendIInv, IndexIInv, OutsideIInv DEF WritesNext

THEOREM Invariance == WritesSpec => []IInv
  BY InitIInv, NextIInv, PTL DEF WritesSpec

\* The connection is held by the open transaction, every row is a document and
\* every id within its bound.
THEOREM WritesTyped == WritesSpec => []WritesTypeOK
  <1>1. IInv => WritesTypeOK
    BY DEF IInv
  <1>. QED  BY <1>1, Invariance, PTL

\* No finished write's id is drawn again: neither a commit nor a put that was
\* refused for its taken ids leaves the sequence behind.
THEOREM DrawnStayPast == WritesSpec => []DrawnArePast
  <1>1. IInv => DrawnArePast
    BY DEF IInv
  <1>. QED  BY <1>1, Invariance, PTL

\* The documents change by a commit or a delete only.
LEMMA RowsChange ==
    ASSUME WritesNext, rows' # rows
    PROVE  \/ \E r \in Request : Commit(r)
           \/ \E u \in User \cup {Nobody}, K \in SUBSET Named : Delete(u, K)
  <1>1. ASSUME NEW r \in Request, PutNamed(r) \/ Draw(r) PROVE rows' = rows
    BY <1>1 DEF PutNamed, Draw, Upsert, Rollback
  <1>2. ASSUME NEW r \in Request, Check(r) \/ RemoveDoc(r) \/ Mutate(r) PROVE rows' = rows
    BY <1>2 DEF Check, RemoveDoc, Mutate, Upsert, Rollback
  <1>3. ASSUME NEW r \in Request, Ask(r) \/ Begin(r) \/ Spend(r) \/ Index(r) PROVE rows' = rows
    BY <1>3 DEF Ask, Begin, Spend, Index, Find, Declare, Build, Undeclare
  <1>4. ASSUME DropIndex \/ WritesRestart PROVE rows' = rows
    BY <1>4 DEF DropIndex, WritesRestart
  <1>. QED  BY <1>1, <1>2, <1>3, <1>4 DEF WritesNext, Write

\* What a user's put replaces when it commits was theirs, however many other
\* writes there were between.
THEOREM ScopedKeeps == WritesSpec => ScopedKeepsToItsOwn
  <1>. DEFINE Over(r) == req[r].at = "writes" /\ req[r].kind = "scoped" /\ req'[r] = Idle
              Own(r) == \A k \in Key : rows[k] # None /\ rows'[k] # rows[k] => rows[k].owner = req[r].user
  <1>1. IInv /\ [WritesNext]_writesVars => [\A r \in Request : Over(r) => Own(r)]_writesVars
    <2>. SUFFICES ASSUME IInv, WritesNext, NEW r \in Request, Over(r), rows' # rows PROVE Own(r)
      OBVIOUS
    <2>1. conn = r /\ r # Free /\ req[r] # Idle
      BY Holder, Kinds
    <2>2. CASE \E q \in Request : Commit(q)
      <3>1. PICK q \in Request : Commit(q)
        BY <2>2
      <3>2. conn = q /\ rows' = tx.rows
        BY <3>1, Holder DEF Commit
      <3>. QED  BY <2>1, <3>2 DEF IInv, Ahead
    <2>3. CASE \E u \in User \cup {Nobody}, K \in SUBSET Named : Delete(u, K)
      BY <2>1, <2>3 DEF Delete
    <2>. QED  BY <2>2, <2>3, RowsChange
  <1>2. [][\A r \in Request : Over(r) => Own(r)]_writesVars => ScopedKeepsToItsOwn
    BY DEF ScopedKeepsToItsOwn
  <1>. HIDE DEF Over, Own
  <1>. QED  BY <1>1, <1>2, Invariance, PTL DEF WritesSpec

\* The connection is held by the open transaction, and the sequence is past every id drawn.
THEOREM WritesKept == WritesSpec => []WritesHold
  <1>1. IInv => WritesHold
    BY DEF IInv, WritesHold
  <1>. QED  BY <1>1, Invariance, PTL

-----------------------------------------------------------------------------
(* The unique index *)

Distinct(R) == \A j, k \in Key : j # k /\ R[j] # None /\ R[k] # None => R[j].val # R[k].val

\* Once SQLite has the index nothing repeats, committed or about to be; and an index
\* is declared that SQLite has not only while a request is about to build it or to
\* take the declaration back.
Guarded == built => Distinct(rows) /\ (conn # Free => Distinct(tx.rows))
BuiltOrOnItsWay == declared => built \/ \E r \in Request : req[r].at \in {"builds", "undeclares"}

UniqueInv == Guarded /\ BuiltOrOnItsWay

LEMMA RepeatsNot == ~Repeats <=> Distinct(rows)
  BY DEF Repeats, Distinct

\* Requests that write: a step of one is no index's.
Plain(r) == req[r].at \notin {"builds", "undeclares"}

LEMMA OthersOnTheirWay ==
    ASSUME BuiltOrOnItsWay, NEW r \in Request, Plain(r), NEW new, Becomes(r, new),
           req \in [Request -> Putting \cup Other], UNCHANGED <<declared, built>>
    PROVE  BuiltOrOnItsWay'
  <1>1. \A q \in Request : q # r => req'[q] = req[q]
    BY DEF Becomes
  <1>. QED  BY <1>1 DEF BuiltOrOnItsWay, Plain

\* A row is put where no other has its value.
LEMMA PutDistinct ==
    ASSUME NEW R \in [Key -> Doc \cup {None}], Distinct(R), NEW k \in Key, NEW d \in Doc,
           \A j \in Key \ {k} : R[j] # None => R[j].val # d.val
    PROVE  Distinct([R EXCEPT ![k] = d])
  <1>. DEFINE S == [R EXCEPT ![k] = d]
  <1>1. S[k] = d /\ \A j \in Key : j # k => S[j] = R[j]
    OBVIOUS
  <1>. HIDE DEF S
  <1>2. Distinct(S)
    BY <1>1 DEF Distinct
  <1>. QED  BY <1>2 DEF S

\* Rows that go leave the others apart.
LEMMA FewerDistinct ==
    ASSUME NEW R, NEW S, Distinct(R), \A k \in Key : S[k] = R[k] \/ S[k] = None
    PROVE  Distinct(S)
  BY DEF Distinct

LEMMA InitUnique == WritesInit => UniqueInv
  BY DEF WritesInit, UniqueInv, Guarded, BuiltOrOnItsWay

\* A step of the open transaction that leaves its rows apart, or closes it.
LEMMA WithinUnique ==
    ASSUME IInv, UniqueInv, NEW r \in Request, Plain(r), NEW new, Becomes(r, new),
           UNCHANGED <<rows, declared, built>>,
           built /\ conn' # Free => Distinct(tx'.rows)
    PROVE  UniqueInv'
  <1>1. BuiltOrOnItsWay'
    BY OthersOnTheirWay DEF UniqueInv, IInv, WritesTypeOK
  <1>2. Guarded'
    BY DEF UniqueInv, Guarded
  <1>. QED  BY <1>1, <1>2 DEF UniqueInv

LEMMA RollbackUnique ==
    ASSUME IInv, UniqueInv, NEW r \in Request, req[r].at = "writes", Rollback(r)
    PROVE  UniqueInv'
  BY WithinUnique DEF Rollback, Plain

LEMMA UpsertUnique ==
    ASSUME IInv, UniqueInv, NEW r \in Request, req[r].at = "writes",
           NEW k \in Key, NEW v \in Value, NEW new, NEW n, Upsert(r, k, v, new, n)
    PROVE  UniqueInv'
  <1>1. CASE ~Unique(k, v)
    BY <1>1, RollbackUnique DEF Upsert
  <1>2. CASE Unique(k, v)
    <2>. DEFINE d == [val |-> v, owner |-> req[r].user]
    <2>1. /\ tx' = [rows |-> [tx.rows EXCEPT ![k] = d], seq |-> n]
          /\ Becomes(r, new) /\ UNCHANGED <<rows, seq, declared, built, conn, drawn>>
      BY <1>2 DEF Upsert
    <2>2. d \in Doc /\ d.val = v
      BY Holder DEF Doc, Putting
    <2>3. tx.rows \in [Key -> Doc \cup {None}] /\ conn # Free
      BY Holder
    <2>. HIDE DEF d
    <2>4. tx'.rows = [tx.rows EXCEPT ![k] = d]
      BY <2>1
    <2>5. built => Distinct([tx.rows EXCEPT ![k] = d])
      BY <1>2, <2>2, <2>3, PutDistinct DEF UniqueInv, Guarded, Unique
    <2>6. Becomes(r, new) /\ UNCHANGED <<rows, declared, built>>
      BY <2>1
    <2>. QED  BY <2>4, <2>5, <2>6, WithinUnique DEF Plain
  <1>. QED  BY <1>1, <1>2

LEMMA PutUnique ==
    ASSUME IInv, UniqueInv, NEW r \in Request, PutNamed(r)
    PROVE  UniqueInv'
  <1>. DEFINE o == Head(req[r].todo)
  <1>1. At(r, "put") /\ o.key # NoKey
    BY DEF PutNamed
  <1>2. o \in Op /\ o.op = "put" /\ req[r].at = "writes"
    BY <1>1, NextOp
  <1>3. o.key \in Key /\ o.val \in Value
    BY <1>1, <1>2, Ops
  <1>4. Rollback(r) \/ Upsert(r, o.key, o.val, Done(r), tx.seq)
    BY DEF PutNamed
  <1>. HIDE DEF o
  <1>. QED  BY <1>2, <1>3, <1>4, RollbackUnique, UpsertUnique

LEMMA DrawUnique ==
    ASSUME IInv, UniqueInv, NEW r \in Request, Draw(r)
    PROVE  UniqueInv'
  <1>. DEFINE o == Head(req[r].todo)
              k == tx.seq + 1
              next == [req[r] EXCEPT !.last = k]
              new == [Done(r) EXCEPT !.last = k]
  <1>1. At(r, "put")
    BY DEF Draw
  <1>2. o \in Op /\ o.op = "put" /\ req[r].at = "writes" /\ conn = r
    BY <1>1, NextOp
  <1>3. o.val \in Value /\ conn # Free
    BY <1>2, Ops, Kinds
  <1>4. CASE k \notin Key
    BY <1>4, <1>2, RollbackUnique DEF Draw
  <1>5. CASE k \in Key /\ (req[r].kind # "scoped" \/ ~IdTaken(r, k))
    <2>1. Upsert(r, k, o.val, new, k)
      BY <1>5 DEF Draw
    <2>. HIDE DEF new, k, o
    <2>. QED  BY <2>1, <1>2, <1>3, <1>5, UpsertUnique
  <1>6. CASE k \in Key /\ req[r].kind = "scoped" /\ IdTaken(r, k)
    <2>1. /\ \/ /\ Becomes(r, [next EXCEPT !.tries = @ + 1])
                /\ tx' = [tx EXCEPT !.seq = k] /\ conn' = conn
             \/ /\ Becomes(r, [next EXCEPT !.at = "spends"])
                /\ conn' = Free /\ tx' = Closed
          /\ UNCHANGED <<rows, seq, declared, built, drawn>>
      BY <1>6 DEF Draw
    <2>2. PICK q : Becomes(r, q)
      BY <2>1
    <2>3. tx \in [rows: [Key -> Doc \cup {None}], seq: 0..MaxKey]
      BY <1>2, Holder
    <2>. HIDE DEF next, k
    <2>4. conn' # Free => tx'.rows = tx.rows
      BY <2>1, <2>3
    <2>5. built /\ conn' # Free => Distinct(tx'.rows)
      BY <1>3, <2>4 DEF UniqueInv, Guarded
    <2>. QED  BY <1>2, <2>1, <2>2, <2>5, WithinUnique DEF Plain
  <1>. QED  BY <1>4, <1>5, <1>6

LEMMA OperationsUnique ==
    ASSUME IInv, UniqueInv, NEW r \in Request, Check(r) \/ RemoveDoc(r) \/ Mutate(r)
    PROVE  UniqueInv'
  <1>. DEFINE o == Head(req[r].todo)
  <1>1. PICK op \in {"check", "delete", "mutate"} : At(r, op)
    BY DEF Check, RemoveDoc, Mutate
  <1>2. o \in Op /\ o.op = op /\ conn = r /\ req[r].at = "writes" /\ conn # Free
    BY <1>1, NextOp, Kinds
  <1>3. o.key \in Key /\ (op = "mutate" => o.val \in Value)
    BY <1>1, <1>2, Ops
  <1>4. tx \in [rows: [Key -> Doc \cup {None}], seq: 0..MaxKey] /\ tx.rows \in [Key -> Doc \cup {None}]
    BY <1>2, Holder
  <1>5. CASE Rollback(r)
    BY <1>5, <1>2, RollbackUnique
  <1>6. CASE Upsert(r, o.key, o.val, Done(r), tx.seq) /\ op = "mutate"
    <2>. HIDE DEF o
    <2>. QED  BY <1>6, <1>2, <1>3, UpsertUnique
  <1>7. CASE Becomes(r, Done(r)) /\ UNCHANGED <<rows, declared, built>> /\ (built => Distinct(tx'.rows))
    BY <1>7, <1>2, WithinUnique DEF Plain
  <1>8. built => Distinct(tx.rows)
    BY <1>2 DEF UniqueInv, Guarded
  <1>9. CASE Check(r)
    BY <1>9, <1>5, <1>7, <1>8 DEF Check
  <1>10. CASE RemoveDoc(r)
    <2>1. tx' = [tx EXCEPT !.rows = [tx.rows EXCEPT ![o.key] = None]]
      BY <1>10 DEF RemoveDoc
    <2>2. tx'.rows = [tx.rows EXCEPT ![o.key] = None]
      BY <2>1, <1>4
    <2>3. \A k \in Key : tx'.rows[k] = tx.rows[k] \/ tx'.rows[k] = None
      BY <2>2, <1>3, <1>4
    <2>4. built => Distinct(tx'.rows)
      BY <2>3, <1>8, FewerDistinct
    <2>. QED  BY <2>4, <1>10, <1>7 DEF RemoveDoc
  <1>11. CASE Mutate(r)
    <2>1. op = "mutate"
      BY <1>11, <1>2 DEF Mutate, At
    <2>2. CASE tx.rows[o.key] = None
      BY <2>1, <2>2, <1>11, <1>5, <1>6 DEF Mutate
    <2>3. CASE tx.rows[o.key] # None /\ Unique(o.key, o.val) /\ tx' = [tx EXCEPT !.rows[o.key].val = o.val]
               /\ Becomes(r, Done(r)) /\ UNCHANGED <<rows, seq, declared, built, conn, drawn>>
      <3>. DEFINE d == [tx.rows[o.key] EXCEPT !.val = o.val]
      <3>1. tx.rows[o.key] \in Doc
        BY <2>3, <1>3, <1>4
      <3>2. d \in Doc /\ d.val = o.val
        BY <3>1, <2>1, <1>3 DEF Doc
      <3>3. tx' = [tx EXCEPT !.rows = [tx.rows EXCEPT ![o.key] = d]]
        BY <2>3
      <3>. HIDE DEF d, o
      <3>4. tx'.rows = [tx.rows EXCEPT ![o.key] = d]
        BY <3>3, <1>4
      <3>5. built => Distinct([tx.rows EXCEPT ![o.key] = d])
        BY <2>3, <3>2, <1>3, <1>4, <1>8, PutDistinct DEF Unique
      <3>. QED  BY <2>3, <3>4, <3>5, <1>7
    <2>. QED  BY <2>2, <2>3, <1>11, <1>5 DEF Mutate
  <1>. QED  BY <1>9, <1>10, <1>11

LEMMA CommitUnique ==
    ASSUME IInv, UniqueInv, NEW r \in Request, Commit(r)
    PROVE  UniqueInv'
  <1>1. req[r].at = "writes" /\ Becomes(r, Idle) /\ conn' = Free
        /\ UNCHANGED <<declared, built>> /\ rows' = tx.rows
    BY DEF Commit
  <1>2. conn # Free
    BY <1>1, Holder
  <1>3. Guarded'
    BY <1>1, <1>2 DEF UniqueInv, Guarded
  <1>4. BuiltOrOnItsWay'
    BY <1>1, OthersOnTheirWay DEF UniqueInv, IInv, WritesTypeOK, Plain
  <1>. QED  BY <1>3, <1>4 DEF UniqueInv

\* A request that is asked, begins, or moves the sequence.
LEMMA BesideUnique ==
    ASSUME IInv, UniqueInv, NEW r \in Request, Ask(r) \/ Begin(r) \/ Spend(r)
    PROVE  UniqueInv'
  <1>1. Plain(r) /\ UNCHANGED <<rows, declared, built>>
    BY DEF Ask, Begin, Spend, Plain, Idle
  <1>2. PICK new : Becomes(r, new)
    BY DEF Ask, Begin, Spend
  <1>3. CASE Begin(r)
    <2>1. tx'.rows = rows
      BY <1>3 DEF Begin
    <2>2. built => Distinct(tx'.rows)
      BY <2>1 DEF UniqueInv, Guarded
    <2>. QED  BY <1>1, <1>2, <2>2, WithinUnique
  <1>4. CASE Ask(r) \/ Spend(r)
    <2>1. tx' = tx /\ conn' = conn
      BY <1>4 DEF Ask, Spend
    <2>2. built /\ conn' # Free => Distinct(tx'.rows)
      BY <2>1 DEF UniqueInv, Guarded
    <2>. QED  BY <1>1, <1>2, <2>2, WithinUnique
  <1>. QED  BY <1>3, <1>4

\* Only what does not repeat is built, and what was not is taken back.
LEMMA IndexUnique ==
    ASSUME IInv, UniqueInv, NEW r \in Request, Index(r)
    PROVE  UniqueInv'
  <1>1. conn' = Free /\ rows' = rows /\ (built' = built \/ built' = (built \/ ~Repeats))
    BY DEF Index, Find, Declare, Build, Undeclare
  <1>2. req \in [Request -> Putting \cup Other]
    BY DEF IInv, WritesTypeOK
  <1>3. built' => Distinct(rows)
    BY <1>1, RepeatsNot DEF UniqueInv, Guarded
  <1>4. Guarded'
    BY <1>1, <1>3 DEF Guarded
  <1>5. CASE Find(r)
    <2>1. Plain(r) /\ Becomes(r, [at |-> "declares"]) /\ UNCHANGED <<declared, built>>
      BY <1>5 DEF Find, Plain, Idle
    <2>2. BuiltOrOnItsWay
      BY DEF UniqueInv
    <2>. QED  BY <2>1, <2>2, <1>2, <1>4, OthersOnTheirWay DEF UniqueInv
  <1>6. CASE Declare(r)
    <2>1. req'[r] = [at |-> "builds"]
      BY <1>6, <1>2 DEF Declare, Becomes
    <2>2. req'[r].at = "builds"
      BY <2>1
    <2>. QED  BY <2>2, <1>4 DEF UniqueInv, BuiltOrOnItsWay
  <1>7. CASE Build(r)
    <2>1. built' \/ req'[r] = [at |-> "undeclares"]
      BY <1>7, <1>2 DEF Build, Becomes
    <2>2. built' \/ req'[r].at = "undeclares"
      BY <2>1
    <2>. QED  BY <2>2, <1>4 DEF UniqueInv, BuiltOrOnItsWay
  <1>8. CASE Undeclare(r)
    BY <1>8, <1>4 DEF Undeclare, UniqueInv, BuiltOrOnItsWay
  <1>. QED  BY <1>5, <1>6, <1>7, <1>8 DEF Index

LEMMA OutsideUnique ==
    ASSUME IInv, UniqueInv,
           \/ \E u \in User \cup {Nobody}, K \in SUBSET Named : Delete(u, K)
           \/ DropIndex \/ WritesRestart
    PROVE  UniqueInv'
  <1>1. CASE \E u \in User \cup {Nobody}, K \in SUBSET Named : Delete(u, K)
    <2>1. /\ conn = Free /\ UNCHANGED <<declared, built, conn, tx, req>>
          /\ \A k \in Key : rows'[k] = rows[k] \/ rows'[k] = None
      BY <1>1 DEF Delete
    <2>2. built => Distinct(rows')
      BY <2>1, FewerDistinct DEF UniqueInv, Guarded
    <2>. QED  BY <2>1, <2>2 DEF UniqueInv, Guarded, BuiltOrOnItsWay
  <1>2. CASE DropIndex
    BY <1>2 DEF DropIndex, UniqueInv, Guarded, BuiltOrOnItsWay
  <1>3. CASE WritesRestart
    BY <1>3 DEF WritesRestart, UniqueInv, Guarded, BuiltOrOnItsWay, Indexing
  <1>. QED  BY <1>1, <1>2, <1>3

LEMMA NextUnique == IInv /\ UniqueInv /\ [WritesNext]_writesVars => UniqueInv'
  <1>. SUFFICES ASSUME IInv, UniqueInv, [WritesNext]_writesVars PROVE UniqueInv'
    OBVIOUS
  <1>1. CASE UNCHANGED writesVars
    BY <1>1 DEF writesVars, UniqueInv, Guarded, BuiltOrOnItsWay
  <1>2. ASSUME NEW r \in Request, Write(r) PROVE UniqueInv'
    BY <1>2, PutUnique, DrawUnique, OperationsUnique, CommitUnique DEF Write
  <1>. QED
    BY <1>1, <1>2, BesideUnique, IndexUnique, OutsideUnique DEF WritesNext

\* While an index is declared and no request is at one, no two documents share a
\* value: whatever was written between the declaration and the building, by however
\* many transactions, and whoever else declares or drops the index meanwhile.
THEOREM UniqueKept == WritesSpec => []DeclaredUnique
  <1>1. UniqueInv => DeclaredUnique
    BY RepeatsNot DEF UniqueInv, Guarded, BuiltOrOnItsWay, DeclaredUnique, Indexing
  <1>. QED  BY <1>1, InitUnique, NextUnique, Invariance, PTL DEF WritesSpec

-----------------------------------------------------------------------------
(* The search index *)

\* A set of naturals that is not empty has a least element.
LEMMA LeastExists ==
    ASSUME NEW S \in SUBSET Nat, S # {}
    PROVE  \E k \in S : \A i \in S : k <= i
  <1>. DEFINE R == OpToRel(<, Nat)
  <1>1. IsWellFoundedOn(R, Nat)
    BY NatLessThanWellFounded
  <1>2. \A x, y \in Nat : x < y => <<x, y>> \in R
    BY DEF OpToRel
  <1>. HIDE DEF R
  <1>3. PICK k \in S : \A i \in S : ~ (<<i, k>> \in R)
    BY <1>1, WFMin
  <1>4. \A i \in S : ~ (i < k)
    BY <1>2, <1>3
  <1>5. \A i \in S : k <= i
    BY <1>4
  <1>. QED  BY <1>5

\* A finite recursion has a result.
Grows(grow, n, V) == \A k \in 1..n : \A v \in V : grow[k][v] \in V
Recurs(f, first, grow, n, V) == f \in [0..n -> V] /\ f[0] = first /\ \A k \in 1..n : f[k] = grow[k][f[k - 1]]

LEMMA RecursionEnds ==
    ASSUME NEW V, NEW first \in V, NEW n \in Nat, NEW grow, Grows(grow, n, V)
    PROVE  \E f : Recurs(f, first, grow, n, V)
  <1>. DEFINE Upto(m) == {f \in [0..m -> V] : f[0] = first /\ \A k \in 1..m : f[k] = grow[k][f[k - 1]]}
              Without == {m \in Nat : m <= n /\ Upto(m) = {}}
  <1>1. SUFFICES ASSUME Without # {} PROVE FALSE
    <2>1. n \notin Without => Upto(n) # {}
      OBVIOUS
    <2>2. Without = {} => Upto(n) # {}
      BY <2>1
    <2>. QED  BY <2>2 DEF Recurs
  <1>2. PICK k \in Without : \A i \in Without : k <= i
    BY <1>1, LeastExists
  <1>3. CASE k = 0
    <2>1. [i \in 0..0 |-> first] \in Upto(0)
      OBVIOUS
    <2>. QED  BY <1>2, <1>3, <2>1
  <1>4. CASE k # 0
    <2>1. k \in Nat /\ k <= n /\ Upto(k) = {}
      BY <1>2
    <2>2. k - 1 \in Nat /\ k - 1 <= n /\ ~(k <= k - 1)
      BY <2>1, <1>4
    <2>3. Upto(k - 1) # {}
      BY <1>2, <2>2
    <2>4. PICK g \in [0..(k - 1) -> V] : g[0] = first /\ \A i \in 1..(k - 1) : g[i] = grow[i][g[i - 1]]
      BY <2>3
    <2>. DEFINE h == [i \in 0..k |-> IF i = k THEN grow[k][g[k - 1]] ELSE g[i]]
    <2>5. g[k - 1] \in V /\ k \in 1..n
      BY <2>1, <2>2, <2>4, <1>4
    <2>6. grow[k][g[k - 1]] \in V
      BY <2>5 DEF Grows
    <2>7. h \in [0..k -> V]
      <3>. SUFFICES ASSUME NEW i \in 0..k PROVE (IF i = k THEN grow[k][g[k - 1]] ELSE g[i]) \in V
        OBVIOUS
      <3>1. i # k => i \in 0..(k - 1)
        BY <2>1
      <3>. QED  BY <2>4, <2>6, <3>1
    <2>8. h[0] = first
      BY <2>1, <2>4, <1>4
    <2>9. ASSUME NEW i \in 1..k PROVE h[i] = grow[i][h[i - 1]]
      <3>1. i \in 0..k /\ i - 1 \in 0..k /\ i - 1 # k /\ h[i - 1] = g[i - 1]
        BY <2>1
      <3>2. CASE i = k
        BY <3>1, <3>2
      <3>3. CASE i # k
        <4>1. i \in 1..(k - 1) /\ h[i] = g[i]
          BY <3>1, <3>3, <2>1
        <4>. QED  BY <4>1, <3>1, <2>4
      <3>. QED  BY <3>2, <3>3
    <2>. HIDE DEF h
    <2>10. h \in Upto(k)
      BY <2>7, <2>8, <2>9
    <2>. QED  BY <2>1, <2>10
  <1>. QED  BY <1>3, <1>4

\* Who comes before each is fewer than all; no two have the same before them; so each place is taken.
Strict(S, before) ==
    /\ before \in [S -> SUBSET S]
    /\ \A d \in S : d \notin before[d]
    /\ \A d, e \in S : d # e => d \in before[e] \/ e \in before[d]
    /\ \A d, e, f \in S : d \in before[e] /\ e \in before[f] => d \in before[f]
Ranks(S, before) ==
    LET order == Ordered(S, before)  n == Cardinality(S) IN
    /\ n \in Nat /\ order \in [1..n -> S]
    /\ \A d \in S : \E k \in 1..n : order[k] = d
    /\ \A j, k \in 1..n : j < k <=> order[j] \in before[order[k]]

LEMMA OrderedIs ==
    ASSUME NEW S, IsFiniteSet(S), NEW before, Strict(S, before)
    PROVE  Ranks(S, before)
  <1>. DEFINE n == Cardinality(S)
              rank == [d \in S |-> Cardinality(before[d]) + 1]
              O == Ordered(S, before)
  <1>0. /\ before \in [S -> SUBSET S]
        /\ \A d \in S : d \notin before[d]
        /\ \A d, e \in S : d # e => d \in before[e] \/ e \in before[d]
        /\ \A d, e, f \in S : d \in before[e] /\ e \in before[f] => d \in before[f]
    BY DEF Strict
  <1>1. n \in Nat
    BY FS_CardinalityType
  <1>2. ASSUME NEW d \in S PROVE IsFiniteSet(before[d]) /\ Cardinality(before[d]) \in Nat /\ Cardinality(before[d]) < n
    <2>1. before[d] \in SUBSET S /\ before[d] # S
      BY <1>0
    <2>2. IsFiniteSet(before[d]) /\ Cardinality(before[d]) <= n /\ Cardinality(before[d]) # n
      BY <2>1, FS_Subset
    <2>3. Cardinality(before[d]) \in Nat
      BY <2>2, FS_CardinalityType
    <2>. QED  BY <2>2, <2>3, <1>1
  <1>3. ASSUME NEW d \in S, NEW e \in S, d \in before[e] PROVE Cardinality(before[d]) < Cardinality(before[e])
    <2>1. before[d] \in SUBSET before[e] /\ before[d] # before[e]
      BY <1>0, <1>3
    <2>2. Cardinality(before[d]) <= Cardinality(before[e]) /\ Cardinality(before[d]) # Cardinality(before[e])
      BY <2>1, <1>2, FS_Subset
    <2>. QED  BY <2>2, <1>2
  <1>4. \A d, e \in S : Cardinality(before[d]) = Cardinality(before[e]) => d = e
    <2>. SUFFICES ASSUME NEW d \in S, NEW e \in S, Cardinality(before[d]) = Cardinality(before[e]), d # e PROVE FALSE
      OBVIOUS
    <2>1. d \in before[e] \/ e \in before[d]
      BY <1>0
    <2>. QED  BY <2>1, <1>2, <1>3
  <1>5. rank \in [S -> 1..n] /\ \A d, e \in S : rank[d] = rank[e] => d = e
    BY <1>1, <1>2, <1>4
  <1>6. rank \in Injection(S, 1..n)
    BY <1>5 DEF Injection, IsInjective
  <1>7. IsFiniteSet(1..n) /\ Cardinality(1..n) = n
    BY <1>1, FS_Interval
  <1>8. rank \in Surjection(S, 1..n)
    <2>. HIDE DEF rank
    <2>. QED  BY <1>6, <1>7, FS_Injection
  <1>9. \A k \in 1..n : \E d \in S : Cardinality(before[d]) = k - 1
    <2>1. \A k \in 1..n : \E d \in S : rank[d] = k
      BY <1>8 DEF Surjection
    <2>. SUFFICES ASSUME NEW k \in 1..n PROVE \E d \in S : Cardinality(before[d]) = k - 1
      OBVIOUS
    <2>2. PICK d \in S : rank[d] = k
      BY <2>1
    <2>3. Cardinality(before[d]) + 1 = k /\ Cardinality(before[d]) \in Nat
      BY <2>2, <1>2
    <2>. QED  BY <2>3
  <1>10. O = [k \in 1..n |-> CHOOSE d \in S : Cardinality(before[d]) = k - 1]
    BY DEF Ordered
  <1>11. \A k \in 1..n : O[k] \in S /\ Cardinality(before[O[k]]) = k - 1
    BY <1>9, <1>10
  <1>12. O \in [1..n -> S]
    BY <1>10, <1>11
  <1>. HIDE DEF n, O, rank
  <1>13. \A d \in S : \E k \in 1..n : O[k] = d
    <2>. SUFFICES ASSUME NEW d \in S PROVE \E k \in 1..n : O[k] = d
      OBVIOUS
    <2>. DEFINE k == Cardinality(before[d]) + 1
    <2>1. k \in 1..n /\ k - 1 = Cardinality(before[d])
      BY <1>1, <1>2
    <2>. HIDE DEF k
    <2>2. O[k] = d
      BY <2>1, <1>11, <1>4
    <2>. QED  BY <2>1, <2>2
  <1>14. ASSUME NEW j \in 1..n, NEW k \in 1..n PROVE j < k <=> O[j] \in before[O[k]]
    <2>1. /\ O[j] \in S /\ Cardinality(before[O[j]]) = j - 1
          /\ O[k] \in S /\ Cardinality(before[O[k]]) = k - 1
      BY <1>11
    <2>2. O[j] \in before[O[k]] => j - 1 < k - 1
      BY <2>1, <1>3
    <2>3. O[k] \in before[O[j]] => k - 1 < j - 1
      BY <2>1, <1>3
    <2>4. j # k => O[j] # O[k]
      BY <2>1
    <2>5. j # k => O[j] \in before[O[k]] \/ O[k] \in before[O[j]]
      BY <1>0, <2>1, <2>4
    <2>. QED  BY <2>2, <2>3, <2>5, <1>1
  <1>. QED  BY <1>1, <1>12, <1>13, <1>14 DEF Ranks, n, O


\* What holds of none and of each after the one before holds of all.
LEMMA CountedUp ==
    ASSUME NEW n \in Nat, NEW G, 0 \in G, \A k \in 1..n : k - 1 \in G => k \in G
    PROVE  \A k \in 0..n : k \in G
  <1>. DEFINE Without == {k \in Nat : k <= n /\ k \notin G}
  <1>1. SUFFICES ASSUME Without # {} PROVE FALSE
    OBVIOUS
  <1>2. PICK k \in Without : \A i \in Without : k <= i
    BY <1>1, LeastExists
  <1>3. k \in Nat /\ k <= n /\ k \notin G /\ k # 0
    BY <1>2
  <1>4. k \in 1..n /\ k - 1 \in Nat /\ k - 1 <= n /\ ~(k <= k - 1)
    BY <1>3
  <1>5. k - 1 \in G
    BY <1>2, <1>4
  <1>. QED  BY <1>3, <1>4, <1>5

LEMMA JoinIs ==
    ASSUME NEW X, NEW u \in Seq(X), NEW v \in Seq(X)
    PROVE  /\ u \o v \in Seq(X) /\ Len(u \o v) = Len(u) + Len(v)
           /\ \A j \in 1..(Len(u) + Len(v)) : (u \o v)[j] = IF j <= Len(u) THEN u[j] ELSE v[j - Len(u)]
  OBVIOUS

LEMMA InsertIs ==
    ASSUME NEW X, NEW s \in Seq(X), NEW p \in 1..(Len(s) + 1), NEW e \in X
    PROVE  /\ InsertAt(s, p, e) \in Seq(X) /\ Len(InsertAt(s, p, e)) = Len(s) + 1
           /\ \A j \in 1..(Len(s) + 1) : InsertAt(s, p, e)[j] = IF j < p THEN s[j] ELSE IF j = p THEN e ELSE s[j - 1]
  <1>. DEFINE n == Len(s)  a == SubSeq(s, 1, p - 1)  b == SubSeq(s, p, n)
  <1>1. n \in Nat /\ DOMAIN s = 1..n /\ p \in Nat /\ p - 1 \in Nat /\ p - 1 <= n
    OBVIOUS
  <1>2. a \in Seq(X) /\ Len(a) = p - 1 /\ \A j \in 1..(p - 1) : a[j] = s[j]
    BY <1>1
  <1>3. b \in Seq(X) /\ Len(b) = n - p + 1 /\ \A j \in 1..(n - p + 1) : b[j] = s[p + j - 1]
    BY <1>1
  <1>4. InsertAt(s, p, e) = a \o <<e>> \o b
    BY DEF InsertAt
  <1>. HIDE DEF a, b, n
  <1>. DEFINE c == a \o <<e>>
  <1>5. c \in Seq(X) /\ Len(c) = p /\ c[p] = e /\ \A j \in 1..(p - 1) : c[j] = s[j]
    BY <1>1, <1>2
  <1>. HIDE DEF c
  <1>6. c \o b \in Seq(X) /\ Len(c \o b) = n + 1 /\ \A j \in 1..(n + 1) : (c \o b)[j] = IF j <= p THEN c[j] ELSE b[j - p]
    <2>1. Len(c) + Len(b) = n + 1 /\ b \in Seq(X)
      BY <1>1, <1>3, <1>5
    <2>2. /\ c \o b \in Seq(X) /\ Len(c \o b) = Len(c) + Len(b)
          /\ \A j \in 1..(Len(c) + Len(b)) : (c \o b)[j] = IF j <= Len(c) THEN c[j] ELSE b[j - Len(c)]
      BY <1>5, <2>1, JoinIs
    <2>. QED  BY <1>5, <2>1, <2>2
  <1>7. \A j \in 1..(n + 1) : (c \o b)[j] = IF j <= p THEN c[j] ELSE b[j - p]
    BY <1>6
  <1>8. ASSUME NEW j \in 1..(n + 1) PROVE (c \o b)[j] = IF j < p THEN s[j] ELSE IF j = p THEN e ELSE s[j - 1]
    <2>1. CASE j < p
      BY <2>1, <1>1, <1>5, <1>7
    <2>2. CASE j = p
      BY <2>2, <1>1, <1>5, <1>7
    <2>3. CASE j > p
      <3>1. j - p \in 1..(n - p + 1) /\ p + (j - p) - 1 = j - 1
        BY <2>3, <1>1
      <3>2. b[j - p] = s[j - 1]
        BY <3>1, <1>3
      <3>3. ~(j <= p)
        BY <2>3, <1>1
      <3>4. (c \o b)[j] = b[j - p]
        BY <3>3, <1>7
      <3>. QED  BY <2>3, <3>2, <3>4, <1>1
    <2>4. j < p \/ j = p \/ j > p
      BY <1>1
    <2>. QED  BY <2>1, <2>2, <2>3, <2>4
  <1>. QED  BY <1>4, <1>6, <1>8 DEF c, n

-----------------------------------------------------------------------------
(* Splicing *)

PinsOf(X) == [id : X, pos : Nat]

\* No place twice the same.
Once(s) == \A i, j \in DOMAIN s : s[i] = s[j] => i = j

\* A pin put in: where, and what stands where.
Spot(s, pin) == Least(pin.pos, Len(s)) + 1
Enters(s, pin, X) ==
    LET t == PutIn(s, pin)  p == Spot(s, pin) IN
    /\ t \in Seq(X) /\ Len(t) = Len(s) + 1 /\ p \in 1..(Len(s) + 1) /\ pin.id \in X
    /\ \A j \in 1..(Len(s) + 1) : t[j] = IF j < p THEN s[j] ELSE IF j = p THEN pin.id ELSE s[j - 1]

LEMMA PutInIs ==
    ASSUME NEW X, NEW s \in Seq(X), NEW pin \in PinsOf(X)
    PROVE  Enters(s, pin, X)
  <1>1. pin.id \in X /\ pin.pos \in Nat
    BY DEF PinsOf
  <1>2. Spot(s, pin) \in 1..(Len(s) + 1)
    BY <1>1 DEF Spot, Least
  <1>. DEFINE p == Spot(s, pin)  e == pin.id
  <1>3. PutIn(s, pin) = InsertAt(s, p, e)
    BY DEF PutIn, Spot
  <1>. HIDE DEF p
  <1>4. /\ InsertAt(s, p, e) \in Seq(X) /\ Len(InsertAt(s, p, e)) = Len(s) + 1
        /\ \A j \in 1..(Len(s) + 1) : InsertAt(s, p, e)[j] = IF j < p THEN s[j] ELSE IF j = p THEN e ELSE s[j - 1]
    <2>1. p \in 1..(Len(s) + 1)
      BY <1>2 DEF p
    <2>2. e \in X
      BY <1>1
    <2>. HIDE DEF e
    <2>. QED  BY <2>1, <2>2, InsertIs
  <1>. QED  BY <1>1, <1>2, <1>3, <1>4 DEF Enters, p

\* A pin adds its document, once if it was not there.
Adds(s, pin) ==
    /\ ToSet(PutIn(s, pin)) = ToSet(s) \cup {pin.id}
    /\ Once(s) /\ pin.id \notin ToSet(s) => Once(PutIn(s, pin))

LEMMA PutInAdds ==
    ASSUME NEW X, NEW s \in Seq(X), NEW pin \in PinsOf(X)
    PROVE  Adds(s, pin)
  <1>. DEFINE t == PutIn(s, pin)  n == Len(s)  p == Spot(s, pin)  e == pin.id
  <1>1. Enters(s, pin, X)
    BY PutInIs
  <1>2. /\ t \in Seq(X) /\ Len(t) = n + 1 /\ n \in Nat /\ p \in 1..(n + 1)
        /\ \A j \in 1..(n + 1) : t[j] = IF j < p THEN s[j] ELSE IF j = p THEN e ELSE s[j - 1]
    BY <1>1 DEF Enters
  <1>. HIDE DEF t, p, e
  <1>3. DOMAIN t = 1..(n + 1) /\ DOMAIN s = 1..n
    BY <1>2
  <1>. HIDE DEF n
  <1>4. \A j \in 1..n : \E i \in 1..(n + 1) : t[i] = s[j]
    <2>. SUFFICES ASSUME NEW j \in 1..n PROVE \E i \in 1..(n + 1) : t[i] = s[j]
      OBVIOUS
    <2>1. CASE j < p
      <3>1. j \in 1..(n + 1) /\ t[j] = s[j]
        BY <2>1, <1>2
      <3>. QED  BY <3>1
    <2>2. CASE ~(j < p)
      <3>1. j + 1 \in 1..(n + 1) /\ ~(j + 1 < p) /\ j + 1 # p /\ j + 1 - 1 = j
        BY <2>2, <1>2
      <3>2. t[j + 1] = s[j]
        BY <3>1, <1>2
      <3>. QED  BY <3>1, <3>2
    <2>. QED  BY <2>1, <2>2
  <1>5. \A i \in 1..(n + 1) : t[i] = e \/ \E j \in 1..n : t[i] = s[j]
    <2>. SUFFICES ASSUME NEW i \in 1..(n + 1), t[i] # e PROVE \E j \in 1..n : t[i] = s[j]
      OBVIOUS
    <2>1. CASE i < p
      <3>1. i \in 1..n /\ t[i] = s[i]
        BY <2>1, <1>2
      <3>. QED  BY <3>1
    <2>2. CASE ~(i < p)
      <3>1. i # p
        BY <1>2, <2>2
      <3>2. i - 1 \in 1..n /\ t[i] = s[i - 1]
        BY <2>2, <3>1, <1>2
      <3>. QED  BY <3>2
    <2>. QED  BY <2>1, <2>2
  <1>6. p \in 1..(n + 1) /\ t[p] = e
    BY <1>2
  <1>7. ToSet(t) = ToSet(s) \cup {e}
    BY <1>3, <1>4, <1>5, <1>6 DEF ToSet
  <1>8. ASSUME Once(s), e \notin ToSet(s), NEW i \in 1..(n + 1), NEW j \in 1..(n + 1), t[i] = t[j]
        PROVE  i = j
    <2>1. \A k \in 1..n : s[k] # e
      BY <1>8, <1>3 DEF ToSet
    <2>2. \A k, l \in 1..n : s[k] = s[l] => k = l
      BY <1>8, <1>3 DEF Once
    <2>. DEFINE at(k) == IF k < p THEN k ELSE k - 1
    <2>3. \A k \in 1..(n + 1) : k # p => at(k) \in 1..n /\ t[k] = s[at(k)]
      BY <1>2
    <2>4. i = p <=> j = p
      BY <2>1, <2>3, <1>6, <1>8
    <2>5. i # p => at(i) = at(j)
      BY <2>2, <2>3, <2>4, <1>8
    <2>. QED  BY <2>4, <2>5, <1>2
  <1>9. Once(s) /\ e \notin ToSet(s) => Once(t)
    BY <1>3, <1>8 DEF Once
  <1>. QED  BY <1>7, <1>9 DEF Adds, t, e

\* A list after each pin.
Splices(h, found, live) == h[0] = found /\ \A k \in 1..Len(live) : h[k] = PutIn(h[k - 1], live[k])

LEMMA LiveIs ==
    ASSUME NEW X, NEW live \in Seq(PinsOf(X))
    PROVE  Len(live) \in Nat /\ DOMAIN live = 1..Len(live) /\ \A k \in 1..Len(live) : live[k] \in PinsOf(X)
  OBVIOUS

LEMMA SplicedIs ==
    ASSUME NEW X, NEW found \in Seq(X), NEW live \in Seq(PinsOf(X))
    PROVE  \E h : Splices(h, found, live) /\ Spliced(found, live) = h[Len(live)]
  <1>. DEFINE n == Len(live)  D == 0..n
              grow == [k \in 1..n |-> [s \in Seq(X) |-> PutIn(s, live[k])]]
              Eq(f) == f = [k \in D |-> IF k = 0 THEN found ELSE PutIn(f[k - 1], live[k])]
  <1>1. n \in Nat /\ \A k \in 1..n : live[k] \in PinsOf(X)
    BY LiveIs
  <1>2. ASSUME NEW k \in 1..n, NEW s \in Seq(X) PROVE PutIn(s, live[k]) \in Seq(X)
    <2>1. Enters(s, live[k], X)
      BY <1>1, PutInIs
    <2>. QED  BY <2>1 DEF Enters
  <1>. HIDE DEF n
  <1>3. Grows(grow, n, Seq(X))
    BY <1>2 DEF Grows
  <1>4. \A k \in 1..n : \A s \in Seq(X) : grow[k][s] = PutIn(s, live[k])
    OBVIOUS
  <1>. HIDE DEF grow
  <1>5. \E f : Recurs(f, found, grow, n, Seq(X))
    BY <1>1, <1>3, RecursionEnds
  <1>6. PICK g \in [0..n -> Seq(X)] : g[0] = found /\ \A k \in 1..n : g[k] = grow[k][g[k - 1]]
    BY <1>5 DEF Recurs
  <1>7. \A k \in 1..n : k - 1 \in 0..n /\ g[k - 1] \in Seq(X)
    BY <1>1, <1>6
  <1>8. \A k \in 1..n : g[k] = PutIn(g[k - 1], live[k])
    BY <1>4, <1>6, <1>7
  <1>9. Eq(g)
    <2>1. \A k \in D : g[k] = IF k = 0 THEN found ELSE PutIn(g[k - 1], live[k])
      BY <1>1, <1>6, <1>8
    <2>. QED  BY <1>6, <2>1
  <1>. DEFINE w == CHOOSE f : Eq(f)
  <1>10. Eq(w)
    <2>. HIDE DEF Eq
    <2>. QED  BY <1>9
  <1>11. Spliced(found, live) = w[n]
    BY DEF Spliced, n
  <1>. HIDE DEF w
  <1>12. \A k \in D : w[k] = IF k = 0 THEN found ELSE PutIn(w[k - 1], live[k])
    BY <1>10
  <1>13. w[0] = found /\ \A k \in 1..n : w[k] = PutIn(w[k - 1], live[k])
    BY <1>1, <1>12
  <1>14. Splices(w, found, live)
    BY <1>13 DEF Splices, n
  <1>. QED  BY <1>11, <1>14 DEF n

\* Pins of documents that are not there yet, each of another.
Apart(found, live) ==
    /\ Once(found)
    /\ \A j \in 1..Len(live) : live[j].id \notin ToSet(found)
    /\ \A j, k \in 1..Len(live) : live[j].id = live[k].id => j = k

\* A list grows by a document a pin, and holds them.
Grown(h, found, live, X, k) ==
    /\ h[k] \in Seq(X) /\ Len(h[k]) = Len(found) + k
    /\ ToSet(h[k]) = ToSet(found) \cup {live[j].id : j \in 1..k}
    /\ Apart(found, live) => Once(h[k])

LEMMA SplicesGrow ==
    ASSUME NEW X, NEW found \in Seq(X), NEW live \in Seq(PinsOf(X)), NEW h, Splices(h, found, live)
    PROVE  \A k \in 0..Len(live) : Grown(h, found, live, X, k)
  <1>. DEFINE n == Len(live)
              G == {k \in 0..n : Grown(h, found, live, X, k)}
  <1>1. n \in Nat /\ Len(found) \in Nat /\ \A k \in 1..n : live[k] \in PinsOf(X)
    BY LiveIs
  <1>2. h[0] = found /\ \A k \in 1..n : h[k] = PutIn(h[k - 1], live[k])
    BY DEF Splices
  <1>3. Grown(h, found, live, X, 0)
    <2>1. {live[j].id : j \in 1..0} = {}
      OBVIOUS
    <2>2. Apart(found, live) => Once(found)
      BY DEF Apart
    <2>. QED  BY <1>1, <2>1, <2>2, <1>2 DEF Grown
  <1>4. ASSUME NEW k \in 1..n, Grown(h, found, live, X, k - 1) PROVE Grown(h, found, live, X, k)
    <2>. DEFINE s == h[k - 1]  e == live[k].id
    <2>1. /\ s \in Seq(X) /\ Len(s) = Len(found) + (k - 1)
          /\ ToSet(s) = ToSet(found) \cup {live[j].id : j \in 1..(k - 1)}
          /\ Apart(found, live) => Once(s)
      BY <1>4 DEF Grown
    <2>2. live[k] \in PinsOf(X) /\ h[k] = PutIn(s, live[k])
      BY <1>1, <1>2
    <2>. HIDE DEF s
    <2>3. Enters(s, live[k], X) /\ Adds(s, live[k])
      BY <2>1, <2>2, PutInIs, PutInAdds
    <2>4. /\ h[k] \in Seq(X) /\ Len(h[k]) = Len(s) + 1 /\ ToSet(h[k]) = ToSet(s) \cup {e}
          /\ Once(s) /\ e \notin ToSet(s) => Once(h[k])
      BY <2>2, <2>3 DEF Enters, Adds
    <2>5. {live[j].id : j \in 1..k} = {live[j].id : j \in 1..(k - 1)} \cup {e}
      BY <1>1 DEF e
    <2>6. Apart(found, live) => e \notin ToSet(s)
      <3>. SUFFICES ASSUME Apart(found, live), e \in ToSet(s) PROVE FALSE
        OBVIOUS
      <3>1. k \in 1..Len(live) /\ e \notin ToSet(found)
        BY DEF Apart
      <3>2. PICK j \in 1..(k - 1) : live[j].id = e
        BY <2>1, <3>1
      <3>3. j \in 1..Len(live) /\ j # k
        BY <1>1
      <3>. QED  BY <3>1, <3>2, <3>3 DEF Apart
    <2>7. Len(h[k]) = Len(found) + k
      BY <2>1, <2>4, <1>1
    <2>. QED  BY <2>1, <2>4, <2>5, <2>6, <2>7 DEF Grown
  <1>5. \A k \in 1..n : Grown(h, found, live, X, k - 1) => Grown(h, found, live, X, k)
    BY <1>4
  <1>. HIDE DEF n
  <1>6. 0 \in G /\ \A k \in 1..n : k - 1 \in G => k \in G
    BY <1>1, <1>3, <1>5
  <1>. HIDE DEF G
  <1>7. \A k \in 0..n : k \in G
    BY <1>1, <1>6, CountedUp
  <1>. QED  BY <1>7 DEF G, n

\* Each list, from the one before it.
Stepped(h, found, live, X, k) ==
    /\ h[k - 1] \in Seq(X) /\ Len(h[k - 1]) = Len(found) + (k - 1)
    /\ live[k] \in PinsOf(X) /\ h[k] = PutIn(h[k - 1], live[k])

LEMMA SplicesStep ==
    ASSUME NEW X, NEW found \in Seq(X), NEW live \in Seq(PinsOf(X)), NEW h, Splices(h, found, live)
    PROVE  \A k \in 1..Len(live) : Stepped(h, found, live, X, k)
  <1>. SUFFICES ASSUME NEW k \in 1..Len(live) PROVE Stepped(h, found, live, X, k)
    OBVIOUS
  <1>1. Len(live) \in Nat /\ live[k] \in PinsOf(X)
    BY LiveIs
  <1>2. k - 1 \in 0..Len(live)
    BY <1>1
  <1>3. Grown(h, found, live, X, k - 1)
    BY <1>2, SplicesGrow
  <1>4. h[k] = PutIn(h[k - 1], live[k])
    BY DEF Splices
  <1>. QED  BY <1>1, <1>3, <1>4 DEF Grown, Stepped

\* What stands in the first places of two lists alike does so after a pin is put in.
Alike(t, s, m) == \A j \in 1..m : t[j] = s[j]

LEMMA PutInAlike ==
    ASSUME NEW X, NEW s \in Seq(X), NEW t \in Seq(X), NEW pin \in PinsOf(X), NEW m \in Nat,
           m <= Len(t), Len(t) <= Len(s), Alike(t, s, m)
    PROVE  Alike(PutIn(t, pin), PutIn(s, pin), m)
  <1>. DEFINE p == Spot(s, pin)  r == Spot(t, pin)  e == pin.id  a == Len(s)  b == Len(t)
  <1>1. Enters(s, pin, X) /\ Enters(t, pin, X)
    BY PutInIs
  <1>2. /\ \A j \in 1..(a + 1) : PutIn(s, pin)[j] = IF j < p THEN s[j] ELSE IF j = p THEN e ELSE s[j - 1]
        /\ \A j \in 1..(b + 1) : PutIn(t, pin)[j] = IF j < r THEN t[j] ELSE IF j = r THEN e ELSE t[j - 1]
        /\ p \in 1..(a + 1) /\ r \in 1..(b + 1)
    BY <1>1 DEF Enters
  <1>3. \A j \in 1..m : (j < p <=> j < r) /\ (j = p <=> j = r)
    BY DEF Spot, Least, PinsOf
  <1>4. a \in Nat /\ b \in Nat
    OBVIOUS
  <1>. HIDE DEF p, r, e, a, b
  <1>. SUFFICES ASSUME NEW j \in 1..m PROVE PutIn(t, pin)[j] = PutIn(s, pin)[j]
    BY DEF Alike
  <1>5. \A i \in 1..m : t[i] = s[i]
    BY DEF Alike
  <1>6. j \in 1..(a + 1) /\ j \in 1..(b + 1) /\ (~(j < p) /\ j # p => j - 1 \in 1..m)
    BY <1>2, <1>4 DEF a, b
  <1>. QED  BY <1>2, <1>3, <1>5, <1>6

\* What a pin is put in after, or at, stands.
Stays(s, pin, x) ==
    /\ x < pin.pos /\ x < Len(s) => PutIn(s, pin)[x + 1] = s[x + 1]
    /\ x = pin.pos /\ x <= Len(s) => PutIn(s, pin)[x + 1] = pin.id

LEMMA PutInStands ==
    ASSUME NEW X, NEW s \in Seq(X), NEW pin \in PinsOf(X), NEW x \in Nat
    PROVE  Stays(s, pin, x)
  <1>. DEFINE p == Spot(s, pin)
  <1>1. Enters(s, pin, X)
    BY PutInIs
  <1>2. (x < pin.pos /\ x < Len(s) => x + 1 < p) /\ (x = pin.pos /\ x <= Len(s) => x + 1 = p)
    BY DEF Spot, Least, PinsOf
  <1>. HIDE DEF p
  <1>3. \A j \in 1..(Len(s) + 1) : PutIn(s, pin)[j] = IF j < p THEN s[j] ELSE IF j = p THEN pin.id ELSE s[j - 1]
    BY <1>1 DEF Enters, p
  <1>4. x <= Len(s) => x + 1 \in 1..(Len(s) + 1)
    OBVIOUS
  <1>5. p \in Nat
    BY <1>1 DEF Enters, p
  <1>. QED  BY <1>2, <1>3, <1>4, <1>5 DEF Stays

\* All the pins put in.
Whole(found, live, X) ==
    LET all == Spliced(found, live) IN
    /\ all \in Seq(X) /\ Len(all) = Len(found) + Len(live)
    /\ ToSet(all) = ToSet(found) \cup {live[j].id : j \in 1..Len(live)}
    /\ Apart(found, live) => Once(all)

LEMMA SplicedGrows ==
    ASSUME NEW X, NEW found \in Seq(X), NEW live \in Seq(PinsOf(X))
    PROVE  Whole(found, live, X)
  <1>1. PICK h : Splices(h, found, live) /\ Spliced(found, live) = h[Len(live)]
    BY SplicedIs
  <1>2. Len(live) \in 0..Len(live)
    BY LiveIs
  <1>3. Grown(h, found, live, X, Len(live))
    BY <1>1, <1>2, SplicesGrow
  <1>. QED  BY <1>1, <1>3 DEF Grown, Whole

\* Pins put into the first places of a list stand there as in the whole of it.
LEMMA SplicesAlike ==
    ASSUME NEW X, NEW found \in Seq(X), NEW part \in Seq(X), NEW live \in Seq(PinsOf(X)),
           NEW h, Splices(h, found, live), NEW g, Splices(g, part, live),
           Len(part) <= Len(found), Alike(part, found, Len(part))
    PROVE  Alike(g[Len(live)], h[Len(live)], Len(part))
  <1>. DEFINE n == Len(live)  m == Len(part)
              G == {k \in 0..n : Alike(g[k], h[k], m)}
  <1>1. n \in Nat /\ m \in Nat /\ Len(found) \in Nat /\ m <= Len(found)
    BY LiveIs
  <1>2. Alike(g[0], h[0], m)
    BY DEF Splices
  <1>3. ASSUME NEW k \in 1..n, Alike(g[k - 1], h[k - 1], m) PROVE Alike(g[k], h[k], m)
    <2>. DEFINE s == h[k - 1]  t == g[k - 1]
    <2>1. Stepped(h, found, live, X, k) /\ Stepped(g, part, live, X, k)
      BY SplicesStep
    <2>2. /\ s \in Seq(X) /\ Len(s) = Len(found) + (k - 1) /\ t \in Seq(X) /\ Len(t) = m + (k - 1)
          /\ live[k] \in PinsOf(X) /\ h[k] = PutIn(s, live[k]) /\ g[k] = PutIn(t, live[k])
      BY <2>1 DEF Stepped
    <2>. HIDE DEF s, t
    <2>3. m <= Len(t) /\ Len(t) <= Len(s)
      BY <1>1, <2>2
    <2>4. Alike(t, s, m)
      BY <1>3 DEF s, t
    <2>. HIDE DEF m, n
    <2>5. Alike(PutIn(t, live[k]), PutIn(s, live[k]), m)
      BY <1>1, <2>2, <2>3, <2>4, PutInAlike
    <2>. QED  BY <2>2, <2>5
  <1>4. \A k \in 1..n : Alike(g[k - 1], h[k - 1], m) => Alike(g[k], h[k], m)
    BY <1>3
  <1>. HIDE DEF n, m
  <1>5. 0 \in G /\ \A k \in 1..n : k - 1 \in G => k \in G
    BY <1>1, <1>2, <1>4
  <1>. HIDE DEF G
  <1>6. \A k \in 0..n : k \in G
    BY <1>1, <1>5, CountedUp
  <1>7. n \in 0..n
    BY <1>1
  <1>. QED  BY <1>6, <1>7 DEF G, n, m

LEMMA SplicedAlike ==
    ASSUME NEW X, NEW found \in Seq(X), NEW part \in Seq(X), NEW live \in Seq(PinsOf(X)),
           Len(part) <= Len(found), Alike(part, found, Len(part))
    PROVE  Alike(Spliced(part, live), Spliced(found, live), Len(part))
  <1>1. PICK h : Splices(h, found, live) /\ Spliced(found, live) = h[Len(live)]
    BY SplicedIs
  <1>2. PICK g : Splices(g, part, live) /\ Spliced(part, live) = g[Len(live)]
    BY SplicedIs
  <1>3. Alike(g[Len(live)], h[Len(live)], Len(part))
    BY <1>1, <1>2, SplicesAlike
  <1>. QED  BY <1>1, <1>2, <1>3

\* Pins by their positions: one that stands before a later one is not moved by it.
Rising(live) == \A j, k \in 1..Len(live) : j < k => live[j].pos <= live[k].pos
Alone(live, l) == \A j \in 1..Len(live) : j # l => live[j].pos # live[l].pos

LEMMA SplicedStands ==
    ASSUME NEW X, NEW found \in Seq(X), NEW live \in Seq(PinsOf(X)),
           Rising(live), NEW l \in 1..Len(live), live[l].pos <= Len(found), Alone(live, l)
    PROVE  Spliced(found, live)[live[l].pos + 1] = live[l].id
  <1>0. PICK h : Splices(h, found, live) /\ Spliced(found, live) = h[Len(live)]
    BY SplicedIs
  <1>. DEFINE n == Len(live)  x == live[l].pos  d == live[l].id
              Stands(k) == l <= k => h[k][x + 1] = d
              G == {k \in 0..n : Stands(k)}
  <1>1. n \in Nat /\ Len(found) \in Nat /\ l \in 1..n /\ x \in Nat /\ x <= Len(found)
    BY LiveIs DEF PinsOf
  <1>2. ASSUME NEW k \in 1..n, Stands(k - 1) PROVE Stands(k)
    <2>. DEFINE s == h[k - 1]  y == live[k].pos
    <2>1. Stepped(h, found, live, X, k)
      BY <1>0, SplicesStep
    <2>2. s \in Seq(X) /\ Len(s) = Len(found) + (k - 1) /\ live[k] \in PinsOf(X) /\ h[k] = PutIn(s, live[k])
      BY <2>1 DEF Stepped
    <2>3. y \in Nat
      BY <2>2 DEF PinsOf
    <2>4. l <= k - 1 => s[x + 1] = d
      BY <1>2
    <2>5. l < k => x <= y /\ y # x
      BY <1>1 DEF Rising, Alone
    <2>. HIDE DEF s
    <2>6. /\ x < y /\ x < Len(s) => h[k][x + 1] = s[x + 1]
          /\ x = y /\ x <= Len(s) => h[k][x + 1] = live[k].id
      <3>. HIDE DEF x
      <3>1. Stays(s, live[k], x)
        BY <1>1, <2>2, PutInStands
      <3>. QED  BY <2>2, <3>1 DEF Stays
    <2>7. l = k => x = y /\ live[k].id = d
      OBVIOUS
    <2>. HIDE DEF y, x, n, d
    <2>8. CASE l < k
      <3>1. l <= k - 1 /\ x < y /\ x < Len(s)
        BY <2>8, <1>1, <2>2, <2>3, <2>5
      <3>. QED  BY <3>1, <2>4, <2>6
    <2>9. CASE l = k
      <3>1. x <= Len(s)
        BY <2>9, <1>1, <2>2
      <3>. QED  BY <3>1, <2>6, <2>7, <2>9
    <2>10. CASE ~(l <= k)
      BY <2>10
    <2>11. l < k \/ l = k \/ ~(l <= k)
      BY <1>1
    <2>. QED  BY <2>8, <2>9, <2>10, <2>11
  <1>3. Stands(0)
    BY <1>1
  <1>4. \A k \in 1..n : Stands(k - 1) => Stands(k)
    BY <1>2
  <1>. HIDE DEF Stands, n, x
  <1>5. 0 \in G /\ \A k \in 1..n : k - 1 \in G => k \in G
    BY <1>1, <1>3, <1>4
  <1>. HIDE DEF G
  <1>6. \A k \in 0..n : k \in G
    BY <1>1, <1>5, CountedUp
  <1>7. n \in 0..n /\ l <= n
    BY <1>1
  <1>. QED  BY <1>0, <1>6, <1>7 DEF G, Stands, n, x

-----------------------------------------------------------------------------
(* Pages *)

LEMMA SliceIs ==
    ASSUME NEW X, NEW s \in Seq(X), NEW a \in Nat \ {0}, NEW b \in Nat, b <= Len(s)
    PROVE  /\ SubSeq(s, a, b) \in Seq(X) /\ Len(SubSeq(s, a, b)) = (IF a <= b THEN b - a + 1 ELSE 0)
           /\ \A j \in 1..(b - a + 1) : SubSeq(s, a, b)[j] = s[a + j - 1]
  OBVIOUS

LEMMA SameElements ==
    ASSUME NEW X, NEW s \in Seq(X), NEW t \in Seq(X), Len(s) = Len(t), \A j \in 1..Len(s) : s[j] = t[j]
    PROVE  s = t
  OBVIOUS

LEMMA SliceAlike ==
    ASSUME NEW X, NEW s \in Seq(X), NEW t \in Seq(X), NEW a \in Nat \ {0}, NEW b \in Nat,
           b <= Len(s), b <= Len(t), Alike(t, s, b)
    PROVE  SubSeq(t, a, b) = SubSeq(s, a, b)
  <1>1. \A j \in 1..b : t[j] = s[j]
    BY DEF Alike
  <1>. DEFINE u == SubSeq(s, a, b)  v == SubSeq(t, a, b)
  <1>2. /\ u \in Seq(X) /\ Len(u) = (IF a <= b THEN b - a + 1 ELSE 0)
        /\ \A j \in 1..(b - a + 1) : u[j] = s[a + j - 1]
    BY SliceIs
  <1>3. /\ v \in Seq(X) /\ Len(v) = (IF a <= b THEN b - a + 1 ELSE 0)
        /\ \A j \in 1..(b - a + 1) : v[j] = t[a + j - 1]
    BY SliceIs
  <1>. HIDE DEF u, v
  <1>4. \A j \in 1..(b - a + 1) : a + j - 1 \in 1..b
    OBVIOUS
  <1>5. \A j \in 1..Len(u) : u[j] = v[j]
    BY <1>1, <1>2, <1>3, <1>4
  <1>. QED  BY <1>2, <1>3, <1>5, SameElements DEF u, v

Slice(s, a, n) == SubSeq(s, a + 1, Least(n, Len(s)))

LEMMA SliceSame ==
    ASSUME NEW X, NEW s \in Seq(X), NEW t \in Seq(X), NEW from \in Nat, NEW to \in Nat,
           to <= Len(s), to <= Len(t), Alike(t, s, to)
    PROVE  Slice(t, from, to) = Slice(s, from, to)
  <1>. DEFINE a == from + 1
  <1>1. a \in Nat \ {0}
    OBVIOUS
  <1>. HIDE DEF a
  <1>2. SubSeq(t, a, to) = SubSeq(s, a, to)
    BY <1>1, SliceAlike
  <1>3. Least(to, Len(t)) = to /\ Least(to, Len(s)) = to
    BY DEF Least
  <1>. QED  BY <1>2, <1>3 DEF Slice, a

LEMMA SliceJoined ==
    ASSUME NEW X, NEW s \in Seq(X), NEW m \in Nat, NEW n \in Nat, m <= n, n <= Len(s)
    PROVE  SubSeq(s, 1, m) \o SubSeq(s, m + 1, n) = SubSeq(s, 1, n)
  <1>. DEFINE u == SubSeq(s, 1, m)  v == SubSeq(s, m + 1, n)  w == SubSeq(s, 1, n)
  <1>1. u \in Seq(X) /\ Len(u) = m /\ \A j \in 1..m : u[j] = s[j]
    OBVIOUS
  <1>2. v \in Seq(X) /\ Len(v) = n - m /\ \A j \in 1..(n - m) : v[j] = s[m + j]
    OBVIOUS
  <1>3. w \in Seq(X) /\ Len(w) = n /\ \A j \in 1..n : w[j] = s[j]
    OBVIOUS
  <1>. HIDE DEF u, v, w
  <1>4. u \o v \in Seq(X) /\ Len(u \o v) = n /\ \A j \in 1..n : (u \o v)[j] = IF j <= m THEN u[j] ELSE v[j - m]
    <2>1. u \in Seq(X) /\ v \in Seq(X)
      BY <1>1, <1>2
    <2>2. /\ u \o v \in Seq(X) /\ Len(u \o v) = Len(u) + Len(v)
          /\ \A j \in 1..(Len(u) + Len(v)) : (u \o v)[j] = IF j <= Len(u) THEN u[j] ELSE v[j - Len(u)]
      BY <2>1, JoinIs
    <2>3. Len(u) = m /\ Len(u) + Len(v) = n
      BY <1>1, <1>2
    <2>. QED  BY <2>2, <2>3
  <1>5. \A j \in 1..n : (u \o v)[j] = s[j]
    <2>. SUFFICES ASSUME NEW j \in 1..n PROVE (u \o v)[j] = s[j]
      OBVIOUS
    <2>1. CASE j <= m
      <3>1. j \in 1..m
        BY <2>1
      <3>. QED  BY <3>1, <2>1, <1>1, <1>4
    <2>2. CASE ~(j <= m)
      <3>1. j - m \in 1..(n - m) /\ m + (j - m) = j
        BY <2>2
      <3>2. v[j - m] = s[j]
        BY <3>1, <1>2
      <3>. QED  BY <3>2, <2>2, <1>4
    <2>. QED  BY <2>1, <2>2
  <1>6. \A j \in 1..Len(u \o v) : (u \o v)[j] = w[j]
    BY <1>3, <1>4, <1>5
  <1>7. u \o v = w
    BY <1>3, <1>4, <1>6, SameElements
  <1>. QED  BY <1>7 DEF u, v, w

\* The page read with room for the pins, the pins put in, and cut: what comes next of the whole, and
\* whether there is more.
Upto(s, n) == Slice(s, 0, n)
Paged(found, live, from, to, room) ==
    /\ Slice(Spliced(Upto(found, to + room), live), from, to) = Slice(Spliced(found, live), from, to)
    /\ Len(found) > to + room \/ Len(Spliced(Upto(found, to + room), live)) > to <=> Len(Spliced(found, live)) > to

LEMMA PageIs ==
    ASSUME NEW X, NEW found \in Seq(X), NEW live \in Seq(PinsOf(X)),
           NEW from \in Nat, NEW to \in Nat, NEW room \in Nat, Len(live) <= room
    PROVE  Paged(found, live, from, to, room)
  <1>. DEFINE cut == Least(to + room, Len(found))  part == Upto(found, to + room)
              all == Spliced(part, live)  whole == Spliced(found, live)
  <1>1. cut \in Nat /\ cut <= Len(found) /\ cut <= to + room /\ (Len(found) <= to + room => cut = Len(found))
        /\ (Len(found) > to + room => cut = to + room) /\ Len(live) \in Nat /\ Len(found) \in Nat
    BY LiveIs DEF Least
  <1>2. part = SubSeq(found, 1, cut)
    <2>1. 0 + 1 = 1
      OBVIOUS
    <2>. QED  BY <2>1 DEF Upto, Slice
  <1>. HIDE DEF part, cut
  <1>3. part \in Seq(X) /\ Len(part) = cut /\ \A j \in 1..cut : part[j] = found[j]
    BY <1>1, <1>2
  <1>4. Whole(found, live, X) /\ Whole(part, live, X)
    BY <1>3, SplicedGrows
  <1>5. /\ whole \in Seq(X) /\ Len(whole) = Len(found) + Len(live)
        /\ all \in Seq(X) /\ Len(all) = cut + Len(live)
    BY <1>3, <1>4 DEF Whole
  <1>. SUFFICES /\ Slice(all, from, to) = Slice(whole, from, to)
                /\ Len(found) > to + room \/ Len(all) > to <=> Len(whole) > to
    BY DEF Paged, part
  <1>6. CASE Len(found) <= to + room
    <2>1. part = found
      BY <1>1, <1>3, <1>6, SameElements
    <2>2. ~(Len(found) > to + room) /\ all = whole
      BY <2>1, <1>6, <1>1
    <2>. QED  BY <2>2
  <1>7. CASE Len(found) > to + room
    <2>1. Alike(part, found, Len(part)) /\ Len(part) <= Len(found)
      BY <1>1, <1>3 DEF Alike
    <2>2. Alike(all, whole, cut)
      BY <2>1, <1>3, SplicedAlike
    <2>. HIDE DEF all, whole
    <2>3. cut = to + room /\ to <= Len(all) /\ to <= Len(whole) /\ Len(whole) > to
      BY <1>1, <1>5, <1>7
    <2>4. Alike(all, whole, to)
      BY <2>2, <2>3, <1>1 DEF Alike
    <2>5. Slice(all, from, to) = Slice(whole, from, to)
      <3>1. all \in Seq(X) /\ whole \in Seq(X)
        BY <1>5
      <3>2. to <= Len(whole) /\ to <= Len(all)
        BY <2>3
      <3>. QED  BY <3>1, <3>2, <2>4, SliceSame
    <2>. QED  BY <2>3, <2>5, <1>7
  <1>8. Len(found) <= to + room \/ Len(found) > to + room
    BY <1>1
  <1>. QED  BY <1>6, <1>7, <1>8

-----------------------------------------------------------------------------
(* What a query shows *)

Lists(S, before) ==
    LET order == Ordered(S, before)  n == Cardinality(S) IN
    /\ order \in Seq(S) /\ Len(order) = n /\ n \in Nat /\ Once(order) /\ ToSet(order) = S
    /\ \A j, k \in 1..n : j < k <=> order[j] \in before[order[k]]

LEMMA OrderedLists ==
    ASSUME NEW S, IsFiniteSet(S), NEW before, Strict(S, before)
    PROVE  Lists(S, before)
  <1>. DEFINE O == Ordered(S, before)  n == Cardinality(S)
  <1>1. Ranks(S, before)
    BY OrderedIs
  <1>2. /\ n \in Nat /\ O \in [1..n -> S]
        /\ \A d \in S : \E k \in 1..n : O[k] = d
        /\ \A j, k \in 1..n : j < k <=> O[j] \in before[O[k]]
    BY <1>1 DEF Ranks
  <1>3. \A d \in S : d \notin before[d]
    BY DEF Strict
  <1>. HIDE DEF O, n
  <1>4. O \in Seq(S) /\ Len(O) = n /\ DOMAIN O = 1..n
    BY <1>2
  <1>5. ToSet(O) = S
    <2>1. ToSet(O) = {O[k] : k \in 1..n}
      BY <1>4 DEF ToSet
    <2>. QED  BY <2>1, <1>2
  <1>6. ASSUME NEW j \in 1..n, NEW k \in 1..n, O[j] = O[k] PROVE j = k
    <2>1. O[j] \in S /\ O[j] \notin before[O[k]] /\ O[k] \notin before[O[j]]
      BY <1>2, <1>3, <1>6
    <2>2. ~(j < k) /\ ~(k < j)
      BY <2>1, <1>2
    <2>. QED  BY <2>2, <1>2
  <1>7. Once(O)
    BY <1>4, <1>6 DEF Once
  <1>. QED  BY <1>2, <1>4, <1>5, <1>7 DEF Lists, O, n

Rule == [word : DOMAIN Alts, hide : SUBSET DocIds, pins : Seq(PinsOf(DocIds))]

\* A pin's name, and the pin.
PinNamed(rs, q, p) ==
    /\ p = <<p[1], p[2]>> /\ p[1] \in Nat /\ p[2] \in Nat /\ p[1] \in DOMAIN rs /\ p[2] \in DOMAIN rs[p[1]].pins
    /\ PinAt(rs, p) \in PinsOf(DocIds)

LEMMA PinningIs ==
    ASSUME NEW rs \in Seq(Rule), NEW q
    PROVE  IsFiniteSet(Pinning(rs, q)) /\ \A p \in Pinning(rs, q) : PinNamed(rs, q, p)
  <1>. DEFINE A == Applying(rs, q)  part(k) == {k} \X DOMAIN rs[k].pins  all == {part(k) : k \in A}
  <1>1. Len(rs) \in Nat /\ DOMAIN rs = 1..Len(rs) /\ A \subseteq DOMAIN rs /\ \A k \in A : rs[k] \in Rule
    BY DEF Applying
  <1>2. \A k \in A : rs[k].pins \in Seq(PinsOf(DocIds))
    BY <1>1 DEF Rule
  <1>3. \A k \in A : /\ Len(rs[k].pins) \in Nat /\ DOMAIN rs[k].pins = 1..Len(rs[k].pins)
                     /\ \A j \in DOMAIN rs[k].pins : rs[k].pins[j] \in PinsOf(DocIds)
    BY <1>2
  <1>. HIDE DEF A
  <1>4. ASSUME NEW k \in A PROVE IsFiniteSet(part(k))
    <2>. DEFINE n == Len(rs[k].pins)
    <2>1. n \in Nat /\ DOMAIN rs[k].pins = 1..n
      BY <1>3
    <2>. HIDE DEF n
    <2>2. IsFiniteSet(1..n)
      BY <2>1, FS_Interval
    <2>3. IsFiniteSet({k})
      BY FS_Singleton
    <2>4. IsFiniteSet({k} \X (1..n))
      BY <2>2, <2>3, FS_Product
    <2>. QED  BY <2>1, <2>4
  <1>5. IsFiniteSet(A)
    <2>. DEFINE n == Len(rs)
    <2>1. n \in Nat /\ A \in SUBSET (1..n)
      BY <1>1
    <2>. HIDE DEF n
    <2>2. IsFiniteSet(1..n)
      BY <2>1, FS_Interval
    <2>. QED  BY <2>1, <2>2, FS_Subset
  <1>. DEFINE f == [k \in A |-> part(k)]
  <1>6. f \in Surjection(A, all)
    BY DEF Surjection
  <1>7. IsFiniteSet(all)
    <2>. HIDE DEF f, all
    <2>. QED  BY <1>5, <1>6, FS_Surjection
  <1>8. \A T \in all : IsFiniteSet(T)
    BY <1>4
  <1>9. IsFiniteSet(UNION all)
    <2>. HIDE DEF all
    <2>. QED  BY <1>7, <1>8, FS_UNION
  <1>10. Pinning(rs, q) = UNION all
    BY DEF Pinning, A
  <1>11. ASSUME NEW p \in UNION all PROVE PinNamed(rs, q, p)
    <2>1. PICK k \in A : p \in part(k)
      OBVIOUS
    <2>2. p = <<p[1], p[2]>> /\ p[1] = k /\ p[2] \in DOMAIN rs[k].pins
      BY <2>1
    <2>3. k \in DOMAIN rs /\ k \in Nat /\ p[2] \in Nat /\ rs[k].pins[p[2]] \in PinsOf(DocIds)
      BY <1>1, <1>3, <2>2
    <2>. QED  BY <2>2, <2>3 DEF PinNamed, PinAt
  <1>. QED  BY <1>9, <1>10, <1>11

\* Of a document the soonest pin only.
LEMMA PinsAre ==
    ASSUME NEW rs \in Seq(Rule), NEW q
    PROVE  /\ IsFiniteSet(Pins(rs, q)) /\ \A p \in Pins(rs, q) : PinNamed(rs, q, p)
           /\ \A o, p \in Pins(rs, q) : PinAt(rs, o).id = PinAt(rs, p).id => o = p
           /\ \A p \in Pins(rs, q) : PinAt(rs, p).id \notin Hidden(rs, q)
  <1>1. IsFiniteSet(Pinning(rs, q)) /\ \A p \in Pinning(rs, q) : PinNamed(rs, q, p)
    BY PinningIs
  <1>2. /\ Pins(rs, q) \in SUBSET Pinning(rs, q)
        /\ \A p \in Pins(rs, q) : /\ PinAt(rs, p).id \notin Hidden(rs, q)
                                  /\ \A o \in Pins(rs, q) : Sooner(o, p) => PinAt(rs, o).id # PinAt(rs, p).id
    BY DEF Pins
  <1>3. IsFiniteSet(Pins(rs, q))
    BY <1>1, <1>2, FS_Subset
  <1>4. ASSUME NEW o \in Pins(rs, q), NEW p \in Pins(rs, q), PinAt(rs, o).id = PinAt(rs, p).id PROVE o = p
    <2>1. ~Sooner(o, p) /\ ~Sooner(p, o)
      BY <1>2, <1>4
    <2>2. o = <<o[1], o[2]>> /\ p = <<p[1], p[2]>> /\ o[1] \in Nat /\ o[2] \in Nat /\ p[1] \in Nat /\ p[2] \in Nat
      BY <1>1, <1>2 DEF PinNamed
    <2>3. o[1] = p[1] /\ o[2] = p[2]
      BY <2>1, <2>2 DEF Sooner
    <2>. QED  BY <2>2, <2>3
  <1>. QED  BY <1>1, <1>2, <1>3, <1>4

\* The pins whose documents exist, ...
Here(i, rs, q) == {p \in Pins(rs, q) : PinAt(rs, p).id \in DOMAIN docs[i]}
InFront(i, rs, q) == [p \in Here(i, rs, q) |-> {o \in Here(i, rs, q) : Outranks(rs, o, p)}]

LEMMA OutranksStrict ==
    ASSUME NEW i, NEW rs \in Seq(Rule), NEW q
    PROVE  IsFiniteSet(Here(i, rs, q)) /\ Strict(Here(i, rs, q), InFront(i, rs, q))
  <1>. DEFINE H == Here(i, rs, q)  F == InFront(i, rs, q)  x(p) == PinAt(rs, p).pos
  <1>1. IsFiniteSet(Pins(rs, q)) /\ H \in SUBSET Pins(rs, q) /\ \A p \in Pins(rs, q) : PinNamed(rs, q, p)
    BY PinsAre DEF Here
  <1>2. IsFiniteSet(H)
    BY <1>1, FS_Subset
  <1>3. \A p \in H : p = <<p[1], p[2]>> /\ p[1] \in Nat /\ p[2] \in Nat /\ x(p) \in Nat
    BY <1>1 DEF PinNamed, PinsOf
  <1>4. F \in [H -> SUBSET H] /\ \A o, p \in H : o \in F[p] <=> Outranks(rs, o, p)
    BY DEF InFront
  <1>. HIDE DEF H, F
  <1>5. \A o, p \in H : Outranks(rs, o, p) <=> x(o) < x(p) \/ (x(o) = x(p) /\ Sooner(o, p))
    BY DEF Outranks
  <1>. HIDE DEF x
  <1>6. \A p \in H : ~Outranks(rs, p, p)
    BY <1>3, <1>5 DEF Sooner
  <1>7. \A o, p \in H : o # p => Outranks(rs, o, p) \/ Outranks(rs, p, o)
    <2>. SUFFICES ASSUME NEW o \in H, NEW p \in H, o # p PROVE Outranks(rs, o, p) \/ Outranks(rs, p, o)
      OBVIOUS
    <2>1. o[1] # p[1] \/ o[2] # p[2]
      BY <1>3
    <2>2. Sooner(o, p) \/ Sooner(p, o)
      BY <2>1, <1>3 DEF Sooner
    <2>. QED  BY <2>2, <1>3, <1>5
  <1>8. \A n, o, p \in H : Outranks(rs, n, o) /\ Outranks(rs, o, p) => Outranks(rs, n, p)
    <2>. SUFFICES ASSUME NEW n \in H, NEW o \in H, NEW p \in H, Outranks(rs, n, o), Outranks(rs, o, p) PROVE Outranks(rs, n, p)
      OBVIOUS
    <2>1. Sooner(n, o) /\ Sooner(o, p) => Sooner(n, p)
      BY <1>3 DEF Sooner
    <2>. QED  BY <2>1, <1>3, <1>5
  <1>. QED  BY <1>2, <1>4, <1>6, <1>7, <1>8 DEF Strict, H, F

\* ... in order.
Lives(i, rs, q) ==
    LET live == Live(i, rs, q) IN
    /\ live \in Seq(PinsOf(DocIds)) /\ Cardinality(Pins(rs, q)) \in Nat /\ Len(live) <= Cardinality(Pins(rs, q))
    /\ (Pins(rs, q) = {} <=> Cardinality(Pins(rs, q)) = 0)
    /\ {live[k].id : k \in 1..Len(live)} = PinIds(rs, q) \cap DOMAIN docs[i]
    /\ \A j, k \in 1..Len(live) : live[j].id = live[k].id => j = k
    /\ Rising(live)

LEMMA LiveIsRising ==
    ASSUME NEW i, NEW rs \in Seq(Rule), NEW q
    PROVE  Lives(i, rs, q)
  <1>. DEFINE H == Here(i, rs, q)  O == Ordered(H, InFront(i, rs, q))  n == Cardinality(H)  live == Live(i, rs, q)
              P == Pins(rs, q)
  <1>1. Lists(H, InFront(i, rs, q))
    BY OutranksStrict, OrderedLists
  <1>2. /\ O \in Seq(H) /\ Len(O) = n /\ n \in Nat /\ Once(O) /\ ToSet(O) = H
        /\ \A j, k \in 1..n : j < k <=> O[j] \in InFront(i, rs, q)[O[k]]
    BY <1>1 DEF Lists
  <1>3. /\ IsFiniteSet(P) /\ H \in SUBSET P /\ \A p \in P : PinAt(rs, p) \in PinsOf(DocIds)
        /\ \A o, p \in P : PinAt(rs, o).id = PinAt(rs, p).id => o = p
    BY PinsAre DEF Here, PinNamed
  <1>4. live = [k \in DOMAIN O |-> PinAt(rs, O[k])]
    BY DEF Live, Here, InFront
  <1>5. \A p \in H, o \in H : o \in InFront(i, rs, q)[p] => Outranks(rs, o, p)
    BY DEF InFront
  <1>6. \A p \in P : p \in H <=> PinAt(rs, p).id \in DOMAIN docs[i]
    BY DEF Here
  <1>7. Cardinality(P) \in Nat /\ n <= Cardinality(P) /\ (P = {} <=> Cardinality(P) = 0)
    BY <1>3, FS_CardinalityType, FS_Subset, FS_EmptySet
  <1>8. PinIds(rs, q) = {PinAt(rs, p).id : p \in P}
    BY DEF PinIds
  <1>. HIDE DEF H, O, live, P, n
  <1>9. DOMAIN O = 1..n /\ \A k \in 1..n : O[k] \in H
    BY <1>2
  <1>10. live \in Seq(PinsOf(DocIds)) /\ Len(live) = n /\ \A k \in 1..n : live[k] = PinAt(rs, O[k])
    <2>1. live \in [1..n -> PinsOf(DocIds)] /\ \A k \in 1..n : live[k] = PinAt(rs, O[k])
      BY <1>3, <1>4, <1>9
    <2>. QED  BY <2>1, <1>2
  <1>11. \A p \in H : \E k \in 1..n : O[k] = p
    BY <1>2, <1>9 DEF ToSet
  <1>12. {live[k].id : k \in 1..n} = PinIds(rs, q) \cap DOMAIN docs[i]
    <2>1. \A k \in 1..n : live[k].id \in PinIds(rs, q) \cap DOMAIN docs[i]
      BY <1>3, <1>6, <1>8, <1>9, <1>10
    <2>2. ASSUME NEW d \in PinIds(rs, q), d \in DOMAIN docs[i] PROVE \E k \in 1..n : live[k].id = d
      <3>1. PICK p \in P : PinAt(rs, p).id = d
        BY <1>8
      <3>2. p \in H
        BY <3>1, <1>6, <2>2
      <3>. QED  BY <3>1, <3>2, <1>10, <1>11
    <2>. QED  BY <2>1, <2>2
  <1>13. \A j, k \in 1..n : live[j].id = live[k].id => j = k
    <2>. SUFFICES ASSUME NEW j \in 1..n, NEW k \in 1..n, live[j].id = live[k].id PROVE j = k
      OBVIOUS
    <2>1. O[j] = O[k]
      BY <1>3, <1>9, <1>10
    <2>. QED  BY <2>1, <1>2, <1>9 DEF Once
  <1>14. Rising(live)
    <2>. SUFFICES ASSUME NEW j \in 1..n, NEW k \in 1..n, j < k PROVE live[j].pos <= live[k].pos
      BY <1>10 DEF Rising
    <2>1. Outranks(rs, O[j], O[k])
      BY <1>2, <1>5, <1>9
    <2>2. live[j].pos < live[k].pos \/ live[j].pos = live[k].pos
      BY <2>1, <1>10 DEF Outranks
    <2>3. live[j].pos \in Nat /\ live[k].pos \in Nat
      BY <1>3, <1>9, <1>10 DEF PinsOf
    <2>. QED  BY <2>2, <2>3
  <1>. QED  BY <1>7, <1>10, <1>12, <1>13, <1>14 DEF Lives, live, P

\* An index's documents.
DocsTyped(i) ==
    /\ DOMAIN docs[i] \in SUBSET DocIds /\ IsFiniteSet(DOMAIN docs[i])
    /\ \A d \in DOMAIN docs[i] : docs[i][d] \in Contents

LEMMA CountedThere ==
    ASSUME NEW i, NEW q \in Queries, NEW s, NEW rs
    PROVE  /\ Matched(i, q, s) \in SUBSET DOMAIN docs[i] /\ Counted(i, q, s, rs) \in SUBSET Matched(i, q, s)
           /\ Found(i, q, s, rs) \in SUBSET Counted(i, q, s, rs)
  <1>1. q.kind \in {"all", "word", "field", "not", "stem"}
    BY SearchAssumption
  <1>2. Matched(i, q, s) \in SUBSET DOMAIN docs[i]
    <2>1. CASE q.kind = "all"
      BY <2>1 DEF Matched
    <2>2. CASE q.kind = "word"
      BY <2>2 DEF Matched, Term
    <2>3. CASE q.kind = "field"
      BY <2>3 DEF Matched, Scoped, Term
    <2>4. CASE q.kind = "not"
      BY <2>4 DEF Matched
    <2>5. CASE q.kind = "stem"
      BY <2>5 DEF Matched, Stemmed
    <2>. QED  BY <1>1, <2>1, <2>2, <2>3, <2>4, <2>5
  <1>. QED  BY <1>2 DEF Counted, Found

LEMMA BeforeStrict ==
    ASSUME NEW i, DocsTyped(i), NEW S, S \in SUBSET DOMAIN docs[i]
    PROVE  IsFiniteSet(S) /\ Strict(S, [d \in S |-> {e \in S : Before(i, e, d)}])
  <1>. DEFINE F == [d \in S |-> {e \in S : Before(i, e, d)}]  r(d) == docs[i][d].rank
  <1>1. IsFiniteSet(S)
    BY FS_Subset DEF DocsTyped
  <1>2. \A d \in S : d \in Nat /\ r(d) \in Nat
    BY SearchAssumption DEF DocsTyped
  <1>3. F \in [S -> SUBSET S] /\ \A e, d \in S : e \in F[d] <=> Before(i, e, d)
    OBVIOUS
  <1>4. \A d, e \in S : Before(i, d, e) <=> r(d) > r(e) \/ (r(d) = r(e) /\ d < e)
    BY DEF Before
  <1>. HIDE DEF F, r
  <1>. QED  BY <1>1, <1>2, <1>3, <1>4 DEF Strict, F

\* The page's order lists what is found, each once.
Naturals(i, q, s, rs) ==
    LET all == Natural(i, q, s, rs) IN
    all \in Seq(DocIds) /\ Once(all) /\ ToSet(all) = Found(i, q, s, rs) /\ Len(all) = Cardinality(Found(i, q, s, rs))

LEMMA NaturalLists ==
    ASSUME NEW i, DocsTyped(i), NEW q \in Queries, NEW s, NEW rs
    PROVE  Naturals(i, q, s, rs)
  <1>. DEFINE F == Found(i, q, s, rs)  b == [d \in F |-> {e \in F : Before(i, e, d)}]
  <1>1. F \in SUBSET DOMAIN docs[i] /\ DOMAIN docs[i] \in SUBSET DocIds
    BY CountedThere DEF DocsTyped
  <1>2. IsFiniteSet(F) /\ Strict(F, b)
    <2>. HIDE DEF F
    <2>. QED  BY <1>1, BeforeStrict DEF b
  <1>3. Natural(i, q, s, rs) = Ordered(F, b)
    BY DEF Natural
  <1>. HIDE DEF F, b
  <1>4. Lists(F, b)
    BY <1>2, OrderedLists
  <1>5. Ordered(F, b) \in Seq(F) /\ Once(Ordered(F, b)) /\ ToSet(Ordered(F, b)) = F /\ Len(Ordered(F, b)) = Cardinality(F)
    BY <1>4 DEF Lists
  <1>6. Ordered(F, b) \in Seq(DocIds)
    <2>. HIDE DEF Ordered
    <2>. QED  BY <1>1, <1>5
  <1>. QED  BY <1>3, <1>5, <1>6 DEF Naturals, F

\* A tag's best is found.
LEMMA BestFound ==
    ASSUME NEW i, DocsTyped(i), NEW q \in Queries, NEW s, NEW rs, NEW d \in Counted(i, q, s, rs)
    PROVE  /\ ~q.collapse => d \in Found(i, q, s, rs)
           /\ \E e \in Found(i, q, s, rs) : docs[i][e].tag = docs[i][d].tag
  <1>. DEFINE C == Counted(i, q, s, rs)  tag(e) == docs[i][e].tag  S == {e \in C : tag(e) = tag(d)}
              b == [e \in S |-> {f \in S : Before(i, f, e)}]  O == Ordered(S, b)  n == Cardinality(S)
  <1>1. C \in SUBSET DOMAIN docs[i] /\ S \in SUBSET DOMAIN docs[i] /\ d \in S
    BY CountedThere
  <1>2. IsFiniteSet(S) /\ Strict(S, b)
    <2>. HIDE DEF S
    <2>. QED  BY <1>1, BeforeStrict DEF b
  <1>3. Found(i, q, s, rs) = {e \in C : q.collapse => \A f \in C : tag(f) = tag(e) => f = e \/ Before(i, e, f)}
    BY DEF Found
  <1>4. \A e, f \in S : f \in b[e] <=> Before(i, f, e)
    OBVIOUS
  <1>5. \A e \in C : e \in S <=> tag(e) = tag(d)
    OBVIOUS
  <1>. HIDE DEF C, S, b, tag
  <1>6. Ranks(S, b)
    BY <1>2, OrderedIs
  <1>7. /\ n \in Nat /\ O \in [1..n -> S] /\ \A e \in S : \E k \in 1..n : O[k] = e
        /\ \A j, k \in 1..n : j < k <=> O[j] \in b[O[k]]
    BY <1>6 DEF Ranks
  <1>. HIDE DEF O, n
  <1>8. 1 \in 1..n
    <2>1. PICK k \in 1..n : O[k] = d
      BY <1>1, <1>7
    <2>. QED  BY <2>1, <1>7
  <1>9. O[1] \in S /\ \A f \in S : f = O[1] \/ Before(i, O[1], f)
    <2>. SUFFICES ASSUME NEW f \in S, f # O[1] PROVE Before(i, O[1], f)
      BY <1>7, <1>8
    <2>1. PICK k \in 1..n : O[k] = f
      BY <1>7
    <2>2. 1 < k
      BY <2>1, <1>7
    <2>3. O[1] \in b[O[k]] /\ O[1] \in S
      BY <2>2, <1>7, <1>8
    <2>. QED  BY <2>1, <2>3, <1>4
  <1>10. O[1] \in C /\ tag(O[1]) = tag(d)
    BY <1>9 DEF S
  <1>11. O[1] \in Found(i, q, s, rs)
    BY <1>3, <1>5, <1>9, <1>10
  <1>12. ~q.collapse => d \in Found(i, q, s, rs)
    BY <1>3 DEF C
  <1>. QED  BY <1>10, <1>11, <1>12 DEF tag

LEMMA OnceCounts ==
    ASSUME NEW X, NEW s \in Seq(X), Once(s)
    PROVE  IsFiniteSet(ToSet(s)) /\ Cardinality(ToSet(s)) = Len(s)
  <1>. DEFINE n == Len(s)  T == ToSet(s)
  <1>1. n \in Nat /\ DOMAIN s = 1..n /\ T = {s[k] : k \in 1..n}
    BY DEF ToSet
  <1>2. \A j, k \in 1..n : s[j] = s[k] => j = k
    BY <1>1 DEF Once
  <1>3. s \in [1..n -> T]
    BY <1>1
  <1>. HIDE DEF n, T
  <1>4. s \in Bijection(1..n, T)
    BY <1>1, <1>2, <1>3 DEF Bijection, Injection, Surjection, IsInjective
  <1>5. IsFiniteSet(1..n) /\ Cardinality(1..n) = n
    BY <1>1, FS_Interval
  <1>6. IsFiniteSet(T) /\ Cardinality(T) = Cardinality(1..n)
    BY <1>4, <1>5, FS_Bijection DEF ExistsBijection
  <1>. QED  BY <1>5, <1>6 DEF n, T

\* Every page of a query, one after the other, and what there is to show.
AllPages(i, q, s, rs) == Spliced(Natural(i, q, s, rs), Live(i, rs, q))
ToShow(i, q, s, rs) == (Matched(i, q, s) \ Hidden(rs, q)) \cup (PinIds(rs, q) \cap DOMAIN docs[i])

Shows(i, q, s, rs) ==
    LET whole == AllPages(i, q, s, rs) IN
    /\ whole \in Seq(DocIds) /\ Once(whole)
    /\ ToSet(whole) = Found(i, q, s, rs) \cup (PinIds(rs, q) \cap DOMAIN docs[i])
    /\ Len(whole) = Len(Natural(i, q, s, rs)) + Len(Live(i, rs, q)) /\ Len(whole) = Cardinality(ToSet(whole))
    /\ Cardinality(ToShow(i, q, s, rs)) \in Nat /\ Len(whole) <= Cardinality(ToShow(i, q, s, rs))

LEMMA PagesShow ==
    ASSUME NEW i, DocsTyped(i), NEW q \in Queries, NEW s, NEW rs \in Seq(Rule)
    PROVE  Shows(i, q, s, rs)
  <1>. DEFINE N == Natural(i, q, s, rs)  L == Live(i, rs, q)  W == AllPages(i, q, s, rs)  F == Found(i, q, s, rs)
              P == PinIds(rs, q) \cap DOMAIN docs[i]  T == ToShow(i, q, s, rs)
  <1>1. Naturals(i, q, s, rs) /\ Lives(i, rs, q)
    BY NaturalLists, LiveIsRising
  <1>2. /\ N \in Seq(DocIds) /\ Once(N) /\ ToSet(N) = F
        /\ L \in Seq(PinsOf(DocIds)) /\ {L[k].id : k \in 1..Len(L)} = P
        /\ \A j, k \in 1..Len(L) : L[j].id = L[k].id => j = k
    BY <1>1 DEF Naturals, Lives
  <1>3. W = Spliced(N, L)
    BY DEF AllPages
  <1>4. /\ F \in SUBSET Counted(i, q, s, rs) /\ Counted(i, q, s, rs) \in SUBSET Matched(i, q, s)
        /\ Matched(i, q, s) \in SUBSET DOMAIN docs[i]
    BY CountedThere
  <1>5. Counted(i, q, s, rs) = Matched(i, q, s) \ (Hidden(rs, q) \cup PinIds(rs, q))
    BY DEF Counted
  <1>6. F \cap P = {} /\ (F \cup P) \in SUBSET T /\ T \in SUBSET DOMAIN docs[i]
    BY <1>4, <1>5 DEF ToShow
  <1>7. IsFiniteSet(DOMAIN docs[i])
    BY DEF DocsTyped
  <1>. HIDE DEF N, L, W, F, P, T
  <1>8. Whole(N, L, DocIds)
    BY <1>2, SplicedGrows
  <1>9. W \in Seq(DocIds) /\ Len(W) = Len(N) + Len(L) /\ ToSet(W) = F \cup P /\ (Apart(N, L) => Once(W))
    BY <1>2, <1>3, <1>8 DEF Whole
  <1>10. Apart(N, L)
    <2>1. \A k \in 1..Len(L) : L[k].id \in P
      BY <1>2
    <2>. QED  BY <2>1, <1>2, <1>6 DEF Apart
  <1>11. Len(W) = Cardinality(ToSet(W))
    BY <1>9, <1>10, OnceCounts
  <1>12. IsFiniteSet(T)
    BY <1>6, <1>7, FS_Subset
  <1>13. Cardinality(T) \in Nat /\ Cardinality(F \cup P) <= Cardinality(T)
    BY <1>6, <1>12, FS_Subset, FS_CardinalityType
  <1>. QED  BY <1>9, <1>10, <1>11, <1>13 DEF Shows, N, L, W, F, P, T

-----------------------------------------------------------------------------
(* A walk of a query's pages *)

LEMMA SplicedNone ==
    ASSUME NEW X, NEW found \in Seq(X), NEW live \in Seq(PinsOf(X)), Len(live) = 0
    PROVE  Spliced(found, live) = found
  <1>1. PICK h : Splices(h, found, live) /\ Spliced(found, live) = h[Len(live)]
    BY SplicedIs
  <1>. QED  BY <1>1 DEF Splices

\* What a walk has got to, of what is found, what is pinned, the room for pins and the count.
Counts(w, n) == w.total = Least(n, Accuracy) /\ w.exact = (n <= Accuracy)
Fetches(w, found, room) ==
    LET to == w.offset + w.limit + room IN
    w.fetched = Slice(found, IF room = 0 THEN w.offset ELSE 0, to) /\ w.more = (Len(found) > to)
Reached(w, found, live) ==
    LET whole == Spliced(found, live) IN w.offset <= Len(whole) /\ w.shown = SubSeq(whole, 1, w.offset)
Complete(w, found, live) ==
    LET whole == Spliced(found, live) IN w.shown = whole /\ (w.exact /\ ~w.query.collapse => w.total = Len(whole))
Progress(w, found, live, room, n) ==
    /\ w.step \in {"ask", "page", "pins"} => Reached(w, found, live)
    /\ w.step \in {"page", "pins"} => Counts(w, n)
    /\ w.step = "pins" => Fetches(w, found, room)
    /\ w.step = "done" => Complete(w, found, live)

\* The page returned, and what is shown then.
PageOf(w, live, room) ==
    LET to == w.offset + w.limit IN IF room = 0 THEN w.fetched ELSE Slice(Spliced(w.fetched, live), w.offset, to)
MoreOf(w, live, room) == w.more \/ (room # 0 /\ Len(Spliced(w.fetched, live)) > w.offset + w.limit)
Turns(w, found, live, room) ==
    LET whole == Spliced(found, live)  to == w.offset + w.limit IN
    /\ w.shown \o PageOf(w, live, room) = SubSeq(whole, 1, Least(to, Len(whole)))
    /\ MoreOf(w, live, room) <=> Len(whole) > to

LEMMA PageTurns ==
    ASSUME NEW X, NEW found \in Seq(X), NEW live \in Seq(PinsOf(X)), NEW room \in Nat, Len(live) <= room,
           NEW w, w.offset \in Nat, w.limit \in Nat, Reached(w, found, live), Fetches(w, found, room)
    PROVE  Turns(w, found, live, room)
  <1>. DEFINE W == Spliced(found, live)  off == w.offset  to == w.offset + w.limit  all == Spliced(w.fetched, live)
  <1>1. Whole(found, live, X)
    BY SplicedGrows
  <1>2. W \in Seq(X) /\ Len(W) \in Nat /\ Len(W) = Len(found) + Len(live) /\ Len(live) \in Nat /\ Len(found) \in Nat
    BY <1>1, LiveIs DEF Whole
  <1>3. off \in Nat /\ to \in Nat /\ off <= to
    OBVIOUS
  <1>4. off <= Len(W) /\ w.shown = SubSeq(W, 1, off)
    BY DEF Reached
  <1>5. w.fetched = Slice(found, IF room = 0 THEN off ELSE 0, to + room) /\ w.more = (Len(found) > to + room)
    BY DEF Fetches
  <1>6. PageOf(w, live, room) = (IF room = 0 THEN w.fetched ELSE Slice(all, off, to))
    BY DEF PageOf
  <1>7. MoreOf(w, live, room) <=> w.more \/ (room # 0 /\ Len(all) > to)
    BY DEF MoreOf
  <1>8. PageOf(w, live, room) = Slice(W, off, to) /\ (MoreOf(w, live, room) <=> Len(W) > to)
    <2>1. CASE room = 0
      <3>1. W = found
        BY <2>1, <1>2, SplicedNone
      <3>2. to + room = to
        BY <2>1, <1>3
      <3>. QED  BY <2>1, <3>1, <3>2, <1>5, <1>6, <1>7
    <2>2. CASE room # 0
      <3>1. w.fetched = Upto(found, to + room)
        BY <2>2, <1>5 DEF Upto
      <3>2. Paged(found, live, off, to, room)
        <4>. HIDE DEF off, to
        <4>. QED  BY <1>3, PageIs
      <3>3. Slice(all, off, to) = Slice(W, off, to) /\ (Len(found) > to + room \/ Len(all) > to <=> Len(W) > to)
        BY <3>1, <3>2 DEF Paged
      <3>. QED  BY <2>2, <3>3, <1>5, <1>6, <1>7
    <2>. QED  BY <2>1, <2>2
  <1>. DEFINE n == Least(to, Len(W))
  <1>9. n \in Nat /\ off <= n /\ n <= Len(W)
    BY <1>2, <1>3, <1>4 DEF Least
  <1>10. Slice(W, off, to) = SubSeq(W, off + 1, n)
    BY DEF Slice
  <1>. HIDE DEF n, W, off
  <1>11. SubSeq(W, 1, off) \o SubSeq(W, off + 1, n) = SubSeq(W, 1, n)
    BY <1>2, <1>3, <1>9, SliceJoined
  <1>. QED  BY <1>4, <1>8, <1>10, <1>11 DEF Turns, n, W, off

\* The page turned: the walk is at the next one, or at the end.
LEMMA PageReached ==
    ASSUME NEW X, NEW found \in Seq(X), NEW live \in Seq(PinsOf(X)), NEW room \in Nat, Len(live) <= room,
           NEW w, w.offset \in Nat, w.limit \in Nat, w.step = "pins", NEW n \in Nat,
           Progress(w, found, live, room, n), ~w.query.collapse => n = Len(found),
           Len(Spliced(found, live)) <= MaxOffset,
           NEW v, v.query = w.query, v.exact = w.exact, v.total = w.total + Len(live), v.offset = Least(w.offset + w.limit, MaxOffset),
           v.shown = w.shown \o PageOf(w, live, room),
           v.step \in IF MoreOf(w, live, room) THEN {"ask", "enough"} ELSE {"done"}
    PROVE  Progress(v, found, live, room, n)
  <1>. DEFINE W == Spliced(found, live)  to == w.offset + w.limit  more == MoreOf(w, live, room)
  <1>1. Reached(w, found, live) /\ Counts(w, n) /\ Fetches(w, found, room)
    BY DEF Progress
  <1>2. Turns(w, found, live, room)
    BY <1>1, PageTurns
  <1>3. v.shown = SubSeq(W, 1, Least(to, Len(W))) /\ (more <=> Len(W) > to)
    BY <1>2 DEF Turns
  <1>4. Whole(found, live, X)
    BY SplicedGrows
  <1>5. W \in Seq(X) /\ Len(W) \in Nat /\ Len(W) = Len(found) + Len(live) /\ Len(live) \in Nat /\ Len(found) \in Nat
    BY <1>4, LiveIs DEF Whole
  <1>6. to \in Nat /\ MaxOffset \in Nat /\ Len(W) <= MaxOffset
    BY SearchAssumption
  <1>7. w.total = Least(n, Accuracy) /\ w.exact = (n <= Accuracy) /\ Accuracy \in Nat
    BY <1>1, SearchAssumption DEF Counts
  <1>. HIDE DEF W, to, more
  <1>8. CASE more
    <2>0. to < Len(W) /\ to < MaxOffset
      BY <1>3, <1>5, <1>6, <1>8
    <2>. HIDE DEF MoreOf, PageOf
    <2>1. v.offset = to /\ v.shown = SubSeq(W, 1, to) /\ to <= Len(W)
      <3>1. Least(to, MaxOffset) = to /\ Least(to, Len(W)) = to
        BY <1>5, <1>6, <2>0 DEF Least
      <3>2. v.offset = Least(to, MaxOffset)
        BY DEF to
      <3>3. v.shown = SubSeq(W, 1, to)
        BY <1>3, <3>1
      <3>4. to <= Len(W)
        BY <1>5, <1>6, <2>0
      <3>5. v.offset = to
        BY <3>1, <3>2
      <3>. QED  BY <3>3, <3>4, <3>5
    <2>2. Reached(v, found, live)
      BY <2>1 DEF Reached, W
    <2>3. v.step \in {"ask", "enough"}
      BY <1>8 DEF more
    <2>. QED  BY <2>2, <2>3 DEF Progress
  <1>9. CASE ~more
    <2>1. SubSeq(W, 1, Len(W)) = W /\ Least(to, Len(W)) = Len(W)
      BY <1>3, <1>5, <1>6, <1>9 DEF Least
    <2>2. v.exact /\ ~v.query.collapse => v.total = Len(W)
      <3>. SUFFICES ASSUME v.exact, ~v.query.collapse PROVE v.total = Len(W)
        OBVIOUS
      <3>1. n <= Accuracy /\ n = Len(found)
        BY <1>7
      <3>2. Least(n, Accuracy) = n
        BY <3>1, <1>7 DEF Least
      <3>3. v.total = n + Len(live)
        BY <3>2, <1>7
      <3>. QED  BY <3>1, <3>3, <1>5
    <2>3. Complete(v, found, live)
      BY <2>1, <2>2, <1>3 DEF Complete, W
    <2>4. v.step = "done"
      BY <1>9 DEF more
    <2>. QED  BY <2>3, <2>4 DEF Progress
  <1>. QED  BY <1>8, <1>9


-----------------------------------------------------------------------------
(* The index *)

PutAsk == [step : {"insert", "create", "write"}, op : {"put"}, id : 0..MaxIndexIds, batch : Batches,
           stem : BOOLEAN, at : 0..7]
DeleteAsk == [step : {"delete"}, op : {"delete"}, id : 1..MaxIndexIds, doc : DocIds, stem : BOOLEAN, at : {0}]
DropAsk == [step : {"drop"}, op : {"drop"}, id : 1..MaxIndexIds, at : 1..7]

\* A request is at a step, of an index that was made.
AskTyped(a, last) ==
    \/ a = NotAsked
    \/ a \in DeleteAsk /\ a.id <= last
    \/ a \in DropAsk /\ a.id <= last
    \/ /\ a \in PutAsk /\ a.id <= last
       /\ a.step \in {"create", "write"} => a.id # 0
       /\ a.step = "create" => a.at \in 1..(IF a.stem THEN 6 ELSE 5)

IndexTyped ==
    /\ entry \in 0..lastId /\ lastId \in 0..MaxIndexIds /\ stemming \in BOOLEAN /\ rules \in RuleLists
    /\ DOMAIN tables = Ids /\ DOMAIN docs = Ids /\ DOMAIN stems = Ids /\ DOMAIN schema = Ids
    /\ \A i \in Ids : /\ tables[i] \in SUBSET ToSet(Parts) /\ DocsTyped(i)
                      /\ DOMAIN docs[i] # {} => "docs" \in tables[i]
                      /\ DOMAIN stems[i] # {} => "stem" \in tables[i]
                      /\ i > lastId => tables[i] = {} /\ DOMAIN docs[i] = {}
    /\ DOMAIN asked = IndexRequests /\ \A r \in IndexRequests : AskTyped(asked[r], lastId)

Makes(a, i) == a.step = "create" /\ a.id = i
Drops(a, i) == a.step = "drop" /\ a.id = i

\* An index is made by one request; until it has made the schema there is none, and what is written
\* then is written before the index is whole.
Made ==
    /\ \A i \in Ids, r, q \in IndexRequests : Makes(asked[r], i) /\ Makes(asked[q], i) => r = q
    /\ \A i \in Ids, r \in IndexRequests :
          Makes(asked[r], i) /\ asked[r].at <= 5 => "schema" \notin tables[i] /\ (DOMAIN docs[i] = {} \/ i \in torn)

\* The index that is listed is being dropped, or has its tables but for what its maker still has to make.
Stands ==
    \A i \in Ids : i = entry /\ i \notin torn =>
        \/ \E r \in IndexRequests : Drops(asked[r], i)
        \/ \A k \in 1..5 : Parts[k] \in tables[i] \/ \E r \in IndexRequests : Makes(asked[r], i) /\ asked[r].at <= k

\* The types say how the documents' field is written.
Spelled ==
    \A i \in Ids : i \notin torn /\ "schema" \in tables[i] => \A d \in DOMAIN docs[i] : docs[i][d].type \in schema[i]

IndexInv == IndexTyped /\ Made /\ Stands /\ Spelled

-----------------------------------------------------------------------------
(* The walk *)

WalkRecord ==
    [step : {"ask", "page", "pins", "done", "enough"}, kind : {"search", "list"}, query : Queries, limit : Limits,
     offset : 0..MaxOffset, shown : Seq(DocIds), still : BOOLEAN, id : 0..MaxIndexIds, stem : BOOLEAN,
     rules : RuleLists \cup {<<>>}, total : Nat, exact : BOOLEAN, fetched : Seq(DocIds), more : BOOLEAN,
     kept : SUBSET DocIds]

\* While nobody changes the index there is one, and it is the one that was asked.
WalkTyped ==
    walk # NotWalking =>
        /\ walk \in WalkRecord
        /\ walk.kind = "list" => walk.step \in {"ask", "done"}
        /\ walk.still => entry # 0
        /\ walk.kind = "search" /\ walk.step \in {"page", "pins", "done"} => walk.id # 0
        /\ walk.kind = "search" /\ walk.step \in {"page", "pins", "done"} /\ walk.still =>
              walk.id = entry /\ walk.stem = stemming /\ walk.rules = rules

\* What a list has shown is in order; what was there all along is shown, or comes after.
Listing ==
    walk # NotWalking /\ walk.kind = "list" =>
        /\ \A j, k \in 1..Len(walk.shown) : j < k => walk.shown[j] < walk.shown[k]
        /\ \A d \in walk.kept : d \in ToSet(walk.shown) \/ (walk.step = "ask" /\ entry # 0 /\ d \in After(entry))

\* What a search has shown is what there is, as far as it has got.
Searching(i, q, s, rs) ==
    /\ walk # NotWalking /\ walk.kind = "search" /\ walk.still
    /\ i = entry /\ q = walk.query /\ s = stemming /\ rs = rules
Paging ==
    \A i \in Ids, q \in Queries, s \in BOOLEAN, rs \in RuleLists :
        Searching(i, q, s, rs) /\ Cardinality(ToShow(i, q, s, rs)) <= MaxOffset =>
            Progress(walk, Natural(i, q, s, rs), Live(i, rs, q), Cardinality(Pins(rs, q)), Cardinality(Counted(i, q, s, rs)))

WalkInv == WalkTyped /\ Listing /\ Paging

-----------------------------------------------------------------------------
(* The index: each step *)

LEMMA PartsAre ==
    /\ Len(Parts) = 6 /\ ToSet(Parts) = {"docs", "fields", "fts", "facets", "schema", "stem"}
    /\ \A k \in 1..6 : Parts[k] \in ToSet(Parts) /\ (Parts[k] = "docs" <=> k = 1) /\ (Parts[k] = "schema" <=> k = 5)
                       /\ (Parts[k] = "stem" <=> k = 6)
    /\ MainParts = {Parts[k] : k \in 1..5}
  <1>1. Len(Parts) = 6 /\ DOMAIN Parts = 1..6
    BY DEF Parts
  <1>2. Parts[1] = "docs" /\ Parts[2] = "fields" /\ Parts[3] = "fts" /\ Parts[4] = "facets" /\ Parts[5] = "schema"
        /\ Parts[6] = "stem"
    BY DEF Parts
  <1>3. \A k \in 1..6 : k = 1 \/ k = 2 \/ k = 3 \/ k = 4 \/ k = 5 \/ k = 6
    OBVIOUS
  <1>4. ToSet(Parts) = {"docs", "fields", "fts", "facets", "schema", "stem"}
    BY <1>1, <1>2, <1>3 DEF ToSet
  <1>5. \A k \in 1..5 : k = 1 \/ k = 2 \/ k = 3 \/ k = 4 \/ k = 5
    OBVIOUS
  <1>6. MainParts = {Parts[k] : k \in 1..5}
    BY <1>2, <1>5 DEF MainParts
  <1>7. \A k \in 1..6 : Parts[k] \in ToSet(Parts) /\ (Parts[k] = "docs" <=> k = 1) /\ (Parts[k] = "schema" <=> k = 5)
                       /\ (Parts[k] = "stem" <=> k = 6)
    BY <1>2, <1>3, <1>4
  <1>. QED  BY <1>1, <1>4, <1>6, <1>7

LEMMA IndexStays ==
    IndexInv /\ UNCHANGED <<entry, lastId, tables, docs, stems, schema, stemming, rules, asked, torn>> => IndexInv'
  BY DEF IndexInv, IndexTyped, Made, Stands, Spelled, AskTyped, Makes, Drops, DocsTyped

LEMMA AskStays ==
    ASSUME NEW a, NEW m \in Nat, NEW n \in Nat, m <= n, AskTyped(a, m)
    PROVE  AskTyped(a, n)
  <1>1. a \in DeleteAsk \cup DropAsk \cup PutAsk => a.id \in Nat
    BY SearchAssumption DEF PutAsk, DeleteAsk, DropAsk
  <1>. HIDE DEF PutAsk, DeleteAsk, DropAsk
  <1>. QED  BY <1>1 DEF AskTyped

LEMMA InitIndex ==
    SearchInit => IndexInv
  <1>. SUFFICES ASSUME SearchInit PROVE IndexInv
    OBVIOUS
  <1>1. DOMAIN NoDocs = {} /\ IsFiniteSet({})
    BY FS_EmptySet DEF NoDocs
  <1>2. IndexTyped
    <2>1. MaxIndexIds \in Nat \ {0}
      BY SearchAssumption
    <2>2. \A i \in Ids : docs[i] = NoDocs /\ stems[i] = NoDocs /\ tables[i] = {}
      BY DEF SearchInit
    <2>3. \A i \in Ids : DocsTyped(i)
      BY <1>1, <2>2 DEF DocsTyped
    <2>4. \A r \in IndexRequests : AskTyped(asked[r], lastId)
      BY DEF AskTyped, SearchInit
    <2>. QED  BY <1>1, <2>1, <2>2, <2>3, <2>4 DEF IndexTyped, SearchInit
  <1>3. \A r \in IndexRequests, i \in Ids : ~Makes(asked[r], i)
    BY DEF Makes, SearchInit, NotAsked
  <1>4. Made
    BY <1>3 DEF Made
  <1>5. Stands
    BY DEF Stands, SearchInit, Ids
  <1>6. Spelled
    BY DEF Spelled, SearchInit
  <1>. QED  BY <1>2, <1>4, <1>5, <1>6 DEF IndexInv

Onward(a, s, n, k) == [a EXCEPT !.step = s, !.id = n, !.at = k]
Steps(a, s, n, k, stem) == a.step = s /\ a.id = n /\ a.at = k /\ a.stem = stem

LEMMA PutMoves ==
    ASSUME NEW a \in PutAsk, NEW s \in {"insert", "create", "write"}, NEW n \in 0..MaxIndexIds, NEW k \in 0..7
    PROVE  Onward(a, s, n, k) \in PutAsk /\ Steps(Onward(a, s, n, k), s, n, k, a.stem)
  BY DEF PutAsk, Onward, Steps

\* One request moves on; the others are where they were.
Moves(r, a) ==
    /\ DOMAIN asked' = IndexRequests /\ asked'[r] = a
    /\ \A q \in IndexRequests : q # r => asked'[q] = asked[q]
    /\ \A q \in IndexRequests : AskTyped(asked'[q], lastId')

LEMMA AsksMove ==
    ASSUME IndexTyped, NEW r \in IndexRequests, NEW a, asked' = [asked EXCEPT ![r] = a], AskTyped(a, lastId'),
           lastId' \in Nat, lastId <= lastId'
    PROVE  Moves(r, a)
  <1>1. lastId \in Nat /\ DOMAIN asked = IndexRequests /\ \A q \in IndexRequests : AskTyped(asked[q], lastId)
    BY SearchAssumption DEF IndexTyped
  <1>2. DOMAIN asked' = IndexRequests /\ asked'[r] = a /\ \A q \in IndexRequests : q # r => asked'[q] = asked[q]
    BY <1>1
  <1>3. ASSUME NEW q \in IndexRequests, q # r PROVE AskTyped(asked[q], lastId')
    BY <1>1, AskStays
  <1>. QED  BY <1>2, <1>3 DEF Moves

\* A request neither makes nor drops, before and after.
Quiet(a) == a.step \notin {"create", "drop"}

LEMMA QuietMoves ==
    ASSUME IndexInv, NEW r \in IndexRequests, NEW a, Moves(r, a), Quiet(a), Quiet(asked[r])
    PROVE  /\ \A q \in IndexRequests, i \in Ids : Makes(asked'[q], i) <=> Makes(asked[q], i)
           /\ \A q \in IndexRequests, i \in Ids : Makes(asked[q], i) => asked'[q] = asked[q]
           /\ \A q \in IndexRequests, i \in Ids : Drops(asked'[q], i) <=> Drops(asked[q], i)
  BY DEF Moves, Quiet, Makes, Drops

\* A request comes in, or is over, and the index is as it was.
LEMMA QuietIndex ==
    ASSUME IndexInv, NEW r \in IndexRequests, Quiet(asked[r]),
           NEW a, asked' = [asked EXCEPT ![r] = a], AskTyped(a, lastId), Quiet(a),
           UNCHANGED <<entry, lastId, tables, docs, stems, schema, stemming, rules, torn>>
    PROVE  IndexInv'
  <1>0. lastId \in Nat
    BY SearchAssumption DEF IndexInv, IndexTyped
  <1>1. Moves(r, a)
    <2>1. AskTyped(a, lastId') /\ lastId' \in Nat /\ lastId <= lastId'
      BY <1>0
    <2>. QED  BY <2>1, AsksMove DEF IndexInv
  <1>2. IndexTyped'
    BY <1>1 DEF IndexInv, IndexTyped, DocsTyped, Moves
  <1>3. /\ \A q \in IndexRequests, i \in Ids : Makes(asked'[q], i) <=> Makes(asked[q], i)
        /\ \A q \in IndexRequests, i \in Ids : Makes(asked[q], i) => asked'[q] = asked[q]
        /\ \A q \in IndexRequests, i \in Ids : Drops(asked'[q], i) <=> Drops(asked[q], i)
    BY <1>1, QuietMoves
  <1>4. Made'
    BY <1>3 DEF IndexInv, Made
  <1>5. Stands'
    BY <1>3 DEF IndexInv, Stands
  <1>6. Spelled'
    BY DEF IndexInv, Spelled
  <1>. QED  BY <1>2, <1>4, <1>5, <1>6 DEF IndexInv

LEMMA AskPutIndex ==
    ASSUME IndexInv, NEW r \in IndexRequests, NEW b \in Batches, AskPut(r, b)
    PROVE  IndexInv'
  <1>. DEFINE a == [step |-> IF entry = 0 THEN "insert" ELSE "write", op |-> "put",
                    id |-> entry, batch |-> b, stem |-> stemming, at |-> 0]
  <1>1. entry \in 0..lastId /\ lastId \in 0..MaxIndexIds /\ stemming \in BOOLEAN /\ MaxIndexIds \in Nat
    BY SearchAssumption DEF IndexInv, IndexTyped
  <1>2. a \in PutAsk /\ a.id <= lastId /\ (a.step = "write" => a.id # 0) /\ a.step # "create" /\ Quiet(a)
    BY <1>1 DEF PutAsk, Quiet
  <1>3. asked[r] = NotAsked /\ asked' = [asked EXCEPT ![r] = a]
        /\ UNCHANGED <<entry, lastId, tables, docs, stems, schema, stemming, rules, torn>>
    BY DEF AskPut
  <1>. HIDE DEF a
  <1>4. AskTyped(a, lastId) /\ Quiet(asked[r])
    BY <1>2, <1>3 DEF AskTyped, Quiet, NotAsked
  <1>. QED  BY <1>2, <1>3, <1>4, QuietIndex

LEMMA AskDeleteIndex ==
    ASSUME IndexInv, NEW r \in IndexRequests, NEW d \in DocIds, AskDelete(r, d)
    PROVE  IndexInv'
  <1>. DEFINE a == [step |-> "delete", op |-> "delete", id |-> entry, doc |-> d, stem |-> stemming, at |-> 0]
  <1>1. entry \in 0..lastId /\ lastId \in 0..MaxIndexIds /\ stemming \in BOOLEAN /\ MaxIndexIds \in Nat /\ entry # 0
    BY SearchAssumption DEF IndexInv, IndexTyped, AskDelete
  <1>2. a \in DeleteAsk /\ a.id <= lastId /\ Quiet(a)
    BY <1>1 DEF DeleteAsk, Quiet
  <1>3. asked[r] = NotAsked /\ asked' = [asked EXCEPT ![r] = a]
        /\ UNCHANGED <<entry, lastId, tables, docs, stems, schema, stemming, rules, torn>>
    BY DEF AskDelete
  <1>. HIDE DEF a
  <1>4. AskTyped(a, lastId) /\ Quiet(asked[r])
    BY <1>2, <1>3 DEF AskTyped, Quiet, NotAsked
  <1>. QED  BY <1>2, <1>3, <1>4, QuietIndex

LEMMA AskDropIndex ==
    ASSUME IndexInv, NEW r \in IndexRequests, AskDrop(r)
    PROVE  IndexInv'
  <1>. DEFINE a == [step |-> "drop", op |-> "drop", id |-> entry, at |-> 1]
  <1>1. entry \in 0..lastId /\ lastId \in 0..MaxIndexIds /\ MaxIndexIds \in Nat /\ entry # 0 /\ asked[r] = NotAsked
    BY SearchAssumption DEF IndexInv, IndexTyped, AskDrop
  <1>2. a \in DropAsk /\ a.id <= lastId /\ a.step = "drop"
    BY <1>1 DEF DropAsk
  <1>3. asked' = [asked EXCEPT ![r] = a] /\ UNCHANGED <<entry, lastId, tables, docs, stems, schema, stemming, rules, torn>>
    BY DEF AskDrop
  <1>. HIDE DEF a
  <1>4. AskTyped(a, lastId)
    BY <1>2 DEF AskTyped
  <1>5. Moves(r, a)
    <2>1. AskTyped(a, lastId') /\ lastId' \in Nat /\ lastId <= lastId'
      BY <1>1, <1>3, <1>4
    <2>. QED  BY <2>1, <1>3, AsksMove DEF IndexInv
  <1>6. IndexTyped'
    BY <1>3, <1>5 DEF IndexInv, IndexTyped, DocsTyped, Moves
  <1>7. /\ \A q \in IndexRequests, i \in Ids : Makes(asked'[q], i) <=> Makes(asked[q], i)
        /\ \A q \in IndexRequests, i \in Ids : Makes(asked[q], i) => asked'[q] = asked[q]
        /\ \A q \in IndexRequests, i \in Ids : Drops(asked[q], i) => Drops(asked'[q], i)
    BY <1>1, <1>2, <1>5 DEF Moves, Makes, Drops, NotAsked
  <1>8. Made'
    BY <1>3, <1>7 DEF IndexInv, Made
  <1>9. Stands'
    BY <1>3, <1>7 DEF IndexInv, Stands
  <1>10. Spelled'
    BY <1>3 DEF IndexInv, Spelled
  <1>. QED  BY <1>6, <1>8, <1>9, <1>10 DEF IndexInv

LEMMA InsertEntryIndex ==
    ASSUME IndexInv, NEW r \in IndexRequests, InsertEntry(r)
    PROVE  IndexInv'
  <1>1. /\ entry \in 0..lastId /\ lastId \in 0..MaxIndexIds /\ MaxIndexIds \in Nat \ {0} /\ lastId < MaxIndexIds
        /\ asked[r].step = "insert" /\ AskTyped(asked[r], lastId)
        /\ UNCHANGED <<tables, docs, stems, schema, stemming, rules, torn>>
    BY SearchAssumption DEF IndexInv, IndexTyped, InsertEntry
  <1>2. CASE entry # 0
    <2>1. asked' = [asked EXCEPT ![r] = NotAsked] /\ UNCHANGED <<entry, lastId>>
      BY <1>2 DEF InsertEntry, Ends
    <2>2. AskTyped(NotAsked, lastId) /\ Quiet(NotAsked) /\ Quiet(asked[r])
      BY <1>1 DEF AskTyped, Quiet, NotAsked
    <2>. QED  BY <1>1, <2>1, <2>2, QuietIndex
  <1>3. CASE entry = 0
    <2>. DEFINE n == lastId + 1  a == Onward(asked[r], "create", n, 1)
    <2>1. entry' = n /\ lastId' = n /\ asked' = [asked EXCEPT ![r] = a]
      <3>1. entry' = n /\ lastId' = n /\ asked' = [asked EXCEPT ![r].step = "create", ![r].id = n, ![r].at = 1]
        BY <1>3 DEF InsertEntry
      <3>2. DOMAIN asked = IndexRequests
        BY DEF IndexInv, IndexTyped
      <3>. QED  BY <3>1, <3>2 DEF Onward
    <2>2. n \in Ids /\ n \in Nat /\ n = lastId + 1 /\ lastId \in Nat /\ n <= MaxIndexIds
      BY <1>1 DEF Ids
    <2>3. a \in PutAsk /\ a.step = "create" /\ a.id = n /\ a.at = 1
      <3>1. asked[r] \in PutAsk
        BY <1>1 DEF AskTyped, DeleteAsk, DropAsk, NotAsked
      <3>2. n \in 0..MaxIndexIds
        BY <2>2
      <3>3. 1 \in 0..7
        OBVIOUS
      <3>. HIDE DEF n
      <3>4. "create" \in {"insert", "create", "write"}
        OBVIOUS
      <3>5. a \in PutAsk /\ Steps(a, "create", n, 1, asked[r].stem)
        BY <3>1, <3>2, <3>3, <3>4, PutMoves
      <3>. QED  BY <3>5 DEF Steps
    <2>. HIDE DEF a, n
    <2>4. AskTyped(a, n)
      <3>1. a.stem \in BOOLEAN /\ 1 \in 1..6 /\ 1 \in 1..5 /\ n # 0 /\ n <= n
        BY <2>2, <2>3 DEF PutAsk
      <3>. QED  BY <2>3, <3>1 DEF AskTyped
    <2>5. Moves(r, a)
      <3>1. AskTyped(a, lastId') /\ lastId' \in Nat /\ lastId <= lastId'
        BY <2>1, <2>2, <2>4
      <3>. QED  BY <2>1, <3>1, AsksMove DEF IndexInv
    <2>6. IndexTyped'
      <3>1. \A i \in Ids : i > n => i > lastId
        BY <2>2 DEF Ids
      <3>2. entry' \in 0..lastId' /\ lastId' \in 0..MaxIndexIds
        BY <1>1, <2>1, <2>2 DEF Ids
      <3>. QED  BY <3>1, <3>2, <2>1, <2>5, <1>1 DEF IndexInv, IndexTyped, DocsTyped, Moves
    <2>7. \A q \in IndexRequests : ~Makes(asked[q], n)
      <3>. SUFFICES ASSUME NEW q \in IndexRequests, Makes(asked[q], n) PROVE FALSE
        OBVIOUS
      <3>1. AskTyped(asked[q], lastId)
        BY DEF IndexInv, IndexTyped
      <3>2. asked[q].id <= lastId
        BY <3>1 DEF AskTyped, Makes, NotAsked
      <3>. QED  BY <3>2, <2>2 DEF Makes
    <2>8. \A q \in IndexRequests, i \in Ids :
             (q = r => (Makes(asked'[q], i) <=> i = n)) /\ (q # r => (Makes(asked'[q], i) <=> Makes(asked[q], i)))
      BY <2>3, <2>5 DEF Makes, Moves
    <2>9. tables[n] = {} /\ DOMAIN docs[n] = {}
      BY <2>2, <1>1 DEF IndexInv, IndexTyped
    <2>10. Made'
      <3>1. \A i \in Ids, q, p \in IndexRequests : Makes(asked'[q], i) /\ Makes(asked'[p], i) => q = p
        BY <2>7, <2>8 DEF IndexInv, Made
      <3>2. ASSUME NEW i \in Ids, NEW q \in IndexRequests, Makes(asked'[q], i), asked'[q].at <= 5
            PROVE  "schema" \notin tables[i] /\ (DOMAIN docs[i] = {} \/ i \in torn)
        <4>1. CASE q = r
          BY <4>1, <3>2, <2>8, <2>9
        <4>2. CASE q # r
          BY <4>2, <3>2, <2>5, <2>8 DEF IndexInv, Made, Moves
        <4>. QED  BY <4>1, <4>2
      <3>. QED  BY <3>1, <3>2, <1>1 DEF Made
    <2>11. Stands'
      <3>1. Makes(asked'[r], n) /\ asked'[r].at = 1
        BY <2>3, <2>5 DEF Makes, Moves
      <3>2. \A k \in 1..5 : 1 <= k
        OBVIOUS
      <3>3. \A k \in 1..5 : Makes(asked'[r], n) /\ asked'[r].at <= k
        BY <3>1, <3>2
      <3>. QED  BY <3>3, <2>1 DEF Stands
    <2>12. Spelled'
      BY <1>1 DEF IndexInv, Spelled
    <2>. QED  BY <2>6, <2>10, <2>11, <2>12 DEF IndexInv
  <1>. QED  BY <1>2, <1>3

LEMMA CreateTableIndex ==
    ASSUME IndexInv, NEW r \in IndexRequests, CreateTable(r)
    PROVE  IndexInv'
  <1>. DEFINE a == asked[r]  i == a.id  p == Parts[a.at]  last == IF a.stem THEN 6 ELSE 5
              s == IF a.at = last THEN "write" ELSE "create"  b == Onward(a, s, a.id, a.at + 1)
  <1>1. /\ entry \in 0..lastId /\ lastId \in 0..MaxIndexIds /\ MaxIndexIds \in Nat \ {0}
        /\ a.step = "create" /\ AskTyped(a, lastId) /\ DOMAIN asked = IndexRequests
        /\ UNCHANGED <<entry, lastId, docs, stems, schema, stemming, rules, torn>>
    BY SearchAssumption DEF IndexInv, IndexTyped, CreateTable
  <1>2. a \in PutAsk /\ a.id \in Ids /\ a.id <= lastId /\ a.at \in 1..last /\ last \in {5, 6} /\ a.at \in 1..6
    BY <1>1 DEF AskTyped, PutAsk, DeleteAsk, DropAsk, NotAsked, Ids
  <1>3. tables' = [tables EXCEPT ![i] = @ \cup {p}] /\ asked' = [asked EXCEPT ![r] = b]
    <2>1. last = IF a.stem THEN Len(Parts) ELSE Len(Parts) - 1
      BY PartsAre
    <2>2. /\ tables' = [tables EXCEPT ![i] = @ \cup {p}]
          /\ asked' = [asked EXCEPT ![r].at = @ + 1, ![r].step = IF a.at = last THEN "write" ELSE @]
      BY <2>1 DEF CreateTable
    <2>3. a.step = "create" /\ DOMAIN a = {"step", "op", "id", "batch", "stem", "at"}
      BY <1>1, <1>2 DEF PutAsk
    <2>. HIDE DEF last
    <2>. QED  BY <2>2, <2>3, <1>1 DEF Onward
  <1>4. b \in PutAsk /\ b.step = s /\ b.id = i /\ b.at = a.at + 1 /\ b.stem = a.stem
    <2>1. s \in {"insert", "create", "write"} /\ a.id \in 0..MaxIndexIds /\ a.at + 1 \in 0..7
      BY <1>1, <1>2 DEF Ids
    <2>. HIDE DEF s
    <2>2. b \in PutAsk /\ Steps(b, s, a.id, a.at + 1, a.stem)
      BY <2>1, <1>2, PutMoves
    <2>. QED  BY <2>2 DEF Steps
  <1>5. AskTyped(b, lastId)
    <2>1. b.id # 0 /\ b.id <= lastId
      BY <1>2, <1>4 DEF Ids
    <2>2. b.step = "create" => b.at \in 1..(IF b.stem THEN 6 ELSE 5)
      BY <1>2, <1>4
    <2>. HIDE DEF b
    <2>. QED  BY <1>4, <2>1, <2>2 DEF AskTyped
  <1>6. p \in ToSet(Parts) /\ (p = "schema" <=> a.at = 5)
    BY <1>2, PartsAre
  <1>. HIDE DEF b, p
  <1>7. Moves(r, b)
    <2>1. AskTyped(b, lastId') /\ lastId' \in Nat /\ lastId <= lastId'
      BY <1>1, <1>5
    <2>. QED  BY <2>1, <1>3, AsksMove DEF IndexInv
  <1>8. \A j \in Ids : tables'[j] = IF j = i THEN tables[j] \cup {p} ELSE tables[j]
    BY <1>3 DEF IndexInv, IndexTyped
  <1>9. IndexTyped'
    <2>1. DOMAIN tables' = Ids
      BY <1>3 DEF IndexInv, IndexTyped
    <2>2. \A j \in Ids : /\ tables'[j] \in SUBSET ToSet(Parts)
                         /\ DOMAIN docs[j] # {} => "docs" \in tables'[j]
                         /\ DOMAIN stems[j] # {} => "stem" \in tables'[j]
                         /\ j > lastId => tables'[j] = {} /\ DOMAIN docs[j] = {}
      <3>. SUFFICES ASSUME NEW j \in Ids
                    PROVE  /\ tables'[j] \in SUBSET ToSet(Parts)
                           /\ DOMAIN docs[j] # {} => "docs" \in tables'[j]
                           /\ DOMAIN stems[j] # {} => "stem" \in tables'[j]
                           /\ j > lastId => tables'[j] = {} /\ DOMAIN docs[j] = {}
        OBVIOUS
      <3>1. /\ tables[j] \in SUBSET ToSet(Parts) /\ (DOMAIN docs[j] # {} => "docs" \in tables[j])
            /\ (DOMAIN stems[j] # {} => "stem" \in tables[j]) /\ (j > lastId => tables[j] = {} /\ DOMAIN docs[j] = {})
        BY DEF IndexInv, IndexTyped
      <3>2. j > lastId => j # i
        BY <1>1, <1>2 DEF Ids
      <3>. QED  BY <3>1, <3>2, <1>6, <1>8
    <2>. QED  BY <2>1, <2>2, <1>1, <1>7 DEF IndexInv, IndexTyped, DocsTyped, Moves
  <1>10. /\ \A q \in IndexRequests, j \in Ids : q # r => asked'[q] = asked[q]
         /\ \A j \in Ids : Makes(asked'[r], j) <=> j = i /\ a.at # last
         /\ \A j \in Ids : Makes(asked[r], j) <=> j = i
         /\ \A j \in Ids : ~Drops(asked[r], j)
         /\ asked'[r].at = a.at + 1
    BY <1>1, <1>4, <1>7 DEF Makes, Drops, Moves
  <1>11. Made'
    <2>1. \A j \in Ids, q, t \in IndexRequests : Makes(asked'[q], j) /\ Makes(asked'[t], j) => q = t
      BY <1>10 DEF IndexInv, Made
    <2>2. ASSUME NEW j \in Ids, NEW q \in IndexRequests, Makes(asked'[q], j), asked'[q].at <= 5
          PROVE  "schema" \notin tables'[j] /\ (DOMAIN docs[j] = {} \/ j \in torn)
      <3>1. CASE q = r
        <4>1. j = i /\ a.at + 1 <= 5 /\ Makes(asked[q], j)
          BY <3>1, <2>2, <1>10
        <4>2. a.at <= 5 /\ a.at # 5
          BY <4>1, <1>2
        <4>3. "schema" \notin tables[j] /\ (DOMAIN docs[j] = {} \/ j \in torn)
          BY <3>1, <4>1, <4>2 DEF IndexInv, Made
        <4>. QED  BY <4>1, <4>2, <4>3, <1>6, <1>8
      <3>2. CASE q # r
        <4>1. Makes(asked[q], j) /\ asked[q].at <= 5
          BY <3>2, <2>2, <1>10
        <4>2. j # i
          BY <3>2, <4>1, <1>2, <1>10 DEF IndexInv, Made
        <4>. QED  BY <4>1, <4>2, <1>8 DEF IndexInv, Made
      <3>. QED  BY <3>1, <3>2
    <2>. QED  BY <2>1, <2>2, <1>1 DEF Made
  <1>12. Stands'
    <2>. SUFFICES ASSUME NEW j \in Ids, j = entry, j \notin torn
                  PROVE  \/ \E q \in IndexRequests : Drops(asked'[q], j)
                         \/ \A k \in 1..5 : Parts[k] \in tables'[j] \/ \E q \in IndexRequests : Makes(asked'[q], j) /\ asked'[q].at <= k
      BY <1>1 DEF Stands
    <2>1. CASE \E q \in IndexRequests : Drops(asked[q], j)
      <3>1. PICK q \in IndexRequests : Drops(asked[q], j)
        BY <2>1
      <3>2. q # r
        BY <3>1, <1>10
      <3>. QED  BY <3>1, <3>2, <1>10
    <2>2. CASE \A k \in 1..5 : Parts[k] \in tables[j] \/ \E q \in IndexRequests : Makes(asked[q], j) /\ asked[q].at <= k
      <3>. SUFFICES ASSUME NEW k \in 1..5
                    PROVE  Parts[k] \in tables'[j] \/ \E q \in IndexRequests : Makes(asked'[q], j) /\ asked'[q].at <= k
        OBVIOUS
      <3>1. CASE Parts[k] \in tables[j]
        BY <3>1, <1>8
      <3>2. CASE \E q \in IndexRequests : Makes(asked[q], j) /\ asked[q].at <= k
        <4>1. PICK q \in IndexRequests : Makes(asked[q], j) /\ asked[q].at <= k
          BY <3>2
        <4>2. CASE q # r
          BY <4>1, <4>2, <1>10
        <4>3. CASE q = r /\ k = a.at
          BY <4>1, <4>3, <1>8, <1>10 DEF p
        <4>4. CASE q = r /\ k # a.at
          <5>1. j = i /\ a.at <= k
            BY <4>1, <4>4, <1>10
          <5>2. a.at + 1 <= k /\ a.at # last
            BY <5>1, <4>4, <1>2
          <5>. QED  BY <5>1, <5>2, <1>10
        <4>. QED  BY <4>2, <4>3, <4>4
      <3>. QED  BY <2>2, <3>1, <3>2
    <2>. QED  BY <2>1, <2>2 DEF IndexInv, Stands
  <1>13. Spelled'
    <2>. SUFFICES ASSUME NEW j \in Ids, j \notin torn, "schema" \in tables'[j], NEW d \in DOMAIN docs[j]
                  PROVE  docs[j][d].type \in schema[j]
      BY <1>1 DEF Spelled
    <2>1. CASE "schema" \in tables[j]
      BY <2>1 DEF IndexInv, Spelled
    <2>2. CASE "schema" \notin tables[j]
      <3>1. j = i /\ a.at = 5
        BY <2>2, <1>6, <1>8
      <3>2. Makes(asked[r], j) /\ asked[r].at <= 5
        BY <3>1, <1>2, <1>10
      <3>3. DOMAIN docs[j] = {}
        BY <3>2 DEF IndexInv, Made
      <3>. QED  BY <3>3
    <2>. QED  BY <2>1, <2>2
  <1>. QED  BY <1>9, <1>11, <1>12, <1>13 DEF IndexInv

\* A batch's last word on a document is one of its own.
LEMMA LastIs ==
    ASSUME NEW b \in Seq(DocIds \X Contents), NEW d \in IdsOf(b)
    PROVE  LastOf(b, d) \in DOMAIN b /\ b[LastOf(b, d)][1] = d
  <1>. DEFINE n == Len(b)  S == {i \in DOMAIN b : b[i][1] = d}  T == {n - i : i \in S}
  <1>1. n \in Nat /\ DOMAIN b = 1..n
    OBVIOUS
  <1>2. S # {} /\ \A i \in S : i \in 1..n /\ n - i \in Nat
    BY <1>1 DEF IdsOf
  <1>. HIDE DEF n, S
  <1>3. T \in SUBSET Nat /\ T # {}
    BY <1>2
  <1>. HIDE DEF T
  <1>4. PICK t \in T : \A u \in T : t <= u
    BY <1>3, LeastExists
  <1>5. PICK i \in S : t = n - i
    BY DEF T
  <1>6. ASSUME NEW j \in S PROVE j <= i
    <2>1. n - j \in T
      BY DEF T
    <2>. QED  BY <2>1, <1>1, <1>2, <1>4, <1>5
  <1>7. i \in DOMAIN b /\ b[i][1] = d /\ \A j \in DOMAIN b : b[j][1] = d => j <= i
    BY <1>6 DEF S
  <1>. QED  BY <1>7 DEF LastOf

\* What a batch leaves is what was there, or what it says.
Filed(f) == DOMAIN f \in SUBSET DocIds /\ IsFiniteSet(DOMAIN f) /\ \A d \in DOMAIN f : f[d] \in Contents
Lays(g, f, b) ==
    /\ Filed(g)
    /\ \A d \in DOMAIN g : (d \in DOMAIN f /\ g[d] = f[d]) \/ \E k \in DOMAIN b : g[d] = b[k][2]

LEMMA OverlaidIs ==
    ASSUME NEW b \in Seq(DocIds \X Contents), NEW f, Filed(f)
    PROVE  Lays(Overlaid(f, b), f, b)
  <1>. DEFINE g == Overlaid(f, b)  n == Len(b)  ids == IdsOf(b)
  <1>1. DOMAIN g = DOMAIN f \cup ids /\ \A d \in DOMAIN g : g[d] = IF d \in ids THEN b[LastOf(b, d)][2] ELSE f[d]
    BY DEF Overlaid
  <1>2. n \in Nat /\ DOMAIN b = 1..n /\ \A k \in 1..n : b[k] \in DocIds \X Contents
    OBVIOUS
  <1>3. ids = {b[k][1] : k \in 1..n}
    BY <1>2 DEF IdsOf
  <1>4. ids \in SUBSET DocIds
    BY <1>2, <1>3
  <1>5. \A d \in ids : LastOf(b, d) \in DOMAIN b
    BY LastIs
  <1>. DEFINE h == [k \in 1..n |-> b[k][1]]
  <1>6. h \in Surjection(1..n, ids)
    BY <1>3 DEF Surjection
  <1>. HIDE DEF g, n, ids, h
  <1>7. IsFiniteSet(ids)
    <2>0. n \in Nat
      BY <1>2
    <2>1. IsFiniteSet(1..n)
      BY <2>0, FS_Interval
    <2>. QED  BY <2>1, <1>6, FS_Surjection
  <1>8. IsFiniteSet(DOMAIN g)
    <2>1. IsFiniteSet(DOMAIN f \cup ids)
      BY <1>7, FS_Union DEF Filed
    <2>. QED  BY <2>1, <1>1
  <1>9. DOMAIN g \in SUBSET DocIds
    BY <1>1, <1>4 DEF Filed
  <1>10. ASSUME NEW d \in DOMAIN g
         PROVE  g[d] \in Contents /\ ((d \in DOMAIN f /\ g[d] = f[d]) \/ \E k \in DOMAIN b : g[d] = b[k][2])
    <2>1. CASE d \in ids
      <3>1. LastOf(b, d) \in DOMAIN b /\ g[d] = b[LastOf(b, d)][2]
        BY <2>1, <1>1, <1>5
      <3>2. b[LastOf(b, d)] \in DocIds \X Contents
        BY <3>1, <1>2
      <3>. QED  BY <3>1, <3>2
    <2>2. CASE d \notin ids
      BY <2>2, <1>1 DEF Filed
    <2>. QED  BY <2>1, <2>2
  <1>. QED  BY <1>8, <1>9, <1>10 DEF Lays, Filed, g

LEMMA SansIs ==
    ASSUME NEW f, Filed(f), NEW d
    PROVE  Filed(Sans(f, d)) /\ DOMAIN Sans(f, d) = DOMAIN f \ {d} /\ \A e \in DOMAIN Sans(f, d) : Sans(f, d)[e] = f[e]
  <1>1. DOMAIN Sans(f, d) = DOMAIN f \ {d} /\ \A e \in DOMAIN Sans(f, d) : Sans(f, d)[e] = f[e]
    BY DEF Sans
  <1>2. IsFiniteSet(DOMAIN f \ {d})
    BY FS_Subset DEF Filed
  <1>. QED  BY <1>1, <1>2 DEF Filed

\* A request is over, and one index's documents, stems, types and history may be others.
LEMMA OverIndex ==
    ASSUME IndexInv, NEW r \in IndexRequests, Quiet(asked[r]), asked' = [asked EXCEPT ![r] = NotAsked],
           UNCHANGED <<entry, lastId, tables, stemming, rules>>,
           NEW i \in Ids, i <= lastId, "docs" \in tables[i],
           DOMAIN docs' = Ids, DOMAIN stems' = Ids, DOMAIN schema' = Ids,
           \A j \in Ids : j # i => docs'[j] = docs[j] /\ stems'[j] = stems[j] /\ schema'[j] = schema[j],
           Filed(docs'[i]), DOMAIN stems'[i] # {} => DOMAIN stems[i] # {} \/ "stem" \in tables[i],
           torn \subseteq torn', torn' \subseteq torn \cup {i},
           "schema" \notin tables[i] => DOMAIN docs'[i] \subseteq DOMAIN docs[i] \/ i \in torn',
           i \notin torn' /\ "schema" \in tables[i] => \A d \in DOMAIN docs'[i] : docs'[i][d].type \in schema'[i]
    PROVE  IndexInv'
  <1>1. /\ entry \in 0..lastId /\ lastId \in 0..MaxIndexIds /\ stemming \in BOOLEAN /\ rules \in RuleLists
        /\ DOMAIN tables = Ids /\ MaxIndexIds \in Nat
    BY SearchAssumption DEF IndexInv, IndexTyped
  <1>2. Moves(r, NotAsked)
    <2>1. AskTyped(NotAsked, lastId') /\ lastId' \in Nat /\ lastId <= lastId'
      BY <1>1 DEF AskTyped
    <2>. QED  BY <2>1, AsksMove DEF IndexInv
  <1>3. \A j \in Ids : /\ tables[j] \in SUBSET ToSet(Parts) /\ Filed(docs[j])
                       /\ DOMAIN docs[j] # {} => "docs" \in tables[j]
                       /\ DOMAIN stems[j] # {} => "stem" \in tables[j]
                       /\ j > lastId => tables[j] = {} /\ DOMAIN docs[j] = {}
    BY DEF IndexInv, IndexTyped, DocsTyped, Filed
  <1>4. ASSUME NEW j \in Ids
        PROVE  /\ tables[j] \in SUBSET ToSet(Parts) /\ Filed(docs'[j])
               /\ DOMAIN docs'[j] # {} => "docs" \in tables[j]
               /\ DOMAIN stems'[j] # {} => "stem" \in tables[j]
               /\ j > lastId => tables[j] = {} /\ DOMAIN docs'[j] = {}
    <2>1. CASE j = i
      <3>1. ~(i > lastId)
        BY <1>1 DEF Ids
      <3>. QED  BY <2>1, <3>1, <1>3
    <2>2. CASE j # i
      BY <2>2, <1>3
    <2>. QED  BY <2>1, <2>2
  <1>5. IndexTyped'
    BY <1>1, <1>2, <1>4 DEF IndexTyped, DocsTyped, Filed, Moves
  <1>6. Quiet(NotAsked)
    BY DEF Quiet, NotAsked
  <1>7. /\ \A q \in IndexRequests, j \in Ids : Makes(asked'[q], j) <=> Makes(asked[q], j)
        /\ \A q \in IndexRequests, j \in Ids : Makes(asked[q], j) => asked'[q] = asked[q]
        /\ \A q \in IndexRequests, j \in Ids : Drops(asked'[q], j) <=> Drops(asked[q], j)
    BY <1>2, <1>6, QuietMoves
  <1>8. Made'
    <2>1. \A j \in Ids, p, q \in IndexRequests : Makes(asked'[p], j) /\ Makes(asked'[q], j) => p = q
      BY <1>7 DEF IndexInv, Made
    <2>2. ASSUME NEW j \in Ids, NEW q \in IndexRequests, Makes(asked'[q], j), asked'[q].at <= 5
          PROVE  "schema" \notin tables[j] /\ (DOMAIN docs'[j] = {} \/ j \in torn')
      <3>1. "schema" \notin tables[j] /\ (DOMAIN docs[j] = {} \/ j \in torn)
        BY <2>2, <1>7 DEF IndexInv, Made
      <3>2. CASE j = i
        BY <3>1, <3>2
      <3>3. CASE j # i
        BY <3>1, <3>3
      <3>. QED  BY <3>2, <3>3
    <2>. QED  BY <2>1, <2>2 DEF Made
  <1>9. Stands'
    BY <1>7 DEF IndexInv, Stands
  <1>10. Spelled'
    <2>. SUFFICES ASSUME NEW j \in Ids, j \notin torn', "schema" \in tables[j], NEW d \in DOMAIN docs'[j]
                  PROVE  docs'[j][d].type \in schema'[j]
      BY DEF Spelled
    <2>1. CASE j = i
      BY <2>1
    <2>2. CASE j # i
      BY <2>2 DEF IndexInv, Spelled
    <2>. QED  BY <2>1, <2>2
  <1>. QED  BY <1>5, <1>8, <1>9, <1>10 DEF IndexInv

LEMMA WriteDocsIndex ==
    ASSUME IndexInv, NEW r \in IndexRequests, WriteDocs(r)
    PROVE  IndexInv'
  <1>. DEFINE a == asked[r]  i == a.id  b == a.batch
  <1>1. /\ a.step = "write" /\ AskTyped(a, lastId) /\ asked' = [asked EXCEPT ![r] = NotAsked]
        /\ UNCHANGED <<entry, lastId, tables, stemming, rules>>
        /\ lastId \in 0..MaxIndexIds /\ MaxIndexIds \in Nat
    BY SearchAssumption DEF IndexInv, IndexTyped, WriteDocs, Ends
  <1>2. a \in PutAsk /\ i <= lastId /\ i # 0
    BY <1>1 DEF AskTyped, DeleteAsk, DropAsk, NotAsked
  <1>3. i \in Ids /\ b \in Batches
    BY <1>1, <1>2 DEF PutAsk, Ids
  <1>4. b \in Seq(DocIds \X Contents)
    BY <1>3, SearchAssumption
  <1>5. Quiet(a) /\ Quiet(NotAsked)
    BY <1>1 DEF Quiet, NotAsked
  <1>6. CASE ~(MainParts \ {"schema"} \subseteq tables[i] /\ ~Refused(b))
    <2>1. UNCHANGED <<docs, stems, schema, torn>>
      BY <1>6 DEF WriteDocs
    <2>2. AskTyped(NotAsked, lastId)
      BY DEF AskTyped
    <2>. QED  BY <1>1, <1>5, <2>1, <2>2, QuietIndex
  <1>7. CASE MainParts \ {"schema"} \subseteq tables[i] /\ ~Refused(b)
    <2>. DEFINE g == Overlaid(docs[i], b)
    <2>1. /\ docs' = [docs EXCEPT ![i] = g]
          /\ stems' = [stems EXCEPT ![i] = IF a.stem /\ "stem" \in tables[i] THEN StemRows(stems[i], b) ELSE stems[i]]
          /\ schema' = [schema EXCEPT ![i] = IF "schema" \in tables[i] THEN SchemaOf(i, b) ELSE schema[i]]
          /\ torn' = IF "schema" \in tables[i] THEN torn ELSE torn \cup {i}
      BY <1>7 DEF WriteDocs
    <2>2. DOMAIN docs = Ids /\ DOMAIN stems = Ids /\ DOMAIN schema = Ids /\ Filed(docs[i])
      BY <1>3 DEF IndexInv, IndexTyped, DocsTyped, Filed
    <2>. HIDE DEF i, b, g
    <2>3. /\ DOMAIN docs' = Ids /\ DOMAIN stems' = Ids /\ DOMAIN schema' = Ids
          /\ \A j \in Ids : j # i => docs'[j] = docs[j] /\ stems'[j] = stems[j] /\ schema'[j] = schema[j]
          /\ docs'[i] = g /\ schema'[i] = (IF "schema" \in tables[i] THEN SchemaOf(i, b) ELSE schema[i])
          /\ stems'[i] = stems[i] \/ "stem" \in tables[i]
      BY <2>1, <2>2, <1>3
    <2>4. Lays(g, docs[i], b)
      BY <2>2, <1>4, OverlaidIs DEF g
    <2>5. "docs" \in tables[i]
      BY <1>7 DEF MainParts, i
    <2>6. torn \subseteq torn' /\ torn' \subseteq torn \cup {i} /\ ("schema" \notin tables[i] => i \in torn')
      BY <2>1
    <2>7. DOMAIN stems'[i] # {} => DOMAIN stems[i] # {} \/ "stem" \in tables[i]
      BY <2>3
    <2>8. ASSUME i \notin torn', "schema" \in tables[i], NEW d \in DOMAIN g PROVE g[d].type \in schema'[i]
      <3>1. schema'[i] = schema[i] \cup {b[k][2].type : k \in DOMAIN b} /\ i \notin torn
        BY <2>3, <2>6, <2>8 DEF SchemaOf
      <3>2. CASE d \in DOMAIN docs[i] /\ g[d] = docs[i][d]
        BY <3>1, <3>2, <1>3, <2>8 DEF IndexInv, Spelled
      <3>3. CASE \E k \in DOMAIN b : g[d] = b[k][2]
        BY <3>1, <3>3
      <3>. QED  BY <3>2, <3>3, <2>4 DEF Lays
    <2>9. Filed(docs'[i])
      BY <2>3, <2>4 DEF Lays
    <2>10. i \notin torn' /\ "schema" \in tables[i] => \A d \in DOMAIN docs'[i] : docs'[i][d].type \in schema'[i]
      BY <2>3, <2>8
    <2>11. i <= lastId
      BY <1>2 DEF i
    <2>12. i \in Ids
      BY <1>3 DEF i
    <2>13. "schema" \notin tables[i] => DOMAIN docs'[i] \subseteq DOMAIN docs[i] \/ i \in torn'
      BY <2>6
    <2>. QED  BY <1>1, <1>5, <2>3, <2>5, <2>6, <2>7, <2>9, <2>10, <2>11, <2>12, <2>13, OverIndex
  <1>. QED  BY <1>6, <1>7 DEF i, b

LEMMA DeleteDocsIndex ==
    ASSUME IndexInv, NEW r \in IndexRequests, DeleteDocs(r)
    PROVE  IndexInv'
  <1>. DEFINE a == asked[r]  i == a.id  d == a.doc
  <1>1. /\ a.step = "delete" /\ AskTyped(a, lastId) /\ asked' = [asked EXCEPT ![r] = NotAsked]
        /\ UNCHANGED <<entry, lastId, tables, schema, stemming, rules, torn>>
        /\ lastId \in 0..MaxIndexIds /\ MaxIndexIds \in Nat
    BY SearchAssumption DEF IndexInv, IndexTyped, DeleteDocs, Ends
  <1>2. a \in DeleteAsk /\ i <= lastId /\ i # 0
    BY <1>1 DEF AskTyped, DeleteAsk, DropAsk, PutAsk, NotAsked
  <1>3. i \in Ids
    BY <1>1, <1>2 DEF DeleteAsk, Ids
  <1>5. Quiet(a) /\ Quiet(NotAsked)
    BY <1>1 DEF Quiet, NotAsked
  <1>6. CASE "docs" \notin tables[i]
    <2>1. UNCHANGED <<docs, stems, torn>>
      BY <1>6, <1>1 DEF DeleteDocs
    <2>2. AskTyped(NotAsked, lastId)
      BY DEF AskTyped
    <2>. QED  BY <1>1, <1>5, <2>1, <2>2, QuietIndex
  <1>7. CASE "docs" \in tables[i]
    <2>. DEFINE g == Sans(docs[i], d)
    <2>1. /\ docs' = [docs EXCEPT ![i] = g]
          /\ stems' = [stems EXCEPT ![i] = IF a.stem THEN Sans(stems[i], d) ELSE stems[i]]
      BY <1>7 DEF DeleteDocs
    <2>2. DOMAIN docs = Ids /\ DOMAIN stems = Ids /\ DOMAIN schema = Ids /\ Filed(docs[i])
      BY <1>3 DEF IndexInv, IndexTyped, DocsTyped, Filed
    <2>. HIDE DEF i, d, g
    <2>3. /\ DOMAIN docs' = Ids /\ DOMAIN stems' = Ids /\ DOMAIN schema' = Ids
          /\ \A j \in Ids : j # i => docs'[j] = docs[j] /\ stems'[j] = stems[j] /\ schema'[j] = schema[j]
          /\ docs'[i] = g /\ schema'[i] = schema[i]
          /\ stems'[i] = stems[i] \/ stems'[i] = Sans(stems[i], d)
      BY <2>1, <2>2, <1>1, <1>3
    <2>4. Filed(g) /\ DOMAIN g = DOMAIN docs[i] \ {d} /\ \A e \in DOMAIN g : g[e] = docs[i][e]
      BY <2>2, SansIs DEF g
    <2>5. DOMAIN Sans(stems[i], d) = DOMAIN stems[i] \ {d}
      BY DEF Sans
    <2>6. DOMAIN stems'[i] # {} => DOMAIN stems[i] # {} \/ "stem" \in tables[i]
      BY <2>3, <2>5
    <2>7. i \notin torn' /\ "schema" \in tables[i] => \A e \in DOMAIN docs'[i] : docs'[i][e].type \in schema'[i]
      BY <2>3, <2>4, <1>1, <1>3 DEF IndexInv, Spelled
    <2>8. Filed(docs'[i])
      BY <2>3, <2>4
    <2>9. "schema" \notin tables[i] => DOMAIN docs'[i] \subseteq DOMAIN docs[i] \/ i \in torn'
      BY <2>3, <2>4
    <2>10. i <= lastId
      BY <1>2 DEF i
    <2>11. i \in Ids /\ "docs" \in tables[i]
      BY <1>3, <1>7 DEF i
    <2>12. torn \subseteq torn' /\ torn' \subseteq torn \cup {i}
      BY <1>1
    <2>. QED  BY <1>1, <1>5, <2>3, <2>6, <2>7, <2>8, <2>9, <2>10, <2>11, <2>12, OverIndex
  <1>. QED  BY <1>6, <1>7

LEMMA DropTableIndex ==
    ASSUME IndexInv, NEW r \in IndexRequests, DropTable(r)
    PROVE  IndexInv'
  <1>. DEFINE a == asked[r]  i == a.id  p == Parts[a.at]  b == [a EXCEPT !.at = @ + 1]
  <1>1. /\ a.step = "drop" /\ a.at <= Len(Parts) /\ AskTyped(a, lastId)
        /\ UNCHANGED <<entry, lastId, stemming, rules, torn>>
        /\ entry \in 0..lastId /\ lastId \in 0..MaxIndexIds /\ MaxIndexIds \in Nat /\ DOMAIN asked = IndexRequests
    BY SearchAssumption DEF IndexInv, IndexTyped, DropTable
  <1>2. /\ tables' = [tables EXCEPT ![i] = @ \ {p}]
        /\ docs' = [docs EXCEPT ![i] = IF p = "docs" THEN NoDocs ELSE @]
        /\ stems' = [stems EXCEPT ![i] = IF p = "stem" THEN NoDocs ELSE @]
        /\ schema' = [schema EXCEPT ![i] = IF p = "schema" THEN {} ELSE @]
        /\ asked' = [asked EXCEPT ![r] = b]
    <2>1. asked' = [asked EXCEPT ![r].at = @ + 1]
      BY DEF DropTable
    <2>. QED  BY <2>1, <1>1 DEF DropTable
  <1>3. a \in DropAsk /\ i <= lastId
    BY <1>1 DEF AskTyped, DeleteAsk, PutAsk, NotAsked
  <1>4. i \in Ids /\ a.at \in 1..6
    <2>1. Len(Parts) = 6
      BY PartsAre
    <2>. QED  BY <2>1, <1>1, <1>3 DEF DropAsk, Ids
  <1>5. b \in DropAsk /\ b.id = i /\ b.step = "drop"
    <2>1. a.at + 1 \in 1..7
      BY <1>4
    <2>. QED  BY <2>1, <1>1, <1>3 DEF DropAsk
  <1>6. AskTyped(b, lastId)
    <2>. HIDE DEF b
    <2>. QED  BY <1>3, <1>5 DEF AskTyped
  <1>7. Moves(r, b)
    <2>1. AskTyped(b, lastId') /\ lastId' \in Nat /\ lastId <= lastId'
      BY <1>1, <1>6
    <2>. HIDE DEF b
    <2>. QED  BY <2>1, <1>2, AsksMove DEF IndexInv
  <1>8. p \in ToSet(Parts)
    BY <1>4, PartsAre
  <1>9. DOMAIN tables = Ids /\ DOMAIN docs = Ids /\ DOMAIN stems = Ids /\ DOMAIN schema = Ids
    BY DEF IndexInv, IndexTyped
  <1>. HIDE DEF b, p
  <1>10. /\ DOMAIN tables' = Ids /\ DOMAIN docs' = Ids /\ DOMAIN stems' = Ids /\ DOMAIN schema' = Ids
         /\ \A j \in Ids : j # i => tables'[j] = tables[j] /\ docs'[j] = docs[j] /\ stems'[j] = stems[j] /\ schema'[j] = schema[j]
         /\ tables'[i] = tables[i] \ {p} /\ docs'[i] = (IF p = "docs" THEN NoDocs ELSE docs[i])
         /\ stems'[i] = (IF p = "stem" THEN NoDocs ELSE stems[i]) /\ schema'[i] = (IF p = "schema" THEN {} ELSE schema[i])
    <2>. HIDE DEF i
    <2>1. i \in Ids
      BY <1>4 DEF i
    <2>. QED  BY <1>2, <1>9, <2>1
  <1>11. DOMAIN NoDocs = {} /\ Filed(NoDocs)
    BY FS_EmptySet DEF NoDocs, Filed
  <1>12. \A j \in Ids : /\ tables[j] \in SUBSET ToSet(Parts) /\ Filed(docs[j])
                        /\ DOMAIN docs[j] # {} => "docs" \in tables[j]
                        /\ DOMAIN stems[j] # {} => "stem" \in tables[j]
                        /\ j > lastId => tables[j] = {} /\ DOMAIN docs[j] = {}
    BY DEF IndexInv, IndexTyped, DocsTyped, Filed
  <1>13. /\ \A q \in IndexRequests, j \in Ids : Makes(asked'[q], j) <=> Makes(asked[q], j)
         /\ \A q \in IndexRequests, j \in Ids : Makes(asked[q], j) => asked'[q] = asked[q]
         /\ \A q \in IndexRequests, j \in Ids : Drops(asked'[q], j) <=> Drops(asked[q], j)
    BY <1>1, <1>5, <1>7 DEF Moves, Makes, Drops
  <1>. HIDE DEF i
  <1>14. ASSUME NEW j \in Ids
         PROVE  /\ tables'[j] \in SUBSET ToSet(Parts) /\ Filed(docs'[j])
                /\ DOMAIN docs'[j] # {} => "docs" \in tables'[j]
                /\ DOMAIN stems'[j] # {} => "stem" \in tables'[j]
                /\ j > lastId => tables'[j] = {} /\ DOMAIN docs'[j] = {}
    <2>1. CASE j = i
      <3>1. ~(i > lastId)
        BY <1>1, <1>3, <1>4 DEF i, Ids
      <3>. QED  BY <2>1, <3>1, <1>10, <1>11, <1>12
    <2>2. CASE j # i
      BY <2>2, <1>10, <1>12
    <2>. QED  BY <2>1, <2>2
  <1>15. IndexTyped'
    <2>1. rules \in RuleLists /\ stemming \in BOOLEAN
      BY DEF IndexInv, IndexTyped
    <2>. QED  BY <2>1, <1>1, <1>7, <1>10, <1>14 DEF IndexTyped, DocsTyped, Filed, Moves
  <1>16. Made'
    <2>1. \A j \in Ids, t, q \in IndexRequests : Makes(asked'[t], j) /\ Makes(asked'[q], j) => t = q
      BY <1>13 DEF IndexInv, Made
    <2>2. ASSUME NEW j \in Ids, NEW q \in IndexRequests, Makes(asked'[q], j), asked'[q].at <= 5
          PROVE  "schema" \notin tables'[j] /\ (DOMAIN docs'[j] = {} \/ j \in torn)
      <3>1. "schema" \notin tables[j] /\ (DOMAIN docs[j] = {} \/ j \in torn)
        BY <2>2, <1>13 DEF IndexInv, Made
      <3>. QED  BY <3>1, <1>10, <1>11
    <2>. QED  BY <2>1, <2>2, <1>1 DEF Made
  <1>17. Stands'
    <2>. SUFFICES ASSUME NEW j \in Ids, j = entry, j \notin torn
                  PROVE  \/ \E q \in IndexRequests : Drops(asked'[q], j)
                         \/ \A k \in 1..5 : Parts[k] \in tables'[j] \/ \E q \in IndexRequests : Makes(asked'[q], j) /\ asked'[q].at <= k
      BY <1>1 DEF Stands
    <2>1. CASE j = i
      <3>1. Drops(asked[r], j)
        BY <2>1, <1>1 DEF Drops, i
      <3>. QED  BY <3>1, <1>13
    <2>2. CASE j # i
      BY <2>2, <1>10, <1>13 DEF IndexInv, Stands
    <2>. QED  BY <2>1, <2>2
  <1>18. Spelled'
    <2>. SUFFICES ASSUME NEW j \in Ids, j \notin torn, "schema" \in tables'[j], NEW d \in DOMAIN docs'[j]
                  PROVE  docs'[j][d].type \in schema'[j]
      BY <1>1 DEF Spelled
    <2>1. CASE j = i
      <3>1. docs'[j] = docs[j] /\ schema'[j] = schema[j] /\ "schema" \in tables[j]
        BY <2>1, <1>10, <1>11
      <3>. QED  BY <3>1 DEF IndexInv, Spelled
    <2>2. CASE j # i
      BY <2>2, <1>10 DEF IndexInv, Spelled
    <2>. QED  BY <2>1, <2>2
  <1>. QED  BY <1>15, <1>16, <1>17, <1>18 DEF IndexInv

LEMMA DropEntryIndex ==
    ASSUME IndexInv, NEW r \in IndexRequests, DropEntry(r)
    PROVE  IndexInv'
  <1>. DEFINE a == asked[r]  i == a.id
  <1>1. /\ a.step = "drop" /\ UNCHANGED <<lastId, tables, docs, stems, schema, stemming, rules, torn>>
        /\ entry' = (IF entry = i THEN 0 ELSE entry) /\ asked' = [asked EXCEPT ![r] = NotAsked]
        /\ entry \in 0..lastId /\ lastId \in 0..MaxIndexIds /\ MaxIndexIds \in Nat
    BY SearchAssumption DEF IndexInv, IndexTyped, DropEntry, Ends
  <1>2. entry' \in 0..lastId
    BY <1>1
  <1>3. Moves(r, NotAsked)
    <2>1. AskTyped(NotAsked, lastId') /\ lastId' \in Nat /\ lastId <= lastId'
      BY <1>1 DEF AskTyped
    <2>. QED  BY <2>1, <1>1, AsksMove DEF IndexInv
  <1>4. IndexTyped'
    BY <1>1, <1>2, <1>3 DEF IndexInv, IndexTyped, DocsTyped, Moves
  <1>5. /\ \A q \in IndexRequests, j \in Ids : Makes(asked'[q], j) <=> Makes(asked[q], j)
        /\ \A q \in IndexRequests, j \in Ids : Makes(asked[q], j) => asked'[q] = asked[q]
        /\ \A q \in IndexRequests, j \in Ids : Drops(asked[q], j) /\ j # i => Drops(asked'[q], j)
    BY <1>1, <1>3 DEF Moves, Makes, Drops, NotAsked
  <1>6. Made'
    BY <1>1, <1>5 DEF IndexInv, Made
  <1>7. Stands'
    <2>. SUFFICES ASSUME NEW j \in Ids, j = entry', j \notin torn
                  PROVE  \/ \E q \in IndexRequests : Drops(asked'[q], j)
                         \/ \A k \in 1..5 : Parts[k] \in tables[j] \/ \E q \in IndexRequests : Makes(asked'[q], j) /\ asked'[q].at <= k
      BY <1>1 DEF Stands
    <2>1. j = entry /\ j # i
      BY <1>1 DEF Ids
    <2>. QED  BY <2>1, <1>5 DEF IndexInv, Stands
  <1>8. Spelled'
    BY <1>1 DEF IndexInv, Spelled
  <1>. QED  BY <1>4, <1>6, <1>7, <1>8 DEF IndexInv

LEMMA ConfigIndex ==
    ASSUME IndexInv, NEW s \in BOOLEAN, NEW rs \in RuleLists, SaveSearchConfig(s, rs)
    PROVE  IndexInv'
  <1>1. stemming' = s /\ rules' = rs /\ UNCHANGED <<entry, lastId, tables, docs, stems, schema, asked, torn>>
    BY DEF SaveSearchConfig
  <1>2. stemming' \in BOOLEAN /\ rules' \in RuleLists
    BY <1>1
  <1>3. IndexTyped'
    BY <1>1, <1>2 DEF IndexInv, IndexTyped, DocsTyped
  <1>4. Made' /\ Stands' /\ Spelled'
    BY <1>1 DEF IndexInv, Made, Stands, Spelled
  <1>. QED  BY <1>3, <1>4 DEF IndexInv

LEMMA StopIndex ==
    ASSUME IndexInv, SearchStops
    PROVE  IndexInv'
  <1>1. /\ torn' = torn \cup {asked[r].id : r \in {q \in IndexRequests : asked[q].step \in {"create", "drop"}}}
        /\ asked' = [r \in IndexRequests |-> NotAsked]
        /\ UNCHANGED <<entry, lastId, tables, docs, stems, schema, stemming, rules>>
    BY DEF SearchStops
  <1>2. \A q \in IndexRequests : AskTyped(asked'[q], lastId') /\ asked'[q].step = "none"
    BY <1>1 DEF AskTyped, NotAsked
  <1>3. torn \subseteq torn' /\ \A q \in IndexRequests, i \in Ids : i \notin torn' => ~Makes(asked[q], i) /\ ~Drops(asked[q], i)
    BY <1>1 DEF Makes, Drops
  <1>4. IndexTyped'
    <2>1. DOMAIN asked' = IndexRequests
      BY <1>1
    <2>. QED  BY <2>1, <1>1, <1>2 DEF IndexInv, IndexTyped, DocsTyped
  <1>5. Made'
    <2>1. \A q \in IndexRequests, i \in Ids : ~Makes(asked'[q], i)
      BY <1>2 DEF Makes
    <2>. QED  BY <2>1 DEF Made
  <1>6. Stands'
    <2>. SUFFICES ASSUME NEW i \in Ids, i = entry, i \notin torn', NEW k \in 1..5 PROVE Parts[k] \in tables[i]
      BY <1>1 DEF Stands
    <2>. QED  BY <1>3 DEF IndexInv, Stands
  <1>7. Spelled'
    BY <1>1, <1>3 DEF IndexInv, Spelled
  <1>. QED  BY <1>4, <1>5, <1>6, <1>7 DEF IndexInv

\* Every step keeps the index as it should be.
LEMMA IndexSteps ==
    ASSUME IndexInv, [SearchNext]_searchVars
    PROVE  IndexInv'
  <1>1. CASE UNCHANGED searchVars
    BY <1>1, IndexStays DEF searchVars
  <1>2. ASSUME NEW r \in IndexRequests, NEW b \in Batches, AskPut(r, b) PROVE IndexInv'
    BY <1>2, AskPutIndex
  <1>3. ASSUME NEW r \in IndexRequests, NEW d \in DocIds, AskDelete(r, d) PROVE IndexInv'
    BY <1>3, AskDeleteIndex
  <1>4. ASSUME NEW r \in IndexRequests, AskDrop(r) PROVE IndexInv'
    BY <1>4, AskDropIndex
  <1>5. ASSUME NEW r \in IndexRequests, Writes(r) PROVE IndexInv'
    <2>1. CASE InsertEntry(r)
      BY <2>1, InsertEntryIndex
    <2>2. CASE CreateTable(r)
      BY <2>2, CreateTableIndex
    <2>3. CASE WriteDocs(r)
      BY <2>3, WriteDocsIndex
    <2>4. CASE DeleteDocs(r)
      BY <2>4, DeleteDocsIndex
    <2>5. CASE DropTable(r)
      BY <2>5, DropTableIndex
    <2>6. CASE DropEntry(r)
      BY <2>6, DropEntryIndex
    <2>. QED  BY <1>5, <2>1, <2>2, <2>3, <2>4, <2>5, <2>6 DEF Writes
  <1>6. ASSUME NEW s \in BOOLEAN, NEW rs \in RuleLists, SaveSearchConfig(s, rs) PROVE IndexInv'
    BY <1>6, ConfigIndex
  <1>7. CASE SearchStops
    BY <1>7, StopIndex
  <1>8. ASSUME NEW kind, NEW q, NEW n, StartsWalk(kind, q, n) PROVE IndexInv'
    BY <1>8, IndexStays DEF StartsWalk
  <1>9. CASE SearchCounts
    BY <1>9, IndexStays DEF SearchCounts
  <1>10. CASE SearchPages
    BY <1>10, IndexStays DEF SearchPages
  <1>11. CASE SearchReturns
    BY <1>11, IndexStays DEF SearchReturns
  <1>12. CASE ListReturns
    BY <1>12, IndexStays DEF ListReturns
  <1>13. CASE WalkEnds
    BY <1>13, IndexStays DEF WalkEnds
  <1>. QED  BY <1>1, <1>2, <1>3, <1>4, <1>5, <1>6, <1>7, <1>8, <1>9, <1>10, <1>11, <1>12, <1>13 DEF SearchNext

\* What they say of the index.
LEMMA WholeHolds ==
    ASSUME IndexInv
    PROVE  IndexWhole
  <1>. SUFFICES ASSUME \A r \in IndexRequests : asked[r] = NotAsked, entry \notin torn \cup {0} PROVE MainParts \subseteq tables[entry]
    BY DEF IndexWhole
  <1>1. entry \in Ids
    BY SearchAssumption DEF IndexInv, IndexTyped, Ids
  <1>2. \A r \in IndexRequests : ~Makes(asked[r], entry) /\ ~Drops(asked[r], entry)
    BY DEF Makes, Drops, NotAsked
  <1>3. \A k \in 1..5 : Parts[k] \in tables[entry]
    BY <1>1, <1>2 DEF IndexInv, Stands
  <1>. QED  BY <1>3, PartsAre

LEMMA ScopedHolds ==
    ASSUME IndexInv
    PROVE  ScopedFindsAll
  <1>. SUFFICES ASSUME NEW w \in DOMAIN Alts, entry # 0, entry \notin torn, MainParts \subseteq tables[entry]
                PROVE  Scoped(entry, w) = Term(entry, w)
    BY DEF ScopedFindsAll
  <1>1. entry \in Ids
    BY SearchAssumption DEF IndexInv, IndexTyped, Ids
  <1>2. "schema" \in tables[entry]
    BY DEF MainParts
  <1>3. \A d \in DOMAIN docs[entry] : docs[entry][d].type \in schema[entry]
    BY <1>1, <1>2 DEF IndexInv, Spelled
  <1>. QED  BY <1>3 DEF Scoped, Term

-----------------------------------------------------------------------------
(* What a step leaves of a query's answer *)

Same(i) == docs'[i] = docs[i] /\ stems'[i] = stems[i] /\ schema'[i] = schema[i]

\* An index nobody changed gives the same answer.
Answers(i, q, s, rs) ==
    <<Natural(i, q, s, rs), Live(i, rs, q), Counted(i, q, s, rs), ToShow(i, q, s, rs)>>

LEMMA SameAnswers ==
    ASSUME NEW i, Same(i), NEW q \in Queries, NEW s, NEW rs
    PROVE  Answers(i, q, s, rs)' = Answers(i, q, s, rs)
  <1>1. docs'[i] = docs[i] /\ stems'[i] = stems[i] /\ schema'[i] = schema[i]
    BY DEF Same
  <1>2. \A w : Term(i, w)' = Term(i, w)
    BY <1>1 DEF Term
  <1>3. Scoped(i, q.word)' = Scoped(i, q.word)
    BY <1>1, <1>2 DEF Scoped
  <1>4. Stemmed(i, q.word, s)' = Stemmed(i, q.word, s)
    BY <1>1 DEF Stemmed
  <1>5. q.kind \in {"all", "word", "field", "not", "stem"}
    BY SearchAssumption
  <1>6. Matched(i, q, s)' = Matched(i, q, s)
    BY <1>1, <1>2, <1>3, <1>4, <1>5 DEF Matched
  <1>7. Counted(i, q, s, rs)' = Counted(i, q, s, rs)
    BY <1>6 DEF Counted
  <1>8. ToShow(i, q, s, rs)' = ToShow(i, q, s, rs)
    BY <1>1, <1>6 DEF ToShow
  <1>9. \A d, e : Before(i, d, e)' = Before(i, d, e)
    BY <1>1 DEF Before
  <1>10. Found(i, q, s, rs)' = Found(i, q, s, rs)
    BY <1>1, <1>7, <1>9 DEF Found
  <1>11. Natural(i, q, s, rs)' = Natural(i, q, s, rs)
    BY <1>9, <1>10 DEF Natural
  <1>12. Live(i, rs, q)' = Live(i, rs, q)
    BY <1>1 DEF Live
  <1>. QED  BY <1>7, <1>8, <1>11, <1>12 DEF Answers

-----------------------------------------------------------------------------
(* The walk: each step *)

\* What a walk has shown is what there is.
Follows(w, i, q, s, rs) ==
    /\ w # NotWalking /\ w.kind = "search" /\ w.still
    /\ i = entry /\ q = w.query /\ s = stemming /\ rs = rules
    /\ Cardinality(ToShow(i, q, s, rs)) <= MaxOffset
Goes(w, i, q, s, rs) ==
    Progress(w, Natural(i, q, s, rs), Live(i, rs, q), Cardinality(Pins(rs, q)), Cardinality(Counted(i, q, s, rs)))
Onto(w) == \A i \in Ids, q \in Queries, s \in BOOLEAN, rs \in RuleLists : Follows(w, i, q, s, rs) => Goes(w, i, q, s, rs)

LEMMA PagingIs ==
    Paging <=> Onto(walk)
  BY DEF Paging, Onto, Follows, Goes, Searching

LEMMA PagingKept ==
    ASSUME UNCHANGED <<entry, stemming, rules>>, entry # 0 => Same(entry), Onto(walk')
    PROVE  Paging'
  <1>. SUFFICES ASSUME NEW i \in Ids, NEW q \in Queries, NEW s \in BOOLEAN, NEW rs \in RuleLists,
                       Searching(i, q, s, rs)', Cardinality(ToShow(i, q, s, rs)') <= MaxOffset
                PROVE  Progress(walk', Natural(i, q, s, rs)', Live(i, rs, q)', Cardinality(Pins(rs, q)), Cardinality(Counted(i, q, s, rs)'))
    BY DEF Paging
  <1>1. walk' # NotWalking /\ walk'.kind = "search" /\ walk'.still /\ i = entry /\ q = walk'.query /\ s = stemming /\ rs = rules
    BY DEF Searching
  <1>2. Same(i)
    BY <1>1 DEF Ids
  <1>3. Answers(i, q, s, rs)' = Answers(i, q, s, rs)
    BY <1>2, SameAnswers
  <1>4. /\ Natural(i, q, s, rs)' = Natural(i, q, s, rs) /\ Live(i, rs, q)' = Live(i, rs, q)
        /\ Counted(i, q, s, rs)' = Counted(i, q, s, rs) /\ ToShow(i, q, s, rs)' = ToShow(i, q, s, rs)
    BY <1>3 DEF Answers
  <1>5. Follows(walk', i, q, s, rs)
    BY <1>1, <1>4 DEF Follows
  <1>6. Goes(walk', i, q, s, rs)
    BY <1>5 DEF Onto
  <1>. QED  BY <1>4, <1>6 DEF Goes

\* The index that is asked is as it was, and so is the walk.
LEMMA WalkStays ==
    ASSUME WalkInv, UNCHANGED <<entry, stemming, rules, walk>>, entry # 0 => Same(entry)
    PROVE  WalkInv'
  <1>1. Paging'
    <2>1. Onto(walk')
      BY PagingIs DEF WalkInv
    <2>. QED  BY <2>1, PagingKept
  <1>2. WalkTyped'
    BY DEF WalkInv, WalkTyped
  <1>3. Listing'
    <2>1. entry # 0 => After(entry)' = After(entry)
      BY DEF After, Same
    <2>. QED  BY <2>1 DEF WalkInv, Listing
  <1>. QED  BY <1>1, <1>2, <1>3 DEF WalkInv

LEMMA NoWalk ==
    walk' = NotWalking => WalkInv'
  BY DEF WalkInv, WalkTyped, Listing, Paging, Searching

LEMMA InitWalk ==
    SearchInit => WalkInv
  BY DEF SearchInit, WalkInv, WalkTyped, Listing, Paging, Searching

\* The index that is asked changes, and of what was there all along only some goes.
LEMMA WalkStirred ==
    ASSUME WalkInv, NEW gone, Stirs(gone),
           \A d \in DocIds \ gone : entry # 0 /\ d \in DOMAIN docs[entry] => entry' # 0 /\ d \in (DOMAIN docs[entry])'
    PROVE  WalkInv'
  <1>1. CASE walk = NotWalking
    <2>1. walk' = NotWalking
      BY <1>1 DEF Stirs
    <2>. QED  BY <2>1, NoWalk
  <1>2. CASE walk # NotWalking
    <2>1. walk \in WalkRecord /\ (walk.kind = "list" => walk.step \in {"ask", "done"})
          /\ (walk.kind = "search" /\ walk.step \in {"page", "pins", "done"} => walk.id # 0)
      BY <1>2 DEF WalkInv, WalkTyped
    <2>2. walk' = [walk EXCEPT !.still = FALSE, !.kept = walk.kept \ gone]
      BY <1>2 DEF Stirs
    <2>3. walk' \in WalkRecord /\ walk'.still = FALSE /\ walk'.kept = walk.kept \ gone /\ walk'.shown = walk.shown
          /\ walk'.step = walk.step /\ walk'.kind = walk.kind /\ walk'.id = walk.id /\ walk.kept \in SUBSET DocIds
      BY <2>1, <2>2 DEF WalkRecord
    <2>4. WalkTyped'
      BY <2>1, <2>3 DEF WalkTyped
    <2>5. Paging'
      BY <2>3 DEF Paging, Searching
    <2>6. Listing'
      <3>. SUFFICES ASSUME walk.kind = "list"
                    PROVE  /\ \A j, k \in 1..Len(walk.shown) : j < k => walk.shown[j] < walk.shown[k]
                           /\ \A d \in walk'.kept : d \in ToSet(walk.shown) \/ (walk.step = "ask" /\ entry' # 0 /\ d \in After(entry)')
        BY <2>3 DEF Listing
      <3>1. /\ \A j, k \in 1..Len(walk.shown) : j < k => walk.shown[j] < walk.shown[k]
            /\ \A d \in walk.kept : d \in ToSet(walk.shown) \/ (walk.step = "ask" /\ entry # 0 /\ d \in After(entry))
        BY <1>2 DEF WalkInv, Listing
      <3>2. ASSUME NEW d \in walk'.kept, d \notin ToSet(walk.shown)
            PROVE  walk.step = "ask" /\ entry' # 0 /\ d \in After(entry)'
        <4>1. d \in walk.kept /\ d \in DocIds \ gone
          BY <2>3, <3>2
        <4>2. walk.step = "ask" /\ entry # 0 /\ d \in DOMAIN docs[entry] /\ (walk.shown = <<>> \/ d > Last(walk.shown))
          BY <3>1, <3>2, <4>1 DEF After
        <4>3. entry' # 0 /\ d \in (DOMAIN docs[entry])'
          BY <4>1, <4>2
        <4>. QED  BY <2>3, <4>2, <4>3 DEF After
      <3>. QED  BY <3>1, <3>2
    <2>. QED  BY <2>4, <2>5, <2>6 DEF WalkInv
  <1>. QED  BY <1>1, <1>2

LEMMA WritesWalk ==
    ASSUME IndexInv, WalkInv, NEW r \in IndexRequests, Writes(r)
    PROVE  WalkInv'
  <1>. DEFINE a == asked[r]  i == a.id
  <1>1. AskTyped(a, lastId) /\ DOMAIN docs = Ids /\ DOMAIN stems = Ids /\ DOMAIN schema = Ids /\ lastId \in 0..MaxIndexIds
        /\ entry \in 0..lastId
    BY DEF IndexInv, IndexTyped
  <1>2. CASE InsertEntry(r)
    <2>1. UNCHANGED <<docs, stems, schema, stemming, rules, walk>>
      BY <1>2 DEF InsertEntry
    <2>2. CASE entry # 0
      <3>1. entry' = entry
        BY <1>2, <2>2 DEF InsertEntry
      <3>2. entry # 0 => Same(entry)
        BY <2>1 DEF Same
      <3>. QED  BY <2>1, <3>1, <3>2, WalkStays
    <2>3. CASE entry = 0
      <3>1. WalkTyped'
        BY <2>1, <2>3 DEF WalkInv, WalkTyped
      <3>2. Listing'
        BY <2>1, <2>3 DEF WalkInv, Listing
      <3>3. Paging'
        <4>1. walk # NotWalking => ~walk.still
          BY <2>3 DEF WalkInv, WalkTyped
        <4>. QED  BY <2>1, <4>1 DEF Paging, Searching
      <3>. QED  BY <3>1, <3>2, <3>3 DEF WalkInv
    <2>. QED  BY <2>2, <2>3
  <1>3. CASE CreateTable(r)
    <2>1. UNCHANGED <<entry, docs, stems, schema, stemming, rules, walk>>
      BY <1>3 DEF CreateTable
    <2>2. entry # 0 => Same(entry)
      BY <2>1 DEF Same
    <2>. QED  BY <2>1, <2>2, WalkStays
  <1>4. CASE WriteDocs(r)
    <2>1. UNCHANGED <<entry, stemming, rules>> /\ a.step = "write"
      BY <1>4 DEF WriteDocs
    <2>2. i \in Ids
      BY <1>1, <2>1 DEF AskTyped, DeleteAsk, DropAsk, PutAsk, NotAsked, Ids
    <2>3. CASE UNCHANGED <<docs, stems, schema, walk>>
      <3>1. entry # 0 => Same(entry)
        BY <2>3 DEF Same
      <3>. QED  BY <2>1, <2>3, <3>1, WalkStays
    <2>4. CASE ~UNCHANGED <<docs, stems, schema, walk>>
      <3>. DEFINE g == Overlaid(docs[i], a.batch)
      <3>1. /\ docs' = [docs EXCEPT ![i] = g]
            /\ stems' = [stems EXCEPT ![i] = IF a.stem /\ "stem" \in tables[i] THEN StemRows(stems[i], a.batch) ELSE stems[i]]
            /\ schema' = [schema EXCEPT ![i] = IF "schema" \in tables[i] THEN SchemaOf(i, a.batch) ELSE schema[i]]
            /\ IF i = entry THEN Stirs({}) ELSE UNCHANGED walk
        BY <1>4, <2>4 DEF WriteDocs
      <3>2. DOMAIN docs[i] \subseteq DOMAIN g
        BY DEF Overlaid
      <3>. HIDE DEF g, i
      <3>3. CASE i = entry
        <4>1. \A d \in DocIds \ {} : entry # 0 /\ d \in DOMAIN docs[entry] => entry' # 0 /\ d \in (DOMAIN docs[entry])'
          BY <1>1, <2>1, <2>2, <3>1, <3>2, <3>3
        <4>2. Stirs({})
          BY <3>1, <3>3
        <4>. QED  BY <4>1, <4>2, WalkStirred
      <3>4. CASE i # entry
        <4>1. entry # 0 => entry \in Ids
          BY <1>1, SearchAssumption DEF Ids
        <4>2. entry # 0 => Same(entry)
          BY <1>1, <3>1, <3>4, <4>1 DEF Same
        <4>3. walk' = walk
          BY <3>1, <3>4
        <4>. QED  BY <2>1, <4>2, <4>3, WalkStays
      <3>. QED  BY <3>3, <3>4
    <2>. QED  BY <2>3, <2>4
  <1>5. CASE DeleteDocs(r)
    <2>1. UNCHANGED <<entry, schema, stemming, rules>> /\ a.step = "delete"
      BY <1>5 DEF DeleteDocs
    <2>2. i \in Ids
      BY <1>1, <2>1 DEF AskTyped, DeleteAsk, DropAsk, PutAsk, NotAsked, Ids
    <2>3. CASE UNCHANGED <<docs, stems, walk>>
      <3>1. entry # 0 => Same(entry)
        BY <2>1, <2>3 DEF Same
      <3>. QED  BY <2>1, <2>3, <3>1, WalkStays
    <2>4. CASE ~UNCHANGED <<docs, stems, walk>>
      <3>. DEFINE d == a.doc  g == Sans(docs[i], d)
      <3>1. /\ docs' = [docs EXCEPT ![i] = g]
            /\ stems' = [stems EXCEPT ![i] = IF a.stem THEN Sans(stems[i], d) ELSE stems[i]]
            /\ IF i = entry THEN Stirs({d}) ELSE UNCHANGED walk
        BY <1>5, <2>4 DEF DeleteDocs
      <3>2. DOMAIN g = DOMAIN docs[i] \ {d}
        BY DEF Sans
      <3>. HIDE DEF g, i, d
      <3>3. CASE i = entry
        <4>1. \A e \in DocIds \ {d} : entry # 0 /\ e \in DOMAIN docs[entry] => entry' # 0 /\ e \in (DOMAIN docs[entry])'
          BY <1>1, <2>1, <2>2, <3>1, <3>2, <3>3
        <4>2. Stirs({d})
          BY <3>1, <3>3
        <4>. QED  BY <4>1, <4>2, WalkStirred
      <3>4. CASE i # entry
        <4>1. entry # 0 => entry \in Ids
          BY <1>1, SearchAssumption DEF Ids
        <4>2. entry # 0 => Same(entry)
          BY <1>1, <2>1, <3>1, <3>4, <4>1 DEF Same
        <4>3. walk' = walk
          BY <3>1, <3>4
        <4>. QED  BY <2>1, <4>2, <4>3, WalkStays
      <3>. QED  BY <3>3, <3>4
    <2>. QED  BY <2>3, <2>4
  <1>6. CASE DropTable(r)
    <2>1. Stirs(DocIds)
      BY <1>6 DEF DropTable
    <2>2. \A d \in DocIds \ DocIds : entry # 0 /\ d \in DOMAIN docs[entry] => entry' # 0 /\ d \in (DOMAIN docs[entry])'
      OBVIOUS
    <2>. QED  BY <2>1, <2>2, WalkStirred
  <1>7. CASE DropEntry(r)
    <2>1. Stirs(DocIds)
      BY <1>7 DEF DropEntry
    <2>2. \A d \in DocIds \ DocIds : entry # 0 /\ d \in DOMAIN docs[entry] => entry' # 0 /\ d \in (DOMAIN docs[entry])'
      OBVIOUS
    <2>. QED  BY <2>1, <2>2, WalkStirred
  <1>. QED  BY <1>2, <1>3, <1>4, <1>5, <1>6, <1>7 DEF Writes

LEMMA AsksWalk ==
    ASSUME WalkInv, UNCHANGED <<entry, docs, stems, schema, stemming, rules, walk>>
    PROVE  WalkInv'
  <1>1. entry # 0 => Same(entry)
    BY DEF Same
  <1>. QED  BY <1>1, WalkStays

LEMMA ConfigWalk ==
    ASSUME WalkInv, NEW s, NEW rs, SaveSearchConfig(s, rs)
    PROVE  WalkInv'
  <1>1. Stirs({}) /\ UNCHANGED <<entry, docs>>
    BY DEF SaveSearchConfig
  <1>2. \A d \in DocIds \ {} : entry # 0 /\ d \in DOMAIN docs[entry] => entry' # 0 /\ d \in (DOMAIN docs[entry])'
    BY <1>1
  <1>. QED  BY <1>1, <1>2, WalkStirred

-----------------------------------------------------------------------------
(* The walk: what it reads *)

\* The settings a walk goes by are the instance's.
LEMMA RulesAre ==
    \A rs \in RuleLists \cup {<<>>} : rs \in Seq(Rule)
  <1>1. RuleLists \subseteq Seq([word : DOMAIN Alts, hide : SUBSET DocIds, pins : Seq([id : DocIds, pos : Nat])])
    BY SearchAssumption
  <1>2. RuleLists \subseteq Seq(Rule)
    BY <1>1 DEF Rule, PinsOf
  <1>3. <<>> \in Seq(Rule)
    OBVIOUS
  <1>. QED  BY <1>2, <1>3

\* What a page is made of.
LEMMA AnswerIs ==
    ASSUME IndexInv, NEW i \in Ids, NEW q \in Queries, NEW s, NEW rs \in RuleLists \cup {<<>>}
    PROVE  /\ DocsTyped(i) /\ rs \in Seq(Rule)
           /\ Naturals(i, q, s, rs) /\ Lives(i, rs, q) /\ Shows(i, q, s, rs)
           /\ Whole(Natural(i, q, s, rs), Live(i, rs, q), DocIds)
  <1>1. DocsTyped(i) /\ rs \in Seq(Rule)
    BY RulesAre DEF IndexInv, IndexTyped
  <1>2. Naturals(i, q, s, rs)
    BY <1>1, NaturalLists
  <1>3. Lives(i, rs, q)
    BY <1>1, LiveIsRising
  <1>4. Shows(i, q, s, rs)
    BY <1>1, PagesShow
  <1>5. Natural(i, q, s, rs) \in Seq(DocIds) /\ Live(i, rs, q) \in Seq(PinsOf(DocIds))
    BY <1>2, <1>3 DEF Naturals, Lives
  <1>6. Whole(Natural(i, q, s, rs), Live(i, rs, q), DocIds)
    BY <1>5, SplicedGrows
  <1>. QED  BY <1>1, <1>2, <1>3, <1>4, <1>6

\* A client reads; the index is as it was.
Reads == UNCHANGED <<entry, lastId, tables, docs, stems, schema, stemming, rules, asked, torn>>

LEMMA ReadsWalk ==
    ASSUME Reads, Onto(walk'), WalkTyped', Listing'
    PROVE  WalkInv'
  <1>1. UNCHANGED <<entry, stemming, rules>> /\ (entry # 0 => Same(entry))
    BY DEF Reads, Same
  <1>2. Paging'
    BY <1>1, PagingKept
  <1>. QED  BY <1>2 DEF WalkInv

LEMMA StartsWalkWalk ==
    ASSUME IndexInv, NEW kind \in {"search", "list"}, NEW q \in Queries, NEW n \in Limits, StartsWalk(kind, q, n)
    PROVE  WalkInv'
  <1>. DEFINE w == Walk(kind, q, n)
  <1>1. entry # 0 /\ walk' = w /\ Reads /\ entry \in Ids
    BY SearchAssumption DEF StartsWalk, Reads, IndexInv, IndexTyped, Ids
  <1>2. DocsTyped(entry) /\ 0 \in 0..MaxOffset /\ 0 \in 0..MaxIndexIds
    BY <1>1, SearchAssumption DEF IndexInv, IndexTyped
  <1>3. w \in WalkRecord /\ w.step = "ask" /\ w.still = TRUE /\ w.shown = <<>> /\ w.kept = DOMAIN docs[entry] /\ w.offset = 0
    BY <1>1, <1>2 DEF Walk, WalkRecord, DocsTyped
  <1>. HIDE DEF w
  <1>4. WalkTyped'
    BY <1>1, <1>3 DEF WalkTyped, Reads
  <1>5. Listing'
    <2>1. \A d \in w.kept : d \in After(entry)'
      BY <1>1, <1>3 DEF After, Reads
    <2>2. Len(w.shown) = 0
      BY <1>3
    <2>. QED  BY <2>1, <2>2, <1>1, <1>3 DEF Listing, Reads
  <1>6. ASSUME NEW i \in Ids, NEW p \in Queries, NEW s \in BOOLEAN, NEW rs \in RuleLists PROVE Goes(w, i, p, s, rs)
    <2>. DEFINE W == Spliced(Natural(i, p, s, rs), Live(i, rs, p))
    <2>1. W \in Seq(DocIds)
      <3>1. Shows(i, p, s, rs)
        BY AnswerIs
      <3>. QED  BY <3>1 DEF Shows, AllPages
    <2>. HIDE DEF W
    <2>2. 0 <= Len(W) /\ <<>> = SubSeq(W, 1, 0)
      BY <2>1
    <2>3. Reached(w, Natural(i, p, s, rs), Live(i, rs, p))
      BY <2>2, <1>3 DEF Reached, W
    <2>. QED  BY <2>3, <1>3 DEF Goes, Progress
  <1>7. Onto(walk')
    BY <1>1, <1>6 DEF Onto
  <1>. QED  BY <1>1, <1>4, <1>5, <1>7, ReadsWalk

LEMMA CountsWalk ==
    ASSUME IndexInv, WalkInv, SearchCounts
    PROVE  WalkInv'
  <1>1. Reads /\ walk.step = "ask" /\ walk.kind = "search"
    BY DEF SearchCounts, Reads
  <1>2. walk # NotWalking
    BY <1>1 DEF NotWalking
  <1>3. walk \in WalkRecord /\ (walk.still => entry # 0)
    BY <1>2 DEF WalkInv, WalkTyped
  <1>4. CASE entry = 0 \/ ~Readable(entry, walk.query, stemming)
    BY <1>4, NoWalk DEF SearchCounts, Fails
  <1>5. CASE ~(entry = 0 \/ ~Readable(entry, walk.query, stemming))
    <2>. DEFINE n == Cardinality(Counted(entry, walk.query, stemming, rules))  t == Least(n, Accuracy)  x == (n <= Accuracy)
    <2>1. walk' = [walk EXCEPT !.step = "page", !.id = entry, !.stem = stemming, !.rules = rules, !.total = t, !.exact = x]
      BY <1>5 DEF SearchCounts
    <2>2. entry \in Ids /\ entry \in 0..MaxIndexIds /\ stemming \in BOOLEAN /\ rules \in RuleLists
      BY <1>5, SearchAssumption DEF IndexInv, IndexTyped, Ids
    <2>3. n \in Nat /\ walk.query \in Queries
      <3>1. walk.query \in Queries
        BY <1>3 DEF WalkRecord
      <3>2. IsFiniteSet(DOMAIN docs[entry])
        BY <2>2 DEF IndexInv, IndexTyped, DocsTyped
      <3>3. Counted(entry, walk.query, stemming, rules) \in SUBSET DOMAIN docs[entry]
        BY <3>1, CountedThere
      <3>. QED  BY <3>1, <3>2, <3>3, FS_Subset, FS_CardinalityType
    <2>4. t \in Nat /\ x \in BOOLEAN
      BY <2>3, SearchAssumption DEF Least
    <2>. HIDE DEF t, x
    <2>5. /\ walk' \in WalkRecord /\ walk'.step = "page" /\ walk'.kind = "search" /\ walk'.query = walk.query /\ walk'.limit = walk.limit
          /\ walk'.offset = walk.offset /\ walk'.shown = walk.shown /\ walk'.still = walk.still /\ walk'.id = entry
          /\ walk'.stem = stemming /\ walk'.rules = rules /\ walk'.total = t /\ walk'.exact = x
      BY <2>1, <2>2, <2>4, <1>1, <1>3 DEF WalkRecord
    <2>6. WalkTyped'
      BY <2>5, <1>1, <1>5 DEF WalkTyped, Reads
    <2>7. Listing'
      BY <2>5 DEF Listing
    <2>8. ASSUME NEW i \in Ids, NEW q \in Queries, NEW s \in BOOLEAN, NEW rs \in RuleLists, Follows(walk', i, q, s, rs)
          PROVE  Goes(walk', i, q, s, rs)
      <3>1. Follows(walk, i, q, s, rs) /\ i = entry /\ q = walk.query /\ s = stemming /\ rs = rules
        BY <2>8, <2>5, <1>1, <1>2 DEF Follows
      <3>2. Goes(walk, i, q, s, rs)
        BY <3>1, PagingIs DEF WalkInv, Onto
      <3>3. Reached(walk, Natural(i, q, s, rs), Live(i, rs, q))
        BY <3>2, <1>1 DEF Goes, Progress
      <3>4. Reached(walk', Natural(i, q, s, rs), Live(i, rs, q))
        BY <3>3, <2>5 DEF Reached
      <3>5. Counts(walk', Cardinality(Counted(i, q, s, rs)))
        BY <3>1, <2>5 DEF Counts, t, x
      <3>. QED  BY <3>4, <3>5, <2>5 DEF Goes, Progress
    <2>9. Onto(walk')
      BY <2>8 DEF Onto
    <2>. QED  BY <1>1, <2>6, <2>7, <2>9, ReadsWalk
  <1>. QED  BY <1>4, <1>5

\* A walk that got to an index reads that one.
LEMMA WalkReads ==
    ASSUME IndexInv, WalkInv, walk.step \in {"page", "pins"}
    PROVE  /\ walk # NotWalking /\ walk \in WalkRecord /\ walk.kind = "search" /\ walk.id \in Ids /\ walk.query \in Queries
           /\ walk.stem \in BOOLEAN /\ walk.rules \in RuleLists \cup {<<>>} /\ walk.offset \in 0..MaxOffset /\ walk.limit \in Nat \ {0}
           /\ walk.still => entry # 0 /\ walk.id = entry /\ walk.stem = stemming /\ walk.rules = rules
  <1>1. walk # NotWalking
    BY DEF NotWalking
  <1>2. walk \in WalkRecord /\ walk.kind = "search" /\ walk.id # 0
        /\ (walk.still => entry # 0 /\ walk.id = entry /\ walk.stem = stemming /\ walk.rules = rules)
    <2>1. walk \in WalkRecord /\ (walk.kind = "list" => walk.step \in {"ask", "done"})
      BY <1>1 DEF WalkInv, WalkTyped
    <2>2. walk.kind \in {"search", "list"}
      BY <2>1 DEF WalkRecord
    <2>. QED  BY <1>1, <2>1, <2>2 DEF WalkInv, WalkTyped
  <1>3. walk.id \in Ids
    BY <1>2, SearchAssumption DEF WalkRecord, Ids
  <1>4. walk.limit \in Nat \ {0}
    BY <1>2, SearchAssumption DEF WalkRecord
  <1>5. walk.query \in Queries /\ walk.stem \in BOOLEAN /\ walk.rules \in RuleLists \cup {<<>>} /\ walk.offset \in 0..MaxOffset
    BY <1>2 DEF WalkRecord
  <1>. QED  BY <1>1, <1>2, <1>3, <1>4, <1>5

\* The room a page has for pins.
LEMMA RoomIs ==
    ASSUME NEW rs \in Seq(Rule), NEW q
    PROVE  Cardinality(Pins(rs, q)) \in Nat /\ (Pins(rs, q) = {} <=> Cardinality(Pins(rs, q)) = 0)
  BY PinsAre, FS_CardinalityType, FS_EmptySet

LEMMA SliceTyped ==
    ASSUME NEW X, NEW s \in Seq(X), NEW a \in Nat, NEW n \in Nat
    PROVE  Slice(s, a, n) \in Seq(X)
  <1>1. Least(n, Len(s)) \in Nat /\ Least(n, Len(s)) <= Len(s)
    BY DEF Least
  <1>. HIDE DEF Least
  <1>2. a + 1 \in Nat \ {0}
    OBVIOUS
  <1>3. SubSeq(s, a + 1, Least(n, Len(s))) \in Seq(X)
    BY <1>1, <1>2, SliceIs
  <1>. QED  BY <1>3 DEF Slice

LEMMA PagesWalk ==
    ASSUME IndexInv, WalkInv, SearchPages
    PROVE  WalkInv'
  <1>1. Reads /\ walk.step = "page"
    BY DEF SearchPages, Reads
  <1>2. CASE ~Readable(walk.id, walk.query, walk.stem)
    BY <1>2, NoWalk DEF SearchPages, Fails
  <1>3. CASE Readable(walk.id, walk.query, walk.stem)
    <2>. DEFINE pins == Pins(walk.rules, walk.query)
                from == IF pins = {} THEN walk.offset ELSE 0
                to == walk.offset + walk.limit + Cardinality(pins)
                all == Natural(walk.id, walk.query, walk.stem, walk.rules)
                page == Slice(all, from, to)  more == (Len(all) > to)
    <2>0. /\ walk # NotWalking /\ walk \in WalkRecord /\ walk.kind = "search" /\ walk.id \in Ids /\ walk.query \in Queries
          /\ walk.stem \in BOOLEAN /\ walk.rules \in RuleLists \cup {<<>>} /\ walk.offset \in 0..MaxOffset /\ walk.limit \in Nat \ {0}
          /\ walk.still => entry # 0 /\ walk.id = entry /\ walk.stem = stemming /\ walk.rules = rules
      BY <1>1, WalkReads
    <2>1. walk' = [walk EXCEPT !.step = "pins", !.fetched = page, !.more = more]
      BY <1>3 DEF SearchPages, Slice
    <2>2. walk.rules \in Seq(Rule) /\ Naturals(walk.id, walk.query, walk.stem, walk.rules)
      BY <2>0, AnswerIs
    <2>3. all \in Seq(DocIds)
      BY <2>2 DEF Naturals
    <2>4. Cardinality(pins) \in Nat
      BY <2>2, RoomIs
    <2>5. page \in Seq(DocIds) /\ more \in BOOLEAN
      <3>1. from \in Nat /\ to \in Nat
        BY <2>0, <2>4
      <3>. HIDE DEF from, to, all
      <3>. QED  BY <2>3, <3>1, SliceTyped
    <2>. HIDE DEF page, more
    <2>6. /\ walk' \in WalkRecord /\ walk'.step = "pins" /\ walk'.kind = "search" /\ walk'.query = walk.query /\ walk'.limit = walk.limit
          /\ walk'.offset = walk.offset /\ walk'.shown = walk.shown /\ walk'.still = walk.still /\ walk'.id = walk.id
          /\ walk'.stem = walk.stem /\ walk'.rules = walk.rules /\ walk'.total = walk.total /\ walk'.exact = walk.exact
          /\ walk'.fetched = page /\ walk'.more = more
      BY <2>0, <2>1, <2>5 DEF WalkRecord
    <2>7. WalkTyped'
      BY <2>6, <2>0, <1>1 DEF WalkTyped, Reads, Ids
    <2>8. Listing'
      BY <2>6 DEF Listing
    <2>9. ASSUME NEW i \in Ids, NEW q \in Queries, NEW s \in BOOLEAN, NEW rs \in RuleLists, Follows(walk', i, q, s, rs)
          PROVE  Goes(walk', i, q, s, rs)
      <3>1. Follows(walk, i, q, s, rs) /\ i = walk.id /\ q = walk.query /\ s = walk.stem /\ rs = walk.rules
        BY <2>9, <2>6, <2>0 DEF Follows
      <3>2. Goes(walk, i, q, s, rs)
        BY <3>1, PagingIs DEF WalkInv, Onto
      <3>3. Reached(walk, Natural(i, q, s, rs), Live(i, rs, q)) /\ Counts(walk, Cardinality(Counted(i, q, s, rs)))
        BY <3>2, <1>1 DEF Goes, Progress
      <3>4. Reached(walk', Natural(i, q, s, rs), Live(i, rs, q))
        BY <3>3, <2>6 DEF Reached
      <3>5. Counts(walk', Cardinality(Counted(i, q, s, rs)))
        BY <3>3, <2>6 DEF Counts
      <3>6. Fetches(walk', Natural(i, q, s, rs), Cardinality(Pins(rs, q)))
        <4>1. pins = {} <=> Cardinality(pins) = 0
          BY <2>2, RoomIs
        <4>. QED  BY <4>1, <3>1, <2>6 DEF Fetches, page, more
      <3>. QED  BY <3>4, <3>5, <3>6, <2>6 DEF Goes, Progress
    <2>10. Onto(walk')
      BY <2>9 DEF Onto
    <2>. QED  BY <1>1, <2>7, <2>8, <2>10, ReadsWalk
  <1>. QED  BY <1>2, <1>3

LEMMA FoundAll ==
    ASSUME NEW i, NEW q, NEW s, NEW rs, ~q.collapse
    PROVE  Found(i, q, s, rs) = Counted(i, q, s, rs)
  BY DEF Found

LEMMA PageTyped ==
    ASSUME NEW X, NEW w, w.fetched \in Seq(X), w.offset \in Nat, w.limit \in Nat, w.shown \in Seq(X), w.total \in Nat,
           NEW live \in Seq(PinsOf(X)), NEW room
    PROVE  PageOf(w, live, room) \in Seq(X) /\ w.shown \o PageOf(w, live, room) \in Seq(X) /\ w.total + Len(live) \in Nat
  <1>. DEFINE all == Spliced(w.fetched, live)
  <1>1. Whole(w.fetched, live, X)
    BY SplicedGrows
  <1>2. all \in Seq(X)
    BY <1>1 DEF Whole
  <1>3. w.offset + w.limit \in Nat
    OBVIOUS
  <1>. HIDE DEF all
  <1>4. Slice(all, w.offset, w.offset + w.limit) \in Seq(X)
    BY <1>2, <1>3, SliceTyped
  <1>5. PageOf(w, live, room) \in Seq(X)
    BY <1>4 DEF PageOf, all
  <1>6. w.shown \o PageOf(w, live, room) \in Seq(X)
    <2>. HIDE DEF PageOf
    <2>. QED  BY <1>5, JoinIs
  <1>7. Len(live) \in Nat
    OBVIOUS
  <1>. QED  BY <1>5, <1>6, <1>7

LEMMA ReturnsWalk ==
    ASSUME IndexInv, WalkInv, SearchReturns
    PROVE  WalkInv'
  <1>1. Reads /\ walk.step = "pins"
    BY DEF SearchReturns, Reads
  <1>2. CASE ~Readable(walk.id, walk.query, walk.stem)
    BY <1>2, NoWalk DEF SearchReturns, Fails
  <1>3. CASE Readable(walk.id, walk.query, walk.stem)
    <2>. DEFINE live == Live(walk.id, walk.rules, walk.query)
                room == Cardinality(Pins(walk.rules, walk.query))
                page == PageOf(walk, live, room)  more == MoreOf(walk, live, room)
                step == IF ~more THEN "done" ELSE IF Len(walk.shown) < MaxShown THEN "ask" ELSE "enough"
                off == NextOffset
    <2>0. /\ walk # NotWalking /\ walk \in WalkRecord /\ walk.kind = "search" /\ walk.id \in Ids /\ walk.query \in Queries
          /\ walk.stem \in BOOLEAN /\ walk.rules \in RuleLists \cup {<<>>} /\ walk.offset \in 0..MaxOffset /\ walk.limit \in Nat \ {0}
          /\ walk.still => entry # 0 /\ walk.id = entry /\ walk.stem = stemming /\ walk.rules = rules
      BY <1>1, WalkReads
    <2>1. walk.rules \in Seq(Rule) /\ Lives(walk.id, walk.rules, walk.query)
      BY <2>0, AnswerIs
    <2>2. live \in Seq(PinsOf(DocIds))
      BY <2>1 DEF Lives
    <2>3. room \in Nat /\ (Pins(walk.rules, walk.query) = {} <=> room = 0)
      BY <2>1, RoomIs
    <2>4. walk' = [walk EXCEPT !.step = step, !.shown = walk.shown \o page, !.total = walk.total + Len(live), !.fetched = <<>>, !.more = FALSE,
                               !.offset = off]
      <3>. HIDE DEF room
      <3>. QED  BY <1>3, <2>3 DEF SearchReturns, PageOf, MoreOf, Slice
    <2>. HIDE DEF live, room
    <2>5. page \in Seq(DocIds) /\ walk.shown \o page \in Seq(DocIds) /\ walk.total + Len(live) \in Nat
      <3>1. walk.fetched \in Seq(DocIds) /\ walk.shown \in Seq(DocIds) /\ walk.total \in Nat
        BY <2>0 DEF WalkRecord
      <3>2. walk.offset \in Nat /\ walk.limit \in Nat
        BY <2>0
      <3>. QED  BY <2>2, <3>1, <3>2, PageTyped
    <2>6. off \in 0..MaxOffset /\ off = Least(walk.offset + walk.limit, MaxOffset)
      BY <2>0, SearchAssumption DEF NextOffset, Least
    <2>7. step \in {"done", "ask", "enough"} /\ step \in IF more THEN {"ask", "enough"} ELSE {"done"}
      OBVIOUS
    <2>. HIDE DEF page, more, step, off
    <2>8. /\ walk' \in WalkRecord /\ walk'.step = step /\ walk'.kind = "search" /\ walk'.query = walk.query /\ walk'.limit = walk.limit
          /\ walk'.offset = off /\ walk'.shown = walk.shown \o page /\ walk'.still = walk.still /\ walk'.id = walk.id
          /\ walk'.stem = walk.stem /\ walk'.rules = walk.rules /\ walk'.total = walk.total + Len(live) /\ walk'.exact = walk.exact
      <3>. DEFINE shown == walk.shown \o page  total == walk.total + Len(live)
      <3>1. walk' = [walk EXCEPT !.step = step, !.shown = shown, !.total = total, !.fetched = <<>>, !.more = FALSE, !.offset = off]
        BY <2>4
      <3>2. shown \in Seq(DocIds) /\ total \in Nat /\ <<>> \in Seq(DocIds)
        BY <2>5
      <3>. HIDE DEF shown, total
      <3>3. /\ walk' \in WalkRecord /\ walk'.step = step /\ walk'.kind = "search" /\ walk'.query = walk.query /\ walk'.limit = walk.limit
            /\ walk'.offset = off /\ walk'.shown = shown /\ walk'.still = walk.still /\ walk'.id = walk.id
            /\ walk'.stem = walk.stem /\ walk'.rules = walk.rules /\ walk'.total = total /\ walk'.exact = walk.exact
        BY <2>0, <3>1, <3>2, <2>6, <2>7 DEF WalkRecord
      <3>. QED  BY <3>3 DEF shown, total
    <2>9. WalkTyped'
      BY <2>8, <2>0, <1>1 DEF WalkTyped, Reads, Ids
    <2>10. Listing'
      BY <2>8 DEF Listing
    <2>11. ASSUME NEW i \in Ids, NEW q \in Queries, NEW s \in BOOLEAN, NEW rs \in RuleLists, Follows(walk', i, q, s, rs)
           PROVE  Goes(walk', i, q, s, rs)
      <3>. DEFINE N == Natural(i, q, s, rs)  L == Live(i, rs, q)  P == Cardinality(Pins(rs, q))  C == Cardinality(Counted(i, q, s, rs))
      <3>1. Follows(walk, i, q, s, rs) /\ i = walk.id /\ q = walk.query /\ s = walk.stem /\ rs = walk.rules
        BY <2>11, <2>8, <2>0 DEF Follows
      <3>2. Goes(walk, i, q, s, rs)
        BY <3>1, PagingIs DEF WalkInv, Onto
      <3>3. Naturals(i, q, s, rs) /\ Lives(i, rs, q) /\ Shows(i, q, s, rs)
        BY AnswerIs
      <3>4. N \in Seq(DocIds) /\ L \in Seq(PinsOf(DocIds)) /\ P \in Nat /\ Len(L) <= P /\ Len(N) = Cardinality(Found(i, q, s, rs))
        BY <3>3 DEF Naturals, Lives
      <3>5. Len(Spliced(N, L)) <= MaxOffset
        <4>1. Len(Spliced(N, L)) <= Cardinality(ToShow(i, q, s, rs)) /\ Cardinality(ToShow(i, q, s, rs)) \in Nat /\ Spliced(N, L) \in Seq(DocIds)
          BY <3>3 DEF Shows, AllPages
        <4>2. Cardinality(ToShow(i, q, s, rs)) <= MaxOffset /\ MaxOffset \in Nat
          BY <3>1, SearchAssumption DEF Follows
        <4>. HIDE DEF N, L
        <4>3. Len(Spliced(N, L)) \in Nat
          BY <4>1
        <4>. QED  BY <4>1, <4>2, <4>3
      <3>6. C \in Nat
        <4>1. IsFiniteSet(DOMAIN docs[i]) /\ Counted(i, q, s, rs) \in SUBSET DOMAIN docs[i]
          BY CountedThere DEF IndexInv, IndexTyped, DocsTyped
        <4>. QED  BY <4>1, FS_Subset, FS_CardinalityType
      <3>7. ~walk.query.collapse => C = Len(N)
        BY <3>1, <3>4, FoundAll
      <3>8. Progress(walk, N, L, P, C)
        BY <3>2 DEF Goes
      <3>9. L = live /\ P = room
        BY <3>1 DEF live, room
      <3>10. walk.offset \in Nat /\ walk.limit \in Nat /\ walk'.query = walk.query /\ walk'.exact = walk.exact
             /\ walk'.offset = Least(walk.offset + walk.limit, MaxOffset)
        BY <2>0, <2>6, <2>8
      <3>. HIDE DEF N, L, P, C
      <3>11. walk'.total = walk.total + Len(L) /\ walk'.shown = walk.shown \o PageOf(walk, L, P)
             /\ walk'.step \in IF MoreOf(walk, L, P) THEN {"ask", "enough"} ELSE {"done"}
        BY <2>7, <2>8, <3>9 DEF page, more
      <3>12. Progress(walk', N, L, P, C)
        BY <1>1, <3>4, <3>5, <3>6, <3>7, <3>8, <3>10, <3>11, PageReached
      <3>. QED  BY <3>12 DEF Goes, N, L, P, C
    <2>12. Onto(walk')
      BY <2>11 DEF Onto
    <2>. QED  BY <1>1, <2>9, <2>10, <2>12, ReadsWalk
  <1>. QED  BY <1>2, <1>3

\* A list goes on in order.
Climbs(s) == \A j, k \in 1..Len(s) : j < k => s[j] < s[k]
ListedOn(t, shown, page, n) ==
    /\ t \in Seq(DocIds) /\ Climbs(t) /\ \A d \in ToSet(shown) : d \in ToSet(t)
    /\ \A k \in 1..n : page[k] \in ToSet(t)
    /\ n > 0 => Last(t) = page[n]

LEMMA ListGoesOn ==
    ASSUME NEW shown \in Seq(DocIds), Climbs(shown), NEW page \in Seq(DocIds), Climbs(page),
           NEW n \in Nat, n <= Len(page), \A k \in 1..Len(page) : shown = <<>> \/ page[k] > Last(shown)
    PROVE  ListedOn(shown \o SubSeq(page, 1, n), shown, page, n)
  <1>. DEFINE u == SubSeq(page, 1, n)  t == shown \o u  m == Len(shown)
  <1>1. u \in Seq(DocIds) /\ Len(u) = n /\ \A k \in 1..n : u[k] = page[k]
    OBVIOUS
  <1>0. \A d \in DocIds : d \in Nat
    BY SearchAssumption
  <1>2. m \in Nat /\ \A k \in 1..m : shown[k] \in Nat
    BY <1>0
  <1>3. \A k \in 1..Len(page) : page[k] \in Nat
    BY <1>0
  <1>4. m > 0 => shown # <<>> /\ Last(shown) = shown[m]
    BY DEF Last
  <1>. HIDE DEF u
  <1>5. t \in Seq(DocIds) /\ Len(t) = m + n /\ \A k \in 1..(m + n) : t[k] = IF k <= m THEN shown[k] ELSE page[k - m]
    <2>1. t \in Seq(DocIds) /\ Len(t) = m + Len(u) /\ \A k \in 1..(m + Len(u)) : t[k] = IF k <= m THEN shown[k] ELSE u[k - m]
      BY <1>1, JoinIs
    <2>. HIDE DEF t, m
    <2>2. \A k \in 1..(m + n) : ~(k <= m) => k - m \in 1..n
      BY <1>2
    <2>. QED  BY <1>1, <2>1, <2>2
  <1>. HIDE DEF t, m
  <1>6. ASSUME NEW j \in 1..(m + n), NEW k \in 1..(m + n), j < k PROVE t[j] < t[k]
    <2>1. CASE k <= m
      <3>1. j \in 1..m /\ k \in 1..m
        BY <1>2, <1>6, <2>1
      <3>. QED  BY <3>1, <1>5, <1>6 DEF Climbs, m
    <2>2. CASE j > m
      <3>1. j - m \in 1..Len(page) /\ k - m \in 1..Len(page) /\ j - m < k - m /\ ~(j <= m) /\ ~(k <= m)
        BY <1>2, <1>6, <2>2
      <3>. QED  BY <3>1, <1>5, <1>6 DEF Climbs
    <2>3. CASE j <= m /\ ~(k <= m)
      <3>1. j \in 1..m /\ m \in 1..m /\ m > 0 /\ k - m \in 1..Len(page)
        BY <1>2, <1>6, <2>3
      <3>2. shown[m] < page[k - m]
        BY <3>1, <1>2, <1>3, <1>4
      <3>3. j = m \/ shown[j] < shown[m]
        BY <3>1 DEF Climbs, m
      <3>4. t[j] = shown[j] /\ t[k] = page[k - m]
        BY <2>3, <1>5, <1>6
      <3>5. shown[j] \in Nat /\ shown[m] \in Nat /\ page[k - m] \in Nat
        BY <3>1, <1>2, <1>3
      <3>. QED  BY <3>2, <3>3, <3>4, <3>5
    <2>. QED  BY <1>2, <1>6, <2>1, <2>2, <2>3
  <1>7. Climbs(t)
    BY <1>5, <1>6 DEF Climbs
  <1>8. ToSet(t) = {t[k] : k \in 1..(m + n)}
    <2>1. DOMAIN t = 1..(m + n)
      BY <1>5
    <2>. QED  BY <2>1 DEF ToSet
  <1>9. ASSUME NEW d \in ToSet(shown) PROVE d \in ToSet(t)
    <2>1. PICK k \in 1..m : d = shown[k]
      BY DEF ToSet, m
    <2>2. k \in 1..(m + n) /\ k <= m
      BY <1>2
    <2>3. t[k] = d
      BY <2>1, <2>2, <1>5
    <2>. QED  BY <2>2, <2>3, <1>8
  <1>10. ASSUME NEW k \in 1..n PROVE page[k] \in ToSet(t) /\ t[m + k] = page[k]
    <2>. DEFINE l == m + k
    <2>1. l \in 1..(m + n) /\ ~(l <= m) /\ l - m = k
      BY <1>2
    <2>. HIDE DEF l
    <2>2. t[l] = page[l - m]
      BY <2>1, <1>5
    <2>. QED  BY <2>1, <2>2, <1>8 DEF l
  <1>11. n > 0 => Last(t) = page[n]
    <2>1. Last(t) = t[m + n]
      BY <1>5 DEF Last
    <2>2. n > 0 => n \in 1..n
      OBVIOUS
    <2>. QED  BY <2>1, <2>2, <1>10
  <1>. QED  BY <1>5, <1>7, <1>9, <1>10, <1>11 DEF ListedOn, t, u

\* What comes after, in order.
AfterList(i) == Ordered(After(i), [d \in After(i) |-> {e \in After(i) : e < d}])
AfterLists(i) ==
    LET page == AfterList(i) IN
    page \in Seq(DocIds) /\ Climbs(page) /\ ToSet(page) = After(i)

LEMMA AfterIs ==
    ASSUME NEW i, DocsTyped(i)
    PROVE  AfterLists(i)
  <1>. DEFINE A == After(i)  b == [d \in A |-> {e \in A : e < d}]
  <1>1. A \in SUBSET DocIds /\ IsFiniteSet(A)
    <2>1. A \in SUBSET DOMAIN docs[i]
      BY DEF After
    <2>. QED  BY <2>1, FS_Subset DEF DocsTyped
  <1>2. \A d \in A : d \in Nat
    BY <1>1, SearchAssumption
  <1>3. AfterList(i) = Ordered(A, b)
    BY DEF AfterList
  <1>. HIDE DEF A
  <1>4. b \in [A -> SUBSET A] /\ \A d, e \in A : e \in b[d] <=> e < d
    OBVIOUS
  <1>. HIDE DEF b
  <1>5. Strict(A, b)
    BY <1>2, <1>4 DEF Strict
  <1>6. Lists(A, b)
    BY <1>1, <1>5, OrderedLists
  <1>. DEFINE O == Ordered(A, b)
  <1>7. O \in Seq(A) /\ ToSet(O) = A /\ \A j, k \in 1..Len(O) : j < k <=> O[j] \in b[O[k]]
    BY <1>6 DEF Lists
  <1>. HIDE DEF O
  <1>8. O \in Seq(DocIds) /\ \A k \in 1..Len(O) : O[k] \in A
    BY <1>1, <1>7
  <1>9. Climbs(O)
    BY <1>4, <1>7, <1>8 DEF Climbs
  <1>. QED  BY <1>3, <1>7, <1>8, <1>9 DEF AfterLists, A, O

LEMMA ListWalk ==
    ASSUME IndexInv, WalkInv, ListReturns
    PROVE  WalkInv'
  <1>1. Reads /\ walk.step = "ask" /\ walk.kind = "list"
    BY DEF ListReturns, Reads
  <1>2. walk # NotWalking
    BY <1>1 DEF NotWalking
  <1>3. walk \in WalkRecord /\ (walk.still => entry # 0)
    BY <1>2 DEF WalkInv, WalkTyped
  <1>4. CASE entry = 0 \/ "docs" \notin tables[entry]
    BY <1>4, NoWalk DEF ListReturns, Fails
  <1>5. CASE ~(entry = 0 \/ "docs" \notin tables[entry])
    <2>. DEFINE page == AfterList(entry)  n == Least(walk.limit, Len(page))  t == walk.shown \o SubSeq(page, 1, n)
                step == IF n < walk.limit THEN "done" ELSE "ask"
    <2>1. walk' = [walk EXCEPT !.shown = t, !.id = entry, !.step = step]
      BY <1>5 DEF ListReturns, AfterList
    <2>2. entry \in Ids /\ entry \in 0..MaxIndexIds /\ DocsTyped(entry)
      BY <1>5, SearchAssumption DEF IndexInv, IndexTyped, Ids
    <2>3. AfterLists(entry)
      BY <2>2, AfterIs
    <2>. HIDE DEF page
    <2>4. page \in Seq(DocIds) /\ Climbs(page) /\ ToSet(page) = After(entry)
      BY <2>3 DEF AfterLists, page
    <2>5. walk.shown \in Seq(DocIds) /\ walk.limit \in Nat \ {0} /\ walk.kept \in SUBSET DocIds
      BY <1>3, SearchAssumption DEF WalkRecord
    <2>6. /\ Climbs(walk.shown)
          /\ \A d \in walk.kept : d \in ToSet(walk.shown) \/ d \in After(entry)
      BY <1>1, <1>2 DEF WalkInv, Listing, Climbs
    <2>7. n \in Nat /\ n <= Len(page) /\ (n < Len(page) => n = walk.limit)
      BY <2>4, <2>5 DEF Least
    <2>. HIDE DEF n
    <2>8. \A k \in 1..Len(page) : page[k] \in After(entry)
      BY <2>4 DEF ToSet
    <2>9. \A k \in 1..Len(page) : walk.shown = <<>> \/ page[k] > Last(walk.shown)
      BY <2>8 DEF After
    <2>10. ListedOn(t, walk.shown, page, n)
      BY <2>4, <2>5, <2>6, <2>7, <2>9, ListGoesOn
    <2>. HIDE DEF t
    <2>11. t \in Seq(DocIds) /\ Climbs(t) /\ (\A d \in ToSet(walk.shown) : d \in ToSet(t)) /\ (\A k \in 1..n : page[k] \in ToSet(t))
           /\ (n > 0 => Last(t) = page[n])
      BY <2>10 DEF ListedOn
    <2>12. step \in {"ask", "done"} /\ (step = "ask" <=> ~(n < walk.limit))
      OBVIOUS
    <2>. HIDE DEF step
    <2>13. /\ walk' \in WalkRecord /\ walk'.step = step /\ walk'.kind = "list" /\ walk'.shown = t /\ walk'.still = walk.still
           /\ walk'.kept = walk.kept
      BY <2>1, <2>2, <2>11, <2>12, <1>1, <1>3 DEF WalkRecord
    <2>14. WalkTyped'
      BY <2>12, <2>13, <1>1, <1>3 DEF WalkTyped, Reads
    <2>15. Listing'
      <3>1. ASSUME NEW d \in walk.kept, d \notin ToSet(t) PROVE step = "ask" /\ d \in After(entry)'
        <4>1. d \in After(entry)
          BY <2>6, <2>11, <3>1
        <4>2. PICK k \in 1..Len(page) : d = page[k]
          BY <2>4, <4>1 DEF ToSet
        <4>3. ~(k \in 1..n)
          BY <2>11, <3>1, <4>2
        <4>4. n < k /\ n = walk.limit /\ n > 0
          BY <4>3, <2>5, <2>7
        <4>5. n \in 1..Len(page)
          BY <4>4, <2>7
        <4>6. page[n] < page[k]
          BY <4>4, <4>5, <2>4 DEF Climbs
        <4>7. d > Last(t)
          <5>1. page[n] \in Nat /\ page[k] \in Nat
            <6>1. \A e \in DocIds : e \in Nat
              BY SearchAssumption
            <6>. QED  BY <6>1, <4>5, <2>4
          <5>. QED  BY <5>1, <4>2, <4>4, <4>6, <2>11
        <4>8. d \in DOMAIN docs[entry]
          BY <4>1 DEF After
        <4>9. step = "ask"
          BY <4>4, <2>5, <2>12
        <4>. QED  BY <4>7, <4>8, <4>9, <2>13, <1>1 DEF After, Reads
      <3>2. \A j, k \in 1..Len(t) : j < k => t[j] < t[k]
        BY <2>11 DEF Climbs
      <3>3. entry' # 0
        BY <1>1, <1>5 DEF Reads
      <3>. QED  BY <3>1, <3>2, <3>3, <2>13 DEF Listing
    <2>16. Onto(walk')
      BY <2>13 DEF Onto, Follows
    <2>. QED  BY <1>1, <2>14, <2>15, <2>16, ReadsWalk
  <1>. QED  BY <1>4, <1>5

\* Every step keeps the walk as it should be.
LEMMA WalkSteps ==
    ASSUME IndexInv, WalkInv, [SearchNext]_searchVars
    PROVE  WalkInv'
  <1>1. CASE UNCHANGED searchVars
    BY <1>1, AsksWalk DEF searchVars
  <1>2. ASSUME NEW r \in IndexRequests, NEW b \in Batches, AskPut(r, b) PROVE WalkInv'
    BY <1>2, AsksWalk DEF AskPut
  <1>3. ASSUME NEW r \in IndexRequests, NEW d \in DocIds, AskDelete(r, d) PROVE WalkInv'
    BY <1>3, AsksWalk DEF AskDelete
  <1>4. ASSUME NEW r \in IndexRequests, AskDrop(r) PROVE WalkInv'
    BY <1>4, AsksWalk DEF AskDrop
  <1>5. ASSUME NEW r \in IndexRequests, Writes(r) PROVE WalkInv'
    BY <1>5, WritesWalk
  <1>6. ASSUME NEW s \in BOOLEAN, NEW rs \in RuleLists, SaveSearchConfig(s, rs) PROVE WalkInv'
    BY <1>6, ConfigWalk
  <1>7. CASE SearchStops
    BY <1>7, NoWalk DEF SearchStops
  <1>8. ASSUME NEW q \in Queries, NEW n \in Limits, StartsWalk("search", q, n) PROVE WalkInv'
    BY <1>8, StartsWalkWalk
  <1>9. ASSUME NEW q \in Queries, NEW n \in Limits, StartsWalk("list", q, n) PROVE WalkInv'
    BY <1>9, StartsWalkWalk
  <1>10. CASE SearchCounts
    BY <1>10, CountsWalk
  <1>11. CASE SearchPages
    BY <1>11, PagesWalk
  <1>12. CASE SearchReturns
    BY <1>12, ReturnsWalk
  <1>13. CASE ListReturns
    BY <1>13, ListWalk
  <1>14. CASE WalkEnds
    BY <1>14, NoWalk DEF WalkEnds
  <1>. QED  BY <1>1, <1>2, <1>3, <1>4, <1>5, <1>6, <1>7, <1>8, <1>9, <1>10, <1>11, <1>12, <1>13, <1>14 DEF SearchNext

-----------------------------------------------------------------------------
(* What they say of the walk *)

LEMMA TypedHolds ==
    ASSUME IndexInv, WalkInv
    PROVE  SearchTyped
  <1>1. entry \in 0..lastId /\ lastId \in 0..MaxIndexIds
        /\ \A i \in Ids : /\ tables[i] \subseteq ToSet(Parts)
                          /\ DOMAIN docs[i] # {} => "docs" \in tables[i]
                          /\ DOMAIN stems[i] # {} => "stem" \in tables[i]
    BY DEF IndexInv, IndexTyped
  <1>2. ASSUME walk # NotWalking PROVE walk.offset <= MaxOffset /\ ToSet(walk.shown) \subseteq DocIds
    <2>1. walk.offset \in 0..MaxOffset /\ walk.shown \in Seq(DocIds) /\ MaxOffset \in Nat
      BY <1>2, SearchAssumption DEF WalkInv, WalkTyped, WalkRecord
    <2>2. ToSet(walk.shown) \subseteq DocIds
      BY <2>1 DEF ToSet
    <2>. QED  BY <2>1, <2>2
  <1>. QED  BY <1>1, <1>2 DEF SearchTyped

LEMMA ListedHolds ==
    ASSUME WalkInv
    PROVE  ListedThroughout
  <1>. SUFFICES ASSUME Finished("list")
                PROVE  Cardinality(ToSet(walk.shown)) = Len(walk.shown) /\ walk.kept \subseteq ToSet(walk.shown)
    BY DEF ListedThroughout
  <1>1. walk.step = "done" /\ walk.kind = "list" /\ walk # NotWalking
    BY DEF Finished, NotWalking
  <1>2. walk.shown \in Seq(DocIds)
    BY <1>1 DEF WalkInv, WalkTyped, WalkRecord
  <1>3. /\ \A j, k \in 1..Len(walk.shown) : j < k => walk.shown[j] < walk.shown[k]
        /\ \A d \in walk.kept : d \in ToSet(walk.shown)
    BY <1>1 DEF WalkInv, Listing
  <1>4. Once(walk.shown)
    <2>1. \A d \in DocIds : d \in Nat
      BY SearchAssumption
    <2>2. DOMAIN walk.shown = 1..Len(walk.shown) /\ Len(walk.shown) \in Nat /\ \A k \in 1..Len(walk.shown) : walk.shown[k] \in Nat
      BY <2>1, <1>2
    <2>3. \A j, k \in 1..Len(walk.shown) : walk.shown[j] = walk.shown[k] => ~(j < k) /\ ~(k < j)
      BY <2>2, <1>3
    <2>. QED  BY <2>2, <2>3 DEF Once
  <1>5. Cardinality(ToSet(walk.shown)) = Len(walk.shown)
    BY <1>2, <1>4, OnceCounts
  <1>. QED  BY <1>3, <1>5

\* A search read to the end has shown the whole of the answer.
ShownAll(i, q, s, rs) ==
    /\ walk.shown = AllPages(i, q, s, rs)
    /\ walk.exact /\ ~q.collapse => walk.total = Len(walk.shown)

LEMMA SearchDone ==
    ASSUME IndexInv, WalkInv, ShownWhole
    PROVE  /\ walk.id \in Ids /\ walk.query \in Queries /\ walk.rules \in RuleLists
           /\ ShownAll(walk.id, walk.query, walk.stem, walk.rules)
  <1>1. walk.step = "done" /\ walk.kind = "search" /\ walk # NotWalking /\ walk.still
        /\ Cardinality(Matches \cup PinsHere) <= MaxOffset
    BY DEF ShownWhole, Finished, NotWalking
  <1>2. walk \in WalkRecord /\ entry # 0 /\ walk.id = entry /\ walk.stem = stemming /\ walk.rules = rules
    BY <1>1 DEF WalkInv, WalkTyped
  <1>3. walk.id \in Ids /\ stemming \in BOOLEAN /\ rules \in RuleLists
    BY <1>2, SearchAssumption DEF IndexInv, IndexTyped, Ids
  <1>4. walk.query \in Queries
    BY <1>2 DEF WalkRecord
  <1>5. ToShow(walk.id, walk.query, walk.stem, walk.rules) = Matches \cup PinsHere
    BY DEF ToShow, Matches, PinsHere
  <1>6. Follows(walk, walk.id, walk.query, walk.stem, walk.rules)
    BY <1>1, <1>2, <1>5 DEF Follows
  <1>7. Goes(walk, walk.id, walk.query, walk.stem, walk.rules)
    BY <1>2, <1>3, <1>4, <1>6, PagingIs DEF WalkInv, Onto
  <1>8. Complete(walk, Natural(walk.id, walk.query, walk.stem, walk.rules), Live(walk.id, walk.rules, walk.query))
    BY <1>1, <1>7 DEF Goes, Progress
  <1>9. ShownAll(walk.id, walk.query, walk.stem, walk.rules)
    BY <1>8 DEF Complete, ShownAll, AllPages
  <1>. QED  BY <1>2, <1>3, <1>4, <1>9

LEMMA PagesHold ==
    ASSUME IndexInv, WalkInv
    PROVE  PagesTogether
  <1>. DEFINE seen == ToSet(walk.shown)  i == walk.id  q == walk.query  s == walk.stem  rs == walk.rules
              F == Found(i, q, s, rs)  C == Counted(i, q, s, rs)
  <1>. SUFFICES ASSUME ShownWhole
                PROVE  /\ Cardinality(seen) = Len(walk.shown) /\ PinsHere \subseteq seen /\ seen \subseteq Matches \cup PinsHere
                       /\ \A d \in Matches : d \in seen \/ (q.collapse /\ \E e \in seen : docs[i][e].tag = docs[i][d].tag)
                       /\ walk.exact /\ ~q.collapse => walk.total = Len(walk.shown)
    BY DEF PagesTogether
  <1>1. i \in Ids /\ q \in Queries /\ rs \in RuleLists /\ ShownAll(i, q, s, rs)
    BY SearchDone
  <1>2. DocsTyped(i) /\ rs \in Seq(Rule) /\ Shows(i, q, s, rs)
    BY <1>1, AnswerIs
  <1>3. Cardinality(seen) = Len(walk.shown) /\ seen = F \cup PinsHere
    BY <1>1, <1>2 DEF Shows, ShownAll, PinsHere
  <1>4. F \in SUBSET C /\ C \in SUBSET Matched(i, q, s)
    BY <1>1, CountedThere
  <1>5. C = Matched(i, q, s) \ (Hidden(rs, q) \cup PinIds(rs, q)) /\ Matches = Matched(i, q, s) \ Hidden(rs, q)
    BY DEF Counted, Matches
  <1>6. Matched(i, q, s) \in SUBSET DOMAIN docs[i]
    BY <1>1, CountedThere
  <1>7. PinsHere = PinIds(rs, q) \cap DOMAIN docs[i]
    BY DEF PinsHere
  <1>8. walk.exact /\ ~q.collapse => walk.total = Len(walk.shown)
    BY <1>1 DEF ShownAll
  <1>9. ASSUME NEW d \in C
        PROVE  (~q.collapse => d \in F) /\ \E e \in F : docs[i][e].tag = docs[i][d].tag
    BY <1>1, <1>2, BestFound
  <1>. HIDE DEF seen, i, q, s, rs, F, C
  <1>10. ASSUME NEW d \in Matches, d \notin seen PROVE q.collapse /\ \E e \in seen : docs[i][e].tag = docs[i][d].tag
    <2>1. d \in C
      BY <1>3, <1>5, <1>6, <1>7, <1>10
    <2>. QED  BY <2>1, <1>3, <1>9, <1>10
  <1>. QED  BY <1>3, <1>4, <1>5, <1>8, <1>10

LEMMA PinnedHold ==
    ASSUME IndexInv, WalkInv
    PROVE  PinnedInPlace
  <1>. DEFINE i == walk.id  q == walk.query  s == walk.stem  rs == walk.rules
              pins == Live(i, rs, q)  N == Natural(i, q, s, rs)
  <1>. SUFFICES ASSUME ShownWhole, NEW k \in DOMAIN pins,
                       \A j \in DOMAIN pins : j # k => pins[j].pos # pins[k].pos,
                       pins[k].pos <= Len(walk.shown) - Len(pins)
                PROVE  walk.shown[pins[k].pos + 1] = pins[k].id
    BY DEF PinnedInPlace
  <1>1. i \in Ids /\ q \in Queries /\ rs \in RuleLists /\ ShownAll(i, q, s, rs)
    BY SearchDone
  <1>2. Naturals(i, q, s, rs) /\ Lives(i, rs, q) /\ Whole(N, pins, DocIds)
    BY <1>1, AnswerIs
  <1>3. N \in Seq(DocIds) /\ pins \in Seq(PinsOf(DocIds)) /\ Rising(pins)
    BY <1>2 DEF Naturals, Lives
  <1>4. walk.shown = Spliced(N, pins) /\ Len(walk.shown) = Len(N) + Len(pins)
    BY <1>1, <1>2 DEF ShownAll, AllPages, Whole
  <1>. HIDE DEF i, q, s, rs, pins, N
  <1>5. DOMAIN pins = 1..Len(pins) /\ Len(pins) \in Nat /\ Len(N) \in Nat /\ k \in 1..Len(pins)
    BY <1>3
  <1>6. Alone(pins, k)
    BY <1>5 DEF Alone
  <1>7. Len(walk.shown) - Len(pins) = Len(N)
    BY <1>4, <1>5
  <1>8. pins[k].pos <= Len(N)
    BY <1>7
  <1>9. Spliced(N, pins)[pins[k].pos + 1] = pins[k].id
    BY <1>3, <1>5, <1>6, <1>8, SplicedStands
  <1>. QED  BY <1>4, <1>9

\* An index that is listed is whole, a term scoped to a field finds what the field holds, and
\* page after page of a search, or of the list, shows what there is, in its place: whoever writes,
\* drops and makes the index meanwhile, and wherever the server stops (search/store.go,
\* search/search.go, search/routes.go).
THEOREM SearchKept ==
    SearchSpec => []SearchHolds
  <1>1. SearchInit => IndexInv /\ WalkInv
    BY InitIndex, InitWalk
  <1>2. IndexInv /\ WalkInv /\ [SearchNext]_searchVars => (IndexInv /\ WalkInv)'
    BY IndexSteps, WalkSteps
  <1>3. IndexInv /\ WalkInv => SearchHolds
    BY TypedHolds, WholeHolds, ScopedHolds, PagesHold, PinnedHold, ListedHolds DEF SearchHolds
  <1>. QED  BY <1>1, <1>2, <1>3, PTL DEF SearchSpec

=============================================================================
